--------------------------- MODULE JobQueueProofs ---------------------------
(***************************************************************************)
(* TLAPS proofs about JobQueue: its inductive invariant and the invariants *)
(* and action properties that follow from it.                              *)
(***************************************************************************)
EXTENDS JobQueue, SequenceTheorems, TLAPS

-----------------------------------------------------------------------------
(* The three operations on the deque, for a sequence without repetitions.  *)

LEMMA ElementInToSet ==
    ASSUME NEW S, NEW s \in Seq(S), NEW k \in 1..Len(s)
    PROVE  s[k] \in ToSet(s)
BY DEF ToSet

LEMMA AppendIsInjective ==
    ASSUME NEW S, NEW s \in Seq(S), NEW e \in S, IsInjective(s), e \notin ToSet(s)
    PROVE  /\ Append(s, e) \in Seq(S)
           /\ ToSet(Append(s, e)) = ToSet(s) \cup {e}
           /\ IsInjective(Append(s, e))
BY DEF ToSet, IsInjective

LEMMA TailIsInjective ==
    ASSUME NEW S, NEW s \in Seq(S), s # <<>>, IsInjective(s)
    PROVE  /\ Tail(s) \in Seq(S) /\ Head(s) \in ToSet(s)
           /\ Len(Tail(s)) <= Len(s)
           /\ ToSet(Tail(s)) = ToSet(s) \ {Head(s)}
           /\ IsInjective(Tail(s))
<1> DEFINE t == Tail(s)
<1>1. /\ t \in Seq(S) /\ Len(s) > 0 /\ Len(t) = Len(s) - 1
      /\ \A k \in 1..Len(t) : t[k] = s[k + 1]
      /\ Head(s) = s[1]
  OBVIOUS
<1>2. ToSet(t) \subseteq ToSet(s) \ {s[1]}
  BY <1>1 DEF ToSet, IsInjective
<1>3. ASSUME NEW k \in 1..Len(s), s[k] # s[1] PROVE s[k] \in ToSet(t)
  <2>1. k - 1 \in 1..Len(t) /\ t[k - 1] = s[k]
    BY <1>1, <1>3
  <2> QED
    BY <1>1, <2>1, ElementInToSet
<1>4. ToSet(t) = ToSet(s) \ {s[1]}
  BY <1>2, <1>3 DEF ToSet
<1>5. IsInjective(t)
  BY <1>1 DEF IsInjective
<1>6. Head(s) \in ToSet(s)
  BY <1>1 DEF ToSet
<1> QED
  BY <1>1, <1>4, <1>5, <1>6

LEMMA RemoveAtIsInjective ==
    ASSUME NEW S, NEW s \in Seq(S), IsInjective(s), NEW i \in 1..Len(s)
    PROVE  /\ RemoveAt(s, i) \in Seq(S)
           /\ Len(RemoveAt(s, i)) <= Len(s)
           /\ ToSet(RemoveAt(s, i)) = ToSet(s) \ {s[i]}
           /\ IsInjective(RemoveAt(s, i))
<1> DEFINE r == RemoveAt(s, i)
<1>1. /\ r \in Seq(S) /\ Len(r) = Len(s) - 1
      /\ \A k \in 1..Len(r) : r[k] = IF k < i THEN s[k] ELSE s[k + 1]
  <2> DEFINE a == SubSeq(s, 1, i - 1)
             b == SubSeq(s, i + 1, Len(s))
  <2>1. /\ a \in Seq(S) /\ Len(a) = i - 1
        /\ \A k \in 1..(i - 1) : a[k] = s[k]
    BY SubSeqProperties
  <2>2. /\ b \in Seq(S) /\ Len(b) = Len(s) - i
        /\ \A k \in 1..(Len(s) - i) : b[k] = s[i + k]
    BY SubSeqProperties
  <2>3. r = a \o b
    BY DEF RemoveAt
  <2> HIDE DEF a, b, r
  <2>4. /\ r \in Seq(S) /\ Len(r) = Len(a) + Len(b)
        /\ \A k \in 1..(Len(a) + Len(b)) :
              r[k] = IF k <= Len(a) THEN a[k] ELSE b[k - Len(a)]
    BY <2>1, <2>2, <2>3, ConcatProperties
  <2>5. Len(r) = Len(s) - 1
    BY <2>1, <2>2, <2>4
  <2>6. ASSUME NEW k \in 1..Len(r)
        PROVE  r[k] = IF k < i THEN s[k] ELSE s[k + 1]
    <3>1. CASE k < i
      BY <2>1, <2>2, <2>4, <2>5, <3>1
    <3>2. CASE ~(k < i)
      <4>1. k - Len(a) \in 1..(Len(s) - i) /\ i + (k - Len(a)) = k + 1
        BY <2>1, <2>5, <3>2
      <4>2. r[k] = b[k - Len(a)]
        BY <2>1, <2>2, <2>4, <2>5, <3>2
      <4> QED
        BY <2>2, <3>2, <4>1, <4>2
    <3> QED
      BY <3>1, <3>2
  <2> QED
    BY <2>4, <2>5, <2>6
<1> HIDE DEF r
<1>2. ToSet(r) \subseteq ToSet(s) \ {s[i]}
  BY <1>1 DEF ToSet, IsInjective
<1>3. ASSUME NEW k \in 1..Len(s), s[k] # s[i] PROVE s[k] \in ToSet(r)
  <2>1. \/ k \in 1..Len(r) /\ r[k] = s[k]
        \/ k - 1 \in 1..Len(r) /\ r[k - 1] = s[k]
    <3>1. CASE k < i
      <4>1. k \in 1..Len(r)
        BY <1>1, <3>1
      <4> QED
        BY <1>1, <3>1, <4>1
    <3>2. CASE k > i
      <4>1. k - 1 \in 1..Len(r) /\ ~(k - 1 < i) /\ (k - 1) + 1 = k
        BY <1>1, <3>2
      <4>2. r[k - 1] = s[(k - 1) + 1]
        BY <1>1, <4>1
      <4> QED
        BY <4>1, <4>2
    <3> QED
      BY <1>3, <3>1, <3>2
  <2> QED
    BY <1>1, <2>1, ElementInToSet
<1>4. ToSet(r) = ToSet(s) \ {s[i]}
  <2> SUFFICES ASSUME NEW x \in ToSet(s), x # s[i] PROVE x \in ToSet(r)
    BY <1>2
  <2>1. PICK k \in 1..Len(s) : s[k] = x
    BY DEF ToSet
  <2> QED
    BY <1>3, <2>1
<1>5. IsInjective(r)
  <2> SUFFICES ASSUME NEW k \in 1..Len(r), NEW m \in 1..Len(r), r[k] = r[m]
               PROVE  k = m
    BY <1>1 DEF IsInjective
  <2> DEFINE origin(n) == IF n < i THEN n ELSE n + 1
  <2>1. ASSUME NEW n \in 1..Len(r)
        PROVE  origin(n) \in 1..Len(s) /\ r[n] = s[origin(n)]
    <3>1. CASE n < i
      <4>1. origin(n) = n /\ n \in 1..Len(s)
        BY <1>1, <3>1
      <4>2. r[n] = s[n]
        BY <1>1, <3>1
      <4> QED
        BY <4>1, <4>2
    <3>2. CASE ~(n < i)
      BY <1>1, <3>2, SMTT(30)
    <3> QED
      BY <3>1, <3>2
  <2>2. origin(k) = origin(m)
    BY <2>1 DEF IsInjective
  <2> QED
    BY <1>1, <2>2
<1> QED
  BY <1>1, <1>4, <1>5 DEF r

-----------------------------------------------------------------------------
(* Types.                                                                  *)

USE SizeAssumption, NoneAssumption, CliAssumption

LEMMA StatusTyped ==
    ASSUME NEW r \in Record, NEW status \in Unfinished \cup Terminal
    PROVE  [r EXCEPT !.status = status] \in Record
BY DEF Record

LEMMA FlagTyped ==
    ASSUME NEW r \in Record, NEW b \in BOOLEAN
    PROVE  [r EXCEPT !.cancel_requested = b] \in Record
BY DEF Record

LEMMA MarkedTyped ==
    ASSUME TypeOK, NEW S \in SUBSET Job, NEW status \in Unfinished \cup Terminal,
           \A j \in S : record[j] # None
    PROVE  Marked(S, status) \in [Job -> Record \cup {None}]
<1>1. ASSUME NEW j \in Job
      PROVE  (IF j \in S THEN [record[j] EXCEPT !.status = status] ELSE record[j])
                \in Record \cup {None}
  BY StatusTyped DEF TypeOK
<1> QED
  BY <1>1 DEF Marked

LEMMA WithoutTyped ==
    ASSUME TypeOK, NEW S
    PROVE  Without(S) \in [Project -> Job \cup {None}]
BY DEF TypeOK, Without

LEMMA LeaveTyped ==
    ASSUME TypeOK, NEW w \in Worker, NEW status \in Terminal, Leave(w, status)
    PROVE  TypeOK'
<1>1. /\ pc' \in [Worker -> Busy \cup {"off", "ready", "asleep"}]
      /\ verdict' \in [Worker -> Terminal \cup {None}]
      /\ left' \in [Worker -> 0..Stages]
  BY DEF TypeOK, Leave, Goto, Busy
<1>2. lease' \in Worker \cup {None} /\ runLock' \in [Project -> Worker \cup {Cli, None}]
  BY DEF TypeOK, Leave
<1> QED
  BY <1>1, <1>2 DEF TypeOK, Leave, queueVars, cliVars, history

LEMMA NotifyTyped ==
    ASSUME TypeOK, Notify
    PROVE  pc' \in [Worker -> Busy \cup {"off", "ready", "asleep"}]
BY ZenonT(30) DEF TypeOK, Notify

LEMMA NextKeepsTypeOK == IInv /\ [Next]_vars => TypeOK'
<1> SUFFICES ASSUME IInv, [Next]_vars PROVE TypeOK'
  OBVIOUS
<1> USE DEF IInv
<1>1. ASSUME Start PROVE TypeOK'
  <2>1. record' \in [Job -> Record \cup {None}]
    BY <1>1, MarkedTyped DEF Start, JobsWith, HasStatus, Terminal
  <2> QED
    BY <1>1, <2>1 DEF Start, TypeOK, history, cliVars
<1>2. ASSUME Stop PROVE TypeOK'
  <2> DEFINE drained == {j \in ToSet(pending) : HasStatus(j, {"queued"})}
  <2>1. drained \subseteq Job /\ \A j \in drained : record[j] # None
    BY DEF TypeOK, ToSet, HasStatus
  <2>2. record' = Marked(drained, "interrupted") /\ active' = Without(drained)
    BY <1>2 DEF Stop
  <2>3. record' \in [Job -> Record \cup {None}] /\ active' \in [Project -> Job \cup {None}]
    BY <2>1, <2>2, MarkedTyped, WithoutTyped DEF Terminal
  <2>4. pending' \in Seq(Job) /\ pc' \in [Worker -> Busy \cup {"off", "ready", "asleep"}]
    BY <1>2 DEF Stop, TypeOK
  <2> QED
    BY <1>2, <2>3, <2>4 DEF Stop, TypeOK, history, cliVars
<1>3. ASSUME Stopped PROVE TypeOK'
  BY <1>3 DEF Stopped, queueVars, workerVars, cliVars, history, TypeOK, Busy
<1>4. ASSUME Crash PROVE TypeOK'
  BY <1>4 DEF Crash, queueVars, workerVars, cliVars, history, TypeOK, Busy
<1>5. ASSUME NEW j \in Job, NEW p \in Project, Submit(j, p) PROVE TypeOK'
  <2>1. record' \in [Job -> Record \cup {None}]
    BY <1>5 DEF Submit, TypeOK, Record, Unfinished
  <2>2. pending' \in Seq(Job) /\ active' \in [Project -> Job \cup {None}]
    BY <1>5 DEF Submit, TypeOK
  <2> QED
    BY <1>5, <2>1, <2>2, NotifyTyped DEF Submit, TypeOK, history, cliVars
<1>6. ASSUME NEW j \in Job, CancelQueued(j) PROVE TypeOK'
  <2>1. record' \in [Job -> Record \cup {None}]
    BY <1>6, MarkedTyped DEF CancelQueued, HasStatus, Terminal
  <2>2. pending' \in Seq(Job)
    BY <1>6, RemoveAtIsInjective DEF CancelQueued, TypeOK, QueueMatchesRecords
  <2>3. active' \in [Project -> Job \cup {None}]
    BY <1>6 DEF CancelQueued, TypeOK
  <2> QED
    BY <1>6, <2>1, <2>2, <2>3 DEF CancelQueued, TypeOK, workerVars, history, cliVars
<1>7. ASSUME NEW j \in Job, CancelRunning(j) PROVE TypeOK'
  <2>1. record[j] \in Record
    BY <1>7 DEF CancelRunning, TypeOK, HasStatus
  <2>2. record' \in [Job -> Record \cup {None}] /\ record[j].project \in Project
    BY <1>7, <2>1, FlagTyped DEF CancelRunning, TypeOK, Record
  <2> QED
    BY <1>7, <2>2 DEF CancelRunning, TypeOK, workerVars, history, cliVars
<1>8. ASSUME NEW w \in Worker, Sleep(w) PROVE TypeOK'
  BY <1>8 DEF Sleep, queueVars, workerVars, cliVars, history, Goto, TypeOK, Busy
<1>9. ASSUME NEW w \in Worker, Exit(w) PROVE TypeOK'
  BY <1>9 DEF Exit, queueVars, workerVars, cliVars, history, Goto, TypeOK, Busy
<1>10. ASSUME NEW w \in Worker, Claim(w) PROVE TypeOK'
  <2>1. pending \in Seq(Job) /\ pending # <<>> /\ Head(pending) \in Job
    BY <1>10 DEF Claim, TypeOK
  <2>2. HasStatus(Head(pending), {"queued"})
    <3>1. service # "down"
      BY <2>1, <1>10 DEF Claim, IdleIsEmpty
    <3>2. Head(pending) \in ToSet(pending)
      BY <2>1, TailIsInjective, <3>1 DEF QueueMatchesRecords
    <3> QED
      BY <3>1, <3>2 DEF QueueMatchesRecords, JobsWith
  <2>3. record' \in [Job -> Record \cup {None}]
    BY <1>10, <2>1, <2>2, MarkedTyped DEF Claim, HasStatus, Unfinished
  <2>4. job' \in [Worker -> Job \cup {None}] /\ pending' \in Seq(Job)
        /\ pc' \in [Worker -> Busy \cup {"off", "ready", "asleep"}]
    BY <1>10, <2>1 DEF Claim, Goto, TypeOK, Busy
  <2> QED
    BY <1>10, <2>3, <2>4 DEF Claim, TypeOK, history, cliVars
<1>11. ASSUME NEW w \in Worker, TakeLease(w) PROVE TypeOK'
  BY <1>11 DEF TakeLease, queueVars, workerVars, cliVars, history, Goto, TypeOK, Busy
<1>12. ASSUME NEW w \in Worker, BeginAnalysis(w) PROVE TypeOK'
  <2>1. left' \in [Worker -> 0..Stages]
    BY <1>12 DEF BeginAnalysis, TypeOK
  <2>2. runLock' \in [Project -> Worker \cup {Cli, None}]
    BY <1>12 DEF BeginAnalysis, TypeOK
  <2>3. pc' \in [Worker -> Busy \cup {"off", "ready", "asleep"}]
    BY <1>12 DEF BeginAnalysis, Goto, TypeOK, Busy
  <2> QED
    BY <1>12, <2>1, <2>2, <2>3 DEF BeginAnalysis, TypeOK, queueVars, cliVars, history
<1>13. ASSUME NEW w \in Worker, BeginStage(w) PROVE TypeOK'
  BY <1>13 DEF BeginStage, queueVars, workerVars, cliVars, history, ProjectOf, TypeOK, Busy
<1>14. ASSUME NEW w \in Worker, Complete(w) PROVE TypeOK'
  BY <1>14, LeaveTyped DEF Complete, Terminal
<1>15. ASSUME NEW w \in Worker, ObserveCancel(w) PROVE TypeOK'
  BY <1>15, LeaveTyped DEF ObserveCancel, Terminal
<1>16. ASSUME NEW w \in Worker, FallShort(w) PROVE TypeOK'
  BY <1>16, LeaveTyped DEF FallShort, Terminal
<1>17. ASSUME NEW w \in Worker, Report(w) PROVE TypeOK'
  <2>1. job[w] \in Job /\ verdict[w] \in Terminal /\ service # "down"
    BY <1>17 DEF Report, TypeOK, HandsMatchLabels, IdleIsEmpty, Busy
  <2>2. record[job[w]] \in Record
    BY <2>1 DEF TypeOK, QueueMatchesRecords, HasStatus
  <2>3. record' \in [Job -> Record \cup {None}]
    BY <1>17, <2>1, <2>2 DEF Report, TypeOK, Record
  <2>4. active' \in [Project -> Job \cup {None}]
    BY <1>17, WithoutTyped DEF Report
  <2> QED
    BY <1>17, <2>3, <2>4 DEF Report, Goto, TypeOK, Busy, history, cliVars
<1>18. ASSUME NEW p \in Project, CliStart(p) PROVE TypeOK'
  BY <1>18 DEF CliStart, queueVars, workerVars, cliVars, history, TypeOK, Busy
<1>19. ASSUME NEW p \in Project, CliBegin(p) PROVE TypeOK'
  BY <1>19 DEF CliBegin, queueVars, workerVars, cliVars, history, TypeOK, Busy
<1>20. ASSUME NEW p \in Project, CliEnd(p) PROVE TypeOK'
  BY <1>20 DEF CliEnd, queueVars, workerVars, cliVars, history, TypeOK, Busy
<1>21. ASSUME NEW p \in Project, CliCancel(p) PROVE TypeOK'
  BY <1>21 DEF CliCancel, queueVars, workerVars, cliVars, history, JobsWith, HasStatus, TypeOK, Busy
<1>22. ASSUME UNCHANGED vars PROVE TypeOK'
  BY <1>22 DEF vars, queueVars, workerVars, cliVars, history, TypeOK, Busy
<1> QED
  BY <1>1, <1>2, <1>3, <1>4, <1>5, <1>6, <1>7, <1>8, <1>9, <1>10, <1>11, <1>12, <1>13,
     <1>14, <1>15, <1>16, <1>17, <1>18, <1>19, <1>20, <1>21, <1>22
  DEF Next, Request, WorkerStep, Progress, CliStep

-----------------------------------------------------------------------------
(* The deque, the records and the busy projects.                           *)

LEMMA MarkedStatus ==
    ASSUME TypeOK, NEW S \in SUBSET Job, NEW status \in Unfinished \cup Terminal,
           \A j \in S : record[j] # None,
           record' = Marked(S, status)
    PROVE  \A j \in Job :
              /\ j \notin S => record'[j] = record[j]
              /\ j \in S => /\ record'[j] # None
                            /\ record'[j].status = status
                            /\ record'[j].project = record[j].project
<1> SUFFICES ASSUME NEW j \in Job, j \in S
             PROVE  /\ record'[j] # None
                    /\ record'[j].status = status
                    /\ record'[j].project = record[j].project
  BY DEF Marked
<1>1. record[j] \in Record /\ record'[j] = [record[j] EXCEPT !.status = status]
  BY DEF Marked, TypeOK
<1>2. record'[j] \in Record /\ record'[j].status = status
      /\ record'[j].project = record[j].project
  BY <1>1, StatusTyped DEF Record
<1> QED
  BY <1>2

\* Once it is stopping and its workers have left, a service has settled all.
LEMMA NobodyIsUnfinished ==
    ASSUME IInv, service = "stopping", \A w \in Worker : pc[w] = "off"
    PROVE  JobsWith(Unfinished) = {} /\ \A p \in Project : active[p] = None
<1>1. JobsWith({"queued"}) = {}
  BY DEF IInv, IdleIsEmpty, QueueMatchesRecords, ToSet
<1>2. JobsWith({"running"}) = {}
  BY NoneAssumption DEF IInv, QueueMatchesRecords, HandsMatchLabels, Busy, JobsWith
<1>3. JobsWith(Unfinished) = {}
  BY <1>1, <1>2 DEF JobsWith, HasStatus, Unfinished
<1> QED
  BY <1>3 DEF IInv, TypeOK, BusyMeansUnfinished, JobsWith

\* A step that takes no job into or out of a worker's hands has the deque to
\* account for.
LEMMA HandsUnchanged ==
    ASSUME TypeOK, QueueMatchesRecords, service # "down", job' = job,
           ToSet(pending') = {j \in Job : record'[j] # None /\ record'[j].status = "queued"},
           IsInjective(pending'), Len(pending') <= Capacity,
           \A j \in Job : record'[j] # None /\ record'[j].status = "running"
                          <=> record[j] # None /\ record[j].status = "running"
    PROVE  QueueMatchesRecords'
<1>1. \A j \in Job : record'[j] # None /\ record'[j].status = "running"
                       => \E w \in Worker : job'[w] = j
  BY DEF QueueMatchesRecords, JobsWith, HasStatus
<1>2. \A v, w \in Worker : job'[v] = job'[w] /\ job'[v] # None => v = w
  BY DEF QueueMatchesRecords
<1>3. ASSUME NEW w \in Worker, job'[w] # None
      PROVE  record'[job'[w]] # None /\ record'[job'[w]].status = "running"
  <2>1. job[w] \in Job /\ record[job[w]] # None /\ record[job[w]].status = "running"
    BY <1>3 DEF QueueMatchesRecords, HasStatus, TypeOK
  <2> QED
    BY <2>1
<1> QED
  BY <1>1, <1>2, <1>3 DEF QueueMatchesRecords, JobsWith, HasStatus

LEMMA NextKeepsQueue == IInv /\ [Next]_vars => QueueMatchesRecords' /\ BusyMeansUnfinished'
<1> DEFINE Goal == QueueMatchesRecords /\ BusyMeansUnfinished
<1> SUFFICES ASSUME IInv, [Next]_vars PROVE Goal'
  OBVIOUS
<1> USE DEF IInv
<1>0. ASSUME UNCHANGED <<service, record, pending, active, job>> PROVE Goal'
  BY <1>0 DEF QueueMatchesRecords, BusyMeansUnfinished, JobsWith, HasStatus
<1>1. ASSUME Start PROVE Goal'
  <2> DEFINE S == JobsWith(Unfinished)
  <2>1. S \subseteq Job /\ record' = Marked(S, "interrupted")
        /\ \A j \in S : record[j] # None
    BY <1>1 DEF Start, JobsWith, HasStatus
  <2>2. \A j \in Job : /\ j \notin S => record'[j] = record[j]
                       /\ j \in S => record'[j].status = "interrupted"
    BY <2>1, MarkedStatus DEF Terminal
  <2>3. \A j \in Job : ~(record'[j] # None /\ record'[j].status \in Unfinished)
    BY <2>2 DEF JobsWith, HasStatus, Unfinished
  <2>4. pending' = <<>> /\ (\A p \in Project : active'[p] = None)
        /\ \A w \in Worker : job'[w] = None
    BY <1>1 DEF Start, IdleIsEmpty, HandsMatchLabels, Busy
  <2>5. QueueMatchesRecords'
    BY <2>3, <2>4 DEF QueueMatchesRecords, JobsWith, HasStatus, Unfinished, ToSet, IsInjective
  <2>6. BusyMeansUnfinished'
    BY <2>3, <2>4 DEF BusyMeansUnfinished, HasStatus
  <2> QED
    BY <2>5, <2>6
<1>2. ASSUME Stop PROVE Goal'
  <2> DEFINE S == {j \in ToSet(pending) : HasStatus(j, {"queued"})}
  <2>1. S = JobsWith({"queued"}) /\ service # "down"
    BY <1>2 DEF Stop, QueueMatchesRecords, JobsWith
  <2>2. S \subseteq Job /\ \A j \in S : record[j] # None
    BY <2>1 DEF JobsWith, HasStatus
  <2>3. record' = Marked(S, "interrupted") /\ active' = Without(S)
        /\ pending' = <<>> /\ job' = job
    BY <1>2 DEF Stop
  <2> HIDE DEF S
  <2>4. \A j \in Job : /\ j \notin S => record'[j] = record[j]
                       /\ j \in S => record'[j].status = "interrupted"
    BY <2>2, <2>3, MarkedStatus DEF Terminal
  <2>5. \A j \in Job : ~(record'[j] # None /\ record'[j].status = "queued")
    BY <2>1, <2>4 DEF JobsWith, HasStatus
  <2>6. \A j \in Job : record'[j] # None /\ record'[j].status = "running"
                       <=> record[j] # None /\ record[j].status = "running"
    BY <2>1, <2>4 DEF JobsWith, HasStatus
  <2>7. QueueMatchesRecords'
    <3>1. ToSet(pending') = {} /\ IsInjective(pending') /\ Len(pending') <= Capacity
      BY <2>3 DEF ToSet, IsInjective
    <3> QED
      BY <2>1, <2>3, <2>5, <2>6, <3>1, HandsUnchanged
  <2>8. BusyMeansUnfinished'
    <3> SUFFICES ASSUME NEW p \in Project, NEW j \in Job
                 PROVE  active'[p] = j <=> /\ record'[j] # None
                                           /\ record'[j].status \in Unfinished
                                           /\ record'[j].project = p
      BY DEF BusyMeansUnfinished, HasStatus
    <3>1. active[p] = j <=> /\ record[j] # None /\ record[j].status \in Unfinished
                            /\ record[j].project = p
      BY <2>1 DEF BusyMeansUnfinished, HasStatus
    <3>2. active'[p] = IF active[p] \in S THEN None ELSE active[p]
      BY <2>3 DEF Without
    <3> QED
      BY <2>4, <3>1, <3>2, NoneAssumption DEF Unfinished
  <2> QED
    BY <2>7, <2>8
<1>3. ASSUME Stopped \/ Crash PROVE Goal'
  BY <1>3 DEF Stopped, Crash, QueueMatchesRecords, BusyMeansUnfinished
<1>4. ASSUME NEW j \in Job, NEW p \in Project, Submit(j, p) PROVE Goal'
  <2>1. /\ service # "down" /\ service' = service /\ job' = job
        /\ record[j] = None /\ active[p] = None
        /\ Len(pending) < Capacity
        /\ pending' = Append(pending, j)
        /\ active' = [active EXCEPT ![p] = j]
    BY <1>4 DEF Submit
  <2>2. /\ record'[j] # None /\ record'[j].status = "queued" /\ record'[j].project = p
        /\ \A k \in Job \ {j} : record'[k] = record[k]
    <3>1. record'[j] = [project |-> p, status |-> "queued", cancel_requested |-> FALSE]
      BY <1>4 DEF Submit, TypeOK
    <3>2. record'[j] \in Record
      BY <3>1 DEF Record, Unfinished
    <3> QED
      BY <1>4, <3>1, <3>2 DEF Submit, TypeOK
  <2>3. j \notin ToSet(pending)
    BY <2>1 DEF QueueMatchesRecords, JobsWith, HasStatus
  <2>4. /\ ToSet(pending') = ToSet(pending) \cup {j}
        /\ IsInjective(pending') /\ Len(pending') <= Capacity
    BY <2>1, <2>3, AppendIsInjective DEF QueueMatchesRecords, TypeOK
  <2>5. QueueMatchesRecords'
    <3>1. ToSet(pending') = {k \in Job : record'[k] # None /\ record'[k].status = "queued"}
      BY <2>1, <2>2, <2>4 DEF QueueMatchesRecords, JobsWith, HasStatus
    <3> QED
      BY <2>1, <2>2, <2>4, <3>1, HandsUnchanged
  <2>6. BusyMeansUnfinished'
    <3> SUFFICES ASSUME NEW q \in Project, NEW k \in Job
                 PROVE  active'[q] = k <=> /\ record'[k] # None
                                           /\ record'[k].status \in Unfinished
                                           /\ record'[k].project = q
      BY DEF BusyMeansUnfinished, HasStatus
    <3>1. active[q] = k <=> /\ record[k] # None /\ record[k].status \in Unfinished
                            /\ record[k].project = q
      BY <2>1 DEF BusyMeansUnfinished, HasStatus
    <3>2. active'[q] = IF q = p THEN j ELSE active[q]
      BY <2>1 DEF TypeOK
    <3> QED
      BY <2>1, <2>2, <3>1, <3>2, NoneAssumption DEF Unfinished
  <2> QED
    BY <2>5, <2>6
<1>5. ASSUME NEW j \in Job, CancelQueued(j) PROVE Goal'
  <2>1. /\ service # "down" /\ service' = service /\ job' = job
        /\ record[j] # None /\ record[j].status = "queued"
        /\ active' = [active EXCEPT ![record[j].project] = None]
        /\ record' = Marked({j}, "cancelled")
    BY <1>5 DEF CancelQueued, workerVars, HasStatus
  <2>2. PICK i \in 1..Len(pending) : pending[i] = j /\ pending' = RemoveAt(pending, i)
    BY <1>5 DEF CancelQueued
  <2>3. /\ ToSet(pending') = ToSet(pending) \ {j}
        /\ IsInjective(pending') /\ Len(pending') <= Len(pending)
        /\ pending' \in Seq(Job)
    BY <2>1, <2>2, RemoveAtIsInjective DEF QueueMatchesRecords, TypeOK
  <2>4. Len(pending') <= Capacity
    BY <2>1, <2>3 DEF QueueMatchesRecords, TypeOK
  <2>5. record'[j].status = "cancelled" /\ \A k \in Job \ {j} : record'[k] = record[k]
    <3> DEFINE S == {j}
    <3>1. S \subseteq Job /\ (\A k \in S : record[k] # None) /\ record' = Marked(S, "cancelled")
      BY <2>1
    <3>2. \A k \in Job : /\ k \notin S => record'[k] = record[k]
                         /\ k \in S => /\ record'[k] # None
                                       /\ record'[k].status = "cancelled"
                                       /\ record'[k].project = record[k].project
      <4> HIDE DEF S
      <4> QED
        BY <3>1, MarkedStatus DEF Terminal
    <3> QED
      BY <2>1, <3>2
  <2>6. QueueMatchesRecords'
    <3>1. ToSet(pending') = {k \in Job : record'[k] # None /\ record'[k].status = "queued"}
      BY <2>1, <2>3, <2>5 DEF QueueMatchesRecords, JobsWith, HasStatus
    <3> QED
      BY <2>1, <2>3, <2>4, <2>5, <3>1, HandsUnchanged
  <2>7. BusyMeansUnfinished'
    <3> SUFFICES ASSUME NEW q \in Project, NEW k \in Job
                 PROVE  active'[q] = k <=> /\ record'[k] # None
                                           /\ record'[k].status \in Unfinished
                                           /\ record'[k].project = q
      BY DEF BusyMeansUnfinished, HasStatus
    <3>1. /\ active[q] = k <=> /\ record[k] # None /\ record[k].status \in Unfinished
                               /\ record[k].project = q
          /\ active[q] = j <=> record[j].project = q
      BY <2>1 DEF BusyMeansUnfinished, HasStatus, Unfinished
    <3>2. active'[q] = IF q = record[j].project THEN None ELSE active[q]
      BY <2>1 DEF TypeOK
    <3> QED
      BY <2>5, <3>1, <3>2, NoneAssumption DEF Unfinished
  <2> QED
    BY <2>6, <2>7
<1>6. ASSUME NEW j \in Job, CancelRunning(j) PROVE Goal'
  <2>1. UNCHANGED <<service, pending, active, job>>
    BY <1>6 DEF CancelRunning, workerVars
  <2>2. ASSUME NEW k \in Job
        PROVE  /\ (record'[k] # None) = (record[k] # None)
               /\ record'[k].status = record[k].status
               /\ record'[k].project = record[k].project
    <3>1. CASE k # j
      BY <1>6, <3>1 DEF CancelRunning, TypeOK
    <3>2. CASE k = j
      <4>1. record[j] \in Record /\ record'[j] = [record[j] EXCEPT !.cancel_requested = TRUE]
        BY <1>6 DEF CancelRunning, TypeOK, HasStatus
      <4> QED
        BY <3>2, <4>1, FlagTyped, NoneAssumption DEF Record
    <3> QED
      BY <3>1, <3>2
  <2>3. QueueMatchesRecords'
    <3>1. service # "down"
      BY <1>6 DEF CancelRunning
    <3>2. ToSet(pending') = {k \in Job : record'[k] # None /\ record'[k].status = "queued"}
      BY <2>1, <2>2, <3>1 DEF QueueMatchesRecords, JobsWith, HasStatus
    <3>3. IsInjective(pending') /\ Len(pending') <= Capacity
      BY <2>1, <3>1 DEF QueueMatchesRecords
    <3> QED
      BY <2>1, <2>2, <3>1, <3>2, <3>3, HandsUnchanged
  <2>4. BusyMeansUnfinished'
    BY <2>1, <2>2 DEF BusyMeansUnfinished, HasStatus
  <2> QED
    BY <2>3, <2>4
<1>7. ASSUME NEW w \in Worker, Claim(w) PROVE Goal'
  <2> DEFINE j == Head(pending)
  <2>1. pending \in Seq(Job) /\ pending # <<>> /\ j \in Job
    BY <1>7 DEF Claim, TypeOK
  <2>2. service # "down" /\ service' = service
    BY <1>7, <2>1 DEF Claim, IdleIsEmpty
  <2>3. /\ pending' = Tail(pending) /\ active' = active
        /\ job' = [job EXCEPT ![w] = j]
        /\ record' = Marked({j}, "running")
    BY <1>7 DEF Claim
  <2>4. /\ ToSet(pending') = ToSet(pending) \ {j}
        /\ IsInjective(pending') /\ Len(pending') <= Len(pending)
        /\ pending' \in Seq(Job) /\ j \in ToSet(pending)
    BY <2>1, <2>2, <2>3, TailIsInjective DEF QueueMatchesRecords
  <2> HIDE DEF j
  <2>5. record[j] # None /\ record[j].status = "queued"
    BY <2>2, <2>4 DEF QueueMatchesRecords, JobsWith, HasStatus
  <2>6. /\ record'[j] # None /\ record'[j].status = "running"
        /\ record'[j].project = record[j].project
        /\ \A k \in Job \ {j} : record'[k] = record[k]
    <3> DEFINE S == {j}
    <3>1. S \subseteq Job /\ (\A k \in S : record[k] # None) /\ record' = Marked(S, "running")
      BY <2>1, <2>3, <2>5
    <3>2. \A k \in Job : /\ k \notin S => record'[k] = record[k]
                         /\ k \in S => /\ record'[k] # None
                                       /\ record'[k].status = "running"
                                       /\ record'[k].project = record[k].project
      <4> HIDE DEF S
      <4> QED
        BY <3>1, MarkedStatus DEF Unfinished
    <3> QED
      BY <2>1, <3>2
  <2>7. QueueMatchesRecords'
    <3>1. ToSet(pending') = {k \in Job : record'[k] # None /\ record'[k].status = "queued"}
      BY <2>2, <2>4, <2>5, <2>6 DEF QueueMatchesRecords, JobsWith, HasStatus
    <3>2. \A v \in Worker : job[v] # j
      BY <2>1, <2>2, <2>5 DEF QueueMatchesRecords, HasStatus
    <3>3. job[w] = None
      BY <1>7 DEF Claim, HandsMatchLabels, Busy
    <3>4. \A v \in Worker : job'[v] = IF v = w THEN j ELSE job[v]
      BY <2>3 DEF TypeOK
    <3>5. Len(pending') <= Capacity
      BY <2>2, <2>4 DEF QueueMatchesRecords, TypeOK
    <3>6. \A k \in Job : record'[k] # None /\ record'[k].status = "running"
                           => \E v \in Worker : job'[v] = k
      BY <2>2, <2>6, <3>3, <3>4, NoneAssumption DEF QueueMatchesRecords, JobsWith, HasStatus
    <3>7. \A v, u \in Worker : job'[v] = job'[u] /\ job'[v] # None => v = u
      BY <2>2, <3>2, <3>4 DEF QueueMatchesRecords
    <3>8. \A v \in Worker : job'[v] # None
              => record'[job'[v]] # None /\ record'[job'[v]].status = "running"
      BY <2>2, <2>6, <3>2, <3>4 DEF QueueMatchesRecords, HasStatus, TypeOK
    <3> QED
      BY <2>4, <3>1, <3>5, <3>6, <3>7, <3>8 DEF QueueMatchesRecords, JobsWith, HasStatus
  <2>8. BusyMeansUnfinished'
    <3> SUFFICES ASSUME NEW q \in Project, NEW k \in Job
                 PROVE  active'[q] = k <=> /\ record'[k] # None
                                           /\ record'[k].status \in Unfinished
                                           /\ record'[k].project = q
      BY DEF BusyMeansUnfinished, HasStatus
    <3>1. active[q] = k <=> /\ record[k] # None /\ record[k].status \in Unfinished
                            /\ record[k].project = q
      BY <2>2 DEF BusyMeansUnfinished, HasStatus
    <3> QED
      BY <2>3, <2>5, <2>6, <3>1 DEF Unfinished
  <2> QED
    BY <2>7, <2>8
<1>8. ASSUME NEW w \in Worker, Report(w) PROVE Goal'
  <2> DEFINE j == job[w]
  <2>1. j \in Job /\ verdict[w] \in Terminal /\ service # "down"
    BY <1>8 DEF Report, TypeOK, HandsMatchLabels, IdleIsEmpty, Busy
  <2>2. /\ service' = service /\ pending' = pending
        /\ active' = Without({j}) /\ job' = [job EXCEPT ![w] = None]
    BY <1>8 DEF Report
  <2>3. record[j] # None /\ record[j].status = "running"
    BY <2>1 DEF QueueMatchesRecords, HasStatus
  <2>4. record'[j].status \in Terminal /\ \A k \in Job \ {j} : record'[k] = record[k]
    BY <1>8, <2>1 DEF Report, TypeOK
  <2>5. \A v \in Worker : job'[v] = IF v = w THEN None ELSE job[v]
    BY <2>2 DEF TypeOK
  <2>6. \A v \in Worker \ {w} : job[v] # j
    BY <2>1 DEF QueueMatchesRecords, TypeOK, HasStatus
  <2> HIDE DEF j
  <2>7. QueueMatchesRecords'
    <3>1. ToSet(pending') = {k \in Job : record'[k] # None /\ record'[k].status = "queued"}
      BY <2>1, <2>2, <2>3, <2>4 DEF QueueMatchesRecords, JobsWith, HasStatus, Terminal
    <3>2. \A k \in Job : record'[k] # None /\ record'[k].status = "running"
                           => \E v \in Worker : job'[v] = k
      BY <2>1, <2>4, <2>5 DEF j, QueueMatchesRecords, JobsWith, HasStatus, Terminal
    <3>3. \A v, u \in Worker : job'[v] = job'[u] /\ job'[v] # None => v = u
      BY <2>1, <2>5 DEF QueueMatchesRecords
    <3>4. \A v \in Worker : job'[v] # None
              => record'[job'[v]] # None /\ record'[job'[v]].status = "running"
      BY <2>1, <2>4, <2>5, <2>6 DEF QueueMatchesRecords, HasStatus, TypeOK
    <3> QED
      BY <2>1, <2>2, <3>1, <3>2, <3>3, <3>4 DEF QueueMatchesRecords, JobsWith, HasStatus
  <2>8. BusyMeansUnfinished'
    <3> SUFFICES ASSUME NEW q \in Project, NEW k \in Job
                 PROVE  active'[q] = k <=> /\ record'[k] # None
                                           /\ record'[k].status \in Unfinished
                                           /\ record'[k].project = q
      BY DEF BusyMeansUnfinished, HasStatus
    <3>1. active[q] = k <=> /\ record[k] # None /\ record[k].status \in Unfinished
                            /\ record[k].project = q
      BY <2>1 DEF BusyMeansUnfinished, HasStatus
    <3>2. active'[q] = IF active[q] = j THEN None ELSE active[q]
      BY <2>2 DEF Without
    <3> QED
      BY <2>1, <2>4, <3>1, <3>2, NoneAssumption DEF Unfinished, Terminal
  <2> QED
    BY <2>7, <2>8
<1>9. ASSUME NEW w \in Worker,
             \/ Sleep(w) \/ Exit(w) \/ TakeLease(w) \/ BeginAnalysis(w) \/ BeginStage(w)
             \/ Complete(w) \/ ObserveCancel(w) \/ FallShort(w)
      PROVE  Goal'
  BY <1>0, <1>9 DEF Sleep, Exit, TakeLease, BeginAnalysis, BeginStage, Complete,
                    ObserveCancel, FallShort, Leave, queueVars
<1>10. ASSUME NEW p \in Project, CliStep(p) PROVE Goal'
  BY <1>0, <1>10 DEF CliStep, CliStart, CliBegin, CliEnd, CliCancel, queueVars, workerVars
<1>11. ASSUME UNCHANGED vars PROVE Goal'
  BY <1>0, <1>11 DEF vars, queueVars, workerVars
<1> QED
  BY <1>1, <1>2, <1>3, <1>4, <1>5, <1>6, <1>7, <1>8, <1>9, <1>10, <1>11
  DEF Next, Request, WorkerStep, Progress

-----------------------------------------------------------------------------
(* What the workers hold: their jobs, the memory of the process, the locks. *)

LEMMA NextKeepsHandsMatchLabels == IInv /\ [Next]_vars => HandsMatchLabels'
<1> SUFFICES ASSUME IInv, [Next]_vars PROVE HandsMatchLabels'
  OBVIOUS
<1> USE DEF IInv
<1>0. ASSUME UNCHANGED <<pc, job, verdict>> PROVE HandsMatchLabels'
  BY <1>0 DEF HandsMatchLabels
<1>1. ASSUME Start PROVE HandsMatchLabels'
  BY <1>1 DEF Start, HandsMatchLabels, IdleIsEmpty, Busy
<1>2. ASSUME Stop PROVE HandsMatchLabels'
  BY <1>2 DEF Stop, TypeOK, HandsMatchLabels, Busy
<1>3. ASSUME Crash PROVE HandsMatchLabels'
  BY <1>3 DEF Crash, HandsMatchLabels, Busy
<1>4. ASSUME NEW j \in Job, NEW p \in Project, Submit(j, p) PROVE HandsMatchLabels'
  BY <1>4 DEF Submit, Notify, TypeOK, HandsMatchLabels, Busy
<1>5. ASSUME NEW w \in Worker, Claim(w) PROVE HandsMatchLabels'
  <2>1. Head(pending) \in Job
    BY <1>5 DEF Claim, TypeOK
  <2> QED
    BY <1>5, <2>1 DEF Claim, Goto, TypeOK, HandsMatchLabels, Busy
<1>6. ASSUME NEW w \in Worker, Sleep(w) \/ Exit(w) PROVE HandsMatchLabels'
  BY <1>6 DEF Sleep, Exit, Goto, TypeOK, HandsMatchLabels, Busy
<1>7. ASSUME NEW w \in Worker, TakeLease(w) \/ BeginAnalysis(w) PROVE HandsMatchLabels'
  BY <1>7 DEF TakeLease, BeginAnalysis, Goto, TypeOK, HandsMatchLabels, Busy
<1>8. ASSUME NEW w \in Worker, NEW status \in Terminal, Leave(w, status), pc[w] \in Busy
      PROVE  HandsMatchLabels'
  <2>1. \A v \in Worker : pc'[v] = IF v = w THEN "reporting" ELSE pc[v]
    BY <1>8 DEF Leave, Goto, TypeOK
  <2>2. \A v \in Worker : verdict'[v] = IF v = w THEN status ELSE verdict[v]
    BY <1>8 DEF Leave, TypeOK
  <2>3. job' = job
    BY <1>8 DEF Leave
  <2> QED
    BY <1>8, <2>1, <2>2, <2>3 DEF HandsMatchLabels, Busy
<1>9. ASSUME NEW w \in Worker, Complete(w) \/ ObserveCancel(w) \/ FallShort(w)
      PROVE  HandsMatchLabels'
  BY <1>8, <1>9 DEF Complete, ObserveCancel, FallShort, Terminal, Busy
<1>10. ASSUME NEW w \in Worker, Report(w) PROVE HandsMatchLabels'
  BY <1>10 DEF Report, Goto, TypeOK, HandsMatchLabels, Busy
<1>11. ASSUME NEW p \in Project, CliStep(p) PROVE HandsMatchLabels'
  BY <1>0, <1>11 DEF CliStep, CliStart, CliBegin, CliEnd, CliCancel, workerVars
<1>12. ASSUME NEW j \in Job, CancelQueued(j) \/ CancelRunning(j) PROVE HandsMatchLabels'
  BY <1>0, <1>12 DEF CancelQueued, CancelRunning, workerVars
<1>13. ASSUME NEW w \in Worker, BeginStage(w) PROVE HandsMatchLabels'
  BY <1>0, <1>13 DEF BeginStage
<1>14. ASSUME Stopped \/ UNCHANGED vars PROVE HandsMatchLabels'
  BY <1>0, <1>14 DEF Stopped, vars, workerVars
<1> QED
  BY <1>1, <1>2, <1>3, <1>4, <1>5, <1>6, <1>7, <1>9, <1>10, <1>11, <1>12, <1>13, <1>14
  DEF Next, Request, WorkerStep, Progress

LEMMA NextKeepsIdleIsEmpty == IInv /\ [Next]_vars => IdleIsEmpty'
<1> SUFFICES ASSUME IInv, [Next]_vars PROVE IdleIsEmpty'
  OBVIOUS
<1> USE DEF IInv
<1>0. ASSUME UNCHANGED <<service, pending, active, pc>> PROVE IdleIsEmpty'
  BY <1>0 DEF IdleIsEmpty
<1>2. ASSUME Start \/ Stop PROVE IdleIsEmpty'
  BY <1>2 DEF Start, Stop, IdleIsEmpty
<1>3. ASSUME Stopped PROVE IdleIsEmpty'
  <2>1. pending' = <<>>
    BY <1>3 DEF Stopped, IdleIsEmpty, queueVars
  <2>2. \A w \in Worker : pc'[w] = "off"
    BY <1>3 DEF Stopped, workerVars
  <2>3. \A p \in Project : active'[p] = None
    BY <1>3, NobodyIsUnfinished DEF Stopped, queueVars
  <2> QED
    BY <2>1, <2>2, <2>3 DEF IdleIsEmpty
<1>4. ASSUME Crash PROVE IdleIsEmpty'
  BY <1>4 DEF Crash, IdleIsEmpty
<1>5. ASSUME NEW j \in Job,
             (\E p \in Project : Submit(j, p)) \/ CancelQueued(j) \/ CancelRunning(j)
      PROVE  IdleIsEmpty'
  BY <1>5 DEF Submit, CancelQueued, CancelRunning, IdleIsEmpty
<1>6. ASSUME NEW w \in Worker, WorkerStep(w) PROVE IdleIsEmpty'
  <2>1. pc[w] # "off" /\ service' = service
    BY <1>6 DEF WorkerStep, Progress, Sleep, Exit, Claim, TakeLease, BeginAnalysis,
                BeginStage, Complete, ObserveCancel, FallShort, Leave, Report
  <2>2. service # "down"
    BY <2>1 DEF IdleIsEmpty
  <2>3. service # "serving" => ~Claim(w)
    BY DEF IdleIsEmpty, Claim
  <2>4. ~Claim(w) => pending' = pending
    BY <1>6 DEF WorkerStep, Progress, Sleep, Exit, TakeLease, BeginAnalysis,
                BeginStage, Complete, ObserveCancel, FallShort, Leave, Report, queueVars
  <2> QED
    BY <2>1, <2>2, <2>3, <2>4 DEF IdleIsEmpty
<1>7. ASSUME NEW p \in Project, CliStep(p) PROVE IdleIsEmpty'
  BY <1>0, <1>7 DEF CliStep, CliStart, CliBegin, CliEnd, CliCancel, queueVars, workerVars
<1>8. ASSUME UNCHANGED vars PROVE IdleIsEmpty'
  BY <1>0, <1>8 DEF vars, queueVars, workerVars
<1> QED
  BY <1>2, <1>3, <1>4, <1>5, <1>6, <1>7, <1>8 DEF Next, Request

\* A record is never dropped, nor moved to another project, nor changed after
\* its job has settled.
LEMMA NextKeepsRecords ==
    ASSUME IInv, [Next]_vars, NEW j \in Job, record[j] # None
    PROVE  /\ record'[j] # None /\ record'[j].project = record[j].project
           /\ HasStatus(j, Terminal) => record'[j] = record[j]
<1> DEFINE Kept == /\ record'[j] # None /\ record'[j].project = record[j].project
                   /\ HasStatus(j, Terminal) => record'[j] = record[j]
<1> USE DEF IInv
<1> SUFFICES Kept
  OBVIOUS
<1>0. ASSUME record' = record PROVE Kept
  BY <1>0
<1>1. ASSUME NEW S \in SUBSET Job, NEW status \in Unfinished \cup Terminal,
             \A k \in S : HasStatus(k, Unfinished), record' = Marked(S, status)
      PROVE  Kept
  BY <1>1, MarkedStatus DEF HasStatus, Unfinished, Terminal
<1>2. ASSUME Start PROVE Kept
  BY <1>1, <1>2 DEF Start, JobsWith, Terminal
<1>3. ASSUME Stop PROVE Kept
  <2> DEFINE S == {k \in ToSet(pending) : HasStatus(k, {"queued"})}
  <2>1. record' = Marked(S, "interrupted") /\ S \subseteq Job
    BY <1>3 DEF Stop, TypeOK, ToSet
  <2>2. \A k \in S : HasStatus(k, Unfinished)
    BY DEF HasStatus, Unfinished
  <2> HIDE DEF S
  <2> QED
    BY <1>1, <2>1, <2>2 DEF Terminal
<1>4. ASSUME NEW k \in Job, NEW p \in Project, Submit(k, p) PROVE Kept
  BY <1>4 DEF Submit, TypeOK
<1>5. ASSUME NEW k \in Job, CancelQueued(k) PROVE Kept
  <2> DEFINE S == {k}
  <2>1. S \subseteq Job /\ record' = Marked(S, "cancelled")
        /\ \A i \in S : HasStatus(i, Unfinished)
    BY <1>5 DEF CancelQueued, HasStatus, Unfinished
  <2> HIDE DEF S
  <2> QED
    BY <1>1, <2>1 DEF Terminal
<1>6. ASSUME NEW k \in Job, CancelRunning(k) PROVE Kept
  <2>1. CASE j = k
    <3>1. record[j] \in Record /\ record'[j] = [record[j] EXCEPT !.cancel_requested = TRUE]
      BY <1>6, <2>1 DEF CancelRunning, TypeOK
    <3>2. ~HasStatus(j, Terminal)
      BY <1>6, <2>1 DEF CancelRunning, HasStatus, Terminal
    <3> QED
      BY <3>1, <3>2, FlagTyped, NoneAssumption DEF Record
  <2>2. CASE j # k
    BY <1>6, <2>2 DEF CancelRunning, TypeOK
  <2> QED
    BY <2>1, <2>2
<1>7. ASSUME NEW w \in Worker, Claim(w) PROVE Kept
  <2> DEFINE S == {Head(pending)}
  <2>1. pending \in Seq(Job) /\ pending # <<>> /\ IsInjective(pending)
        /\ ToSet(pending) = JobsWith({"queued"})
    BY <1>7 DEF Claim, TypeOK, IdleIsEmpty, QueueMatchesRecords
  <2>2. Head(pending) \in JobsWith({"queued"})
    BY <2>1, TailIsInjective
  <2>3. S \subseteq Job /\ record' = Marked(S, "running")
        /\ \A i \in S : HasStatus(i, Unfinished)
    BY <1>7, <2>2 DEF Claim, JobsWith, HasStatus, Unfinished
  <2> HIDE DEF S
  <2> QED
    BY <1>1, <2>3 DEF Unfinished
<1>8. ASSUME NEW w \in Worker, Report(w) PROVE Kept
  <2>1. CASE j = job[w]
    <3>1. verdict[w] \in Terminal /\ record[j] \in Record
      BY <1>8, <2>1 DEF Report, TypeOK, HandsMatchLabels
    <3>2. record'[j] = [project |-> record[j].project, status |-> verdict[w],
                        cancel_requested |-> FALSE]
      BY <1>8, <2>1 DEF Report, TypeOK
    <3>3. record'[j] \in Record
      BY <3>1, <3>2 DEF Record
    <3>4. record'[j].project = record[j].project
      BY <3>2
    <3>5. record'[j] # None
      BY <3>3, NoneAssumption
    <3>6. ~HasStatus(j, Terminal)
      <4>1. service # "down" /\ job[w] # None
        BY <1>8, <2>1, NoneAssumption DEF Report, IdleIsEmpty
      <4> QED
        BY <2>1, <4>1 DEF QueueMatchesRecords, HasStatus, Terminal
    <3> QED
      BY <3>4, <3>5, <3>6
  <2>2. CASE j # job[w]
    BY <1>8, <2>2 DEF Report, TypeOK
  <2> QED
    BY <2>1, <2>2
<1>9. ASSUME NEW w \in Worker,
             \/ Sleep(w) \/ Exit(w) \/ TakeLease(w) \/ BeginAnalysis(w) \/ BeginStage(w)
             \/ Complete(w) \/ ObserveCancel(w) \/ FallShort(w)
      PROVE  Kept
  BY <1>0, <1>9 DEF Sleep, Exit, TakeLease, BeginAnalysis, BeginStage, Complete,
                    ObserveCancel, FallShort, Leave, queueVars
<1>10. ASSUME NEW p \in Project, CliStep(p) PROVE Kept
  BY <1>0, <1>10 DEF CliStep, CliStart, CliBegin, CliEnd, CliCancel, queueVars
<1>11. ASSUME Stopped \/ Crash \/ UNCHANGED vars PROVE Kept
  BY <1>0, <1>11 DEF Stopped, Crash, vars, queueVars
<1> QED
  BY <1>2, <1>3, <1>4, <1>5, <1>6, <1>7, <1>8, <1>9, <1>10, <1>11
  DEF Next, Request, WorkerStep, Progress

LEMMA LeaveKeepsLocks ==
    ASSUME IInv, NEW w \in Worker, NEW status, pc[w] \in {"leased", "analyzing"},
           Leave(w, status)
    PROVE  LocksMatchLabels'
<1>1. \A v \in Worker : pc'[v] = IF v = w THEN "reporting" ELSE pc[v]
  BY DEF IInv, TypeOK, Leave, Goto
<1>2. \A v \in Worker : ProjectOf(v)' = ProjectOf(v)
  BY DEF Leave, ProjectOf, queueVars
<1>3. \A v \in Worker : lease' = v <=> pc'[v] \in {"leased", "analyzing"}
  BY <1>1, NoneAssumption DEF IInv, LocksMatchLabels, Leave
<1>4. \A p \in Project : runLock'[p] = IF runLock[p] = w THEN None ELSE runLock[p]
  BY DEF Leave
<1>5. cli' = cli
  BY DEF Leave, cliVars
<1>6. \A v \in Worker, p \in Project :
          runLock'[p] = v <=> pc'[v] = "analyzing" /\ ProjectOf(v)' = p
  BY <1>1, <1>2, <1>4, NoneAssumption DEF IInv, LocksMatchLabels
<1>7. \A p \in Project : runLock'[p] = Cli <=> cli'[p] = "analyzing"
  BY <1>4, <1>5, CliAssumption DEF IInv, LocksMatchLabels
<1> QED
  BY <1>3, <1>6, <1>7 DEF LocksMatchLabels

\* Steps that take and release no lock and begin and end no analysis.
LEMMA OthersKeepLocks ==
    ASSUME IInv, [Next]_vars, UNCHANGED <<lease, runLock, cli>>,
           \A w \in Worker : /\ pc'[w] = "leased" <=> pc[w] = "leased"
                             /\ pc'[w] = "analyzing" <=> pc[w] = "analyzing"
                             /\ pc[w] = "analyzing" => job'[w] = job[w]
    PROVE  LocksMatchLabels'
<1>1. ASSUME NEW w \in Worker, pc[w] = "analyzing" PROVE ProjectOf(w)' = ProjectOf(w)
  <2>1. job[w] \in Job /\ service # "down"
    BY <1>1 DEF IInv, TypeOK, HandsMatchLabels, IdleIsEmpty, Busy
  <2>2. record[job[w]] # None
    BY <2>1 DEF IInv, QueueMatchesRecords, HasStatus
  <2> QED
    BY <1>1, <2>1, <2>2, NextKeepsRecords DEF ProjectOf
<1>2. /\ \A w \in Worker : lease' = w <=> pc'[w] \in {"leased", "analyzing"}
      /\ \A p \in Project : runLock'[p] = Cli <=> cli'[p] = "analyzing"
  BY DEF IInv, LocksMatchLabels
<1>3. ASSUME NEW w \in Worker, NEW p \in Project
      PROVE  runLock'[p] = w <=> pc'[w] = "analyzing" /\ ProjectOf(w)' = p
  <2>1. runLock[p] = w <=> pc[w] = "analyzing" /\ ProjectOf(w) = p
    BY DEF IInv, LocksMatchLabels
  <2>2. runLock'[p] = runLock[p] /\ (pc'[w] = "analyzing" <=> pc[w] = "analyzing")
    OBVIOUS
  <2> QED
    BY <1>1, <2>1, <2>2
<1> QED
  BY <1>2, <1>3 DEF LocksMatchLabels

LEMMA NextKeepsLocksMatchLabels == IInv /\ [Next]_vars => LocksMatchLabels'
<1> SUFFICES ASSUME IInv, [Next]_vars PROVE LocksMatchLabels'
  OBVIOUS
<1> USE DEF IInv
<1>1. ASSUME Start PROVE LocksMatchLabels'
  BY <1>1, OthersKeepLocks DEF Start, IdleIsEmpty, cliVars
<1>2. ASSUME Stop PROVE LocksMatchLabels'
  BY <1>2, OthersKeepLocks DEF Stop, cliVars, TypeOK
<1>3. ASSUME Crash PROVE LocksMatchLabels'
  BY <1>3, NoneAssumption, CliAssumption DEF Crash, cliVars, LocksMatchLabels, TypeOK
<1>4. ASSUME NEW j \in Job, NEW p \in Project, Submit(j, p) PROVE LocksMatchLabels'
  BY <1>4, OthersKeepLocks DEF Submit, Notify, cliVars, TypeOK
<1>5. ASSUME NEW j \in Job, CancelQueued(j) \/ CancelRunning(j) PROVE LocksMatchLabels'
  BY <1>5, OthersKeepLocks DEF CancelQueued, CancelRunning, workerVars, cliVars
<1>6. ASSUME NEW w \in Worker, Sleep(w) \/ Exit(w) \/ Claim(w) \/ Report(w)
      PROVE  LocksMatchLabels'
  BY <1>6, OthersKeepLocks DEF Sleep, Exit, Claim, Report, Goto, cliVars, TypeOK
<1>7. ASSUME NEW w \in Worker, TakeLease(w) PROVE LocksMatchLabels'
  <2>1. \A v \in Worker : pc'[v] = IF v = w THEN "leased" ELSE pc[v]
    BY <1>7 DEF TakeLease, Goto, TypeOK
  <2>2. /\ UNCHANGED <<runLock, cli>> /\ lease = None /\ lease' = w /\ pc[w] = "claimed"
        /\ \A v \in Worker : ProjectOf(v)' = ProjectOf(v)
    BY <1>7 DEF TakeLease, cliVars, ProjectOf, queueVars
  <2>3. \A v \in Worker : lease' = v <=> pc'[v] \in {"leased", "analyzing"}
    BY <2>1, <2>2, NoneAssumption DEF LocksMatchLabels
  <2> QED
    BY <2>1, <2>2, <2>3 DEF LocksMatchLabels
<1>8. ASSUME NEW w \in Worker, BeginAnalysis(w) PROVE LocksMatchLabels'
  <2>1. \A v \in Worker : pc'[v] = IF v = w THEN "analyzing" ELSE pc[v]
    BY <1>8 DEF BeginAnalysis, Goto, TypeOK
  <2>2. /\ UNCHANGED <<lease, cli>> /\ pc[w] = "leased" /\ runLock[ProjectOf(w)] = None
        /\ \A p \in Project : runLock'[p] = IF p = ProjectOf(w) THEN w ELSE runLock[p]
        /\ \A v \in Worker : ProjectOf(v)' = ProjectOf(v)
    BY <1>8 DEF BeginAnalysis, cliVars, ProjectOf, queueVars, TypeOK
  <2>3. \A v \in Worker : lease' = v <=> pc'[v] \in {"leased", "analyzing"}
    BY <2>1, <2>2 DEF LocksMatchLabels
  <2>4. \A v \in Worker, p \in Project :
            runLock'[p] = v <=> pc'[v] = "analyzing" /\ ProjectOf(v)' = p
    BY <2>1, <2>2, NoneAssumption DEF LocksMatchLabels
  <2>5. \A p \in Project : runLock'[p] = Cli <=> cli'[p] = "analyzing"
    BY <2>2, CliAssumption DEF LocksMatchLabels
  <2> QED
    BY <2>3, <2>4, <2>5 DEF LocksMatchLabels
<1>9. ASSUME NEW w \in Worker, BeginStage(w) PROVE LocksMatchLabels'
  BY <1>9, OthersKeepLocks DEF BeginStage, cliVars
<1>10. ASSUME NEW w \in Worker, Complete(w) \/ ObserveCancel(w) \/ FallShort(w)
       PROVE  LocksMatchLabels'
  BY <1>10, LeaveKeepsLocks DEF Complete, ObserveCancel, FallShort
<1>11. ASSUME NEW p \in Project, CliStart(p) \/ CliCancel(p) PROVE LocksMatchLabels'
  <2>1. \A q \in Project : cli'[q] = "analyzing" <=> cli[q] = "analyzing"
    BY <1>11 DEF CliStart, CliCancel, cliVars, TypeOK
  <2>2. UNCHANGED <<pc, job, lease, record, runLock>>
    BY <1>11 DEF CliStart, CliCancel, queueVars, workerVars
  <2> QED
    BY <2>1, <2>2 DEF LocksMatchLabels, ProjectOf
<1>12. ASSUME NEW p \in Project, CliBegin(p) \/ CliEnd(p) PROVE LocksMatchLabels'
  <2>1. UNCHANGED <<pc, job, lease, record>>
    BY <1>12 DEF CliBegin, CliEnd, queueVars, workerVars
  <2>2. \A q \in Project \ {p} : runLock'[q] = runLock[q] /\ cli'[q] = cli[q]
    BY <1>12 DEF CliBegin, CliEnd, TypeOK
  <2>3. /\ runLock[p] \in {None, Cli} /\ runLock'[p] \in {None, Cli}
        /\ runLock'[p] = Cli <=> cli'[p] = "analyzing"
    BY <1>12, CliAssumption DEF CliBegin, CliEnd, TypeOK, LocksMatchLabels
  <2>4. \A w \in Worker : runLock[p] # w /\ runLock'[p] # w
    BY <2>3, NoneAssumption, CliAssumption
  <2> QED
    BY <2>1, <2>2, <2>3, <2>4 DEF LocksMatchLabels, ProjectOf
<1>13. ASSUME Stopped \/ UNCHANGED vars PROVE LocksMatchLabels'
  BY <1>13, OthersKeepLocks DEF Stopped, vars, workerVars, cliVars
<1> QED
  BY <1>1, <1>2, <1>3, <1>4, <1>5, <1>6, <1>7, <1>8, <1>9, <1>10, <1>11, <1>12, <1>13
  DEF Next, Request, WorkerStep, Progress, CliStep

-----------------------------------------------------------------------------
(* Cancellation requests.                                                  *)

LEMMA NextKeepsRequestsAreMeant == IInv /\ [Next]_vars => RequestsAreMeant'
<1> SUFFICES ASSUME IInv, [Next]_vars PROVE RequestsAreMeant'
  OBVIOUS
<1> USE DEF IInv
<1>0. ASSUME UNCHANGED <<record, cancelFile, asked, job>>,
             \A w \in Worker : verdict'[w] = "cancelled" => verdict[w] = "cancelled"
      PROVE  RequestsAreMeant'
  BY <1>0
  DEF RequestsAreMeant, CancelledOnlyIfAsked, JobsWith, HasStatus
<1>1. ASSUME NEW S \in SUBSET Job, NEW status \in {"running", "interrupted"},
             \A j \in S : HasStatus(j, Unfinished),
             record' = Marked(S, status), UNCHANGED <<cancelFile, asked, verdict>>,
             \A w \in Worker : verdict[w] = "cancelled" => job'[w] = job[w]
      PROVE  RequestsAreMeant'
  <2>1. \A j \in Job : /\ j \notin S => record'[j] = record[j]
                       /\ j \in S => /\ record'[j].status = status
                                     /\ record'[j].project = record[j].project
    BY <1>1, MarkedStatus DEF HasStatus, Unfinished, Terminal
  <2>2. \A j \in S : record[j] # None /\ record[j].status \in Unfinished
    BY <1>1 DEF HasStatus
  <2> QED
    BY <1>1, <2>1, <2>2
    DEF RequestsAreMeant, CancelledOnlyIfAsked, JobsWith, HasStatus
<1>2. ASSUME Start PROVE RequestsAreMeant'
  BY <1>1, <1>2 DEF Start, JobsWith, history
<1>3. ASSUME Stop PROVE RequestsAreMeant'
  <2> DEFINE S == {k \in ToSet(pending) : HasStatus(k, {"queued"})}
  <2>1. record' = Marked(S, "interrupted") /\ S \subseteq Job
        /\ UNCHANGED <<cancelFile, asked, verdict, job>>
    BY <1>3 DEF Stop, TypeOK, ToSet, history
  <2>2. \A k \in S : HasStatus(k, Unfinished)
    BY DEF HasStatus, Unfinished
  <2> HIDE DEF S
  <2> QED
    BY <1>1, <2>1, <2>2
<1>4. ASSUME Crash PROVE RequestsAreMeant'
  <2>1. UNCHANGED <<record, cancelFile, asked>> /\ \A w \in Worker : verdict'[w] = None
    BY <1>4 DEF Crash, history
  <2>2. None # "cancelled"
    BY NoneAssumption DEF Terminal
  <2> QED
    BY <2>1, <2>2
    DEF RequestsAreMeant, CancelledOnlyIfAsked, JobsWith, HasStatus
<1>5. ASSUME NEW j \in Job, NEW p \in Project, Submit(j, p) PROVE RequestsAreMeant'
  <2>1. /\ cancelFile' = cancelFile \ {p} /\ UNCHANGED <<asked, verdict, job>>
        /\ \A k \in Job \ {j} : record'[k] = record[k]
        /\ record'[j].status = "queued" /\ record'[j].project = p
    BY <1>5 DEF Submit, history, TypeOK
  <2> QED
    BY <2>1
    DEF RequestsAreMeant, CancelledOnlyIfAsked, JobsWith, HasStatus
<1>6. ASSUME NEW j \in Job, CancelQueued(j) PROVE RequestsAreMeant'
  <2> DEFINE S == {j}
  <2>1. S \subseteq Job /\ record' = Marked(S, "cancelled") /\ \A k \in S : record[k] # None
    BY <1>6 DEF CancelQueued, HasStatus
  <2>2. \A k \in Job : /\ k \notin S => record'[k] = record[k]
                       /\ k \in S => record'[k].status = "cancelled"
    <3> HIDE DEF S
    <3> QED
      BY <2>1, MarkedStatus DEF Terminal
  <2>3. UNCHANGED <<cancelFile, verdict, job>> /\ asked' = asked \cup {j}
    BY <1>6 DEF CancelQueued, workerVars
  <2> QED
    BY <2>2, <2>3
    DEF RequestsAreMeant, CancelledOnlyIfAsked, JobsWith, HasStatus
<1>7. ASSUME NEW j \in Job, CancelRunning(j) PROVE RequestsAreMeant'
  <2>1. /\ UNCHANGED <<verdict, job>> /\ asked' = asked \cup {j}
        /\ cancelFile' = cancelFile \cup {record[j].project}
        /\ record[j] # None /\ record[j].status = "running" /\ service # "down"
        /\ \A k \in Job \ {j} : record'[k] = record[k]
    BY <1>7 DEF CancelRunning, workerVars, HasStatus, TypeOK
  <2>2. record[j].project \in Project
    BY <2>1 DEF TypeOK, Record
  <2>3. \A k \in Job : record[k] # None /\ record[k].status \in Unfinished
                       /\ record[k].project = record[j].project => k = j
    <3>1. active[record[j].project] = j
      BY <2>1, <2>2 DEF BusyMeansUnfinished, HasStatus, Unfinished
    <3>2. \A k \in Job : active[record[j].project] = k
                          <=> /\ record[k] # None /\ record[k].status \in Unfinished
                              /\ record[k].project = record[j].project
      BY <2>1, <2>2 DEF BusyMeansUnfinished, HasStatus
    <3> QED
      BY <3>1, <3>2
  <2>4. record'[j].status # "cancelled"
    <3>1. record'[j] = [record[j] EXCEPT !.cancel_requested = TRUE] /\ record[j] \in Record
      BY <1>7, <2>1 DEF CancelRunning, TypeOK
    <3> QED
      BY <2>1, <3>1 DEF Record
  <2> QED
    BY <2>1, <2>3, <2>4
    DEF RequestsAreMeant, CancelledOnlyIfAsked, JobsWith, HasStatus
<1>8. ASSUME NEW w \in Worker, Claim(w) PROVE RequestsAreMeant'
  <2> DEFINE S == {Head(pending)}
  <2>1. pending \in Seq(Job) /\ pending # <<>> /\ IsInjective(pending)
        /\ ToSet(pending) = JobsWith({"queued"})
    BY <1>8 DEF Claim, TypeOK, IdleIsEmpty, QueueMatchesRecords
  <2>2. Head(pending) \in JobsWith({"queued"})
    BY <2>1, TailIsInjective
  <2>3. S \subseteq Job /\ record' = Marked(S, "running")
        /\ \A i \in S : HasStatus(i, Unfinished)
    BY <1>8, <2>2 DEF Claim, JobsWith, HasStatus, Unfinished
  <2>4. verdict[w] # "cancelled"
    <3>1. job[w] = None
      BY <1>8 DEF Claim, HandsMatchLabels, Busy
    <3> QED
      BY <3>1, NoneAssumption DEF RequestsAreMeant, TypeOK
  <2>5. UNCHANGED <<cancelFile, asked, verdict>> /\ \A v \in Worker \ {w} : job'[v] = job[v]
    BY <1>8 DEF Claim, history, TypeOK
  <2> HIDE DEF S
  <2> QED
    BY <1>1, <2>3, <2>4, <2>5
<1>9. ASSUME NEW w \in Worker, ObserveCancel(w) PROVE RequestsAreMeant'
  <2>1. UNCHANGED <<record, cancelFile, asked, job>>
    BY <1>9 DEF ObserveCancel, Leave, queueVars, history
  <2>2. \A v \in Worker \ {w} : verdict'[v] = verdict[v]
    BY <1>9 DEF ObserveCancel, Leave, TypeOK
  <2>3. job[w] \in Job /\ service # "down"
    BY <1>9 DEF ObserveCancel, TypeOK, HandsMatchLabels, IdleIsEmpty, Busy
  <2>4. job[w] \in JobsWith(Unfinished) /\ record[job[w]].project \in cancelFile
    BY <1>9, <2>3 DEF ObserveCancel, ProjectOf, QueueMatchesRecords, JobsWith, HasStatus,
                      Unfinished
  <2>5. job[w] \in asked
    BY <2>4 DEF RequestsAreMeant
  <2> QED
    BY <2>1, <2>2, <2>5 DEF RequestsAreMeant, CancelledOnlyIfAsked, JobsWith, HasStatus
<1>10. ASSUME NEW w \in Worker, Complete(w) \/ FallShort(w) PROVE RequestsAreMeant'
  <2>1. UNCHANGED <<record, cancelFile, asked, job>>
    BY <1>10 DEF Complete, FallShort, Leave, queueVars, history
  <2>2. \A v \in Worker : verdict'[v] = "cancelled" => verdict[v] = "cancelled"
    BY <1>10 DEF Complete, FallShort, Leave, TypeOK
  <2> QED
    BY <1>0, <2>1, <2>2
<1>11. ASSUME NEW w \in Worker, Report(w) PROVE RequestsAreMeant'
  <2> DEFINE j == job[w]
  <2>1. j \in Job /\ verdict[w] \in Terminal
    BY <1>11 DEF Report, TypeOK, HandsMatchLabels, Busy
  <2>2. /\ record'[j].status = verdict[w] /\ \A k \in Job \ {j} : record'[k] = record[k]
        /\ UNCHANGED <<cancelFile, asked>>
    BY <1>11, <2>1 DEF Report, TypeOK, history
  <2>3. \A v \in Worker \ {w} : verdict'[v] = verdict[v] /\ job'[v] = job[v]
    BY <1>11 DEF Report, TypeOK
  <2>4. verdict'[w] # "cancelled"
    BY <1>11, NoneAssumption DEF Report, TypeOK, Terminal
  <2>5. verdict[w] = "cancelled" => j \in asked
    BY DEF RequestsAreMeant
  <2>6. verdict[w] \notin Unfinished
    BY <2>1 DEF Terminal, Unfinished
  <2> HIDE DEF j
  <2> QED
    BY <2>1, <2>2, <2>3, <2>4, <2>5, <2>6
    DEF RequestsAreMeant, CancelledOnlyIfAsked, JobsWith, HasStatus
<1>12. ASSUME NEW w \in Worker,
              Sleep(w) \/ Exit(w) \/ TakeLease(w) \/ BeginAnalysis(w) \/ BeginStage(w)
       PROVE  RequestsAreMeant'
  BY <1>0, <1>12 DEF Sleep, Exit, TakeLease, BeginAnalysis, BeginStage, queueVars, history
<1>13. ASSUME NEW p \in Project, CliStart(p) \/ CliBegin(p) \/ CliEnd(p)
       PROVE  RequestsAreMeant'
  <2>1. UNCHANGED <<record, verdict, job, asked>> /\ cancelFile' \subseteq cancelFile
    BY <1>13 DEF CliStart, CliBegin, CliEnd, queueVars, workerVars, history
  <2> QED
    BY <2>1
    DEF RequestsAreMeant, CancelledOnlyIfAsked, JobsWith, HasStatus
<1>14. ASSUME NEW p \in Project, CliCancel(p) PROVE RequestsAreMeant'
  <2>1. UNCHANGED <<record, verdict, job>> /\ cancelFile' = cancelFile \cup {p}
        /\ asked \subseteq asked'
    BY <1>14 DEF CliCancel, queueVars, workerVars
  <2>2. \A j \in Job : record[j] # None /\ record[j].status \in Unfinished
                       /\ record[j].project = p => j \in asked'
    BY <1>14 DEF CliCancel, JobsWith, HasStatus
  <2> QED
    BY <2>1, <2>2
    DEF RequestsAreMeant, CancelledOnlyIfAsked, JobsWith, HasStatus
<1>15. ASSUME Stopped \/ UNCHANGED vars PROVE RequestsAreMeant'
  BY <1>0, <1>15 DEF Stopped, vars, queueVars, workerVars, history
<1> QED
  BY <1>2, <1>3, <1>4, <1>5, <1>6, <1>7, <1>8, <1>9, <1>10, <1>11, <1>12, <1>13, <1>14,
     <1>15
  DEF Next, Request, WorkerStep, Progress, CliStep

-----------------------------------------------------------------------------
(* The theorems.                                                           *)

LEMMA InitEstablishesIInv == Init => IInv
<1> SUFFICES ASSUME Init PROVE IInv
  OBVIOUS
<1>1. TypeOK
  BY DEF Init, TypeOK
<1>2. HandsMatchLabels /\ IdleIsEmpty /\ QueueMatchesRecords /\ BusyMeansUnfinished
  BY DEF Init, HandsMatchLabels, IdleIsEmpty, QueueMatchesRecords, BusyMeansUnfinished, Busy
<1>3. LocksMatchLabels
  BY NoneAssumption, CliAssumption DEF Init, LocksMatchLabels
<1>4. RequestsAreMeant
  BY NoneAssumption
  DEF Init, RequestsAreMeant, CancelledOnlyIfAsked, JobsWith, HasStatus, Terminal
<1> QED
  BY <1>1, <1>2, <1>3, <1>4 DEF IInv

\* The types, the agreement of deque, records and hands, the locks and the
\* requests hold together in every reachable state.
THEOREM InductiveInvariant == Spec => []IInv
<1>1. IInv /\ [Next]_vars => IInv'
  BY NextKeepsTypeOK, NextKeepsHandsMatchLabels, NextKeepsIdleIsEmpty, NextKeepsQueue,
     NextKeepsLocksMatchLabels, NextKeepsRequestsAreMeant DEF IInv
<1> QED
  BY InitEstablishesIInv, <1>1, PTL DEF Spec

\* Every variable of the queue keeps its type.
THEOREM TypeCorrect == Spec => []TypeOK
BY InductiveInvariant, PTL DEF IInv

\* While a service runs, the deque holds exactly the queued jobs, once each and
\* at most Capacity of them, and each running job is in one worker's hands.
THEOREM QueueIsConsistent == Spec => []QueueMatchesRecords
BY InductiveInvariant, PTL DEF IInv

\* A project has at most one unfinished job and is busy exactly while it has.
THEOREM OneJobPerProject == Spec => []BusyMeansUnfinished
BY InductiveInvariant, PTL DEF IInv

\* No job ends as cancelled unless it was asked to after its submission.
THEOREM NoStaleCancellation == Spec => []CancelledOnlyIfAsked
BY InductiveInvariant, PTL DEF IInv, RequestsAreMeant

\* Any number of workers and command lines: the lease admits one analysis of
\* the service, the run lock one analysis of a project.
THEOREM Serialization == Spec => []AnalysesSerialize
<1>1. IInv => AnalysesSerialize
  <2> SUFFICES ASSUME IInv PROVE AnalysesSerialize
    OBVIOUS
  <2>1. ASSUME NEW w \in Worker, pc[w] = "analyzing" PROVE cli[ProjectOf(w)] # "analyzing"
    <3>1. job[w] \in Job /\ service # "down"
      BY <2>1 DEF IInv, TypeOK, HandsMatchLabels, IdleIsEmpty, Busy
    <3>2. record[job[w]] \in Record
      BY <3>1 DEF IInv, QueueMatchesRecords, HasStatus, TypeOK
    <3>3. ProjectOf(w) \in Project
      BY <3>2 DEF ProjectOf, Record
    <3>4. runLock[ProjectOf(w)] = w
      BY <2>1, <3>3 DEF IInv, LocksMatchLabels
    <3> QED
      BY <3>3, <3>4, CliAssumption DEF IInv, LocksMatchLabels
  <2> QED
    BY <2>1 DEF IInv, LocksMatchLabels, AnalysesSerialize
<1> QED
  BY <1>1, InductiveInvariant, PTL

\* The record of a settled job is never written again.
THEOREM OutcomesAreFinal == Spec => TerminalIsFinal
<1> DEFINE Final == \A j \in Job : HasStatus(j, Terminal) => record'[j] = record[j]
<1>1. IInv /\ [Next]_vars => Final
  BY NextKeepsRecords DEF HasStatus
<1>2. IInv /\ [Next]_vars => [Final]_vars
  BY <1>1
<1> QED
  BY <1>2, InductiveInvariant, PTL DEF Spec, TerminalIsFinal

\* A service that stops has no unfinished job left on disk.
THEOREM StopLeavesNoJobBehind == Spec => StopSettlesJobs
<1> DEFINE Settled == service = "stopping" /\ service' = "down" /\ crashes' = crashes
                        => JobsWith(Unfinished) = {}
<1>1. ASSUME IInv, [Next]_vars, service = "stopping", service' = "down", crashes' = crashes
      PROVE  JobsWith(Unfinished) = {}
  <2>1. Stopped
    <3>1. ~Crash
      BY <1>1 DEF Crash, IInv, TypeOK
    <3>2. ~Start /\ ~Stop
      BY <1>1 DEF Start, Stop
    <3>3. ~Request
      BY <1>1 DEF Request, Submit, CancelQueued, CancelRunning
    <3>4. \A w \in Worker : ~WorkerStep(w)
      BY <1>1 DEF WorkerStep, Progress, Sleep, Exit, Claim, TakeLease, BeginAnalysis,
                  BeginStage, Complete, ObserveCancel, FallShort, Leave, Report
    <3>5. \A p \in Project : ~CliStep(p)
      BY <1>1 DEF CliStep, CliStart, CliBegin, CliEnd, CliCancel
    <3>6. ~UNCHANGED vars
      BY <1>1 DEF vars
    <3> QED
      BY <1>1, <3>1, <3>2, <3>3, <3>4, <3>5, <3>6 DEF Next
  <2> QED
    BY <1>1, <2>1, NobodyIsUnfinished DEF Stopped
<1>2. IInv /\ [Next]_vars => [Settled]_vars
  BY <1>1
<1> QED
  BY <1>2, InductiveInvariant, PTL DEF Spec, StopSettlesJobs
=============================================================================
