------------------------------ MODULE JobQueue ------------------------------
(***************************************************************************)
(* src/tkd_poomsae/jobs.py: the bounded, durable queue of analysis jobs of *)
(* the local service, its worker threads, and the files it shares with the *)
(* command line: job records, the device lease, and each project's run     *)
(* lock and cancel.request.                                                *)
(*                                                                         *)
(* Pipeline.analyze is abstract here: it holds the project's run lock,     *)
(* looks at cancel.request before each of its Stages, and ends with a      *)
(* status.  A file write is atomic (_save replaces the file).              *)
(***************************************************************************)
EXTENDS Naturals, SequencesExt

CONSTANTS
    Project,    \* registered projects
    Job,        \* the identifiers uuid4 may yield
    Worker,     \* analysis threads of a service process
    Capacity,   \* jobs that may wait in the queue
    Stages,     \* stages an analysis goes through
    CliRuns,    \* bound: analyses started from the command line
    MaxCrashes, \* bound: abrupt ends of the service process
    None        \* no job, no record, nobody

ASSUME SizeAssumption ==
    /\ Capacity \in Nat \ {0}
    /\ Stages \in Nat \ {0}
    /\ CliRuns \in Nat
    /\ MaxCrashes \in Nat

Unfinished == {"queued", "running"}
Terminal == {"complete", "failed", "unavailable", "cancelled", "interrupted"}
Record == [project : Project, status : Unfinished \cup Terminal, cancel_requested : BOOLEAN]

ASSUME NoneAssumption ==
    /\ None \notin Job \cup Worker
    /\ None \notin Terminal /\ None \notin Record

Cli == "cli"    \* the command line, as a holder of a project's run lock

ASSUME CliAssumption == Cli \notin Worker \cup {None}

VARIABLES
    service,    \* phase of the process that holds service.lock
    record,     \* record[j]: job j's file under runs/service-jobs
    pending,    \* JobQueue.pending
    active,     \* active[p]: JobQueue.active of project p, or None
    pc,         \* pc[w]: where worker w is in _work
    job,        \* job[w]: the job it has taken
    verdict,    \* verdict[w]: status of its in-memory record
    left,       \* left[w]: stages its analysis has still to begin
    lease,      \* who has analysis-device.lock
    runLock,    \* runLock[p]: who has run.lock of project p
    cancelFile, \* the projects with a cancel.request file
    cli,        \* cli[p]: a command-line analysis of p
    cliRuns,    \* command-line analyses started so far
    crashes,    \* abrupt ends so far
    asked,      \* history: jobs somebody wanted cancelled since their submission
    owed        \* history: running jobs whose cancellation was accepted

queueVars == <<record, pending, active>>
workerVars == <<pc, job, verdict, left, lease>>
cliVars == <<cli, cliRuns>>
history == <<asked, owed>>
vars == <<service, queueVars, workerVars, runLock, cancelFile, cliVars, crashes, history>>

\* A worker with a job, from popleft to the final save.
Busy == {"claimed", "leased", "analyzing", "reporting"}

TypeOK ==
    /\ service \in {"down", "serving", "stopping"}
    /\ record \in [Job -> Record \cup {None}]
    /\ pending \in Seq(Job)
    /\ active \in [Project -> Job \cup {None}]
    /\ pc \in [Worker -> Busy \cup {"off", "ready", "asleep"}]
    /\ job \in [Worker -> Job \cup {None}]
    /\ verdict \in [Worker -> Terminal \cup {None}]
    /\ left \in [Worker -> 0..Stages]
    /\ lease \in Worker \cup {None}
    /\ runLock \in [Project -> Worker \cup {Cli, None}]
    /\ cancelFile \subseteq Project
    /\ cli \in [Project -> {"none", "waiting", "analyzing"}]
    /\ cliRuns \in 0..CliRuns
    /\ crashes \in 0..MaxCrashes
    /\ asked \subseteq Job /\ owed \subseteq Job

Init ==
    /\ service = "down"
    /\ record = [j \in Job |-> None]
    /\ pending = <<>>
    /\ active = [p \in Project |-> None]
    /\ pc = [w \in Worker |-> "off"]
    /\ job = [w \in Worker |-> None]
    /\ verdict = [w \in Worker |-> None]
    /\ left = [w \in Worker |-> 0]
    /\ lease = None
    /\ runLock = [p \in Project |-> None]
    /\ cancelFile = {}
    /\ cli = [p \in Project |-> "none"]
    /\ cliRuns = 0
    /\ crashes = 0
    /\ asked = {} /\ owed = {}

-----------------------------------------------------------------------------
(* Job records.                                                            *)

HasStatus(j, statuses) == record[j] # None /\ record[j].status \in statuses

\* The records of jobs in S with another status.
Marked(S, status) ==
    [j \in Job |-> IF j \in S THEN [record[j] EXCEPT !.status = status] ELSE record[j]]

JobsWith(statuses) == {j \in Job : HasStatus(j, statuses)}

\* The active jobs that remain once the jobs in S are popped.
Without(S) == [p \in Project |-> IF active[p] \in S THEN None ELSE active[p]]

-----------------------------------------------------------------------------
(* The life of the service process.                                        *)

\* Mutant: every record found on disk is marked, whatever its status.
StartMarkingAll ==
    /\ service = "down"
    /\ service' = "serving"
    /\ record' = Marked({j \in Job : record[j] # None}, "interrupted")
    /\ pc' = [w \in Worker |-> "ready"]
    /\ UNCHANGED <<pending, active, job, verdict, left, lease, runLock, cancelFile,
                   cliVars, crashes, history>>

\* start: service.lock is free, unfinished records of a dead service become
\* interrupted, and the workers are spawned.
Start ==
    /\ service = "down"
    /\ service' = "serving"
    /\ record' = Marked(JobsWith(Unfinished), "interrupted")
    /\ pc' = [w \in Worker |-> "ready"]
    /\ UNCHANGED <<pending, active, job, verdict, left, lease, runLock, cancelFile,
                   cliVars, crashes, history>>

\* Mutant: the workers are told to leave, the queue is not drained.
StopUndrained ==
    /\ service = "serving"
    /\ service' = "stopping"
    /\ pc' = [w \in Worker |-> IF pc[w] = "asleep" THEN "ready" ELSE pc[w]]
    /\ UNCHANGED <<queueVars, job, verdict, left, lease, runLock, cancelFile, cliVars,
                   crashes, history>>

\* stop, first half: drain the queue and wake every worker.
Stop ==
    /\ service = "serving"
    /\ service' = "stopping"
    /\ LET drained == {j \in ToSet(pending) : HasStatus(j, {"queued"})} IN
        /\ record' = Marked(drained, "interrupted")
        /\ active' = Without(drained)
    /\ pending' = <<>>
    /\ pc' = [w \in Worker |-> IF pc[w] = "asleep" THEN "ready" ELSE pc[w]]
    /\ UNCHANGED <<job, verdict, left, lease, runLock, cancelFile, cliVars, crashes,
                   history>>

\* stop, second half: the workers have been joined, the process ends.
Stopped ==
    /\ service = "stopping"
    /\ \A w \in Worker : pc[w] = "off"
    /\ service' = "down"
    /\ UNCHANGED <<queueVars, workerVars, runLock, cancelFile, cliVars, crashes, history>>

\* The process dies: its memory is gone and the kernel drops its locks.
Crash ==
    /\ service # "down"
    /\ crashes < MaxCrashes
    /\ crashes' = crashes + 1
    /\ service' = "down"
    /\ pending' = <<>>
    /\ active' = [p \in Project |-> None]
    /\ pc' = [w \in Worker |-> "off"]
    /\ job' = [w \in Worker |-> None]
    /\ verdict' = [w \in Worker |-> None]
    /\ left' = [w \in Worker |-> 0]
    /\ lease' = None
    /\ runLock' = [p \in Project |-> IF runLock[p] \in Worker THEN None ELSE runLock[p]]
    /\ UNCHANGED <<record, cancelFile, cliVars, history>>

-----------------------------------------------------------------------------
(* Requests, each under JobQueue.lock.                                     *)

\* Mutant: the submission forgets to notify.
NotifyNobody == UNCHANGED pc

\* notify wakes one waiting worker, if any waits.
Notify ==
    IF \E w \in Worker : pc[w] = "asleep"
    THEN \E w \in Worker : pc[w] = "asleep" /\ pc' = [pc EXCEPT ![w] = "ready"]
    ELSE UNCHANGED pc

\* Mutant: the cancel.request of the project's last run is left in place.
SubmitUnderOldRequest(j, p) ==
    /\ service = "serving"
    /\ record[j] = None
    /\ active[p] = None
    /\ Len(pending) < Capacity
    /\ record' = [record EXCEPT ![j] =
                    [project |-> p, status |-> "queued", cancel_requested |-> FALSE]]
    /\ active' = [active EXCEPT ![p] = j]
    /\ pending' = Append(pending, j)
    /\ Notify
    /\ UNCHANGED <<service, job, verdict, left, lease, runLock, cancelFile, cliVars,
                   crashes, history>>

\* uuid4 makes up an identifier j that no record has.
Submit(j, p) ==
    /\ service = "serving"
    /\ record[j] = None
    /\ active[p] = None                     \* else BusyProject
    /\ Len(pending) < Capacity              \* else QueueFull
    /\ cancelFile' = cancelFile \ {p}
    /\ record' = [record EXCEPT ![j] =
                    [project |-> p, status |-> "queued", cancel_requested |-> FALSE]]
    /\ active' = [active EXCEPT ![p] = j]
    /\ pending' = Append(pending, j)
    /\ Notify
    /\ UNCHANGED <<service, job, verdict, left, lease, runLock, cliVars, crashes, history>>

\* Mutant: the job is marked but stays in the deque.
CancelQueuedInPlace(j) ==
    /\ service = "serving"
    /\ HasStatus(j, {"queued"})
    /\ record' = Marked({j}, "cancelled")
    /\ active' = [active EXCEPT ![record[j].project] = None]
    /\ asked' = asked \cup {j}
    /\ UNCHANGED <<service, pending, workerVars, runLock, cancelFile, cliVars, crashes,
                   owed>>

CancelQueued(j) ==
    /\ service = "serving"
    /\ HasStatus(j, {"queued"})
    /\ \E i \in 1..Len(pending) : pending[i] = j /\ pending' = RemoveAt(pending, i)
    /\ record' = Marked({j}, "cancelled")
    /\ active' = [active EXCEPT ![record[j].project] = None]
    /\ asked' = asked \cup {j}
    /\ UNCHANGED <<service, workerVars, runLock, cancelFile, cliVars, crashes, owed>>

\* A running job is asked to stop through its project's cancel.request.
CancelRunning(j) ==
    /\ service = "serving"
    /\ HasStatus(j, {"running"})
    /\ cancelFile' = cancelFile \cup {record[j].project}
    /\ record' = [record EXCEPT ![j].cancel_requested = TRUE]
    /\ asked' = asked \cup {j}
    /\ owed' = owed \cup {j}
    /\ UNCHANGED <<service, pending, active, workerVars, runLock, cliVars, crashes>>

-----------------------------------------------------------------------------
(* The worker threads.                                                     *)

Goto(w, label) == pc' = [pc EXCEPT ![w] = label]

ProjectOf(w) == record[job[w]].project

\* The loop around ready.wait(): sleep, leave, or take the oldest job.
Sleep(w) ==
    /\ pc[w] = "ready"
    /\ pending = <<>> /\ service # "stopping"
    /\ Goto(w, "asleep")
    /\ UNCHANGED <<service, queueVars, job, verdict, left, lease, runLock, cancelFile,
                   cliVars, crashes, history>>

Exit(w) ==
    /\ pc[w] = "ready"
    /\ service = "stopping"
    /\ Goto(w, "off")
    /\ UNCHANGED <<service, queueVars, job, verdict, left, lease, runLock, cancelFile,
                   cliVars, crashes, history>>

Claim(w) ==
    /\ pc[w] = "ready"
    /\ pending # <<>> /\ service # "stopping"
    /\ Goto(w, "claimed")
    /\ job' = [job EXCEPT ![w] = Head(pending)]
    /\ pending' = Tail(pending)
    /\ record' = Marked({Head(pending)}, "running")
    /\ UNCHANGED <<service, active, verdict, left, lease, runLock, cancelFile, cliVars,
                   crashes, history>>

\* Mutant: the device lease is taken shared.
TakeLeaseShared(w) ==
    /\ pc[w] = "claimed"
    /\ lease' = w
    /\ Goto(w, "leased")
    /\ UNCHANGED <<service, queueVars, job, verdict, left, runLock, cancelFile, cliVars,
                   crashes, history>>

\* The device lease, taken without JobQueue.lock.
TakeLease(w) ==
    /\ pc[w] = "claimed"
    /\ lease = None
    /\ lease' = w
    /\ Goto(w, "leased")
    /\ UNCHANGED <<service, queueVars, job, verdict, left, runLock, cancelFile, cliVars,
                   crashes, history>>

\* analyze waits for the project's run lock; reset_cancellation is False.
BeginAnalysis(w) ==
    /\ pc[w] = "leased"
    /\ runLock[ProjectOf(w)] = None
    /\ runLock' = [runLock EXCEPT ![ProjectOf(w)] = w]
    /\ left' = [left EXCEPT ![w] = Stages]
    /\ Goto(w, "analyzing")
    /\ UNCHANGED <<service, queueVars, job, verdict, lease, cancelFile, cliVars, crashes,
                   history>>

\* Mutant: cancel.request is looked at before the stages that publish only.
BeginStageUnasked(w) ==
    /\ pc[w] = "analyzing"
    /\ left[w] > 0
    /\ left' = [left EXCEPT ![w] = @ - 1]
    /\ UNCHANGED <<service, queueVars, pc, job, verdict, lease, runLock, cancelFile,
                   cliVars, crashes, history>>

\* The next stage begins: there was no cancel.request when analyze looked.
BeginStage(w) ==
    /\ pc[w] = "analyzing"
    /\ left[w] > 0
    /\ ProjectOf(w) \notin cancelFile
    /\ left' = [left EXCEPT ![w] = @ - 1]
    /\ UNCHANGED <<service, queueVars, pc, job, verdict, lease, runLock, cancelFile,
                   cliVars, crashes, history>>

\* analyze returned or raised: both files are unlocked on the way out.
Leave(w, status) ==
    /\ Goto(w, "reporting")
    /\ verdict' = [verdict EXCEPT ![w] = status]
    /\ left' = [left EXCEPT ![w] = 0]
    /\ lease' = None
    /\ runLock' = [p \in Project |-> IF runLock[p] = w THEN None ELSE runLock[p]]
    /\ UNCHANGED <<service, queueVars, job, cancelFile, cliVars, crashes, history>>

\* Every required stage has begun and completed.
Complete(w) ==
    /\ pc[w] = "analyzing"
    /\ left[w] = 0
    /\ Leave(w, "complete")

\* RunCancelled, raised where analyze looks at cancel.request.
ObserveCancel(w) ==
    /\ pc[w] = "analyzing"
    /\ ProjectOf(w) \in cancelFile
    /\ Leave(w, "cancelled")

\* A required stage failed or was unavailable (the stages behind it are then
\* skipped), or analyze raised anything else, before or under the run lock.
FallShort(w) ==
    /\ pc[w] \in {"leased", "analyzing"}
    /\ \/ pc[w] = "analyzing" /\ Leave(w, "unavailable")
       \/ Leave(w, "failed")

\* The finally of _work saves the record read when the job was claimed.
Report(w) ==
    /\ pc[w] = "reporting"
    /\ record' = [record EXCEPT ![job[w]] =
                    [project |-> @.project, status |-> verdict[w],
                     cancel_requested |-> FALSE]]
    /\ active' = Without({job[w]})
    /\ job' = [job EXCEPT ![w] = None]
    /\ verdict' = [verdict EXCEPT ![w] = None]
    /\ Goto(w, "ready")
    /\ UNCHANGED <<service, pending, left, lease, runLock, cancelFile, cliVars, crashes,
                   history>>

-----------------------------------------------------------------------------
(* The command line: another process, with no part in the queue.           *)

\* tkd-poomsae analyze: wait for the run lock, then forget old requests.
CliStart(p) ==
    /\ cli[p] = "none"
    /\ cliRuns < CliRuns
    /\ cliRuns' = cliRuns + 1
    /\ cli' = [cli EXCEPT ![p] = "waiting"]
    /\ UNCHANGED <<service, queueVars, workerVars, runLock, cancelFile, crashes,
                   history>>

CliBegin(p) ==
    /\ cli[p] = "waiting"
    /\ runLock[p] = None
    /\ runLock' = [runLock EXCEPT ![p] = Cli]
    /\ cancelFile' = cancelFile \ {p}
    /\ cli' = [cli EXCEPT ![p] = "analyzing"]
    /\ UNCHANGED <<service, queueVars, workerVars, cliRuns, crashes, history>>

\* It ends when all stages are through, on a request, on a failure, or killed.
CliEnd(p) ==
    /\ cli[p] = "analyzing"
    /\ cli' = [cli EXCEPT ![p] = "none"]
    /\ runLock' = [runLock EXCEPT ![p] = None]
    /\ UNCHANGED <<service, queueVars, workerVars, cancelFile, cliRuns, crashes, history>>

\* tkd-poomsae cancel: touch the file; whoever analyzes p is meant.
CliCancel(p) ==
    /\ cancelFile' = cancelFile \cup {p}
    /\ asked' = asked \cup {j \in JobsWith(Unfinished) : record[j].project = p}
    /\ UNCHANGED <<service, queueVars, workerVars, runLock, cliVars, crashes, owed>>

-----------------------------------------------------------------------------

\* What a scheduled worker thread does of itself; failures are not owed.
Progress(w) ==
    \/ Sleep(w) \/ Exit(w) \/ Claim(w)
    \/ TakeLease(w) \/ BeginAnalysis(w) \/ BeginStage(w)
    \/ Complete(w) \/ ObserveCancel(w) \/ Report(w)

WorkerStep(w) == Progress(w) \/ FallShort(w)

CliStep(p) == CliStart(p) \/ CliBegin(p) \/ CliEnd(p) \/ CliCancel(p)

Request ==
    \E j \in Job :
        (\E p \in Project : Submit(j, p)) \/ CancelQueued(j) \/ CancelRunning(j)

Next ==
    \/ Start \/ Stop \/ Stopped \/ Crash
    \/ Request
    \/ \E w \in Worker : WorkerStep(w)
    \/ \E p \in Project : CliStep(p)

\* Threads are scheduled, flock is granted to a waiter once it stays free,
\* producers return, and a command-line analysis that began ends.  Nothing
\* makes anybody submit, cancel, start, stop, fail or crash.
Fairness ==
    /\ \A w \in Worker : WF_vars(Progress(w))
    /\ \A p \in Project : WF_vars(CliEnd(p))
    /\ WF_vars(Stopped)

Spec == Init /\ [][Next]_vars /\ Fairness

-----------------------------------------------------------------------------
(* Properties.                                                             *)

\* The job records on disk, the deque, and the workers' hands agree: exactly
\* the queued jobs wait, once each and never more than Capacity of them, and
\* exactly the running ones are in the hands of one worker.  In particular a
\* restarted service never shows a job of its predecessor as unfinished.
QueueMatchesRecords ==
    service # "down" =>
        /\ ToSet(pending) = JobsWith({"queued"})
        /\ IsInjective(pending) /\ Len(pending) <= Capacity
        /\ \A j \in JobsWith({"running"}) : \E w \in Worker : job[w] = j
        /\ \A v, w \in Worker : job[v] = job[w] /\ job[v] # None => v = w
        /\ \A w \in Worker : job[w] # None => HasStatus(job[w], {"running"})

\* One job per project can be pending or active, and a project is refused as
\* busy exactly while it has an unfinished job: none is locked out for good.
BusyMeansUnfinished ==
    service # "down" =>
        \A p \in Project : \A j \in Job :
            active[p] = j <=> HasStatus(j, Unfinished) /\ record[j].project = p

\* The device lease serializes the service's analyses whatever the number of
\* workers, and the run lock keeps them apart from the command line's.
AnalysesSerialize ==
    /\ \A v, w \in Worker : pc[v] \in {"leased", "analyzing"}
                            /\ pc[w] \in {"leased", "analyzing"} => v = w
    /\ \A w \in Worker : pc[w] = "analyzing" => cli[ProjectOf(w)] # "analyzing"

\* An outcome a client may have read is never revised: not by a late worker,
\* by a cancellation that lost the race, or by the recovery of a restart.
TerminalIsFinal ==
    [][\A j \in Job : HasStatus(j, Terminal) => record'[j] = record[j]]_vars

\* A service that was stopped, not killed, leaves no unfinished job behind.
StopSettlesJobs ==
    [][service = "stopping" /\ service' = "down" /\ crashes' = crashes
        => JobsWith(Unfinished) = {}]_vars

\* A job is cancelled only if somebody asked after it was submitted: the
\* cancel.request of an earlier run never stops a later one.
CancelledOnlyIfAsked == \A j \in Job : HasStatus(j, {"cancelled"}) => j \in asked

\* Once the cancellation of a running job was accepted, none of its stages
\* begins any more.
StopsAfterCancel ==
    [][\A w \in Worker :
            left'[w] < left[w] /\ pc'[w] = "analyzing" => job[w] \notin owed]_vars

\* No accepted job is forgotten: it reaches an outcome, unless the service
\* goes down first.  No wake-up is lost and no lock order deadlocks.
JobsSettle ==
    \A j \in Job : HasStatus(j, Unfinished) ~> (HasStatus(j, Terminal) \/ service = "down")

-----------------------------------------------------------------------------
(* What makes the invariants inductive.                                    *)

\* A worker has a job from popleft to the final save, and a verdict last.
HandsMatchLabels ==
    \A w \in Worker :
        /\ job[w] # None <=> pc[w] \in Busy
        /\ pc[w] = "reporting" => verdict[w] # None

\* Memory is empty when no service runs, the deque once it stops.
IdleIsEmpty ==
    /\ service # "serving" => pending = <<>>
    /\ service = "down" => /\ \A w \in Worker : pc[w] = "off"
                           /\ \A p \in Project : active[p] = None

LocksMatchLabels ==
    /\ \A w \in Worker : lease = w <=> pc[w] \in {"leased", "analyzing"}
    /\ \A w \in Worker, p \in Project :
            runLock[p] = w <=> pc[w] = "analyzing" /\ ProjectOf(w) = p
    /\ \A p \in Project : runLock[p] = Cli <=> cli[p] = "analyzing"

\* A cancel.request that an unfinished job may meet was meant for it.
RequestsAreMeant ==
    /\ \A j \in JobsWith(Unfinished) : record[j].project \in cancelFile => j \in asked
    /\ \A w \in Worker : verdict[w] = "cancelled" => job[w] \in asked
    /\ CancelledOnlyIfAsked

IInv ==
    /\ TypeOK
    /\ HandsMatchLabels
    /\ IdleIsEmpty
    /\ QueueMatchesRecords
    /\ BusyMeansUnfinished
    /\ LocksMatchLabels
    /\ RequestsAreMeant
=============================================================================
