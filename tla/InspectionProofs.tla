--------------------------- MODULE InspectionProofs ---------------------------
(***************************************************************************)
(* For any clients, offsets, edits and deaths: what the inspection index   *)
(* answers is current, of one clock for ever and never behind what a       *)
(* client was told.  A step of a client c changes what c has in hand, and  *)
(* either leaves the index alone or is alone with it.                      *)
(***************************************************************************)
EXTENDS Inspection, TLAPS

\* The parts of the state that no client has in hand, all but bindings.
shared == <<clock, manual, made, index, revision, told, shown, edits>>

InHand(c) == Verified(c) /\ Edited(c) /\ Opened(c)

LEMMA InitIsSound == Init => IInv
<1> SUFFICES ASSUME Init PROVE IInv
  OBVIOUS
<1> USE InspectionAssumption
<1>1. clock \in Clock /\ made \subseteq Sync
  BY DEF Init, Clock, Sync, Count
<1>2. TypeOK
  BY <1>1 DEF Init, TypeOK, Label
<1>3. LocksMatchLabels /\ SeenIsRecords
  BY DEF Init, LocksMatchLabels, SeenIsRecords, Owning, Reading, Nothing
<1>4. HistoryIsBound
  BY DEF Init, HistoryIsBound
<1>5. \A c \in Client : InHand(c)
  BY DEF Init, InHand, Verified, Edited, Opened, Reading
<1> QED
  BY <1>2, <1>3, <1>4, <1>5 DEF Init, IInv, InHand

\* Where nothing is indexed, bound, revised or told, hands stay sound.
LEMMA HandIsKept ==
    ASSUME IInv, NEW d \in Client, pc'[d] = pc[d], seen'[d] = seen[d],
           UNCHANGED <<manual, index, bindings, revision, told>>
    PROVE  InHand(d)'
<1>1. InHand(d)
  BY DEF IInv, InHand
<1>2. PICK i : i = index
  OBVIOUS
<1>3. Whole(i) => Whole(i)'
  BY DEF Whole, IsBound
<1>4. Verified(d)'
  BY <1>1 DEF InHand, Verified
<1>5. Edited(d)'
  BY <1>1, <1>2, <1>3 DEF InHand, Edited, Whole, IsBound
<1>6. Opened(d)'
  BY <1>1, <1>2, <1>3 DEF InHand, Opened, Whole, IsBound
<1> QED
  BY <1>4, <1>5, <1>6 DEF InHand

\* A client that is done has nothing in hand and no lease.
LEMMA LeaveIsSound ==
    ASSUME IInv, NEW c \in Client, Leave(c)
    PROVE  /\ LocksMatchLabels' /\ SeenIsRecords'
           /\ pc' \in [Client -> Label] /\ sharers' \subseteq Client
           /\ owner' \in Client \cup {None}
           /\ InHand(c)'
           /\ \A d \in Client \ {c} : pc'[d] = pc[d] /\ seen'[d] = seen[d]
<1> USE DEF IInv, TypeOK
<1>1. pc' \in [Client -> Label] /\ pc'[c] = "idle"
  BY DEF Leave, Goto, Label
<1>2. \A d \in Client \ {c} : pc'[d] = pc[d] /\ seen'[d] = seen[d]
  BY DEF Leave, Goto, SeenIsRecords
<1>3. seen'[c] = Nothing
  BY DEF Leave, SeenIsRecords
<1>4. SeenIsRecords'
  BY <1>2, <1>3 DEF Leave, SeenIsRecords, Nothing
<1>5. LocksMatchLabels'
  BY <1>1, <1>2 DEF Leave, LocksMatchLabels, Owning, Reading
<1>6. InHand(c)'
  BY <1>1 DEF InHand, Verified, Edited, Opened, Reading
<1> QED
  BY <1>1, <1>2, <1>4, <1>5, <1>6 DEF Leave

LEMMA LeaveKeeps ==
    ASSUME IInv, NEW c \in Client, Leave(c), UNCHANGED <<shared, bindings>>, deaths' \in Nat
    PROVE  IInv'
<1>1. TypeOK'
  BY LeaveIsSound DEF IInv, TypeOK, shared
<1>2. (index # None => Whole(index))' /\ HistoryIsBound'
  BY DEF IInv, shared, Whole, IsBound, HistoryIsBound
<1>3. \A d \in Client : InHand(d)'
  <2> SUFFICES ASSUME NEW d \in Client PROVE InHand(d)'
    OBVIOUS
  <2> QED
    BY LeaveIsSound, HandIsKept DEF shared
<1> QED
  BY <1>1, <1>2, <1>3, LeaveIsSound DEF IInv, InHand

-----------------------------------------------------------------------------
(* The project moves on.                                                   *)

LEMMA AdvanceKeeps ==
    ASSUME IInv, NEW o \in Offset \cup {None}, NEW c \in Clock, Advance(o, c),
           o = manual \/ sharers = {}
    PROVE  IInv'
<1> USE DEF Advance, lock, database, history
<1>1. TypeOK'
  BY DEF IInv, TypeOK, Sync, Clock
<1>2. LocksMatchLabels' /\ SeenIsRecords'
  BY DEF IInv, LocksMatchLabels, SeenIsRecords
<1>3. (index # None => Whole(index))' /\ HistoryIsBound'
  BY DEF IInv, Whole, IsBound, HistoryIsBound
<1>4. ASSUME NEW d \in Client PROVE InHand(d)'
  <2>1. InHand(d) /\ (pc[d] \in Reading => manual' = manual)
    BY DEF IInv, InHand, LocksMatchLabels
  <2>2. Whole(index) => Whole(index)'
    BY DEF Whole, IsBound
  <2> QED
    BY <2>1, <2>2 DEF InHand, Verified, Edited, Opened, Reading
<1> QED
  BY <1>1, <1>2, <1>3, <1>4 DEF IInv, InHand

LEMMA ProjectStepKeeps == IInv /\ ProjectStep => IInv'
<1> SUFFICES ASSUME IInv, ProjectStep PROVE IInv'
  OBVIOUS
<1> USE DEF IInv, TypeOK
<1>1. ASSUME NEW o \in Offset, ReviseOffset(o) PROVE IInv'
  <2>1. clock' \in Clock /\ sharers = {} /\ Advance(o, clock')
    BY <1>1, InspectionAssumption DEF ReviseOffset, Free, Advance, Clock, Count
  <2> QED
    BY <2>1, AdvanceKeeps
<1>2. ASSUME RerunSync PROVE IInv'
  <2>1. clock' \in Clock /\ sharers = {} /\ Advance(manual, clock')
    BY <1>2, InspectionAssumption DEF RerunSync, Free, Advance, Clock, Count
  <2> QED
    BY <2>1, AdvanceKeeps
<1>3. ASSUME EditSource PROVE IInv'
  <2>1. clock' \in Clock /\ Advance(manual, clock')
    BY <1>3, InspectionAssumption DEF EditSource, Advance, Clock, Count
  <2> QED
    BY <2>1, AdvanceKeeps
<1> QED
  BY <1>1, <1>2, <1>3 DEF ProjectStep

-----------------------------------------------------------------------------
(* Steps of a client that leave the index and what was told alone.         *)

LEMMA TakeKeeps ==
    ASSUME IInv, NEW c \in Client, NEW label \in Label, Goto(c, label),
           SeenIsRecords', \A d \in Client \ {c} : seen'[d] = seen[d],
           sharers' \subseteq Client, owner' \in Client \cup {None}, LocksMatchLabels',
           UNCHANGED <<shared, bindings, deaths>>, InHand(c)'
    PROVE  IInv'
<1>1. TypeOK'
  BY DEF IInv, TypeOK, shared, Goto
<1>2. (index # None => Whole(index))' /\ HistoryIsBound'
  BY DEF IInv, shared, Whole, IsBound, HistoryIsBound
<1>3. ASSUME NEW d \in Client \ {c} PROVE InHand(d)'
  <2>1. pc'[d] = pc[d]
    BY DEF Goto, IInv, TypeOK
  <2> QED
    BY <2>1, HandIsKept DEF shared
<1> QED
  BY <1>1, <1>2, <1>3 DEF IInv, InHand

LEMMA RegisterBeginKeeps ==
    ASSUME IInv, NEW c \in Client, NEW s \in made, NEW timed \in {None} \cup made,
           RegisterBegin(c, s, timed)
    PROVE  IInv'
<1> USE DEF RegisterBegin
<1>1. seen'[c] = [index |-> None, clock |-> clock, asked |-> [sync |-> s, timed |-> timed]]
  BY DEF IInv, SeenIsRecords, Nothing
<1>2. SeenIsRecords' /\ \A d \in Client \ {c} : seen'[d] = seen[d]
  BY <1>1 DEF IInv, SeenIsRecords
<1>3. LocksMatchLabels'
  BY InspectionAssumption
  DEF IInv, TypeOK, LocksMatchLabels, Free, Goto, Owning, Reading
<1>4. InHand(c)'
  BY <1>1 DEF IInv, TypeOK, InHand, Verified, Edited, Opened, Reading, Goto
<1> QED
  BY <1>2, <1>3, <1>4, TakeKeeps
  DEF IInv, TypeOK, Label, Owning, shared, project, database, history

LEMMA EditBeginKeeps ==
    ASSUME IInv, NEW c \in Client, EditBegin(c)
    PROVE  IInv'
<1> USE DEF EditBegin
<1>1. SeenIsRecords' /\ \A d \in Client \ {c} : seen'[d] = seen[d]
  BY DEF IInv, SeenIsRecords, Nothing
<1>2. LocksMatchLabels'
  BY InspectionAssumption
  DEF IInv, TypeOK, LocksMatchLabels, Free, Goto, Owning, Reading
<1>3. Whole(index)'
  BY DEF IInv, Whole, IsBound, database
<1>4. InHand(c)'
  BY <1>3 DEF IInv, TypeOK, InHand, Verified, Edited, Opened, Reading, Goto, database
<1> QED
  BY <1>1, <1>2, <1>4, TakeKeeps
  DEF IInv, TypeOK, Label, Owning, shared, project, database, history

LEMMA OpenKeeps ==
    ASSUME IInv, NEW c \in Client, NEW product \in {"semantics", "observations"},
           Open(c, product)
    PROVE  IInv'
<1> USE DEF Open
<1>1. seen'[c] = [index |-> index, clock |-> clock, asked |-> [product |-> product]]
  BY DEF IInv, SeenIsRecords
<1>2. SeenIsRecords' /\ \A d \in Client \ {c} : seen'[d] = seen[d]
  BY <1>1 DEF IInv, SeenIsRecords
<1>3. LocksMatchLabels'
  BY InspectionAssumption DEF IInv, TypeOK, LocksMatchLabels, Goto, Owning, Reading
<1>4. Whole(index) /\ Whole(index)'
  BY DEF IInv, Whole, IsBound, database
<1>5. index.timed # None => told[index.timed] <= index.edit
  BY <1>4 DEF IInv, TypeOK, HistoryIsBound, Stale, Whole, Index
<1>6. InHand(c)'
  BY <1>1, <1>4, <1>5
  DEF IInv, TypeOK, InHand, Verified, Edited, Opened, Reading, Goto, database, history
<1> QED
  BY <1>2, <1>3, <1>6, TakeKeeps
  DEF IInv, TypeOK, Label, Reading, shared, project, database, history

LEMMA ReadRowsKeeps ==
    ASSUME IInv, NEW c \in Client, ReadRows(c)
    PROVE  IInv'
<1> USE DEF ReadRows
<1>1. seen'[c] = [index |-> seen[c].index, clock |-> seen[c].clock, asked |-> seen'[c].asked]
  BY DEF IInv, SeenIsRecords
<1>2. SeenIsRecords' /\ \A d \in Client \ {c} : seen'[d] = seen[d]
  BY <1>1 DEF IInv, SeenIsRecords
<1>3. LocksMatchLabels'
  BY DEF IInv, TypeOK, LocksMatchLabels, Goto, Owning, Reading, lock
<1>4. Whole(index)' /\ Opened(c) /\ seen[c].index = index
  BY DEF IInv, Whole, IsBound, database, Opened, Reading
<1>5. InHand(c)'
  <2>1. Verified(c)' /\ Edited(c)'
    BY DEF IInv, TypeOK, Verified, Edited, Goto
  <2>2. seen'[c].asked =
            [product |-> seen[c].asked.product,
             of |-> IF seen[c].asked.product = "semantics" THEN index.timed ELSE index.sync,
             clock |-> seen[c].clock, edit |-> index.edit, rows |-> index.rows,
             offset |-> Effective(manual, OffsetIn(index.sync))]
    BY <1>4 DEF IInv, SeenIsRecords
  <2>3. Opened(c)'
    BY <1>1, <1>4, <2>2
    DEF IInv, TypeOK, Opened, Reading, Goto, Available, IsCurrent, database, history, project
  <2> QED
    BY <2>1, <2>3 DEF InHand
<1> QED
  BY <1>2, <1>3, <1>5, TakeKeeps
  DEF IInv, TypeOK, Label, Reading, shared, project, lock, database, history

-----------------------------------------------------------------------------
(* Steps of a client that is alone with the index.                         *)

\* While a client owns the project no other one has the index in hand.
LEMMA OthersAreIdle ==
    ASSUME IInv, NEW c \in Client, pc[c] \in Owning, NEW d \in Client \ {c}
    PROVE  pc[d] = "idle"
BY InspectionAssumption DEF IInv, TypeOK, LocksMatchLabels, Label

\* What others have in hand when they are idle.
LEMMA IdleHand ==
    ASSUME IInv, NEW d \in Client, pc'[d] = "idle"
    PROVE  InHand(d)'
BY DEF InHand, Verified, Edited, Opened, Reading

LEMMA RegisterIndexKeeps ==
    ASSUME IInv, NEW c \in Client, RegisterIndex(c)
    PROVE  IInv'
<1> DEFINE timed == seen[c].asked.timed
<1> USE DEF RegisterIndex
<1>1. /\ timed \in Sync \cup {None} /\ seen[c].asked.sync \in Sync /\ pc[c] \in Owning
      /\ index' = [sync |-> seen[c].asked.sync, timed |-> timed, clock |-> clock,
                   edit |-> 0, rows |-> 0]
  BY DEF IInv, Verified, Owning
<1>2. index' \in Index /\ \A s \in Sync : revision[s] \in Nat
  BY <1>1 DEF IInv, TypeOK, Index
<1>3. /\ \A s \in DOMAIN bindings : s \in DOMAIN bindings' /\ bindings'[s] = bindings[s]
      /\ timed # None => timed \in DOMAIN bindings' /\ bindings'[timed] = clock
  BY DEF Bound, Bindable
<1>4. Whole(index)'
  BY <1>1, <1>2, <1>3 DEF Whole, IsBound
<1>5. HistoryIsBound'
  BY <1>3 DEF IInv, HistoryIsBound, IsBound, history
<1>6. \A d \in Client \ {c} : pc[d] = "idle"
  BY <1>1, OthersAreIdle
<1>7. CASE timed = None
  <2>1. Leave(c)
    BY <1>7
  <2>2. TypeOK'
    BY <1>2, <2>1, LeaveIsSound DEF IInv, TypeOK, project, history
  <2>3. \A d \in Client : InHand(d)'
    BY <1>6, <2>1, LeaveIsSound, IdleHand
  <2> QED
    BY <1>4, <1>5, <2>1, <2>2, <2>3, LeaveIsSound DEF IInv, InHand
<1>8. CASE timed # None
  <2>1. Goto(c, "indexed") /\ UNCHANGED <<seen, lock>>
    BY <1>8
  <2>2. TypeOK'
    BY <1>2, <2>1 DEF IInv, TypeOK, project, history, lock, Goto, Label, Owning
  <2>3. LocksMatchLabels' /\ SeenIsRecords'
    BY <2>1 DEF IInv, TypeOK, LocksMatchLabels, SeenIsRecords, lock, Goto, Owning, Reading
  <2>4. InHand(c)'
    BY <1>1, <1>4, <1>8, <2>1
    DEF IInv, TypeOK, InHand, Verified, Edited, Opened, Goto, Reading
  <2>5. \A d \in Client \ {c} : InHand(d)'
    BY <1>6, <2>1, IdleHand DEF Goto, IInv, TypeOK
  <2> QED
    BY <1>4, <1>5, <2>2, <2>3, <2>4, <2>5 DEF IInv, InHand
<1> QED
  BY <1>7, <1>8

LEMMA RegisterEditsKeeps ==
    ASSUME IInv, NEW c \in Client, RegisterEdits(c)
    PROVE  IInv'
<1> USE DEF RegisterEdits
<1>1. Whole(index) /\ index.timed # None /\ pc[c] \in Owning
  BY DEF IInv, Edited, Owning
<1>2. revision[index.timed] \in Nat
  BY <1>1 DEF IInv, TypeOK, Whole, Index
<1>3. index' \in Index /\ Whole(index)'
  <2>1. /\ index' = [sync |-> index.sync, timed |-> index.timed, clock |-> index.clock,
                     edit |-> revision[index.timed], rows |-> revision[index.timed]]
        /\ index.sync \in Sync /\ index.timed \in Sync \cup {None} /\ index.clock \in Clock
    BY <1>1 DEF Whole, Index
  <2>2. index' \in Index
    BY <1>2, <2>1 DEF Index
  <2> QED
    BY <1>1, <1>2, <2>1, <2>2 DEF Whole, IsBound
<1>4. TypeOK' /\ HistoryIsBound'
  BY <1>3, LeaveIsSound DEF IInv, TypeOK, HistoryIsBound, IsBound, project, history
<1>5. \A d \in Client : InHand(d)'
  BY <1>1, OthersAreIdle, LeaveIsSound, IdleHand
<1> QED
  BY <1>3, <1>4, <1>5, LeaveIsSound DEF IInv, InHand

LEMMA EditIndexKeeps ==
    ASSUME IInv, NEW c \in Client, EditIndex(c)
    PROVE  IInv'
<1> DEFINE edit == seen[c].asked.edit
<1> USE DEF EditIndex
<1>1. /\ Whole(index) /\ index.timed # None /\ pc[c] \in Owning
      /\ edit \in Nat /\ edit <= revision[index.timed]
  BY DEF IInv, Edited, Owning
<1>2. index' \in Index /\ Whole(index)'
  BY <1>1 DEF Whole, Index, IsBound
<1>3. /\ told' \in [Sync -> Nat] /\ \A s \in Sync : told'[s] <= revision[s]
  BY <1>1 DEF IInv, TypeOK, HistoryIsBound, Whole, Index
<1>4. TypeOK' /\ HistoryIsBound'
  BY <1>2, <1>3, LeaveIsSound DEF IInv, TypeOK, HistoryIsBound, IsBound, project
<1>5. \A d \in Client : InHand(d)'
  BY <1>1, OthersAreIdle, LeaveIsSound, IdleHand
<1> QED
  BY <1>2, <1>4, <1>5, LeaveIsSound DEF IInv, InHand

-----------------------------------------------------------------------------
(* Edits: the sessions' revisions only grow.                               *)

\* A command that the session accepts leaves hands and index as they are.
LEMMA AcceptIsSound ==
    ASSUME IInv, NEW s \in Sync, Accept(s), UNCHANGED <<bindings, index, told, shown>>
    PROVE  /\ revision' \in [Sync -> Nat] /\ edits' \in Nat
           /\ revision'[s] = revision[s] + 1
           /\ \A t \in Sync : revision[t] <= revision'[t]
           /\ Whole(index) => Whole(index)'
           /\ HistoryIsBound'
           /\ \A d \in Client : pc'[d] = pc[d] /\ seen'[d] = seen[d] /\ manual' = manual => InHand(d)'
<1> USE DEF IInv, TypeOK, Accept
<1>1. revision' \in [Sync -> Nat] /\ edits' \in Nat /\ revision'[s] = revision[s] + 1
  OBVIOUS
<1>2. \A t \in Sync : revision[t] <= revision'[t]
  BY <1>1
<1>3. Whole(index) => Whole(index)'
  BY <1>1, <1>2 DEF Whole, IsBound, Index
<1>4. HistoryIsBound'
  BY <1>1, <1>2 DEF HistoryIsBound, IsBound
<1>5. ASSUME NEW d \in Client, pc'[d] = pc[d], seen'[d] = seen[d], manual' = manual
      PROVE  InHand(d)'
  <2>1. InHand(d)
    BY DEF InHand
  <2>2. Verified(d)' /\ Opened(d)'
    BY <1>3, <1>5, <2>1 DEF InHand, Verified, Opened
  <2>3. Edited(d)'
    BY <1>1, <1>2, <1>3, <1>5, <2>1 DEF InHand, Edited, Whole, Index
  <2> QED
    BY <2>2, <2>3 DEF InHand
<1> QED
  BY <1>1, <1>2, <1>3, <1>4, <1>5

LEMMA CliEditKeeps ==
    ASSUME IInv, NEW s \in made, CliEdit(s)
    PROVE  IInv'
<1> USE DEF CliEdit, project, lock, database, history
<1>1. s \in Sync /\ Accept(s) /\ UNCHANGED <<bindings, index, told, shown, pc, seen, manual>>
  BY DEF IInv, TypeOK
<1>2. TypeOK' /\ LocksMatchLabels' /\ SeenIsRecords'
  BY <1>1, AcceptIsSound DEF IInv, TypeOK, LocksMatchLabels, SeenIsRecords
<1> QED
  BY <1>1, <1>2, AcceptIsSound DEF IInv, InHand

LEMMA EditCommitKeeps ==
    ASSUME IInv, NEW c \in Client, EditCommit(c)
    PROVE  IInv'
<1> USE DEF EditCommit, project, lock, database, history
<1>1. Whole(index) /\ index.timed # None /\ index.timed \in Sync /\ pc[c] \in Owning
  BY DEF IInv, Edited, Owning, Whole, Index
<1>2. /\ revision' \in [Sync -> Nat] /\ edits' \in Nat /\ Whole(index)' /\ HistoryIsBound'
      /\ revision'[index.timed] = revision[index.timed] + 1 /\ revision[index.timed] \in Nat
  BY <1>1, AcceptIsSound DEF IInv, TypeOK
<1>3. seen'[c] = [index |-> seen[c].index, clock |-> seen[c].clock,
                  asked |-> [edit |-> revision[index.timed] + 1]]
  BY DEF IInv, SeenIsRecords
<1>4. TypeOK' /\ LocksMatchLabels' /\ SeenIsRecords'
  BY <1>2, <1>3
  DEF IInv, TypeOK, LocksMatchLabels, SeenIsRecords, Goto, Label, Owning, Reading
<1>5. InHand(c)'
  BY <1>1, <1>2, <1>3
  DEF IInv, TypeOK, InHand, Verified, Edited, Opened, Reading, Goto
<1>6. ASSUME NEW d \in Client \ {c} PROVE InHand(d)'
  BY <1>1, OthersAreIdle, IdleHand DEF Goto, IInv, TypeOK
<1> QED
  BY <1>2, <1>4, <1>5, <1>6 DEF IInv, InHand

-----------------------------------------------------------------------------
(* An answer is sent.                                                      *)

LEMMA ReplyKeeps ==
    ASSUME IInv, NEW c \in Client, Reply(c)
    PROVE  IInv'
<1> DEFINE a == seen[c].asked
<1> USE DEF Reply, database, project
<1>1. Opened(c) /\ Whole(index) /\ index \in Index
  BY DEF IInv, Opened, Reading, Whole
<1>2. a.product = "semantics" =>
        /\ index.timed # None /\ a.of = index.timed /\ index.timed \in Sync
        /\ a.edit = index.edit /\ a.clock = index.clock
        /\ IsBound(index.timed, index.clock) /\ index.edit <= revision[index.timed]
        /\ told' = [told EXCEPT ![a.of] = IF @ < a.edit THEN a.edit ELSE @]
        /\ shown' = shown \cup {<<a.of, a.clock>>}
  BY <1>1 DEF Opened, Whole, Index
<1>3. a.product # "semantics" => told' = told /\ shown' = shown
  OBVIOUS
<1>4. /\ told' \in [Sync -> Nat] /\ \A s \in Sync : told'[s] <= revision[s]
      /\ index.timed # None /\ told[index.timed] <= index.edit => told'[index.timed] <= index.edit
  BY <1>1, <1>2, <1>3 DEF IInv, TypeOK, HistoryIsBound, Index
<1>5. \A x \in shown' : IsBound(x[1], x[2])
  BY <1>2, <1>3 DEF IInv, HistoryIsBound
<1>6. TypeOK' /\ HistoryIsBound' /\ Whole(index)'
  BY <1>1, <1>4, <1>5, LeaveIsSound DEF IInv, TypeOK, HistoryIsBound, IsBound, Whole
<1>7. ASSUME NEW d \in Client \ {c} PROVE InHand(d)'
  <2>1. InHand(d) /\ pc'[d] = pc[d] /\ seen'[d] = seen[d]
    BY LeaveIsSound DEF IInv, InHand
  <2>2. Verified(d)' /\ Edited(d)'
    BY <1>6, <2>1 DEF InHand, Verified, Edited
  <2>3. Opened(d)'
    BY <1>4, <1>6, <2>1 DEF InHand, Opened
  <2> QED
    BY <2>2, <2>3 DEF InHand
<1> QED
  BY <1>6, <1>7, LeaveIsSound DEF IInv, InHand

-----------------------------------------------------------------------------
(* Every step.                                                             *)

LEMMA ClientStepKeeps ==
    ASSUME IInv, NEW c \in Client, ClientStep(c)
    PROVE  IInv'
<1>1. ASSUME RegisterFails(c) \/ EditFails(c) \/ Unavailable(c) \/ Discard(c) PROVE IInv'
  BY <1>1, LeaveKeeps
  DEF RegisterFails, EditFails, Unavailable, Discard, shared, project, database, history,
      IInv, TypeOK
<1>2. ASSUME Die(c) PROVE IInv'
  <2>1. deaths' \in Nat
    BY <1>2 DEF Die, IInv, TypeOK
  <2> QED
    BY <1>2, <2>1, LeaveKeeps DEF Die, shared, project, database, history
<1> QED
  BY <1>1, <1>2, RegisterBeginKeeps, RegisterIndexKeeps, RegisterEditsKeeps, EditBeginKeeps,
     EditCommitKeeps, EditIndexKeeps, OpenKeeps, ReadRowsKeeps, ReplyKeeps
  DEF ClientStep

LEMMA NextKeeps == IInv /\ [Next]_vars => IInv'
<1> SUFFICES ASSUME IInv, [Next]_vars PROVE IInv'
  OBVIOUS
<1>1. CASE UNCHANGED vars
  <2> USE <1>1 DEF vars, project, lock, database, history
  <2>1. TypeOK' /\ LocksMatchLabels' /\ SeenIsRecords'
    BY DEF IInv, TypeOK, LocksMatchLabels, SeenIsRecords
  <2>2. (index # None => Whole(index))' /\ HistoryIsBound'
    BY DEF IInv, Whole, IsBound, HistoryIsBound
  <2> QED
    BY <2>1, <2>2, HandIsKept DEF IInv, InHand
<1> QED
  BY <1>1, ProjectStepKeeps, CliEditKeeps, ClientStepKeeps DEF Next

-----------------------------------------------------------------------------
(* Theorems.                                                               *)

\* Leases, index, bindings and what clients have in hand always agree.
THEOREM InductiveInvariant == Spec => []IInv
BY InitIsSound, NextKeeps, PTL DEF Spec

\* Every variable keeps its type.
THEOREM TypeCorrect == Spec => []TypeOK
<1>1. IInv => TypeOK
  BY DEF IInv
<1> QED
  BY <1>1, InductiveInvariant, PTL

\* A timed product is shown under one clock for ever (the bindings table of
\* inspection.py), whatever is registered, revised and rerun.
THEOREM OneClockForEver == Spec => []NeverRelabelled
<1>1. IInv => NeverRelabelled
  BY DEF IInv, HistoryIsBound, NeverRelabelled, IsBound
<1> QED
  BY <1>1, InductiveInvariant, PTL

LEMMA ReplyIsCurrent ==
    ASSUME IInv, NEW c \in Client, Reply(c)
    PROVE  LET a == seen[c].asked IN
        /\ a.clock = clock
        /\ a.product = "semantics" =>
            /\ index.timed = a.of
            /\ index.clock = clock
            /\ a.rows = a.edit
            /\ told[a.of] <= a.edit
        /\ a.product = "observations" =>
            /\ index.clock.source = clock.source
            /\ a.offset = Effective(manual, OffsetIn(index.sync))
BY DEF IInv, Reply, ClockHolds, Opened, Reading, Whole

\* What is sent is of the instant at which it is sent: clock, edit revision,
\* rows and offset belong together (the clock check of inspection.py's window).
THEOREM NoMixedAnswer == Spec => AnswersAreCurrent
<1>1. IInv /\ [Next]_vars =>
        [\A c \in Client : Reply(c) =>
            LET a == seen[c].asked IN
            /\ a.clock = clock
            /\ a.product = "semantics" =>
                /\ index.timed = a.of
                /\ index.clock = clock
                /\ a.rows = a.edit
            /\ a.product = "observations" =>
                /\ index.clock.source = clock.source
                /\ a.offset = Effective(manual, OffsetIn(index.sync))]_vars
  BY ReplyIsCurrent
<1> QED
  BY <1>1, InductiveInvariant, PTL DEF Spec, AnswersAreCurrent

\* Nobody is shown an older state of a product than somebody was told of,
\* whoever dies between an edit and its index or edits past the service.
THEOREM NoEditVanishes == Spec => EditsStayVisible
<1>1. IInv /\ [Next]_vars =>
        [\A c \in Client : Reply(c) =>
            LET a == seen[c].asked IN
            a.product = "semantics" => told[a.of] <= a.edit]_vars
  BY ReplyIsCurrent
<1> QED
  BY <1>1, InductiveInvariant, PTL DEF Spec, EditsStayVisible

===============================================================================
