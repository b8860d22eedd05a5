------------------------- MODULE SemanticEditsProofs -------------------------
(***************************************************************************)
(* TLAPS proofs about SemanticEdits: its inductive invariant and the       *)
(* invariants that follow from it, that it implements EditHistory, and     *)
(* what its views show.                                                    *)
(***************************************************************************)
EXTENDS SemanticEdits, NaturalsInduction, WellFoundedInduction, TLAPS

-----------------------------------------------------------------------------
(* The inductive invariant.                                                *)

\* SQLite's write lock belongs to the one editor inside a transaction.
LockMatchesLabels ==
    \A e \in Editor : writer = e <=> pc[e] \in InTransaction

AskedWhileCalling ==
    \A e \in Editor : pc[e] # "idle" => call[e] \in Ask

\* An artifact is where its own content says.
ContentAddressed ==
    \A k \in DOMAIN artifacts : artifacts[k] \in ManualEdits /\ KeyOf(artifacts[k]) = k

\* m continues the history: its parent is the state at the head, and the
\* state it makes active is 0, m itself or an apply of the history.
Continues(m) ==
    /\ m.revision = HeadOf + 1
    /\ m.parent = StateAtHead
    /\ \A s \in {m.state, m.parent} \ {0} :
          \/ s = m.revision /\ m.command = "apply"
          \/ s \in 1 .. HeadOf /\ At(s).command = "apply"
    /\ m.command = "undo" => CanUndo /\ m.state = Undone
    /\ HeadOf # 0 => m.automatic = pin

\* What the editor published is still what comes next.
DraftIsNext ==
    \A e \in Editor : pc[e] = "published" =>
        /\ KeyOf(draft[e]) \in DOMAIN artifacts
        /\ Continues(draft[e])

DraftIsAsked ==
    \A e \in Editor : pc[e] \in {"published", "committed"} =>
        /\ draft[e] \in ManualEdits
        /\ draft[e].revision = call[e].expected + 1
        /\ draft[e].author = e
        /\ draft[e].command = call[e].command
        /\ draft[e].operation = call[e].operation
        /\ draft[e].automatic = call[e].automatic

DraftIsIndexed ==
    \A e \in Editor : pc[e] = "committed" =>
        draft[e].revision \in 1 .. HeadOf /\ At(draft[e].revision) = draft[e]

AcceptedWasAsked ==
    \A e \in Editor : reply[e].outcome = "accepted" => reply[e].to \in Ask

\* A session is pinned by its first revision.
PinnedByFirst == HeadOf = 0 => pin = NoBase

SoundHistory == PinnedByFirst /\ HistoryIsReadable /\ HistoryIsWellFounded /\ OneBase

IInv ==
    /\ TypeOK
    /\ LockMatchesLabels
    /\ AskedWhileCalling
    /\ ContentAddressed
    /\ SoundHistory
    /\ DraftIsNext
    /\ DraftIsAsked
    /\ DraftIsIndexed
    /\ AcceptedWasAsked
    /\ AcceptedIsRecorded

-----------------------------------------------------------------------------

LEMMA AppendFacts ==
    ASSUME NEW S, NEW s \in Seq(S), NEW e \in S
    PROVE  /\ Append(s, e) \in Seq(S)
           /\ Len(s) \in Nat
           /\ Len(Append(s, e)) = Len(s) + 1
           /\ \A r \in 1 .. Len(s) : Append(s, e)[r] = s[r]
           /\ Append(s, e)[Len(s) + 1] = e
OBVIOUS

LEMMA KeyIsInjective ==
    ASSUME NEW m, NEW n, KeyOf(m) = KeyOf(n)
    PROVE  m = n
BY DEF KeyOf

LEMMA InitIsInductive == Init => IInv
<1> SUFFICES ASSUME Init PROVE IInv
  OBVIOUS
<1>1. TypeOK
  BY EditAssumption DEF Init, TypeOK, NoReply, Label, Outcome
<1>2. HeadOf = 0
  BY DEF Init, HeadOf
<1>3. LockMatchesLabels
  BY EditAssumption DEF Init, LockMatchesLabels, InTransaction
<1>4. AskedWhileCalling /\ ContentAddressed /\ DraftIsNext /\ DraftIsAsked /\ DraftIsIndexed
  BY DEF Init, AskedWhileCalling, ContentAddressed, DraftIsNext, DraftIsAsked, DraftIsIndexed
<1>5. SoundHistory /\ AcceptedIsRecorded /\ AcceptedWasAsked
  BY <1>2 DEF Init, SoundHistory, PinnedByFirst, HistoryIsReadable, HistoryIsWellFounded, OneBase,
              AcceptedIsRecorded, AcceptedWasAsked, NoReply
<1> QED
  BY <1>1, <1>3, <1>4, <1>5 DEF IInv


-----------------------------------------------------------------------------
(* What the steps have in common.                                          *)

\* The history is what the index and the artifacts it names say.
LEMMA SameHistory ==
    ASSUME IInv, UNCHANGED <<database, artifacts>>
    PROVE  /\ ContentAddressed' /\ SoundHistory'
           /\ HeadOf' = HeadOf /\ StateAtHead' = StateAtHead
           /\ CanUndo' = CanUndo /\ Undone' = Undone
           /\ \A r : At(r)' = At(r)
BY DEF IInv, database, ContentAddressed, SoundHistory, PinnedByFirst, HistoryIsReadable,
       HistoryIsWellFounded, OneBase, HeadOf, At, StateAtHead, CanUndo, Undone

\* A call ends, well or badly: nothing it leaves behind is in the history.
LEMMA EndKeepsIInv ==
    ASSUME IInv, NEW e \in Editor, Goto(e, "idle"), Close(e), Forget(e),
           UNCHANGED <<database, artifacts>>, faults' \in Nat,
           reply' \in [Editor -> [outcome : Outcome, revision : Nat, to : Ask \cup {NoAsk}]],
           AcceptedIsRecorded', AcceptedWasAsked'
    PROVE  IInv'
<1>1. TypeOK'
  BY DEF IInv, TypeOK, Goto, Close, Forget, database, Label
<1>2. LockMatchesLabels'
  BY EditAssumption DEF IInv, TypeOK, LockMatchesLabels, Goto, Close, InTransaction
<1>3. AskedWhileCalling'
  BY DEF IInv, TypeOK, AskedWhileCalling, Goto, Forget
<1>4. DraftIsAsked'
  BY DEF IInv, TypeOK, DraftIsAsked, Goto, Forget
<1>5. DraftIsNext' /\ DraftIsIndexed'
  BY SameHistory, SMTT(30)
     DEF IInv, TypeOK, DraftIsNext, DraftIsIndexed, Continues, Goto, Forget, database
<1> QED
  BY <1>1, <1>2, <1>3, <1>4, <1>5, SameHistory DEF IInv

LEMMA RaiseKeepsIInv ==
    ASSUME IInv, NEW e \in Editor, NEW outcome \in Outcome \ {"accepted"},
           Raise(e, outcome), UNCHANGED <<database, artifacts>>, faults' \in Nat
    PROVE  IInv'
<1>1. reply' \in [Editor -> [outcome : Outcome, revision : Nat, to : Ask \cup {NoAsk}]]
  BY DEF IInv, TypeOK, Raise, NoReply
<1>2. AcceptedIsRecorded' /\ AcceptedWasAsked'
  BY SameHistory DEF IInv, TypeOK, AcceptedIsRecorded, AcceptedWasAsked, Raise, NoReply
<1> QED
  BY <1>1, <1>2, EndKeepsIInv DEF Raise

\* The history grows by m, which the store has.
LEMMA HistoryExtended ==
    ASSUME IInv, NEW n, n = HeadOf, NEW k \in DOMAIN artifacts, Continues(artifacts[k]),
           log' = Append(log, k), artifacts' = artifacts,
           pin' = IF HeadOf = 0 THEN artifacts[k].automatic ELSE pin
    PROVE  /\ SoundHistory'
           /\ HeadOf' = n + 1
           /\ \A r \in 1 .. n : At(r)' = At(r)
           /\ At(n + 1)' = artifacts[k]
<1> DEFINE m == artifacts[k]
<1>0. log \in Seq(DOMAIN artifacts)
  BY DEF IInv, TypeOK
<1>1. /\ n \in Nat
      /\ \A r \in 1 .. n : log'[r] = log[r]
      /\ log'[n + 1] = k
  BY <1>0, AppendFacts DEF HeadOf
<1>2. HeadOf' = n + 1
  BY <1>0, AppendFacts DEF HeadOf
<1>3. \A r \in 1 .. n : log'[r] = log[r] /\ At(r)' = At(r)
  BY <1>1 DEF At
<1>4. log'[n + 1] = k /\ At(n + 1)' = m
  BY <1>1 DEF At
<1>5. HistoryIsReadable'
  <2>1. ASSUME NEW r \in 1 .. n PROVE log'[r] \in DOMAIN artifacts /\ At(r)'.revision = r
    BY <1>1, <1>3 DEF IInv, SoundHistory, HistoryIsReadable
  <2>2. log'[n + 1] \in DOMAIN artifacts /\ At(n + 1)'.revision = n + 1
    BY <1>1, <1>4 DEF Continues
  <2>3. \A r \in 1 .. n + 1 : r \in 1 .. n \/ r = n + 1
    BY <1>1
  <2> QED
    BY <1>2, <2>1, <2>2, <2>3 DEF HistoryIsReadable
<1>6. OneBase'
  BY <1>1, <1>2, <1>3, <1>4 DEF IInv, SoundHistory, OneBase, Continues
<1>7. HistoryIsWellFounded'
  <2>1. ASSUME NEW r \in 1 .. n
        PROVE  /\ At(r)'.parent = IF r = 1 THEN 0 ELSE At(r - 1)'.state
               /\ \A s \in {At(r)'.state, At(r)'.parent} \ {0} :
                     s <= r /\ At(s)'.command = "apply"
    <3>1. At(r)' = At(r) /\ (r # 1 => At(r - 1)' = At(r - 1))
      BY <1>1, <1>3
    <3>2. \A s \in {At(r).state, At(r).parent} \ {0} : s <= r /\ At(s).command = "apply"
      BY DEF IInv, SoundHistory, HistoryIsWellFounded
    <3>3. At(r).state \in Nat /\ At(r).parent \in Nat
      BY <1>1 DEF IInv, ContentAddressed, SoundHistory, HistoryIsReadable, At, ManualEdits
    <3>4. ASSUME NEW s \in {At(r).state, At(r).parent} \ {0} PROVE s \in 1 .. n
      <4>1. s \in Nat /\ s # 0 /\ s <= r
        BY <3>2, <3>3
      <4> QED
        BY <1>1, <4>1
    <3>5. At(r).parent = IF r = 1 THEN 0 ELSE At(r - 1).state
      BY DEF IInv, SoundHistory, HistoryIsWellFounded
    <3>6. \A s \in 1 .. n : At(s)' = At(s)
      BY <1>3
    <3>7. At(r)'.parent = IF r = 1 THEN 0 ELSE At(r - 1)'.state
      BY <3>1, <3>5
    <3>8. \A s \in {At(r)'.state, At(r)'.parent} \ {0} : s <= r /\ At(s)'.command = "apply"
      BY <3>1, <3>2, <3>4, <3>6
    <3> QED
      BY <3>7, <3>8
  <2>2. m.parent = IF n + 1 = 1 THEN 0 ELSE At(n)'.state
    BY <1>1, <1>3 DEF Continues, StateAtHead
  <2>3. ASSUME NEW s \in {m.state, m.parent} \ {0}
        PROVE  s <= n + 1 /\ At(s)'.command = "apply"
    <3>1. CASE s = m.revision /\ m.command = "apply"
      BY <1>1, <1>4, <3>1 DEF Continues
    <3>2. CASE s \in 1 .. n /\ At(s).command = "apply"
      BY <1>1, <1>3, <3>2
    <3> QED
      BY <3>1, <3>2 DEF Continues
  <2>4. \A r \in 1 .. n + 1 : r \in 1 .. n \/ r = n + 1
    BY <1>1
  <2>5. At(n + 1 - 1)' = At(n)'
    BY <1>1
  <2>6. ASSUME NEW r \in 1 .. n + 1
        PROVE  /\ At(r)'.parent = IF r = 1 THEN 0 ELSE At(r - 1)'.state
               /\ \A s \in {At(r)'.state, At(r)'.parent} \ {0} :
                     s <= r /\ At(s)'.command = "apply"
    <3>1. CASE r \in 1 .. n
      BY <2>1, <3>1
    <3>2. CASE r = n + 1
      BY <1>1, <1>4, <2>2, <2>3, <2>5, <3>2
    <3> QED
      BY <2>4, <3>1, <3>2
  <2> QED
    BY <1>2, <2>6 DEF HistoryIsWellFounded
<1>8. PinnedByFirst'
  BY <1>1, <1>2 DEF PinnedByFirst
<1> QED
  BY <1>2, <1>3, <1>4, <1>5, <1>6, <1>7, <1>8 DEF SoundHistory

\* What the store had is still there, and m is there now.
LEMMA StoredKeeps ==
    ASSUME IInv, NEW m \in ManualEdits, Stored(m)
    PROVE  /\ artifacts' \in [DOMAIN artifacts' -> ManualEdits]
           /\ DOMAIN artifacts' = DOMAIN artifacts \cup {KeyOf(m)}
           /\ \A k \in DOMAIN artifacts : artifacts'[k] = artifacts[k]
           /\ artifacts'[KeyOf(m)] = m
           /\ ContentAddressed'
<1>1. DOMAIN artifacts' = DOMAIN artifacts \cup {KeyOf(m)}
  BY DEF Stored
<1>2. \A k \in DOMAIN artifacts : artifacts'[k] = artifacts[k]
  BY DEF Stored
<1>3. artifacts'[KeyOf(m)] = m
  <2>1. CASE KeyOf(m) \in DOMAIN artifacts
    BY <2>1, <1>2, KeyIsInjective DEF IInv, ContentAddressed
  <2>2. CASE KeyOf(m) \notin DOMAIN artifacts
    BY <2>2 DEF Stored
  <2> QED
    BY <2>1, <2>2
<1>4. ContentAddressed'
  BY <1>1, <1>2, <1>3 DEF IInv, ContentAddressed
<1>5. artifacts' \in [DOMAIN artifacts' -> ManualEdits]
  <2>1. artifacts' = [k \in DOMAIN artifacts' |-> artifacts'[k]]
    BY <1>1 DEF Stored
  <2> QED
    BY <2>1, <1>4 DEF ContentAddressed
<1> QED
  BY <1>1, <1>2, <1>3, <1>4, <1>5

\* What a command that is not rejected would write continues the history.
LEMMA DraftContinues ==
    ASSUME IInv, NEW e \in Editor, pc[e] = "writing",
           ~Incompatible(e), ~Stale(e), ~Invalid(e)
    PROVE  Draft(e) \in ManualEdits /\ Continues(Draft(e))
           /\ Draft(e).revision = call[e].expected + 1
<1> DEFINE c == call[e].command
           m == Draft(e)
<1>1. /\ HeadOf \in Nat /\ call[e] \in Ask
      /\ \A r \in 1 .. HeadOf : At(r) \in ManualEdits
  BY DEF IInv, TypeOK, HeadOf, AskedWhileCalling, ContentAddressed, SoundHistory,
         HistoryIsReadable, At
<1>2. StateAtHead = 0 \/ (StateAtHead \in 1 .. HeadOf /\ At(StateAtHead).command = "apply")
  BY <1>1 DEF StateAtHead, IInv, SoundHistory, HistoryIsWellFounded, ManualEdits
<1>3. ASSUME NEW r \in 1 .. HeadOf
      PROVE  At(r).parent = 0 \/ (At(r).parent \in 1 .. HeadOf /\ At(At(r).parent).command = "apply")
  BY <1>1 DEF IInv, SoundHistory, HistoryIsWellFounded, ManualEdits
<1>4. c = "apply" => Target(c) = HeadOf + 1
  BY DEF Target
<1>5. c = "reset" => Target(c) = 0
  BY DEF Target
<1>6. c = "undo" => Target(c) = 0 \/ (Target(c) \in 1 .. HeadOf /\ At(Target(c)).command = "apply")
  <2>1. SUFFICES ASSUME c = "undo" PROVE Undone = 0 \/ (Undone \in 1 .. HeadOf /\ At(Undone).command = "apply")
    BY DEF Target
  <2>2. CanUndo
    BY <2>1 DEF Invalid
  <2> QED
    BY <1>1, <1>2, <1>3, <2>2 DEF CanUndo, Undone
<1>7. c \in {"apply", "undo", "reset"}
  BY <1>1 DEF Ask
<1>8. m \in ManualEdits
  <2>1. /\ m.parent \in Nat /\ m.parent < m.revision /\ m.revision \in Nat \ {0}
        /\ m.state \in Nat
        /\ m.command = "apply" => m.state = m.revision
        /\ m.command # "apply" => m.state < m.revision
        /\ m.command = "reset" => m.state = 0
    BY <1>1, <1>2, <1>4, <1>5, <1>6, <1>7 DEF Draft
  <2>2. /\ m.command = "apply" => m.operation \in Operation
        /\ m.command # "apply" => m.operation = NoOperation
        /\ m.automatic \in Automatic /\ m.author \in Editor
    BY <1>1 DEF Draft, Ask
  <2> QED
    BY <1>7, <2>1, <2>2, EditAssumption DEF Draft, ManualEdits
<1>9. c = "undo" => CanUndo /\ Target(c) = Undone
  BY DEF Invalid, Target
<1>10. Continues(m)
  BY <1>1, <1>2, <1>4, <1>5, <1>6, <1>7, <1>9 DEF Draft, Continues, Incompatible
<1> QED
  BY <1>8, <1>10 DEF Draft, Stale

-----------------------------------------------------------------------------
(* Every step keeps the invariant.                                         *)

LEMMA CallKeepsIInv ==
    ASSUME IInv, NEW e \in Editor, NEW ask \in Ask, Call(e, ask)
    PROVE  IInv'
<1>1. TypeOK'
  BY DEF IInv, TypeOK, Call, Goto, NoReply, database, Label, Outcome
<1>2. LockMatchesLabels' /\ AskedWhileCalling'
  BY DEF IInv, TypeOK, LockMatchesLabels, AskedWhileCalling, Call, Goto, InTransaction
<1>3. DraftIsNext' /\ DraftIsAsked' /\ DraftIsIndexed'
  BY SameHistory
     DEF IInv, TypeOK, DraftIsNext, DraftIsAsked, DraftIsIndexed, Continues, Call, Goto, database
<1>4. AcceptedIsRecorded' /\ AcceptedWasAsked'
  BY SameHistory DEF IInv, TypeOK, AcceptedIsRecorded, AcceptedWasAsked, Call, NoReply
<1> QED
  BY <1>1, <1>2, <1>3, <1>4, SameHistory DEF IInv, Call

LEMMA BeginKeepsIInv ==
    ASSUME IInv, NEW e \in Editor, Begin(e)
    PROVE  IInv'
<1>1. TypeOK'
  BY DEF IInv, TypeOK, Begin, Goto, database, Label, InTransaction
<1>2. LockMatchesLabels' /\ AskedWhileCalling'
  BY EditAssumption
     DEF IInv, TypeOK, LockMatchesLabels, AskedWhileCalling, Begin, Goto, InTransaction
<1>3. DraftIsNext' /\ DraftIsAsked' /\ DraftIsIndexed'
  BY SameHistory
     DEF IInv, TypeOK, DraftIsNext, DraftIsAsked, DraftIsIndexed, Continues, Begin, Goto, database
<1>4. AcceptedIsRecorded' /\ AcceptedWasAsked'
  BY SameHistory DEF IInv, TypeOK, AcceptedIsRecorded, AcceptedWasAsked, Begin
<1> QED
  BY <1>1, <1>2, <1>3, <1>4, SameHistory DEF IInv, Begin

\* A state is 0 or a revision of the history.
LEMMA StatesAreRevisions ==
    ASSUME IInv
    PROVE  /\ HeadOf \in Nat
           /\ \A r \in 1 .. HeadOf : At(r) \in ManualEdits
           /\ \A r \in 1 .. HeadOf :
                 /\ At(r).state \in 0 .. HeadOf /\ At(r).parent \in 0 .. HeadOf
                 /\ At(r).parent < r
           /\ StateAtHead \in 0 .. HeadOf
<1>1. HeadOf \in Nat
  BY DEF IInv, TypeOK, HeadOf
<1>2. \A r \in 1 .. HeadOf : At(r) \in ManualEdits /\ At(r).revision = r
  BY DEF IInv, SoundHistory, HistoryIsReadable, ContentAddressed, At
<1>3. ASSUME NEW r \in 1 .. HeadOf
      PROVE  /\ At(r).state \in 0 .. HeadOf /\ At(r).parent \in 0 .. HeadOf
             /\ At(r).parent < r
  <2>1. /\ At(r).state \in Nat /\ At(r).parent \in Nat /\ At(r).parent < r
        /\ At(r).state <= r
    BY <1>2 DEF ManualEdits
  <2> QED
    BY <1>1, <2>1
<1>4. StateAtHead \in 0 .. HeadOf
  BY <1>1, <1>3 DEF StateAtHead
<1> QED
  BY <1>1, <1>2, <1>3, <1>4

\* What can be undone depends on the revisions only.
LEMMA SameHistoryByRevision ==
    ASSUME IInv, HeadOf' = HeadOf, \A r \in 1 .. HeadOf : At(r)' = At(r)
    PROVE  /\ StateAtHead' = StateAtHead
           /\ CanUndo' = CanUndo
           /\ CanUndo => Undone' = Undone
           /\ \A s : Active(s)' = Active(s)
<1> PICK n : n = HeadOf
  OBVIOUS
<1>1. n \in Nat /\ (n # 0 => At(n)' = At(n))
  BY StatesAreRevisions
<1>2. StateAtHead' = StateAtHead
  BY <1>1 DEF StateAtHead
<1>3. CanUndo' = CanUndo
  BY <1>1, <1>2 DEF CanUndo
<1>4. CanUndo => Undone' = Undone
  <2> PICK s : s = StateAtHead
    OBVIOUS
  <2>1. s # 0 => At(s)' = At(s)
    BY StatesAreRevisions
  <2> QED
    BY <1>1, <1>2, <2>1 DEF CanUndo, Undone
<1>5. \A S \in SUBSET (1 .. HeadOf) : ParentClosed(S)' = ParentClosed(S)
  BY DEF ParentClosed
<1>6. \A s : Active(s)' = Active(s)
  BY <1>5 DEF Active
<1> QED
  BY <1>2, <1>3, <1>4, <1>6

LEMMA PublishKeepsIInv ==
    ASSUME IInv, NEW e \in Editor, Publish(e)
    PROVE  IInv'
<1> PICK m : m = Draft(e)
  OBVIOUS
<1>1. m \in ManualEdits /\ Continues(m) /\ m.revision = call[e].expected + 1
  BY DraftContinues DEF Publish
<1>2. /\ artifacts' \in [DOMAIN artifacts' -> ManualEdits]
      /\ DOMAIN artifacts' = DOMAIN artifacts \cup {KeyOf(m)}
      /\ \A k \in DOMAIN artifacts : artifacts'[k] = artifacts[k]
      /\ ContentAddressed'
  BY <1>1, StoredKeeps DEF Publish
<1>3. \A q \in Editor : writer = q => q = e
  BY DEF IInv, LockMatchesLabels, Publish, InTransaction
<1>4. /\ HeadOf' = HeadOf /\ HeadOf \in Nat
      /\ \A r \in 1 .. HeadOf : log'[r] = log[r] /\ log[r] \in DOMAIN artifacts /\ At(r)' = At(r)
  BY <1>2 DEF IInv, TypeOK, Publish, database, HeadOf, At, SoundHistory, HistoryIsReadable
<1>5. TypeOK'
  <2>1. log' \in Seq(DOMAIN artifacts')
    BY <1>2 DEF IInv, TypeOK, Publish, database
  <2> QED
    BY <1>1, <1>2, <2>1 DEF IInv, TypeOK, Publish, Goto, database, Label, InTransaction
<1>6. LockMatchesLabels' /\ AskedWhileCalling'
  BY DEF IInv, TypeOK, LockMatchesLabels, AskedWhileCalling, Publish, Goto, InTransaction
<1>7. StateAtHead' = StateAtHead
  BY <1>4 DEF StateAtHead
<1>8. \A r \in 1 .. HeadOf : \A s \in {At(r).state, At(r).parent} \ {0} : s \in 1 .. HeadOf
  <2>1. ASSUME NEW r \in 1 .. HeadOf, NEW s \in {At(r).state, At(r).parent} \ {0}
        PROVE  s \in 1 .. HeadOf
    <3>1. At(r) \in ManualEdits
      BY <1>4 DEF IInv, ContentAddressed, At
    <3>2. s \in Nat /\ s # 0 /\ s <= r
      BY <3>1 DEF ManualEdits, IInv, SoundHistory, HistoryIsWellFounded
    <3> QED
      BY <1>4, <3>2
  <2> QED
    BY <2>1
<1>9. SoundHistory'
  <2>1. HistoryIsReadable'
    BY <1>2, <1>4 DEF IInv, SoundHistory, HistoryIsReadable
  <2>2. OneBase'
    BY <1>4 DEF IInv, SoundHistory, OneBase, Publish, database
  <2>3. HistoryIsWellFounded'
    <3>1. ASSUME NEW r \in 1 .. HeadOf
          PROVE  /\ At(r)'.parent = IF r = 1 THEN 0 ELSE At(r - 1)'.state
                 /\ \A s \in {At(r)'.state, At(r)'.parent} \ {0} :
                       s <= r /\ At(s)'.command = "apply"
      <4>1. At(r)' = At(r) /\ (r # 1 => At(r - 1)' = At(r - 1))
        BY <1>4
      <4>2. At(r).parent = IF r = 1 THEN 0 ELSE At(r - 1).state
        BY DEF IInv, SoundHistory, HistoryIsWellFounded
      <4>3. \A s \in {At(r).state, At(r).parent} \ {0} : s <= r /\ At(s)'.command = "apply"
        BY <1>4, <1>8, SMTT(30) DEF IInv, SoundHistory, HistoryIsWellFounded
      <4> QED
        BY <4>1, <4>2, <4>3
    <3> QED
      BY <1>4, <3>1 DEF HistoryIsWellFounded
  <2>4. PinnedByFirst'
    BY <1>4 DEF IInv, SoundHistory, PinnedByFirst, Publish, database
  <2> QED
    BY <2>1, <2>2, <2>3, <2>4 DEF SoundHistory
<1>10. Continues(m)'
  <2>1. ASSUME NEW s \in {m.state, m.parent} \ {0}
        PROVE  \/ s = m.revision /\ m.command = "apply"
               \/ s \in 1 .. HeadOf /\ At(s)'.command = "apply"
    BY <1>1, <1>4 DEF Continues
  <2>2. CanUndo' = CanUndo /\ (CanUndo => Undone' = Undone)
    BY <1>4, SameHistoryByRevision
  <2> QED
    BY <1>1, <1>4, <1>7, <2>1, <2>2 DEF Continues, Publish, database
<1>11. DraftIsNext'
  BY <1>2, <1>3, <1>10 DEF IInv, TypeOK, LockMatchesLabels, DraftIsNext, Publish, Goto, InTransaction
<1>12. DraftIsAsked'
  BY <1>1 DEF IInv, TypeOK, DraftIsAsked, Publish, Goto, Draft
<1>13. DraftIsIndexed'
  BY <1>4 DEF IInv, TypeOK, DraftIsIndexed, Publish, Goto
<1>14. AcceptedIsRecorded' /\ AcceptedWasAsked'
  <2>1. ASSUME NEW q \in Editor, reply[q].outcome = "accepted"
        PROVE  reply[q].revision \in 1 .. HeadOf
    BY <1>4, <2>1 DEF IInv, TypeOK, AcceptedIsRecorded, AcceptedWasAsked, Ask
  <2> QED
    BY <1>4, <2>1 DEF IInv, AcceptedIsRecorded, AcceptedWasAsked, Publish
<1> QED
  BY <1>2, <1>5, <1>6, <1>9, <1>11, <1>12, <1>13, <1>14 DEF IInv

LEMMA CommitKeepsIInv ==
    ASSUME IInv, NEW e \in Editor, Commit(e)
    PROVE  IInv'
<1> PICK n : n = HeadOf
  OBVIOUS
<1> PICK m : m = draft[e]
  OBVIOUS
<1> PICK k : k = KeyOf(m)
  OBVIOUS
<1>1. /\ m \in ManualEdits /\ Continues(m)
      /\ k \in DOMAIN artifacts /\ artifacts[k] = m
  <2>1. m \in ManualEdits /\ Continues(m) /\ k \in DOMAIN artifacts
    BY DEF IInv, DraftIsNext, DraftIsAsked, Commit
  <2> QED
    BY <2>1, KeyIsInjective DEF IInv, ContentAddressed
<1>2. /\ SoundHistory'
      /\ HeadOf' = n + 1 /\ n \in Nat
      /\ \A r \in 1 .. n : At(r)' = At(r)
      /\ At(n + 1)' = m
  <2>1. log' = Append(log, k) /\ artifacts' = artifacts
        /\ pin' = IF HeadOf = 0 THEN artifacts[k].automatic ELSE pin
    BY <1>1 DEF Commit
  <2>2. n \in Nat
    BY DEF IInv, TypeOK, HeadOf
  <2> QED
    BY <1>1, <2>1, <2>2, HistoryExtended
<1>3. \A q \in Editor : q # e => pc[q] \notin InTransaction
  BY DEF IInv, LockMatchesLabels, Commit, InTransaction
<1>4. TypeOK'
  <2>1. log' \in Seq(DOMAIN artifacts')
    BY <1>1, AppendFacts DEF IInv, TypeOK, Commit
  <2>2. pin' \in Automatic \cup {NoBase}
    BY <1>1 DEF IInv, TypeOK, Commit, ManualEdits
  <2> QED
    BY <2>1, <2>2 DEF IInv, TypeOK, Commit, Goto, Close, Label
<1>5. LockMatchesLabels' /\ AskedWhileCalling' /\ ContentAddressed'
  BY EditAssumption
     DEF IInv, TypeOK, LockMatchesLabels, AskedWhileCalling, ContentAddressed,
         Commit, Goto, Close, InTransaction
<1>6. DraftIsNext' /\ DraftIsAsked'
  BY <1>3 DEF IInv, TypeOK, DraftIsNext, DraftIsAsked, Commit, Goto, InTransaction
<1>7. DraftIsIndexed'
  <2>1. ASSUME NEW q \in Editor, pc'[q] = "committed"
        PROVE  draft[q].revision \in 1 .. n + 1 /\ At(draft[q].revision)' = draft[q]
    <3>1. CASE q = e
      <4>1. draft[q].revision = n + 1
        BY <1>1, <3>1 DEF Continues
      <4> QED
        BY <1>2, <3>1, <4>1 DEF Commit
    <3>2. CASE q # e
      <4>1. draft[q].revision \in 1 .. n /\ At(draft[q].revision) = draft[q]
        BY <2>1, <3>2 DEF IInv, TypeOK, DraftIsIndexed, Commit, Goto
      <4> QED
        BY <1>2, <4>1 DEF Commit
    <3> QED
      BY <3>1, <3>2
  <2> QED
    BY <1>2, <2>1 DEF DraftIsIndexed, Commit
<1>8. AcceptedIsRecorded' /\ AcceptedWasAsked'
  <2>1. ASSUME NEW q \in Editor, reply[q].outcome = "accepted"
        PROVE  reply[q].revision \in 1 .. n
    BY <1>2, <2>1, SMTT(30) DEF IInv, TypeOK, AcceptedIsRecorded, AcceptedWasAsked, Ask
  <2> QED
    BY <1>2, <2>1 DEF IInv, AcceptedIsRecorded, AcceptedWasAsked, Commit
<1> QED
  BY <1>2, <1>4, <1>5, <1>6, <1>7, <1>8 DEF IInv

LEMMA AnswerKeepsIInv ==
    ASSUME IInv, NEW e \in Editor, Answer(e)
    PROVE  IInv'
<1>1. Close(e)
  BY DEF IInv, LockMatchesLabels, Answer, Close, InTransaction
<1>2. /\ draft[e] \in ManualEdits /\ call[e] \in Ask
      /\ draft[e].revision = call[e].expected + 1
      /\ draft[e].revision \in 1 .. HeadOf
      /\ At(draft[e].revision) = draft[e]
  BY DEF IInv, AskedWhileCalling, DraftIsAsked, DraftIsIndexed, Answer
<1>3. reply' \in [Editor -> [outcome : Outcome, revision : Nat, to : Ask \cup {NoAsk}]]
  BY <1>2 DEF IInv, TypeOK, Answer, Outcome, ManualEdits
<1>4. AcceptedWasAsked'
  BY <1>2 DEF IInv, TypeOK, AcceptedWasAsked, Answer
<1>5. AcceptedIsRecorded'
  <2>1. ASSUME NEW q \in Editor, reply'[q].outcome = "accepted"
        PROVE  LET n == reply'[q].revision
                   asked == reply'[q].to
               IN  /\ n = asked.expected + 1 /\ n <= HeadOf
                   /\ At(n).author = q
                   /\ At(n).command = asked.command
                   /\ At(n).operation = asked.operation
                   /\ At(n).automatic = asked.automatic
    <3>1. CASE q = e
      BY <1>2, <3>1 DEF IInv, TypeOK, DraftIsAsked, Answer, HeadOf
    <3>2. CASE q # e
      BY <2>1, <3>2 DEF IInv, TypeOK, AcceptedIsRecorded, Answer
    <3> QED
      BY <3>1, <3>2
  <2> QED
    BY <2>1, SameHistory DEF AcceptedIsRecorded, Answer
<1>6. UNCHANGED <<database, artifacts>> /\ faults' \in Nat /\ Goto(e, "idle") /\ Forget(e)
  BY DEF IInv, TypeOK, Answer
<1> QED
  BY <1>1, <1>3, <1>4, <1>5, <1>6, EndKeepsIInv

LEMMA CrashKeepsIInv ==
    ASSUME IInv, NEW e \in Editor, Crash(e)
    PROVE  IInv'
<1>1. AcceptedIsRecorded' /\ AcceptedWasAsked'
  BY SameHistory DEF IInv, AcceptedIsRecorded, AcceptedWasAsked, Crash
<1> QED
  BY <1>1, EndKeepsIInv DEF Crash, IInv, TypeOK

LEMMA StepKeepsIInv == IInv /\ [Next]_vars => IInv'
<1> SUFFICES ASSUME IInv, [Next]_vars PROVE IInv'
  OBVIOUS
<1>0. faults + 1 \in Nat /\ faults \in Nat
  BY DEF IInv, TypeOK
<1>1. ASSUME NEW e \in Editor, Asked(e) PROVE IInv'
  <2>1. PICK ask \in Ask : Call(e, ask)
    <3>1. CASE \E a \in Automatic, n \in 0 .. MaxRevision, command \in {"undo", "reset"} :
                  Call(e, [automatic |-> a, expected |-> n,
                           command |-> command, operation |-> NoOperation])
      BY <3>1, EditAssumption DEF Ask
    <3>2. CASE \E a \in Automatic, n \in 0 .. MaxRevision, operation \in Operation :
                  Call(e, [automatic |-> a, expected |-> n,
                           command |-> "apply", operation |-> operation])
      BY <3>2, EditAssumption DEF Ask
    <3> QED
      BY <1>1, <3>1, <3>2 DEF Asked
  <2> QED
    BY <2>1, CallKeepsIInv
<1>2. ASSUME NEW e \in Editor, Begin(e) PROVE IInv'
  BY <1>2, BeginKeepsIInv
<1>3. ASSUME NEW e \in Editor, GiveUp(e) PROVE IInv'
  BY <1>0, <1>3, RaiseKeepsIInv DEF GiveUp, Outcome
<1>4. ASSUME NEW e \in Editor, Reject(e) PROVE IInv'
  BY <1>0, <1>4, RaiseKeepsIInv DEF Reject, Outcome
<1>5. ASSUME NEW e \in Editor, Publish(e) PROVE IInv'
  BY <1>5, PublishKeepsIInv
<1>6. ASSUME NEW e \in Editor, PublishFails(e) PROVE IInv'
  BY <1>0, <1>6, RaiseKeepsIInv DEF PublishFails, Outcome
<1>7. ASSUME NEW e \in Editor, Commit(e) PROVE IInv'
  BY <1>7, CommitKeepsIInv
<1>8. ASSUME NEW e \in Editor, CommitFails(e) PROVE IInv'
  BY <1>0, <1>8, RaiseKeepsIInv DEF CommitFails, Outcome
<1>9. ASSUME NEW e \in Editor, Answer(e) PROVE IInv'
  BY <1>9, AnswerKeepsIInv
<1>10. ASSUME NEW e \in Editor, Crash(e) PROVE IInv'
  BY <1>10, CrashKeepsIInv
<1>11. CASE UNCHANGED vars
  <2>1. UNCHANGED <<database, artifacts>>
    BY <1>11 DEF vars
  <2> QED
    BY <1>11, <2>1, SameHistory
       DEF IInv, vars, database, TypeOK, LockMatchesLabels, AskedWhileCalling, DraftIsNext,
           DraftIsAsked, DraftIsIndexed, Continues, AcceptedWasAsked, AcceptedIsRecorded,
           SoundHistory
<1> QED
  BY <1>1, <1>2, <1>3, <1>4, <1>5, <1>6, <1>7, <1>8, <1>9, <1>10, <1>11 DEF Next, Step

-----------------------------------------------------------------------------
(* Theorems.                                                               *)

\* The invariant holds in every reachable state.
THEOREM InductiveInvariant == Spec => []IInv
<1>1. Init => IInv
  BY InitIsInductive
<1>2. IInv /\ [Next]_vars => IInv'
  BY StepKeepsIInv
<1> QED
  BY <1>1, <1>2, PTL DEF Spec

\* The variables have their types; in particular, every ManualEdits that
\* _commit makes satisfies revision_contract.
THEOREM TypeCorrect == Spec => []TypeOK
<1>1. IInv => TypeOK
  BY DEF IInv
<1> QED
  BY <1>1, InductiveInvariant, PTL

\* Whenever a process dies or a step fails, the index names only artifacts
\* that are published, each under its own revision, and the chain of every
\* state consists of applies and leads to the automatic output.
THEOREM HistoryIsSound == Spec => [](HistoryIsReadable /\ HistoryIsWellFounded)
<1>1. IInv => HistoryIsReadable /\ HistoryIsWellFounded
  BY DEF IInv, SoundHistory
<1> QED
  BY <1>1, InductiveInvariant, PTL

\* An accepted command is in the history, right after what its client saw.
THEOREM NoLostEdit == Spec => []AcceptedIsRecorded
<1>1. IInv => AcceptedIsRecorded
  BY DEF IInv
<1> QED
  BY <1>1, InductiveInvariant, PTL

\* All revisions of a session are about the output it is pinned to.
THEOREM PinnedOnce == Spec => []OneBase
<1>1. IInv => OneBase
  BY DEF IInv, SoundHistory
<1> QED
  BY <1>1, InductiveInvariant, PTL

-----------------------------------------------------------------------------
(* What is active is the chain of the state.                               *)

\* The revisions up to a state are closed under parents.
LEMMA UpToIsClosed ==
    ASSUME IInv, NEW s \in 0 .. HeadOf
    PROVE  /\ 1 .. s \in SUBSET (1 .. HeadOf)
           /\ s \in (1 .. s) \cup {0}
           /\ ParentClosed(1 .. s)
<1>1. HeadOf \in Nat /\ s \in Nat
  BY StatesAreRevisions
<1>2. \A r \in 1 .. s : r \in 1 .. HeadOf
  BY <1>1
<1>3. \A r \in 1 .. s : At(r).parent \in 0 .. HeadOf /\ At(r).parent < r
  BY <1>2, StatesAreRevisions
<1>4. \A r \in 1 .. s : At(r).parent \in (1 .. s) \cup {0}
  BY <1>1, <1>3
<1> QED
  BY <1>1, <1>2, <1>4 DEF ParentClosed

LEMMA ActiveIsUpTo ==
    ASSUME IInv, NEW s \in 0 .. HeadOf
    PROVE  Active(s) \subseteq 1 .. s
BY UpToIsClosed DEF Active

LEMMA ActiveIsClosed ==
    ASSUME IInv, NEW s \in 0 .. HeadOf
    PROVE  /\ Active(s) \in SUBSET (1 .. HeadOf)
           /\ s \in Active(s) \cup {0}
           /\ ParentClosed(Active(s))
<1>1. Active(s) \in SUBSET (1 .. HeadOf)
  BY DEF Active
<1>2. s \in Active(s) \cup {0}
  BY StatesAreRevisions DEF Active
<1>3. ASSUME NEW r \in Active(s), At(r).parent # 0 PROVE At(r).parent \in Active(s)
  <2>1. At(r).parent \in 1 .. HeadOf
    BY <1>1, <1>3, StatesAreRevisions
  <2>2. ASSUME NEW S \in SUBSET (1 .. HeadOf), s \in S \cup {0}, ParentClosed(S)
        PROVE  At(r).parent \in S
    BY <1>3, <2>2 DEF Active, ParentClosed
  <2> QED
    BY <2>1, <2>2 DEF Active
<1> QED
  BY <1>1, <1>2, <1>3 DEF ParentClosed

LEMMA NothingIsActiveAtZero ==
    ASSUME IInv
    PROVE  Active(0) = {}
<1>1. 0 \in 0 .. HeadOf
  BY StatesAreRevisions
<1> QED
  BY <1>1, ActiveIsUpTo

\* A state adds one revision, the latest, to what its parent had.
LEMMA ActiveOfState ==
    ASSUME IInv, NEW s \in 1 .. HeadOf, NEW p, p = At(s).parent
    PROVE  /\ Active(s) = Active(p) \cup {s}
           /\ \A q \in Active(p) : q \in Nat /\ q < s
<1>1. /\ HeadOf \in Nat /\ s \in 0 .. HeadOf
      /\ p \in 0 .. HeadOf /\ p < s
  BY StatesAreRevisions
<1>2. \A q \in Active(p) : q \in Nat /\ q < s
  <2>1. Active(p) \subseteq 1 .. p
    BY <1>1, ActiveIsUpTo
  <2> QED
    BY <1>1, <2>1
<1>3. Active(s) \subseteq Active(p) \cup {s}
  <2> DEFINE S == Active(p) \cup {s}
  <2>1. S \in SUBSET (1 .. HeadOf) /\ s \in S \cup {0}
    BY <1>1, ActiveIsClosed
  <2>2. ParentClosed(S)
    BY <1>1, ActiveIsClosed DEF ParentClosed
  <2> QED
    BY <2>1, <2>2 DEF Active
<1>4. s \in Active(s)
  BY <1>1, ActiveIsClosed
<1>5. Active(p) \subseteq Active(s)
  <2>1. Active(s) \in SUBSET (1 .. HeadOf) /\ ParentClosed(Active(s))
    BY <1>1, ActiveIsClosed
  <2>2. p \in Active(s) \cup {0}
    BY <1>4, <2>1 DEF ParentClosed
  <2> QED
    BY <2>1, <2>2 DEF Active
<1> QED
  BY <1>2, <1>3, <1>4, <1>5

EachAddsOne ==
    \A s \in 1 .. HeadOf : \A p :
        At(s).parent = p => Active(s) = Active(p) \cup {s}

LEMMA ActiveOfStates == IInv => EachAddsOne
BY ActiveOfState DEF EachAddsOne

\* The same of the state that a commit makes.
LEMMA ActiveOfStatesNext == IInv' => EachAddsOne'
BY ActiveOfStates, PTL

LEMMA ActiveOfStateNext ==
    ASSUME IInv', NEW n, n \in Nat, HeadOf' = n + 1, NEW p, At(n + 1)'.parent = p
    PROVE  Active(n + 1)' = Active(p)' \cup {n + 1}
<1>1. n + 1 \in 1 .. n + 1
  OBVIOUS
<1>2. \A s \in 1 .. n + 1 : \A q :
          At(s)'.parent = q => Active(s)' = Active(q)' \cup {s}
  BY ActiveOfStatesNext DEF EachAddsOne
<1> QED
  BY <1>1, <1>2

\* A revision more changes nothing about the states before it.
LEMMA ActiveStays ==
    ASSUME IInv, NEW n, n = HeadOf, HeadOf' = n + 1,
           \A r \in 1 .. n : At(r)' = At(r),
           NEW s \in 0 .. n
    PROVE  Active(s)' = Active(s)
<1>1. n \in Nat /\ \A r \in 1 .. n : At(r).parent \in 0 .. n
  BY StatesAreRevisions
<1>2. \A S \in SUBSET (1 .. n) : ParentClosed(S)' <=> ParentClosed(S)
  BY DEF ParentClosed
<1>3. ASSUME NEW t \in Active(s)' PROVE t \in Active(s)
  <2>1. \A S \in SUBSET (1 .. n) : s \in S \cup {0} /\ ParentClosed(S) => t \in S
    <3>1. \A S \in SUBSET (1 .. n) : S \in SUBSET (1 .. n + 1)
      BY <1>1
    <3> QED
      BY <1>2, <3>1, <1>3 DEF Active
  <2>2. 1 .. n \in SUBSET (1 .. n) /\ s \in (1 .. n) \cup {0} /\ ParentClosed(1 .. n)
    BY <1>1 DEF ParentClosed
  <2> QED
    BY <2>1, <2>2 DEF Active
<1>4. ASSUME NEW t \in Active(s) PROVE t \in Active(s)'
  <2>1. t \in 1 .. n + 1
    BY <1>1, <1>4 DEF Active
  <2>2. ASSUME NEW S \in SUBSET (1 .. n + 1), s \in S \cup {0}, ParentClosed(S)'
        PROVE  t \in S
    <3> DEFINE T == S \cap (1 .. n)
    <3>1. T \in SUBSET (1 .. n) /\ s \in T \cup {0}
      BY <1>1, <2>2
    <3>2. ParentClosed(T)
      <4>1. ASSUME NEW r \in T PROVE At(r).parent \in T \cup {0}
        <5>1. r \in S /\ r \in 1 .. n /\ At(r)' = At(r)
          OBVIOUS
        <5>2. At(r).parent \in S \cup {0}
          BY <2>2, <5>1 DEF ParentClosed
        <5> QED
          BY <1>1, <5>1, <5>2
      <4> QED
        BY <4>1 DEF ParentClosed
    <3>3. t \in T
      BY <1>4, <3>1, <3>2 DEF Active
    <3> QED
      BY <3>3
  <2> QED
    BY <2>1, <2>2 DEF Active
<1> QED
  BY <1>3, <1>4

-----------------------------------------------------------------------------
(* The index and the artifacts implement EditHistory.                      *)

\* The refinement mapping of cleared.
ClearedAtHead ==
    IF HeadOf = 0 \/ At(HeadOf).command # "reset"
    THEN {}
    ELSE {Active(At(HeadOf).parent)}

LEMMA CommitRefines ==
    ASSUME IInv, NEW e \in Editor, Commit(e)
    PROVE  History!Next
<1> PICK n : n = HeadOf
  OBVIOUS
<1> PICK m : m = draft[e]
  OBVIOUS
<1> PICK s : s = StateAtHead
  OBVIOUS
<1>1. /\ m \in ManualEdits /\ Continues(m)
      /\ KeyOf(m) \in DOMAIN artifacts /\ artifacts[KeyOf(m)] = m
  <2>1. m \in ManualEdits /\ Continues(m) /\ KeyOf(m) \in DOMAIN artifacts
    BY DEF IInv, DraftIsNext, DraftIsAsked, Commit
  <2> QED
    BY <2>1, KeyIsInjective DEF IInv, ContentAddressed
<1>2. /\ HeadOf' = n + 1 /\ n \in Nat
      /\ \A r \in 1 .. n : At(r)' = At(r)
      /\ At(n + 1)' = m
  <2> PICK k : k = KeyOf(m)
    OBVIOUS
  <2>1. log' = Append(log, k) /\ artifacts' = artifacts
        /\ pin' = IF HeadOf = 0 THEN artifacts[k].automatic ELSE pin
    BY <1>1 DEF Commit
  <2>2. n \in Nat
    BY StatesAreRevisions
  <2> QED
    BY <1>1, <2>1, <2>2, HistoryExtended
<1>3. IInv'
  BY CommitKeepsIInv
<1>4. s \in 0 .. n /\ m.parent = s /\ m.automatic \in Automatic
  BY <1>1, StatesAreRevisions DEF Continues, ManualEdits
<1>5. StateAtHead' = m.state /\ ActiveAtHead' = Active(m.state)'
  BY <1>2 DEF StateAtHead, ActiveAtHead
<1>6. \A t \in 0 .. n : Active(t)' = Active(t)
  BY <1>2, ActiveStays
<1>7. ActiveAtHead = Active(s)
  BY DEF ActiveAtHead
<1>8. History!Accept(m.automatic)
  BY <1>1, <1>2 DEF History!Accept, Commit, Continues, IInv, SoundHistory, PinnedByFirst
<1>9. ClearedAtHead' = IF m.command # "reset" THEN {} ELSE {Active(s)}
  <2>1. n + 1 # 0
    BY <1>2
  <2> QED
    BY <1>2, <1>4, <1>6, <2>1 DEF ClearedAtHead
<1>10. CASE m.command = "apply"
  <2>1. m.state = n + 1
    BY <1>1, <1>10 DEF Continues, ManualEdits
  <2>2. Active(n + 1)' = Active(s)' \cup {n + 1}
    BY <1>2, <1>3, <1>4, ActiveOfStateNext
  <2>3. History!Apply(m.automatic)
    BY <1>4, <1>5, <1>6, <1>7, <1>8, <1>9, <1>10, <2>1, <2>2
       DEF History!Apply, ClearedAtHead
  <2> QED
    BY <1>4, <2>3 DEF History!Next
<1>11. CASE m.command = "reset"
  <2>1. m.state = 0
    BY <1>1, <1>11 DEF ManualEdits
  <2>2. ActiveAtHead' = {}
    BY <1>2, <1>5, <1>6, <2>1, NothingIsActiveAtZero
  <2>3. History!Reset(m.automatic)
    BY <1>7, <1>8, <1>9, <1>11, <2>2 DEF History!Reset, ClearedAtHead
  <2> QED
    BY <1>4, <2>3 DEF History!Next
<1>12. CASE m.command = "undo"
  <2>1. CanUndo /\ m.state = Undone
    BY <1>1, <1>12 DEF Continues
  <2>2. n # 0 /\ n \in 1 .. n
    BY <1>2, <2>1 DEF CanUndo
  <2>3. CASE At(n).command = "reset"
    <3>1. m.state = At(n).parent /\ m.state \in 0 .. n
      BY <2>1, <2>2, <2>3, StatesAreRevisions DEF Undone
    <3>2. ClearedAtHead = {Active(m.state)}
      BY <2>2, <2>3, <3>1 DEF ClearedAtHead
    <3>3. History!UndoReset(m.automatic)
      BY <1>5, <1>6, <1>8, <1>9, <1>12, <3>1, <3>2 DEF History!UndoReset, ClearedAtHead
    <3> QED
      BY <1>4, <3>3 DEF History!Next
  <2>4. CASE At(n).command # "reset"
    <3>1. s # 0 /\ s \in 1 .. n /\ m.state = At(s).parent /\ m.state \in 0 .. n
      <4>1. s # 0 /\ m.state = At(s).parent
        BY <2>1, <2>4 DEF CanUndo, Undone
      <4> QED
        BY <1>4, <4>1, StatesAreRevisions
    <3>2. /\ Active(s) = Active(m.state) \cup {s}
          /\ \A q \in Active(m.state) : q \in Nat /\ q < s
      BY <3>1, ActiveOfState
    <3>3. History!Latest(Active(s)) = s
      <4>1. \A q \in Active(s) : q <= s
        BY <3>1, <3>2
      <4>2. \A r \in Active(s) : (\A q \in Active(s) : q <= r) => r = s
        BY <3>1, <3>2
      <4> QED
        BY <3>2, <4>1, <4>2 DEF History!Latest
    <3>4. ActiveAtHead # {} /\ ActiveAtHead' = ActiveAtHead \ {s}
      <4>1. s \notin Active(m.state)
        BY <3>1, <3>2
      <4> QED
        BY <1>5, <1>6, <1>7, <3>1, <3>2, <4>1
    <3>5. ClearedAtHead = {} /\ ClearedAtHead' = {}
      BY <1>9, <1>12, <2>4 DEF ClearedAtHead
    <3>6. History!UndoEdit(m.automatic)
      BY <1>7, <1>8, <3>3, <3>4, <3>5 DEF History!UndoEdit, ClearedAtHead
    <3> QED
      BY <1>4, <3>6 DEF History!Next
  <2> QED
    BY <2>3, <2>4
<1> QED
  BY <1>1, <1>10, <1>11, <1>12 DEF ManualEdits

\* No other step changes what the history shows.
LEMMA OtherStepsStutter ==
    ASSUME IInv, pin' = pin, log' = log, \A r \in 1 .. HeadOf : At(r)' = At(r)
    PROVE  UNCHANGED History!vars
<1> PICK n : n = HeadOf
  OBVIOUS
<1> PICK s : s = StateAtHead
  OBVIOUS
<1>1. HeadOf' = HeadOf
  BY DEF HeadOf
<1>2. ActiveAtHead' = ActiveAtHead
  BY <1>1, SameHistoryByRevision DEF ActiveAtHead
<1>3. ClearedAtHead' = ClearedAtHead
  <2>1. CASE n = 0
    BY <1>1, <2>1 DEF ClearedAtHead
  <2>2. CASE n # 0
    <3>1. At(n)' = At(n)
      BY <2>2, StatesAreRevisions
    <3> PICK q : q = At(n).parent
      OBVIOUS
    <3>2. Active(q)' = Active(q)
      BY <1>1, SameHistoryByRevision
    <3> QED
      BY <1>1, <2>2, <3>1, <3>2 DEF ClearedAtHead
  <2> QED
    BY <2>1, <2>2
<1> QED
  BY <1>1, <1>2, <1>3 DEF History!vars, ClearedAtHead

LEMMA StepRefines == IInv /\ [Next]_vars => [History!Next]_(History!vars)
<1> SUFFICES ASSUME IInv, [Next]_vars PROVE [History!Next]_(History!vars)
  OBVIOUS
<1>1. ASSUME NEW e \in Editor, Commit(e) PROVE History!Next
  BY <1>1, CommitRefines
<1>2. ASSUME NEW e \in Editor, Publish(e) PROVE UNCHANGED History!vars
  <2> PICK m : m = Draft(e)
    OBVIOUS
  <2>1. m \in ManualEdits /\ Stored(m)
    BY <1>2, DraftContinues DEF Publish
  <2>2. \A r \in 1 .. HeadOf : At(r)' = At(r)
    BY <1>2, <2>1, StoredKeeps
       DEF Publish, database, At, IInv, SoundHistory, HistoryIsReadable
  <2> QED
    BY <1>2, <2>2, OtherStepsStutter DEF Publish, database
<1>3. CASE UNCHANGED <<database, artifacts>>
  BY <1>3, SameHistory, OtherStepsStutter DEF database
<1>4. ASSUME NEW e \in Editor, Asked(e) PROVE UNCHANGED <<database, artifacts>>
  BY <1>4 DEF Asked, Call
<1>5. ASSUME NEW e \in Editor,
             \/ Begin(e) \/ GiveUp(e) \/ Reject(e) \/ PublishFails(e)
             \/ CommitFails(e) \/ Answer(e) \/ Crash(e)
      PROVE  UNCHANGED <<database, artifacts>>
  BY <1>5 DEF Begin, GiveUp, Reject, PublishFails, CommitFails, Answer, Crash
<1>6. CASE UNCHANGED vars
  BY <1>3, <1>6 DEF vars
<1> QED
  BY <1>1, <1>2, <1>3, <1>4, <1>5, <1>6 DEF Next, Step

LEMMA InitRefines == Init => History!Init
<1> SUFFICES ASSUME Init PROVE History!Init
  OBVIOUS
<1>1. IInv /\ HeadOf = 0
  BY InitIsInductive DEF Init, HeadOf
<1>2. ActiveAtHead = {}
  BY <1>1, NothingIsActiveAtZero DEF ActiveAtHead, StateAtHead
<1> QED
  BY <1>1, <1>2 DEF Init, History!Init

\* Undo takes back the latest active edit or the reset before it, reset takes
\* back everything, and nothing else changes what a session shows: not a
\* failing command, a crash, or the artifact of a command that came to nothing.
THEOREM Refinement == Spec => ImplementsHistory
<1>1. Init => History!Init
  BY InitRefines
<1>2. IInv /\ [Next]_vars => [History!Next]_(History!vars)
  BY StepRefines
<1> QED
  BY <1>1, <1>2, InductiveInvariant, PTL DEF Spec, ImplementsHistory, History!Spec

-----------------------------------------------------------------------------
(* The views of the states.                                                *)

\* Of a set of numbers that leaves nothing after its beginning out.
LEMMA Induction ==
    ASSUME NEW n \in Nat, NEW S, \A t \in 0 .. n : (\A q \in 0 .. n : q < t => q \in S) => t \in S
    PROVE  0 .. n \subseteq S
<1> DEFINE R == {pair \in Nat \X Nat : pair[1] < pair[2]}
           Missing == {t \in 0 .. n : t \notin S}
<1>1. SUFFICES ASSUME Missing # {} PROVE FALSE
  OBVIOUS
<1>2. IsWellFoundedOn(R, Nat)
  BY NatLessThanWellFounded, Zenon DEF OpToRel
<1>3. Missing \in SUBSET Nat
  OBVIOUS
<1> HIDE DEF R
<1>4. PICK t \in Missing : \A q \in Missing : <<q, t>> \notin R
  BY <1>1, <1>2, <1>3, WFMin
<1>5. ASSUME NEW q \in 0 .. n, q < t PROVE q \in S
  <2>1. <<q, t>> \in R
    BY <1>5 DEF R
  <2> QED
    BY <1>4, <2>1
<1> QED
  BY <1>4, <1>5

\* What the chain from a state shows, as a function on the states up to n.
IsView(view, n) ==
    view = [t \in 0 .. n |->
               IF t = 0 THEN Given ELSE Effect(view[At(t).parent], At(t).operation)]

HasView(n) == \E view : IsView(view, n)

\* A view of n states and its value at the next one are a view.
LEMMA ViewExtended ==
    ASSUME IInv, NEW n \in Nat, n + 1 \in 1 .. HeadOf, NEW view, IsView(view, n)
    PROVE  HasView(n + 1)
<1> DEFINE next == Effect(view[At(n + 1).parent], At(n + 1).operation)
           longer == [t \in 0 .. n + 1 |-> IF t = n + 1 THEN next ELSE view[t]]
<1>1. At(n + 1).parent \in 0 .. n
  BY StatesAreRevisions
<1>2. longer[n + 1] = Effect(longer[At(n + 1).parent], At(n + 1).operation)
  <2>1. longer[n + 1] = next
    OBVIOUS
  <2>2. longer[At(n + 1).parent] = view[At(n + 1).parent]
    BY <1>1
  <2> QED
    BY <2>1, <2>2
<1>3. ASSUME NEW t \in 0 .. n
      PROVE  longer[t] = IF t = 0 THEN Given ELSE Effect(longer[At(t).parent], At(t).operation)
  <2>1. longer[t] = view[t]
    OBVIOUS
  <2>2. view[t] = IF t = 0 THEN Given ELSE Effect(view[At(t).parent], At(t).operation)
    <3> HIDE DEF longer, next
    <3> QED
      BY DEF IsView
  <2>3. t # 0 => longer[At(t).parent] = view[At(t).parent]
    <3>1. t # 0 => t \in 1 .. HeadOf
      BY StatesAreRevisions
    <3>2. t # 0 => At(t).parent \in 0 .. n
      BY <3>1, StatesAreRevisions
    <3> QED
      BY <3>2
  <2> HIDE DEF longer, next
  <2> QED
    BY <2>1, <2>2, <2>3
<1>4. \A t \in 0 .. n + 1 : t \in 0 .. n \/ (t = n + 1 /\ t # 0)
  OBVIOUS
<1>5. longer = [t \in 0 .. n + 1 |-> longer[t]]
  OBVIOUS
<1> HIDE DEF longer, next
<1>6. IsView(longer, n + 1)
  BY <1>2, <1>3, <1>4, <1>5 DEF IsView
<1> QED
  BY <1>6 DEF HasView

LEMMA EveryHistoryHasView == IInv => HasView(HeadOf)
<1> SUFFICES ASSUME IInv PROVE HasView(HeadOf)
  OBVIOUS
<1> DEFINE S == {t \in 0 .. HeadOf : HasView(t)}
<1>0. HeadOf \in Nat
  BY StatesAreRevisions
<1>1. 0 \in S
  <2> DEFINE first == [t \in 0 .. 0 |-> Given]
  <2>1. IsView(first, 0)
    BY DEF IsView
  <2> QED
    BY <1>0, <2>1 DEF HasView
<1>2. ASSUME NEW t \in 0 .. HeadOf, \A q \in 0 .. HeadOf : q < t => q \in S
      PROVE  t \in S
  <2>1. CASE t = 0
    BY <1>1, <2>1
  <2>2. CASE t # 0
    <3> PICK n : n = t - 1
      OBVIOUS
    <3>1. n \in Nat /\ n + 1 = t /\ n \in 0 .. HeadOf /\ n < t /\ t \in 1 .. HeadOf
      BY <1>0, <2>2
    <3>2. HasView(n)
      BY <1>2, <3>1
    <3>3. PICK view : IsView(view, n)
      BY <3>2 DEF HasView
    <3> QED
      BY <3>1, <3>3, ViewExtended
  <2> QED
    BY <2>1, <2>2
<1> HIDE DEF S
<1>3. 0 .. HeadOf \subseteq S
  BY <1>0, <1>2, Induction
<1> QED
  BY <1>0, <1>3 DEF S

\* Every state shows what its parent shows, and its own edit.
ViewsFollow ==
    /\ Materialized(0) = Given
    /\ \A t \in 1 .. HeadOf : \A p :
          At(t).parent = p => Materialized(t) = Effect(Materialized(p), At(t).operation)

LEMMA ViewsAreComputed == IInv => ViewsFollow
<1> SUFFICES ASSUME IInv PROVE ViewsFollow
  OBVIOUS
<1> DEFINE v == CHOOSE view : IsView(view, HeadOf)
<1>1. \A t : Materialized(t) = v[t]
  BY Zenon DEF Materialized, IsView
<1>2. IsView(v, HeadOf)
  BY EveryHistoryHasView DEF HasView
<1>3. HeadOf \in Nat
  BY StatesAreRevisions
<1> HIDE DEF v
<1>4. \A t \in 0 .. HeadOf :
          v[t] = IF t = 0 THEN Given ELSE Effect(v[At(t).parent], At(t).operation)
  BY <1>2 DEF IsView
<1>5. Materialized(0) = Given
  BY <1>1, <1>3, <1>4
<1>6. ASSUME NEW t \in 1 .. HeadOf, NEW p, At(t).parent = p
      PROVE  Materialized(t) = Effect(Materialized(p), At(t).operation)
  <2>1. t \in 0 .. HeadOf /\ t # 0
    BY <1>3
  <2>2. v[t] = Effect(v[p], At(t).operation)
    BY <1>4, <1>6, <2>1
  <2> QED
    BY <1>1, <2>2
<1> QED
  BY <1>5, <1>6 DEF ViewsFollow

\* The same of the state that a step makes.
LEMMA ViewsAreComputedNext == IInv' => ViewsFollow'
BY ViewsAreComputed, PTL

\* Neither a revision more nor anything else changes what the states before
\* it show.
LEMMA ViewStays ==
    ASSUME IInv, IInv', NEW n, n = HeadOf, HeadOf' \in {n, n + 1},
           \A r \in 1 .. n : At(r)' = At(r),
           NEW s \in 0 .. n
    PROVE  Materialized(s)' = Materialized(s)
<1> DEFINE S == {t \in 0 .. n : Materialized(t)' = Materialized(t)}
<1>1. n \in Nat /\ 1 .. n \subseteq 1 .. HeadOf'
  BY StatesAreRevisions
<1>2. ASSUME NEW t \in 0 .. n, \A q \in 0 .. n : q < t => q \in S
      PROVE  t \in S
  <2>1. CASE t = 0
    BY <1>1, <2>1, ViewsAreComputed, ViewsAreComputedNext DEF ViewsFollow
  <2>2. CASE t # 0
    <3>1. t \in 1 .. n /\ At(t)' = At(t)
      BY <1>1, <2>2
    <3> PICK p : p = At(t).parent
      OBVIOUS
    <3>2. Materialized(t) = Effect(Materialized(p), At(t).operation)
      BY <3>1, ViewsAreComputed DEF ViewsFollow
    <3>3. Materialized(t)' = Effect(Materialized(p)', At(t)'.operation)
      BY <1>1, <3>1, ViewsAreComputedNext DEF ViewsFollow, Effect
    <3>4. p \in 0 .. n /\ p < t
      BY <1>1, <3>1, StatesAreRevisions
    <3>5. Materialized(p)' = Materialized(p)
      BY <1>2, <3>4
    <3> QED
      BY <3>1, <3>2, <3>3, <3>5
  <2> QED
    BY <2>1, <2>2
<1> HIDE DEF S
<1>3. 0 .. n \subseteq S
  BY <1>1, <1>2, Induction
<1> QED
  BY <1>3 DEF S

-----------------------------------------------------------------------------
(* Every edit was allowed on the view of its parent.                       *)

\* Each edit of the history, also one that was undone since.
EditsWereAllowed ==
    \A r \in 1 .. HeadOf : At(r).command = "apply" =>
        Allowed(Materialized(At(r).parent), At(r).operation)

\* The edit that is published and not committed yet.
DraftIsAllowed ==
    \A e \in Editor : pc[e] = "published" /\ draft[e].command = "apply" =>
        Allowed(Materialized(draft[e].parent), draft[e].operation)

ViewsInv == EditsWereAllowed /\ DraftIsAllowed

\* A step that leaves the revisions alone and publishes nothing.
LEMMA OthersKeepViews ==
    ASSUME IInv, IInv', ViewsInv, HeadOf' = HeadOf, \A r \in 1 .. HeadOf : At(r)' = At(r),
           \A e \in Editor : pc'[e] = "published" => pc[e] = "published" /\ draft'[e] = draft[e]
    PROVE  ViewsInv'
<1> PICK n : n = HeadOf
  OBVIOUS
<1>1. \A s \in 0 .. n : Materialized(s)' = Materialized(s)
  BY ViewStays
<1>2. \A r \in 1 .. n : At(r)' = At(r) /\ At(r).parent \in 0 .. n
  BY StatesAreRevisions
<1>3. EditsWereAllowed'
  <2>1. ASSUME NEW r \in 1 .. n, At(r)'.command = "apply"
        PROVE  Allowed(Materialized(At(r).parent)', At(r)'.operation)
    <3> PICK p : p = At(r).parent
      OBVIOUS
    <3>1. Materialized(p)' = Materialized(p)
      BY <1>1, <1>2
    <3>2. Allowed(Materialized(p), At(r).operation)
      BY <1>2, <2>1 DEF ViewsInv, EditsWereAllowed
    <3> QED
      BY <1>2, <3>1, <3>2 DEF Allowed
  <2> QED
    BY <2>1 DEF EditsWereAllowed, Allowed
<1>4. DraftIsAllowed'
  <2>1. ASSUME NEW e \in Editor, pc'[e] = "published", draft'[e].command = "apply"
        PROVE  Allowed(Materialized(draft[e].parent)', draft'[e].operation)
    <3>1. /\ pc[e] = "published" /\ draft'[e] = draft[e]
          /\ draft[e].parent = StateAtHead
      BY <2>1 DEF IInv, DraftIsNext, Continues
    <3> PICK p : p = StateAtHead
      OBVIOUS
    <3>2. p \in 0 .. n /\ Materialized(p)' = Materialized(p)
      BY <1>1, StatesAreRevisions
    <3>3. Allowed(Materialized(p), draft[e].operation)
      BY <2>1, <3>1 DEF ViewsInv, DraftIsAllowed
    <3> QED
      BY <3>1, <3>2, <3>3 DEF Allowed
  <2> QED
    BY <2>1 DEF DraftIsAllowed, Allowed
<1> QED
  BY <1>3, <1>4 DEF ViewsInv

\* What an editor publishes was checked on the view of the state at the head,
\* which nobody else can change while it holds the lock.
LEMMA PublishKeepsViews ==
    ASSUME IInv, IInv', ViewsInv, NEW e \in Editor, Publish(e)
    PROVE  ViewsInv'
<1> PICK n : n = HeadOf
  OBVIOUS
<1> PICK m : m = Draft(e)
  OBVIOUS
<1> PICK p : p = StateAtHead
  OBVIOUS
<1>1. HeadOf' = n /\ \A r \in 1 .. n : At(r)' = At(r)
  <2>1. m \in ManualEdits /\ Stored(m)
    BY DraftContinues DEF Publish
  <2> QED
    BY <2>1, StoredKeeps
       DEF Publish, database, HeadOf, At, IInv, SoundHistory, HistoryIsReadable
<1>2. \A s \in 0 .. n : Materialized(s)' = Materialized(s)
  BY <1>1, ViewStays
<1>3. EditsWereAllowed'
  <2>1. ASSUME NEW r \in 1 .. n, At(r)'.command = "apply"
        PROVE  Allowed(Materialized(At(r).parent)', At(r)'.operation)
    <3> PICK q : q = At(r).parent
      OBVIOUS
    <3>1. Materialized(q)' = Materialized(q) /\ At(r)' = At(r)
      BY <1>1, <1>2, StatesAreRevisions
    <3>2. Allowed(Materialized(q), At(r).operation)
      BY <2>1, <3>1 DEF ViewsInv, EditsWereAllowed
    <3> QED
      BY <3>1, <3>2 DEF Allowed
  <2> QED
    BY <1>1, <2>1 DEF EditsWereAllowed, Allowed
<1>4. \A f \in Editor : pc'[f] = "published" => f = e
  BY DEF IInv, TypeOK, LockMatchesLabels, Publish, Goto, InTransaction
<1>5. m.command = "apply" => Allowed(Materialized(p), m.operation)
  BY DEF Publish, Invalid, Draft
<1>6. draft'[e] = m /\ m.parent = p
  BY DEF IInv, TypeOK, Publish, Draft
<1>7. Materialized(p)' = Materialized(p)
  BY <1>2, StatesAreRevisions
<1>8. DraftIsAllowed'
  BY <1>4, <1>5, <1>6, <1>7 DEF DraftIsAllowed, Allowed
<1> QED
  BY <1>3, <1>8 DEF ViewsInv

\* The commit makes the edit that was allowed the next one of the history.
LEMMA CommitKeepsViews ==
    ASSUME IInv, IInv', ViewsInv, NEW e \in Editor, Commit(e)
    PROVE  ViewsInv'
<1> PICK n : n = HeadOf
  OBVIOUS
<1> PICK m : m = draft[e]
  OBVIOUS
<1> PICK p : p = StateAtHead
  OBVIOUS
<1> PICK k : k = KeyOf(m)
  OBVIOUS
<1>1. /\ m \in ManualEdits /\ Continues(m)
      /\ k \in DOMAIN artifacts /\ artifacts[k] = m
  <2>1. m \in ManualEdits /\ Continues(m) /\ k \in DOMAIN artifacts
    BY DEF IInv, DraftIsNext, DraftIsAsked, Commit
  <2> QED
    BY <2>1, KeyIsInjective DEF IInv, ContentAddressed
<1>2. /\ HeadOf' = n + 1
      /\ \A r \in 1 .. n : At(r)' = At(r)
      /\ At(n + 1)' = m
  <2>1. log' = Append(log, k) /\ artifacts' = artifacts
        /\ pin' = IF HeadOf = 0 THEN artifacts[k].automatic ELSE pin
    BY <1>1 DEF Commit
  <2> QED
    BY <1>1, <2>1, HistoryExtended
<1>3. n \in Nat /\ \A r \in 1 .. n + 1 : r \in 1 .. n \/ r = n + 1
  BY StatesAreRevisions
<1>4. \A s \in 0 .. n : Materialized(s)' = Materialized(s)
  BY <1>2, ViewStays
<1>5. ASSUME NEW r \in 1 .. n, At(r).command = "apply"
      PROVE  Allowed(Materialized(At(r).parent)', At(r).operation)
  <2> PICK q : q = At(r).parent
    OBVIOUS
  <2>1. Materialized(q)' = Materialized(q)
    BY <1>4, StatesAreRevisions
  <2>2. Allowed(Materialized(q), At(r).operation)
    BY <1>5 DEF ViewsInv, EditsWereAllowed
  <2> QED
    BY <1>2, <2>1, <2>2 DEF Allowed
<1>6. ASSUME m.command = "apply"
      PROVE  Allowed(Materialized(m.parent)', m.operation)
  <2>1. m.parent = p /\ Materialized(p)' = Materialized(p)
    BY <1>1, <1>4, StatesAreRevisions DEF Continues
  <2>2. Allowed(Materialized(m.parent), m.operation)
    BY <1>6 DEF ViewsInv, DraftIsAllowed, Commit
  <2> QED
    BY <2>1, <2>2 DEF Allowed
<1>7. EditsWereAllowed'
  <2>1. ASSUME NEW r \in 1 .. n + 1, At(r)'.command = "apply"
        PROVE  Allowed(Materialized(At(r).parent)', At(r)'.operation)
    <3>1. CASE r \in 1 .. n
      BY <1>2, <1>5, <2>1, <3>1
    <3>2. CASE r = n + 1
      BY <1>2, <1>6, <2>1, <3>2
    <3> QED
      BY <1>3, <3>1, <3>2
  <2> QED
    BY <1>2, <2>1 DEF EditsWereAllowed, Allowed
<1>8. DraftIsAllowed'
  BY DEF IInv, TypeOK, LockMatchesLabels, DraftIsAllowed, Commit, Goto, InTransaction
<1> QED
  BY <1>7, <1>8 DEF ViewsInv

LEMMA StepKeepsViews == IInv /\ IInv' /\ ViewsInv /\ [Next]_vars => ViewsInv'
<1> SUFFICES ASSUME IInv, IInv', ViewsInv, [Next]_vars PROVE ViewsInv'
  OBVIOUS
<1>1. ASSUME NEW e \in Editor, Publish(e) PROVE ViewsInv'
  BY <1>1, PublishKeepsViews
<1>2. ASSUME NEW e \in Editor, Commit(e) PROVE ViewsInv'
  BY <1>2, CommitKeepsViews
<1>3. ASSUME UNCHANGED <<database, artifacts>>,
             \A e \in Editor :
                pc'[e] = "published" => pc[e] = "published" /\ draft'[e] = draft[e]
      PROVE  ViewsInv'
  BY <1>3, SameHistory, OthersKeepViews
<1>4. ASSUME NEW e \in Editor, Asked(e) PROVE ViewsInv'
  BY <1>3, <1>4 DEF Asked, Call, Goto, IInv, TypeOK
<1>5. ASSUME NEW e \in Editor,
             Begin(e) \/ GiveUp(e) \/ Reject(e)
      PROVE  ViewsInv'
  BY <1>3, <1>5 DEF Begin, GiveUp, Reject, Raise, Goto, Forget, IInv, TypeOK
<1>6. ASSUME NEW e \in Editor,
             PublishFails(e) \/ CommitFails(e) \/ Answer(e) \/ Crash(e)
      PROVE  ViewsInv'
  BY <1>3, <1>6 DEF PublishFails, CommitFails, Answer, Crash, Raise, Goto, Forget, IInv, TypeOK
<1>7. CASE UNCHANGED vars
  BY <1>3, <1>7 DEF vars
<1> QED
  BY <1>1, <1>2, <1>4, <1>5, <1>6, <1>7 DEF Next, Step

LEMMA ViewsInvariant == Spec => []ViewsInv
<1>1. Init => ViewsInv
  BY DEF Init, ViewsInv, EditsWereAllowed, DraftIsAllowed, HeadOf
<1>2. IInv /\ IInv' /\ ViewsInv /\ [Next]_vars => ViewsInv'
  BY StepKeepsViews
<1> QED
  BY <1>1, <1>2, InductiveInvariant, PTL DEF Spec

-----------------------------------------------------------------------------
(* The view of a state and the revisions that are active there.            *)

\* Each revision on the way from a state to the automatic output is an apply.
LEMMA ActiveAreApplies ==
    ASSUME IInv, NEW s \in 0 .. HeadOf, s = 0 \/ At(s).command = "apply",
           NEW t \in Active(s)
    PROVE  t \in 1 .. HeadOf /\ At(t).command = "apply" /\ At(t).operation \in Operation
<1> DEFINE S == {r \in 1 .. HeadOf : At(r).command = "apply"}
<1>1. s \in S \cup {0}
  BY StatesAreRevisions
<1>2. ParentClosed(S)
  <2>1. ASSUME NEW r \in S PROVE At(r).parent \in S \cup {0}
    <3>1. At(r).parent \in 0 .. HeadOf
      BY StatesAreRevisions
    <3>2. At(r).parent # 0 => At(At(r).parent).command = "apply"
      BY DEF IInv, SoundHistory, HistoryIsWellFounded
    <3> QED
      BY <3>1, <3>2, StatesAreRevisions
  <2> QED
    BY <2>1 DEF ParentClosed
<1>3. t \in S
  BY <1>1, <1>2 DEF Active
<1>4. At(t) \in ManualEdits
  BY <1>3, StatesAreRevisions
<1> QED
  BY <1>3, <1>4 DEF ManualEdits

LEMMA StateAtHeadIsApply ==
    ASSUME IInv
    PROVE  StateAtHead = 0 \/ At(StateAtHead).command = "apply"
<1>1. HeadOf # 0 => HeadOf \in 1 .. HeadOf
  BY StatesAreRevisions
<1> QED
  BY <1>1 DEF StateAtHead, IInv, SoundHistory, HistoryIsWellFounded

\* ViewIsTheLastWord, of any state and keyframe.
About(s, f) == {t \in Active(s) : At(t).operation.frame = f}

LastWord(s, f) ==
    f \in Materialized(s) <=>
        IF About(s, f) = {} THEN f \in Given
        ELSE \E t \in About(s, f) :
                 (\A q \in About(s, f) : q <= t) /\ At(t).operation.kind = "add"

\* One edit more: it has the last word on its keyframe, and leaves the others alone.
LEMMA LastWordFollows ==
    ASSUME IInv, NEW s \in 1 .. HeadOf, At(s).command = "apply",
           NEW p, p = At(s).parent, NEW f, LastWord(p, f)
    PROVE  LastWord(s, f)
<1> PICK o : o = At(s).operation
  OBVIOUS
<1>1. Active(s) = Active(p) \cup {s} /\ \A q \in Active(p) : q \in Nat /\ q < s
  BY ActiveOfState
<1>2. Materialized(s) = Effect(Materialized(p), o)
  BY ViewsAreComputed DEF ViewsFollow
<1>3. o.kind \in {"add", "remove"} /\ s \in Nat
  <2>1. At(s) \in ManualEdits
    BY StatesAreRevisions
  <2> QED
    BY <2>1 DEF ManualEdits, Operation
<1>4. CASE o.frame = f
  <2>1. About(s, f) = About(p, f) \cup {s} /\ About(p, f) \subseteq Active(p)
    BY <1>1, <1>4 DEF About
  <2>2. f \in Materialized(s) <=> o.kind = "add"
    BY <1>2, <1>3, <1>4 DEF Effect
  <2>3. \A q \in About(s, f) : q <= s
    BY <1>1, <1>3, <2>1
  <2>4. \A t \in About(s, f) : (\A q \in About(s, f) : q <= t) => t = s
    BY <1>1, <1>3, <2>1
  <2> QED
    BY <2>1, <2>2, <2>3, <2>4 DEF LastWord
<1>5. CASE o.frame # f
  <2>1. About(s, f) = About(p, f)
    BY <1>1, <1>5 DEF About
  <2>2. f \in Materialized(s) <=> f \in Materialized(p)
    BY <1>2, <1>5 DEF Effect
  <2> QED
    BY <2>1, <2>2 DEF LastWord
<1> QED
  BY <1>4, <1>5

LEMMA EachViewIsTheLastWord ==
    ASSUME IInv, NEW s \in 0 .. HeadOf, s = 0 \/ At(s).command = "apply", NEW f
    PROVE  LastWord(s, f)
<1> DEFINE S == {t \in 0 .. HeadOf : t = 0 \/ At(t).command = "apply" => LastWord(t, f)}
<1>1. HeadOf \in Nat
  BY StatesAreRevisions
<1>2. ASSUME NEW t \in 0 .. HeadOf, \A q \in 0 .. HeadOf : q < t => q \in S
      PROVE  t \in S
  <2>1. CASE t = 0
    <3>1. About(0, f) = {}
      BY NothingIsActiveAtZero DEF About
    <3> QED
      BY <2>1, <3>1, ViewsAreComputed DEF LastWord, ViewsFollow
  <2>2. CASE t # 0 /\ At(t).command = "apply"
    <3> PICK p : p = At(t).parent
      OBVIOUS
    <3>1. t \in 1 .. HeadOf /\ p \in 0 .. HeadOf /\ p < t
      BY <1>1, <2>2, StatesAreRevisions
    <3>2. p # 0 => At(p).command = "apply"
      BY <3>1 DEF IInv, SoundHistory, HistoryIsWellFounded
    <3>3. LastWord(p, f)
      BY <1>2, <3>1, <3>2
    <3>4. LastWord(t, f)
      BY <2>2, <3>1, <3>3, LastWordFollows
    <3> QED
      BY <3>4
  <2>3. CASE t # 0 /\ At(t).command # "apply"
    BY <2>3
  <2> QED
    BY <2>1, <2>2, <2>3
<1> HIDE DEF S
<1>3. 0 .. HeadOf \subseteq S
  BY <1>1, <1>2, Induction
<1> QED
  BY <1>3 DEF S

LEMMA ViewsAreFaithful == IInv /\ ViewsInv => HistoryIsFaithful
<1> SUFFICES ASSUME IInv, ViewsInv PROVE HistoryIsFaithful
  OBVIOUS
<1> PICK s : s = StateAtHead
  OBVIOUS
<1>1. /\ s \in 0 .. HeadOf
      /\ s = 0 \/ At(s).command = "apply"
      /\ ActiveAtHead = Active(s)
  BY StatesAreRevisions, StateAtHeadIsApply DEF ActiveAtHead
<1>2. ViewsMaterialize
  BY <1>1, ActiveAreApplies DEF ViewsMaterialize, ViewsInv, EditsWereAllowed
<1>3. ASSUME NEW f \in Frame PROVE LastWord(s, f)
  BY <1>1, EachViewIsTheLastWord
<1>4. ViewIsTheLastWord
  BY <1>1, <1>3 DEF ViewIsTheLastWord, LastWord, About
<1> QED
  BY <1>2, <1>4 DEF HistoryIsFaithful, IInv, SoundHistory

\* The view of a session can always be built, and shows the last word of the
\* active edits on each keyframe: whatever was undone, reset or brought back
\* before, whoever edits, and however their calls and their failures fall.
THEOREM FaithfulHistory == Spec => []HistoryIsFaithful
<1>1. IInv /\ ViewsInv => HistoryIsFaithful
  BY ViewsAreFaithful
<1> QED
  BY <1>1, InductiveInvariant, ViewsInvariant, PTL

==============================================================================
