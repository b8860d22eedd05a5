------------------------- MODULE ArtifactStoreProofs -------------------------
(***************************************************************************)
(* TLAPS proofs about ArtifactStore: its inductive invariant, the          *)
(* invariants the runs check, and the refinement of WriteOnceStore.        *)
(***************************************************************************)
EXTENDS ArtifactStore, TLAPS

USE SentinelAssumption

\* Whatever a call ends with, returning keeps the types.
LEMMA ReturnTyped ==
    ASSUME TypeOK, NEW c \in Caller, NEW answer \in Handle \cup Error,
           Return(c, answer)
    PROVE  /\ pc' \in [Caller -> Label]
           /\ late' \subseteq Caller
           /\ holder' \in [Key -> Caller \cup {NoOne}]
           /\ reply' \in [Caller -> Handle \cup Error \cup {NoReply}]
BY DEF TypeOK, Return, Goto, Unlock, Label, Locked

\* An exception is a failure of the wanted key.
LEMMA RaiseIsReturn ==
    ASSUME TypeOK, NEW c \in Caller, NEW f \in Failure, Raise(c, f)
    PROVE  \E answer \in Handle \cup Error : Return(c, answer)
<1> DEFINE answer == [key |-> want[c], failure |-> f]
<1>1. answer \in Error
  BY DEF TypeOK, Error
<1>2. Return(c, answer)
  BY DEF Raise
<1> QED
  BY <1>1, <1>2

\* A verified artifact is answered with a handle, a damaged one refused.
LEMMA VerifiedIsReturn ==
    ASSUME TypeOK, NEW c \in Caller, disk[want[c]] # NoArtifact, Verified(c)
    PROVE  \E answer \in Handle \cup Error : Return(c, answer)
<1>1. CASE want[c] \in damaged
  <2>1. "corrupt" \in Failure
    BY DEF Failure
  <2>2. Raise(c, "corrupt")
    BY <1>1 DEF Verified
  <2> QED
    BY <2>1, <2>2, RaiseIsReturn
<1>2. CASE want[c] \notin damaged
  <2> DEFINE answer == [key |-> want[c], value |-> disk[want[c]]]
  <2>1. answer \in Handle
    BY DEF TypeOK, Handle
  <2>2. Return(c, answer)
    BY <1>2 DEF Verified
  <2> QED
    BY <2>1, <2>2
<1> QED
  BY <1>1, <1>2

\* A call that ends without having touched the disk or a staging directory:
\* its lock goes, and with it every obligation of the caller.
LEMMA ReturnKeepsIInv ==
    ASSUME IInv, NEW c \in Caller, pc[c] # "staging",
           NEW answer \in Handle \cup Error, Return(c, answer),
           UNCHANGED <<want, disk, damaged, stage, orphans, crashes>>
    PROVE  IInv'
<1>1. TypeOK'
  BY ReturnTyped DEF IInv, TypeOK
<1>2. LockedOwns'
  BY DEF IInv, TypeOK, LockedOwns, Return, Goto, Unlock, Locked
<1>3. SeenAbsent' /\ SeenPresent' /\ StagedOnlyWhileStaging'
  BY DEF IInv, TypeOK, SeenAbsent, SeenPresent, StagedOnlyWhileStaging, Return, Goto
<1>4. NothingLeftBehind'
  BY DEF IInv, TypeOK, NothingLeftBehind, StagedOnlyWhileStaging, Return, Goto, Unlock
<1> QED
  BY <1>1, <1>2, <1>3, <1>4 DEF IInv

\* A caller outside the lock that starts or continues a call disturbs nothing.
LEMMA UnlockedMoveKeepsIInv ==
    ASSUME IInv, NEW c \in Caller, pc[c] \in {"idle", "looking"},
           NEW label \in {"waiting", "looking", "reading"}, Goto(c, label),
           want' \in [Caller -> Key],
           \A d \in Caller : d # c => want'[d] = want[d],
           label = "reading" => disk[want'[c]] # NoArtifact,
           UNCHANGED <<late, holder, disk, damaged, stage, orphans, reply, crashes>>
    PROVE  IInv'
<1>1. TypeOK'
  BY DEF IInv, TypeOK, Goto, Label
<1>2. LockedOwns' /\ SeenAbsent' /\ SeenPresent'
  BY DEF IInv, TypeOK, LockedOwns, SeenAbsent, SeenPresent, Goto, Locked
<1>3. StagedOnlyWhileStaging' /\ NothingLeftBehind'
  BY DEF IInv, TypeOK, StagedOnlyWhileStaging, NothingLeftBehind, Goto, Locked
<1> QED
  BY <1>1, <1>2, <1>3 DEF IInv

LEMMA InitEstablishesIInv == Init => IInv
BY DEF Init, IInv, TypeOK, LockedOwns, SeenAbsent, SeenPresent,
       StagedOnlyWhileStaging, NothingLeftBehind, Label, Locked, NoStage

LEMMA NextKeepsIInv == IInv /\ [Next]_vars => IInv'
<1> SUFFICES ASSUME IInv, [Next]_vars PROVE IInv'
  OBVIOUS
<1> USE DEF IInv
<1>1. ASSUME NEW c \in Caller, NEW k \in Key, CallGet(c, k) PROVE IInv'
  BY <1>1, UnlockedMoveKeepsIInv DEF CallGet, TypeOK
<1>2. ASSUME NEW c \in Caller, NEW k \in Key, CallGetOrCreate(c, k) PROVE IInv'
  BY <1>2, UnlockedMoveKeepsIInv DEF CallGetOrCreate, TypeOK
<1>3. ASSUME NEW c \in Caller, Look(c) PROVE IInv'
  <2>1. CASE disk[want[c]] = NoArtifact
    <3>1. Raise(c, "missing") /\ "missing" \in Failure
      BY <1>3, <2>1 DEF Look, Failure
    <3> QED
      BY <1>3, <3>1, RaiseIsReturn, ReturnKeepsIInv DEF Look
  <2>2. CASE disk[want[c]] # NoArtifact
    BY <1>3, <2>2, UnlockedMoveKeepsIInv DEF Look, TypeOK
  <2> QED
    BY <2>1, <2>2
<1>4. ASSUME NEW c \in Caller, Read(c) PROVE IInv'
  BY <1>4, VerifiedIsReturn, ReturnKeepsIInv DEF Read, SeenPresent
<1>5. ASSUME NEW c \in Caller, Expire(c) PROVE IInv'
  BY <1>5 DEF Expire, TypeOK, LockedOwns, SeenAbsent, SeenPresent,
              StagedOnlyWhileStaging, NothingLeftBehind
<1>6. ASSUME NEW c \in Caller, GiveUp(c) PROVE IInv'
  BY <1>6, RaiseIsReturn, ReturnKeepsIInv DEF GiveUp, Failure
<1>7. ASSUME NEW c \in Caller, Acquire(c) PROVE IInv'
  <2>1. TypeOK'
    BY <1>7 DEF Acquire, Goto, TypeOK, Label, Locked
  <2>2. LockedOwns'
    \* the lock was free, so nobody else is inside it
    BY <1>7 DEF Acquire, Goto, TypeOK, LockedOwns, Locked
  <2>3. SeenAbsent' /\ SeenPresent' /\ StagedOnlyWhileStaging'
    BY <1>7 DEF Acquire, Goto, TypeOK, SeenAbsent, SeenPresent, StagedOnlyWhileStaging
  <2>4. NothingLeftBehind'
    BY <1>7 DEF Acquire, Goto, TypeOK, NothingLeftBehind, Locked
  <2> QED
    BY <2>1, <2>2, <2>3, <2>4
<1>8. ASSUME NEW c \in Caller, TimeOut(c) PROVE IInv'
  BY <1>8, RaiseIsReturn, ReturnKeepsIInv DEF TimeOut, Failure
<1>9. ASSUME NEW c \in Caller, Check(c) PROVE IInv'
  <2>1. TypeOK' /\ LockedOwns' /\ NothingLeftBehind'
    BY <1>9 DEF Check, Goto, TypeOK, LockedOwns, NothingLeftBehind, Label, Locked
  <2>2. SeenAbsent' /\ SeenPresent' /\ StagedOnlyWhileStaging'
    BY <1>9 DEF Check, Goto, TypeOK, SeenAbsent, SeenPresent, StagedOnlyWhileStaging
  <2> QED
    BY <2>1, <2>2
<1>10. ASSUME NEW c \in Caller, NEW v \in Value, Produce(c, v) PROVE IInv'
  <2>1. TypeOK' /\ LockedOwns' /\ NothingLeftBehind'
    BY <1>10 DEF Produce, Goto, TypeOK, LockedOwns, NothingLeftBehind, Label, Locked
  <2>2. SeenAbsent' /\ SeenPresent' /\ StagedOnlyWhileStaging'
    BY <1>10 DEF Produce, Goto, TypeOK, SeenAbsent, SeenPresent,
                 StagedOnlyWhileStaging, NoStage
  <2> QED
    BY <2>1, <2>2
<1>11. ASSUME NEW c \in Caller, ProducerFails(c) PROVE IInv'
  BY <1>11, RaiseIsReturn, ReturnKeepsIInv DEF ProducerFails, Failure
<1>12. ASSUME NEW c \in Caller, StageFails(c) PROVE IInv'
  <2>1. PICK answer \in Handle \cup Error : Return(c, answer)
    BY <1>12, RaiseIsReturn DEF StageFails, Failure
  <2>2. TypeOK'
    BY <1>12, <2>1, ReturnTyped DEF StageFails, TypeOK
  <2>3. LockedOwns' /\ NothingLeftBehind'
    BY <1>12, <2>1 DEF StageFails, Return, Goto, Unlock, TypeOK, LockedOwns,
                       NothingLeftBehind, Locked
  <2>4. SeenAbsent' /\ SeenPresent' /\ StagedOnlyWhileStaging'
    BY <1>12, <2>1 DEF StageFails, Return, Goto, TypeOK, SeenAbsent, SeenPresent,
                       StagedOnlyWhileStaging
  <2> QED
    BY <2>2, <2>3, <2>4
<1>13. ASSUME NEW c \in Caller, Rename(c) PROVE IInv'
  <2>1. disk[want[c]] = NoArtifact
    \* what Check saw is still so: the destination does not exist
    BY <1>13 DEF Rename, SeenAbsent
  <2>2. TypeOK'
    BY <1>13, <2>1 DEF Rename, Goto, TypeOK, Label, Locked, NoStage
  <2>3. LockedOwns' /\ NothingLeftBehind'
    BY <1>13, <2>1 DEF Rename, Goto, TypeOK, LockedOwns, NothingLeftBehind, Locked
  <2>4. SeenAbsent'
    \* any other writer of this key would hold the lock c holds
    BY <1>13, <2>1 DEF Rename, Goto, TypeOK, SeenAbsent, LockedOwns, Locked
  <2>5. stage[c] # NoArtifact
    BY <1>13 DEF Rename, StagedOnlyWhileStaging, NoStage
  <2>6. SeenPresent' /\ StagedOnlyWhileStaging'
    BY <1>13, <2>1, <2>5 DEF Rename, Goto, TypeOK, SeenPresent, StagedOnlyWhileStaging
  <2> QED
    BY <2>2, <2>3, <2>4, <2>6
<1>14. ASSUME NEW c \in Caller, Verify(c) PROVE IInv'
  BY <1>14, VerifiedIsReturn, ReturnKeepsIInv DEF Verify, SeenPresent
<1>15. ASSUME NEW c \in Caller, Crash(c) PROVE IInv'
  <2>1. TypeOK'
    BY <1>15 DEF Crash, Unlock, Goto, TypeOK, Label, NoStage
  <2>2. LockedOwns' /\ NothingLeftBehind'
    BY <1>15 DEF Crash, Unlock, Goto, TypeOK, LockedOwns, NothingLeftBehind, Locked
  <2>3. SeenAbsent' /\ SeenPresent' /\ StagedOnlyWhileStaging'
    BY <1>15 DEF Crash, Goto, TypeOK, SeenAbsent, SeenPresent, StagedOnlyWhileStaging
  <2> QED
    BY <2>1, <2>2, <2>3
<1>16. ASSUME NEW k \in Key, Damage(k) PROVE IInv'
  BY <1>16 DEF Damage, TypeOK, LockedOwns, SeenAbsent, SeenPresent,
               StagedOnlyWhileStaging, NothingLeftBehind
<1>17. ASSUME UNCHANGED vars PROVE IInv'
  BY <1>17 DEF vars, TypeOK, LockedOwns, SeenAbsent, SeenPresent,
               StagedOnlyWhileStaging, NothingLeftBehind
<1> QED
  BY <1>1, <1>2, <1>3, <1>4, <1>5, <1>6, <1>7, <1>8, <1>9, <1>10, <1>11, <1>12,
     <1>13, <1>14, <1>15, <1>16, <1>17 DEF Next, CallerStep, Attempt

\* The inductive invariant: the lock and the caller inside it name each
\* other, and what that caller saw of the directory is still true.
THEOREM InductiveInvariant == Spec => []IInv
BY InitEstablishesIInv, NextKeepsIInv, PTL DEF Spec

\* The variables keep their types.
THEOREM TypeCorrect == Spec => []TypeOK
<1>1. IInv => TypeOK
  BY DEF IInv
<1> QED
  BY <1>1, InductiveInvariant, PTL

\* Produce once per key, for any number of callers, keys and deaths.
THEOREM ProducesOnce == Spec => []SoleProducer
<1>1. IInv => SoleProducer
  <2> SUFFICES ASSUME IInv, NEW k \in Key PROVE
          /\ \A c, d \in Writers(k) : c = d
          /\ Writers(k) # {} => disk[k] = NoArtifact
    BY DEF SoleProducer
  <2>1. \A c \in Writers(k) : holder[k] = c
    BY DEF Writers, IInv, LockedOwns, Locked
  <2>2. \A c \in Writers(k) : disk[k] = NoArtifact
    BY DEF Writers, IInv, SeenAbsent
  <2> QED
    BY <2>1, <2>2
<1> QED
  BY <1>1, InductiveInvariant, PTL

\* No lock outlives the call that took it, and no live caller has a staging
\* directory for a key it does not own.
THEOREM LeavesNothingBehind == Spec => []NothingLeftBehind
<1>1. IInv => NothingLeftBehind
  BY DEF IInv
<1> QED
  BY <1>1, InductiveInvariant, PTL

\* What the caller is told when a call ends in an error.
LEMMA RaiseIsRefuse ==
    ASSUME TypeOK, NEW c \in Caller, NEW f \in Failure, Raise(c, f),
           UNCHANGED <<disk, damaged>>
    PROVE  Registry!Next
<1>1. Registry!Refuse(c, want[c], f)
  BY DEF Raise, Return, Registry!Refuse
<1> QED
  BY <1>1 DEF TypeOK, Registry!Next

\* What the caller is told when it finds an artifact.
LEMMA VerifiedIsServeOrRefuse ==
    ASSUME TypeOK, NEW c \in Caller, disk[want[c]] # NoArtifact, Verified(c),
           UNCHANGED <<disk, damaged>>
    PROVE  Registry!Next
<1>1. CASE want[c] \in damaged
  BY <1>1, RaiseIsRefuse DEF Verified, Failure
<1>2. CASE want[c] \notin damaged
  <2>1. Registry!Serve(c, want[c])
    BY <1>2 DEF Verified, Return, Registry!Serve
  <2> QED
    BY <2>1 DEF TypeOK, Registry!Next
<1> QED
  BY <1>1, <1>2

LEMMA NextSimulates ==
    IInv /\ [Next]_vars => [Registry!Next]_(Registry!vars)
<1> SUFFICES ASSUME IInv, [Next]_vars
             PROVE  Registry!Next \/ UNCHANGED Registry!vars
  OBVIOUS
<1> USE DEF IInv
<1>1. ASSUME NEW c \in Caller, Look(c)
      PROVE  Registry!Next \/ UNCHANGED Registry!vars
  <2>1. CASE disk[want[c]] = NoArtifact
    <3>1. Raise(c, "missing") /\ UNCHANGED <<disk, damaged>> /\ "missing" \in Failure
      BY <1>1, <2>1 DEF Look, Failure
    <3> QED
      BY <3>1, RaiseIsRefuse
  <2>2. CASE disk[want[c]] # NoArtifact
    BY <1>1, <2>2 DEF Look, Registry!vars
  <2> QED
    BY <2>1, <2>2
<1>2. ASSUME NEW c \in Caller, Read(c) \/ Verify(c) PROVE Registry!Next
  BY <1>2, VerifiedIsServeOrRefuse DEF Read, Verify, SeenPresent
<1>3. ASSUME NEW c \in Caller,
             GiveUp(c) \/ TimeOut(c) \/ ProducerFails(c) \/ StageFails(c)
      PROVE  Registry!Next
  BY <1>3, RaiseIsRefuse DEF GiveUp, TimeOut, ProducerFails, StageFails, Failure
<1>4. ASSUME NEW c \in Caller, Rename(c) PROVE Registry!Next
  <2>1. disk[want[c]] = NoArtifact
    BY <1>4 DEF Rename, SeenAbsent
  <2>2. stage[c] \in Value
    BY <1>4 DEF Rename, StagedOnlyWhileStaging, TypeOK
  <2>3. Registry!Publish(want[c], stage[c])
    BY <1>4, <2>1 DEF Rename, Registry!Publish
  <2> QED
    BY <2>2, <2>3 DEF TypeOK, Registry!Next
<1>5. ASSUME NEW k \in Key, Damage(k) PROVE Registry!Next
  BY <1>5 DEF Damage, Registry!Damage, Registry!Next
<1>6. ASSUME NEW c \in Caller, NEW k \in Key, CallGet(c, k) \/ CallGetOrCreate(c, k)
      PROVE  UNCHANGED Registry!vars
  BY <1>6 DEF CallGet, CallGetOrCreate, Registry!vars
<1>7. ASSUME NEW c \in Caller, NEW v \in Value, Produce(c, v)
      PROVE  UNCHANGED Registry!vars
  BY <1>7 DEF Produce, Registry!vars
<1>8. ASSUME NEW c \in Caller, Expire(c) \/ Acquire(c) \/ Check(c) \/ Crash(c)
      PROVE  UNCHANGED Registry!vars
  BY <1>8 DEF Expire, Acquire, Check, Crash, Registry!vars
<1>9. CASE UNCHANGED vars
  BY <1>9 DEF vars, Registry!vars
<1> QED
  BY <1>1, <1>2, <1>3, <1>4, <1>5, <1>6, <1>7, <1>8, <1>9 DEF Next, CallerStep, Attempt

\* The store implements the write-once store: every step of the locking,
\* staging and renaming protocol is a step of WriteOnceStore or invisible.
THEOREM Refinement == Spec => ImplementsWriteOnce
<1>1. Init => Registry!Init
  BY DEF Init, Registry!Init
<1> QED
  BY <1>1, NextSimulates, InductiveInvariant, PTL
     DEF Spec, ImplementsWriteOnce, Registry!Spec
=============================================================================
