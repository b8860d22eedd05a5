---------------------------- MODULE ArtifactStore ----------------------------
(***************************************************************************)
(* storage/store.py: the content-addressed artifact store shared by every  *)
(* thread and process of the pipeline.  One directory per key appears by   *)
(* an atomic rename under a per-key flock; a call that finds it returns    *)
(* the verified artifact and a call that does not runs its producer.       *)
(*                                                                         *)
(* Abstracted: the bytes of an artifact are a Value, its hashes the fact   *)
(* that nothing damaged it.  A crash is the death of one caller's process: *)
(* the kernel drops its flock and its staging directory stays behind.      *)
(***************************************************************************)
EXTENDS Naturals

CONSTANTS
    Caller,         \* threads or processes that use the store
    Key,            \* artifact keys (ArtifactKey.digest)
    Value,          \* contents a producer may come up with
    NoOne,          \* a lock that is free
    NoArtifact,     \* a key whose directory does not exist
    NoReply,        \* a caller that has not been answered yet
    MaxCrashes      \* bound: process deaths in a behaviour

ASSUME SentinelAssumption ==
    /\ NoOne \notin Caller
    /\ NoArtifact \notin Value
    /\ MaxCrashes \in Nat

\* The exceptions a call may end with; "producer_error" is whatever the
\* producer or the validation of its result raises.
Failure == {"missing", "corrupt", "timeout", "cancelled", "producer_error"}

VARIABLES
    pc,         \* pc[c]: where caller c is inside get or get_or_create
    want,       \* want[c]: the key of its current or last call
    late,       \* the callers whose deadline has passed
    holder,     \* holder[k]: who has the flock of key k
    disk,       \* disk[k]: the content of directory k, or NoArtifact
    damaged,    \* the keys whose published files were altered from outside
    stage,      \* stage[c]: what c is writing to its staging directory
    orphans,    \* orphans[k]: staging directories of k left by dead writers
    reply,      \* reply[c]: how its last call ended
    crashes     \* deaths so far

vars == <<pc, want, late, holder, disk, damaged, stage, orphans, reply, crashes>>

\* Inside the flock of the wanted key.
Locked == {"checking", "producing", "staging", "verifying"}

Label == Locked \cup {"idle", "waiting", "looking", "reading"}

NoStage == NoArtifact

Handle == [key : Key, value : Value]
Error == [key : Key, failure : Failure]

TypeOK ==
    /\ pc \in [Caller -> Label]
    /\ want \in [Caller -> Key]
    /\ late \subseteq Caller
    /\ holder \in [Key -> Caller \cup {NoOne}]
    /\ disk \in [Key -> Value \cup {NoArtifact}]
    /\ damaged \subseteq Key
    /\ stage \in [Caller -> Value \cup {NoStage}]
    /\ orphans \in [Key -> Nat]
    /\ reply \in [Caller -> Handle \cup Error \cup {NoReply}]
    /\ crashes \in Nat

Init ==
    /\ pc = [c \in Caller |-> "idle"]
    /\ want \in [Caller -> Key]
    /\ late = {}
    /\ holder = [k \in Key |-> NoOne]
    /\ disk = [k \in Key |-> NoArtifact]
    /\ damaged = {}
    /\ stage = [c \in Caller |-> NoStage]
    /\ orphans = [k \in Key |-> 0]
    /\ reply = [c \in Caller |-> NoReply]
    /\ crashes = 0

-----------------------------------------------------------------------------
(* How a call ends.                                                        *)

Goto(c, label) == pc' = [pc EXCEPT ![c] = label]

\* The finally of get_or_create: release the flock if c has it.
Unlock(c) ==
    holder' = [k \in Key |-> IF holder[k] = c THEN NoOne ELSE holder[k]]

Return(c, answer) ==
    /\ Goto(c, "idle")
    /\ Unlock(c)
    /\ late' = late \ {c}
    /\ reply' = [reply EXCEPT ![c] = answer]

Raise(c, failure) == Return(c, [key |-> want[c], failure |-> failure])

\* Mutant: the hashes are not compared.
VerifiedUnseen(c) == Return(c, [key |-> want[c], value |-> disk[want[c]]])

\* ArtifactStore.get once the directory is known to exist: every hash, the
\* inventory and the metadata are compared before a handle is made.
Verified(c) ==
    IF want[c] \in damaged
    THEN Raise(c, "corrupt")
    ELSE Return(c, [key |-> want[c], value |-> disk[want[c]]])

-----------------------------------------------------------------------------
(* get: no lock is taken.                                                  *)

CallGet(c, k) ==
    /\ pc[c] = "idle"
    /\ Goto(c, "looking")
    /\ want' = [want EXCEPT ![c] = k]
    /\ UNCHANGED <<late, holder, disk, damaged, stage, orphans, reply, crashes>>

Look(c) ==
    /\ pc[c] = "looking"
    /\ IF disk[want[c]] = NoArtifact
       THEN Raise(c, "missing")
       ELSE Goto(c, "reading") /\ UNCHANGED <<holder, late, reply>>
    /\ UNCHANGED <<want, disk, damaged, stage, orphans, crashes>>

Read(c) ==
    /\ pc[c] = "reading"
    /\ Verified(c)
    /\ UNCHANGED <<want, disk, damaged, stage, orphans, crashes>>

-----------------------------------------------------------------------------
(* get_or_create.                                                          *)

CallGetOrCreate(c, k) ==
    /\ pc[c] = "idle"
    /\ Goto(c, "waiting")
    /\ want' = [want EXCEPT ![c] = k]
    /\ UNCHANGED <<late, holder, disk, damaged, stage, orphans, reply, crashes>>

\* The monotonic clock passes the caller's deadline.
Expire(c) ==
    /\ pc[c] = "waiting"
    /\ late' = late \cup {c}
    /\ UNCHANGED <<pc, want, holder, disk, damaged, stage, orphans, reply, crashes>>

\* The cancelled callback is asked before each attempt to lock.
GiveUp(c) ==
    /\ pc[c] = "waiting"
    /\ Raise(c, "cancelled")
    /\ UNCHANGED <<want, disk, damaged, stage, orphans, crashes>>

\* One non-blocking attempt: it locks, or it fails; a failed attempt after
\* the deadline ends the call, any other one sleeps and tries again.
Acquire(c) ==
    /\ pc[c] = "waiting"
    /\ holder[want[c]] = NoOne
    /\ holder' = [holder EXCEPT ![want[c]] = c]
    /\ Goto(c, "checking")
    /\ UNCHANGED <<want, late, disk, damaged, stage, orphans, reply, crashes>>

\* Mutant: the deadline is computed anew before each attempt.
TimeOutRenewed(c) ==
    /\ pc[c] = "waiting"
    /\ holder[want[c]] # NoOne
    /\ c \in late
    /\ late' = late \ {c}
    /\ UNCHANGED <<pc, want, holder, disk, damaged, stage, orphans, reply, crashes>>

TimeOut(c) ==
    /\ pc[c] = "waiting"
    /\ holder[want[c]] # NoOne
    /\ c \in late
    /\ Raise(c, "timeout")
    /\ UNCHANGED <<want, disk, damaged, stage, orphans, crashes>>

Attempt(c) == Acquire(c) \/ TimeOut(c)

\* Mutant: the directory was looked for before the lock was waited for.
CheckForgotten(c) ==
    /\ pc[c] = "checking"
    /\ Goto(c, "producing")
    /\ UNCHANGED <<want, late, holder, disk, damaged, stage, orphans, reply, crashes>>

\* Under the lock: another writer may have published in the meantime.
Check(c) ==
    /\ pc[c] = "checking"
    /\ Goto(c, IF disk[want[c]] = NoArtifact THEN "producing" ELSE "verifying")
    /\ UNCHANGED <<want, late, holder, disk, damaged, stage, orphans, reply,
                   crashes>>

\* The producer returns v, its result passes the checks of _publish, and a
\* fresh staging directory is made beside the destination.
Produce(c, v) ==
    /\ pc[c] = "producing"
    /\ stage' = [stage EXCEPT ![c] = v]
    /\ Goto(c, "staging")
    /\ UNCHANGED <<want, late, holder, disk, damaged, orphans, reply, crashes>>

ProducerFails(c) ==
    /\ pc[c] = "producing"
    /\ Raise(c, "producer_error")
    /\ UNCHANGED <<want, disk, damaged, stage, orphans, crashes>>

\* Mutant: the staging directory is removed on success only.
StageFailsUncleaned(c) ==
    /\ pc[c] = "staging"
    /\ Raise(c, "producer_error")
    /\ UNCHANGED <<want, disk, damaged, stage, orphans, crashes>>

\* An array that contradicts its descriptor, or a full disk, is found while
\* staging: the writer removes its own staging directory and re-raises.
StageFails(c) ==
    /\ pc[c] = "staging"
    /\ stage' = [stage EXCEPT ![c] = NoStage]
    /\ Raise(c, "producer_error")
    /\ UNCHANGED <<want, disk, damaged, orphans, crashes>>

\* Everything is written and flushed.  rename(2) refuses a destination that
\* exists and is not empty; the staging directory is then removed and the
\* OSError reaches the caller.
Rename(c) ==
    /\ pc[c] = "staging"
    /\ stage' = [stage EXCEPT ![c] = NoStage]
    /\ IF disk[want[c]] = NoArtifact
       THEN /\ disk' = [disk EXCEPT ![want[c]] = stage[c]]
            /\ Goto(c, "verifying")
            /\ UNCHANGED <<late, holder, reply>>
       ELSE Raise(c, "producer_error") /\ UNCHANGED disk
    /\ UNCHANGED <<want, damaged, orphans, crashes>>

Verify(c) ==
    /\ pc[c] = "verifying"
    /\ Verified(c)
    /\ UNCHANGED <<want, disk, damaged, stage, orphans, crashes>>

-----------------------------------------------------------------------------
(* The environment.                                                        *)

\* A process dies: its flock is released, its staging directory is not
\* removed by anyone, and its caller gets no answer.
Crash(c) ==
    /\ pc[c] # "idle"
    /\ crashes < MaxCrashes
    /\ crashes' = crashes + 1
    /\ Goto(c, "idle")
    /\ Unlock(c)
    /\ late' = late \ {c}
    /\ stage' = [stage EXCEPT ![c] = NoStage]
    /\ orphans' = IF stage[c] # NoStage
                  THEN [orphans EXCEPT ![want[c]] = @ + 1]
                  ELSE orphans
    /\ UNCHANGED <<want, disk, damaged, reply>>

\* Published bytes are altered by something other than the store.
Damage(k) ==
    /\ disk[k] # NoArtifact
    /\ damaged' = damaged \cup {k}
    /\ UNCHANGED <<pc, want, late, holder, disk, stage, orphans, reply, crashes>>

CallerStep(c) ==
    \/ \E k \in Key : CallGet(c, k) \/ CallGetOrCreate(c, k)
    \/ Look(c) \/ Read(c)
    \/ Expire(c) \/ GiveUp(c) \/ Attempt(c)
    \/ Check(c) \/ (\E v \in Value : Produce(c, v)) \/ ProducerFails(c)
    \/ StageFails(c) \/ Rename(c) \/ Verify(c)

Next ==
    \/ \E c \in Caller : CallerStep(c) \/ Crash(c)
    \/ \E k \in Key : Damage(k)

\* Only the waiting loop is assumed to make progress: the clock runs and the
\* loop polls again.  Nothing is assumed of producers.
Fairness == \A c \in Caller : WF_vars(Expire(c)) /\ WF_vars(Attempt(c))

Spec == Init /\ [][Next]_vars /\ Fairness

-----------------------------------------------------------------------------
(* Properties.                                                             *)

\* Callers that run the producer of key k or write its result.
Writers(k) == {c \in Caller : pc[c] \in {"producing", "staging"} /\ want[c] = k}

\* "Produce once per key": two callers never run the producer of one key at
\* the same time, and none runs it for a key that already has an artifact,
\* so no rename of _publish ever meets an existing directory.
SoleProducer ==
    \A k \in Key :
        /\ \A c, d \in Writers(k) : c = d
        /\ Writers(k) # {} => disk[k] = NoArtifact

\* A lock is held by a caller that is still inside the locked section and
\* asked for that key, so a death, a timeout, a cancellation or an exception
\* never leaves a key locked; and a live caller's staging directory exists
\* only while it owns the key.
NothingLeftBehind ==
    /\ \A k \in Key : holder[k] # NoOne =>
            pc[holder[k]] \in Locked /\ want[holder[k]] = k
    /\ \A c \in Caller : stage[c] # NoStage => holder[want[c]] = c

\* The strengthening that makes the two invariants above inductive.  The
\* lock and the caller that is inside it name each other ...
LockedOwns == \A c \in Caller : pc[c] \in Locked => holder[want[c]] = c

\* ... what Check saw of the directory stays true while the lock is held ...
SeenAbsent ==
    \A c \in Caller : pc[c] \in {"producing", "staging"} => disk[want[c]] = NoArtifact

\* ... and what was seen there is never removed.
SeenPresent ==
    \A c \in Caller : pc[c] \in {"reading", "verifying"} => disk[want[c]] # NoArtifact

StagedOnlyWhileStaging == \A c \in Caller : stage[c] # NoStage <=> pc[c] = "staging"

IInv ==
    /\ TypeOK
    /\ LockedOwns
    /\ SeenAbsent
    /\ SeenPresent
    /\ StagedOnlyWhileStaging
    /\ NothingLeftBehind

\* The store as its callers see it: written once, never repaired, and a
\* handle is the published artifact or is not given out at all.
Registry == INSTANCE WriteOnceStore WITH
    content <- disk, NoValue <- NoArtifact

ImplementsWriteOnce == Registry!Spec

\* A wait is bounded whatever the writer does: a caller in the polling loop
\* leaves it even when the lock holder never returns from its producer.
WaitEnds == \A c \in Caller : pc[c] = "waiting" ~> pc[c] # "waiting"
=============================================================================
