--------------------------- MODULE WriteOnceStore ---------------------------
(***************************************************************************)
(* What storage/store.py promises its callers, without locks, staging or   *)
(* processes: a key gets at most one artifact, the artifact is never       *)
(* overwritten or repaired, and a caller is handed either that very        *)
(* artifact, intact, or an error.                                          *)
(***************************************************************************)
CONSTANTS
    Caller,     \* threads of control that use the store
    Key,        \* artifact keys
    Value,      \* what a producer may return for a key
    Failure,    \* the errors a call may end with
    NoValue,    \* a key that has no artifact
    NoReply     \* a caller that has not been answered yet

VARIABLES
    content,    \* content[k]: the artifact of key k, or NoValue
    damaged,    \* the keys whose published bytes changed on disk
    reply       \* reply[c]: how the last call of c ended

vars == <<content, damaged, reply>>

Handle == [key : Key, value : Value]
Error == [key : Key, failure : Failure]

Init ==
    /\ content = [k \in Key |-> NoValue]
    /\ damaged = {}
    /\ reply = [c \in Caller |-> NoReply]

\* The first complete result of key k becomes its artifact, for good.
Publish(k, v) ==
    /\ content[k] = NoValue
    /\ content' = [content EXCEPT ![k] = v]
    /\ UNCHANGED <<damaged, reply>>

\* The file system is not under the store's control.
Damage(k) ==
    /\ content[k] # NoValue
    /\ damaged' = damaged \cup {k}
    /\ UNCHANGED <<content, reply>>

\* A handle is given out for a published, undamaged artifact only.
Serve(c, k) ==
    /\ content[k] # NoValue
    /\ k \notin damaged
    /\ reply' = [reply EXCEPT ![c] = [key |-> k, value |-> content[k]]]
    /\ UNCHANGED <<content, damaged>>

Refuse(c, k, f) ==
    /\ reply' = [reply EXCEPT ![c] = [key |-> k, failure |-> f]]
    /\ UNCHANGED <<content, damaged>>

Next ==
    \/ \E k \in Key, v \in Value : Publish(k, v)
    \/ \E k \in Key : Damage(k)
    \/ \E c \in Caller, k \in Key : Serve(c, k)
    \/ \E c \in Caller, k \in Key, f \in Failure : Refuse(c, k, f)

Spec == Init /\ [][Next]_vars
=============================================================================
