----------------------------- MODULE MediaAccess -----------------------------
(***************************************************************************)
(* media_access.py, the stream endpoint of api.py and media_variants.py:   *)
(* what is made from a source file while somebody changes the file.        *)
(*                                                                         *)
(* A path names an inode and an inode has bytes.  An edit overwrites them  *)
(* or renames another file over the path; no edit brings old bytes back,   *)
(* and each one changes what stat says, so inode and bytes stand for the   *)
(* five fields of _identity.  A hash is the bytes it was made of, and so   *)
(* is a frame.  One frame of one camera stands for the frames.             *)
(***************************************************************************)
EXTENDS Naturals, FiniteSets

CONSTANTS
    Client,     \* requests to the service and runs of materialize
    None,
    Streams,    \* permits for streams (4 in the code) ...
    Decoders,   \* ... and for decoders (2)
    Keep,       \* how many previews a cache keeps (16)
    MaxEdits, MaxRequests   \* bounds

VARIABLES
    named,      \* the inode that the path names
    bytes,      \* bytes[i]: the bytes of inode i
    index,      \* _indexes and _source_hashes: identities and their hashes
    lock,       \* the client that has _lock
    memory, disk, variants,     \* what was made: the hash it is kept under, and of what
    streams, decoders,          \* permits taken
    dropped,    \* responses that were dropped before their first block
    at,         \* at[c]: what c is about to do
    item,       \* item[c]: the identity it resolved and the hash it trusts
    pinned,     \* pinned[c]: the inode of its descriptor
    made,       \* made[c]: the bytes it read
    edits, requests

files == <<named, bytes, edits>>
caches == <<index, memory, disk, variants>>
permits == <<streams, decoders, dropped>>
vars == <<files, caches, permits, lock, at, item, pinned, made, requests>>

Identity(i) == <<i, bytes[i]>>
PathIdentity == Identity(named)

Init ==
    /\ named = 0 /\ bytes = [i \in 0..MaxEdits |-> i] /\ edits = 0
    /\ index = {} /\ memory = {} /\ disk = {} /\ variants = {}
    /\ streams = 0 /\ decoders = 0 /\ dropped = 0
    /\ lock = None
    /\ at = [c \in Client |-> "idle"]
    /\ item = [c \in Client |-> None]
    /\ pinned = [c \in Client |-> None]
    /\ made = [c \in Client |-> None]
    /\ requests = 0

Goto(c, place) == at' = [at EXCEPT ![c] = place]

\* c has its answer: a frame, a stream's end, an error.
Done(c) ==
    /\ Goto(c, "idle")
    /\ item' = [item EXCEPT ![c] = None]
    /\ pinned' = [pinned EXCEPT ![c] = None]
    /\ made' = [made EXCEPT ![c] = None]

-----------------------------------------------------------------------------
Overwrite ==
    /\ edits < MaxEdits
    /\ edits' = edits + 1
    /\ bytes' = [bytes EXCEPT ![named] = MaxEdits + edits + 1]
    /\ UNCHANGED <<named, caches, permits, lock, at, item, pinned, made, requests>>

Replace ==
    /\ edits < MaxEdits
    /\ edits' = edits + 1
    /\ named' = edits + 1
    /\ UNCHANGED <<bytes, caches, permits, lock, at, item, pinned, made, requests>>

\* resolve: stat the path, and look its identity up.
Resolve(c) ==
    /\ at[c] = "idle" /\ requests < MaxRequests /\ lock = None
    /\ requests' = requests + 1
    /\ LET known == {x \in index : x.id = PathIdentity} IN
       IF known # {}
       THEN /\ item' = [item EXCEPT ![c] = CHOOSE x \in known : TRUE]
            /\ Goto(c, "resolved") /\ UNCHANGED lock
       ELSE /\ item' = [item EXCEPT ![c] = [id |-> PathIdentity, sha |-> None]]
            /\ Goto(c, "index") /\ lock' = c
    /\ UNCHANGED <<files, caches, permits, pinned, made>>

\* _open_checked: the descriptor is of the file that was resolved, or nothing.
Pin(c, next) ==
    IF PathIdentity = item[c].id
    THEN /\ pinned' = [pinned EXCEPT ![c] = named]
         /\ Goto(c, next)
         /\ UNCHANGED <<item, made>>
    ELSE Done(c)

\* index_recording reads through the descriptor, all of it under _lock.
Index(c) ==
    /\ at[c] = "index"
    /\ Pin(c, "hash")
    /\ lock' = IF PathIdentity = item[c].id THEN lock ELSE None
    /\ UNCHANGED <<files, caches, permits, requests>>

Hash(c) ==
    /\ at[c] = "hash"
    /\ item' = [item EXCEPT ![c].sha = bytes[pinned[c]]]
    /\ Goto(c, "indexed")
    /\ UNCHANGED <<files, caches, permits, lock, pinned, made, requests>>

\* Mutant: after reading, the identity is taken for granted.
Trusted(c) == TRUE

\* The descriptor still has the identity that was resolved.
Unchanged(c) == Identity(pinned[c]) = item[c].id

\* The hash is kept when neither the descriptor nor the path has changed.
Indexed(c) ==
    /\ at[c] = "indexed"
    /\ lock' = None
    /\ IF Unchanged(c) /\ PathIdentity = item[c].id
       THEN /\ index' = index \cup {item[c]}
            /\ pinned' = [pinned EXCEPT ![c] = None]
            /\ Goto(c, "resolved") /\ UNCHANGED <<item, made>>
       ELSE Done(c) /\ UNCHANGED index
    /\ UNCHANGED <<files, memory, disk, variants, permits, requests>>

-----------------------------------------------------------------------------
\* preview: the source is opened, then the two caches are asked.
Preview(c) ==
    /\ at[c] = "resolved"
    /\ Pin(c, "cached")
    /\ UNCHANGED <<files, caches, permits, lock, requests>>

Held(cache, c) == {x \in cache : x.key = item[c].sha}

\* A hit on disk is remembered in memory; a cache that is full drops one.
Remember(cache, x) ==
    LET all == cache \cup {x} IN
    IF Cardinality(all) <= Keep THEN {all} ELSE {all \ {y} : y \in all \ {x}}

Cached(c) ==
    /\ at[c] = "cached" /\ lock = None
    /\ \/ /\ Held(memory, c) # {} /\ Done(c)
          /\ UNCHANGED <<memory, permits>>
       \/ /\ Held(memory, c) = {} /\ Held(disk, c) # {} /\ Done(c)
          /\ \E x \in Held(disk, c) : memory' \in Remember(memory, x)
          /\ UNCHANGED permits
       \/ /\ Held(memory, c) = {} /\ Held(disk, c) = {}
          /\ IF decoders = Decoders
             THEN Done(c) /\ UNCHANGED permits
             ELSE /\ decoders' = decoders + 1
                  /\ Goto(c, "decode")
                  /\ UNCHANGED <<streams, dropped, item, pinned, made>>
          /\ UNCHANGED memory
    /\ UNCHANGED <<files, index, disk, variants, lock, requests>>

Decode(c) ==
    /\ at[c] = "decode"
    /\ made' = [made EXCEPT ![c] = bytes[pinned[c]]]
    /\ Goto(c, "decoded")
    /\ UNCHANGED <<files, caches, permits, lock, item, pinned, requests>>

\* The identity is looked at once more before the frame is kept.
Decoded(c) ==
    /\ at[c] = "decoded"
    /\ decoders' = decoders - 1
    /\ LET x == [key |-> item[c].sha, of |-> made[c]] IN
       IF Unchanged(c)
       THEN disk' \in Remember(disk, x) /\ memory' \in Remember(memory, x)
       ELSE UNCHANGED <<disk, memory>>
    /\ Done(c)
    /\ UNCHANGED <<files, index, variants, streams, dropped, lock, requests>>

-----------------------------------------------------------------------------
\* Mutant: the permit is not given back when the source cannot be opened.
KeepsPermit == streams + 1

AfterRefusal == streams

\* source_video: the permit first, then the source.
Stream(c) ==
    /\ at[c] = "resolved"
    /\ IF streams = Streams THEN Done(c) /\ UNCHANGED streams
       ELSE /\ Pin(c, "answered")
            /\ streams' = IF PathIdentity = item[c].id THEN streams + 1 ELSE AfterRefusal
    /\ UNCHANGED <<files, caches, decoders, dropped, lock, requests>>

\* chunks: its finally closes the file and releases the permit ...
Streamed(c) ==
    /\ at[c] = "answered"
    /\ streams' = streams - 1
    /\ Done(c)
    /\ UNCHANGED <<files, caches, decoders, dropped, lock, requests>>

\* ... if the server ever starts the generator.
Drop(c) ==
    /\ at[c] = "answered"
    /\ dropped' = dropped + 1
    /\ Done(c)
    /\ UNCHANGED <<files, caches, streams, decoders, lock, requests>>

-----------------------------------------------------------------------------
\* materialize, in a process of its own: it hashes the path, encodes what the
\* path then names, and hashes the path again.  Its flock is not modelled: two
\* that encode the same window make the same clip.
Materialize(c) ==
    /\ at[c] = "idle" /\ requests < MaxRequests
    /\ requests' = requests + 1
    /\ item' = [item EXCEPT ![c] = [id |-> PathIdentity, sha |-> bytes[named]]]
    /\ Goto(c, "encode")
    /\ UNCHANGED <<files, caches, permits, lock, pinned, made>>

Encode(c) ==
    /\ at[c] = "encode"
    /\ IF Held(variants, c) # {} THEN Done(c)
       ELSE /\ made' = [made EXCEPT ![c] = bytes[named]]
            /\ Goto(c, "encoded") /\ UNCHANGED <<item, pinned>>
    /\ UNCHANGED <<files, caches, permits, lock, requests>>

Encoded(c) ==
    /\ at[c] = "encoded"
    /\ variants' = IF bytes[named] = item[c].sha
                   THEN variants \cup {[key |-> item[c].sha, of |-> made[c]]}
                   ELSE variants
    /\ Done(c)
    /\ UNCHANGED <<files, index, memory, disk, permits, lock, requests>>

\* The service starts again: what it kept in memory is gone, and with it its
\* requests; materialize goes on.
Restart ==
    /\ requests < MaxRequests
    /\ requests' = requests + 1
    /\ memory' = {} /\ index' = {} /\ lock' = None
    /\ streams' = 0 /\ decoders' = 0 /\ dropped' = 0
    /\ LET going == {c \in Client : at[c] \in {"encode", "encoded"}} IN
        /\ at' = [c \in Client |-> IF c \in going THEN at[c] ELSE "idle"]
        /\ item' = [c \in Client |-> IF c \in going THEN item[c] ELSE None]
        /\ made' = [c \in Client |-> IF c \in going THEN made[c] ELSE None]
        /\ pinned' = [c \in Client |-> None]
    /\ UNCHANGED <<files, disk, variants>>

Next ==
    \/ Overwrite \/ Replace \/ Restart
    \/ \E c \in Client :
        \/ Resolve(c) \/ Index(c) \/ Hash(c) \/ Indexed(c)
        \/ Preview(c) \/ Cached(c) \/ Decode(c) \/ Decoded(c)
        \/ Stream(c) \/ Streamed(c) \/ Drop(c)
        \/ Materialize(c) \/ Encode(c) \/ Encoded(c)

Spec == Init /\ [][Next]_vars

-----------------------------------------------------------------------------
\* Whatever is kept under the hash of a source was made of the bytes that have
\* that hash, and a hash kept for an identity is of the bytes that had it,
\* although the file can be overwritten or replaced between any two of the
\* opens, reads and checks (media_access.py:127-155, 264-355).
KeptIsOfItsSource ==
    /\ \A x \in memory \cup disk \cup variants : x.of = x.key
    /\ \A x \in index : x.sha = x.id[2]

\* Every permit belongs to a response that is being sent or a frame that is
\* being decoded, except those of responses the server dropped unstarted.
PermitsAreAccountedFor ==
    /\ streams = dropped + Cardinality({c \in Client : at[c] = "answered"})
    /\ decoders = Cardinality({c \in Client : at[c] \in {"decode", "decoded"}})

=============================================================================
