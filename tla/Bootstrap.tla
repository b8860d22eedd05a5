------------------------------ MODULE Bootstrap ------------------------------
(***************************************************************************)
(* dataset_bootstrap.py: acquire the pinned archive once, over a publisher *)
(* that may change it, lose the connection, or give no strong ETag, in a   *)
(* process that may be killed between any two of its file operations.      *)
(*                                                                         *)
(* A file is a sequence of blocks and a block is the version it comes      *)
(* from; the registration pins version Pinned.  All of bootstrap runs      *)
(* under a flock, so one process is enough.                                *)
(***************************************************************************)
EXTENDS Naturals, Sequences

CONSTANTS
    None,
    Pinned,         \* the version whose SHA-256 is registered
    Versions,       \* what the publisher may serve, oldest first
    Size,           \* blocks of an archive
    Retries,        \* transfers tried in a call (_RETRIES)
    MaxCalls, MaxBreaks     \* bounds: calls; lost connections and kills

VARIABLES
    served,     \* the version that the publisher has
    strong,     \* does it give strong ETags?
    part,       \* Data.zip.part, or None
    sidecar,    \* transfer.json: the ETag of the part, None, or "absent"
    litter,     \* a temporary file of _write_json is left in the stage
    extracted,  \* the directory extracted: its bytes, and has it a receipt?
    published,  \* the published directory: its bytes, or None
    at, tag,    \* what the call does; the ETag that HEAD gave
    from,       \* the version whose bytes the response delivers
    attempt, calls, breaks

vars == <<served, strong, part, sidecar, litter, extracted, published,
          at, tag, from, attempt, calls, breaks>>
disk == <<part, sidecar, litter, extracted, published>>
publisher == <<served, strong>>

Whole(v) == [i \in 1..Size |-> v]
ETag == IF strong THEN served ELSE None

Init ==
    /\ served = 0 /\ strong \in BOOLEAN
    /\ part = None /\ sidecar = "absent" /\ litter = FALSE
    /\ extracted = None /\ published = None
    /\ at = "idle" /\ tag = None /\ from = None
    /\ attempt = 0 /\ calls = 0 /\ breaks = 0

\* The publisher replaces the archive; it has the same size.
Change ==
    /\ served + 1 \in Versions
    /\ served' = served + 1
    /\ UNCHANGED <<strong, disk, at, tag, from, attempt, calls, breaks>>

\* The published files are damaged, or somebody deletes some of them.
Damage ==
    /\ published = Whole(Pinned) /\ at = "idle" /\ breaks < MaxBreaks
    /\ published' = Whole(None)
    /\ breaks' = breaks + 1
    /\ UNCHANGED <<publisher, part, sidecar, litter, extracted, at, tag, from, attempt, calls>>

\* A verified hit ends the call; a damaged copy is moved away with --repair.
Call(repair) ==
    /\ at = "idle" /\ calls < MaxCalls
    /\ calls' = calls + 1
    /\ IF published = Whole(Pinned) THEN UNCHANGED <<at, attempt, published>>
       ELSE IF published # None /\ ~repair THEN UNCHANGED <<at, attempt, published>>
       ELSE published' = None /\ at' = "head" /\ attempt' = 1
    /\ UNCHANGED <<publisher, part, sidecar, litter, extracted, tag, from, breaks>>

-----------------------------------------------------------------------------
\* Mutant: a part is resumed whatever ETag it was begun with.
AnyTag == part # None

\* May the part be resumed?
Resumable == part # None /\ sidecar = tag /\ tag # None

AskHead ==
    /\ at = "head"
    /\ tag' = ETag
    /\ at' = "prepare"
    /\ UNCHANGED <<publisher, disk, from, attempt, calls, breaks>>

\* A part that cannot be resumed goes before the new sidecar is written.
Prepare ==
    /\ at = "prepare"
    /\ part' = IF Resumable THEN part ELSE None
    /\ at' = "sidecar"
    /\ UNCHANGED <<publisher, sidecar, litter, extracted, published, tag, from, attempt, calls, breaks>>

Sidecar ==
    /\ at = "sidecar"
    /\ sidecar' = tag
    /\ at' = IF part # None /\ Len(part) = Size THEN "check" ELSE "get"
    /\ UNCHANGED <<publisher, part, litter, extracted, published, tag, from, attempt, calls, breaks>>

\* A range is asked for with If-Range, and refused if the ETag has changed.
Get ==
    /\ at = "get"
    /\ IF part # None /\ part # <<>> /\ ETag # tag
       THEN at' = "failed" /\ UNCHANGED <<part, from>>
       ELSE /\ part' = IF part = None THEN <<>> ELSE part
            /\ from' = served
            /\ at' = "read"
    /\ UNCHANGED <<publisher, sidecar, litter, extracted, published, tag, attempt, calls, breaks>>

Read ==
    /\ at = "read"
    /\ IF Len(part) < Size
       THEN part' = Append(part, from) /\ UNCHANGED at
       ELSE at' = "check" /\ UNCHANGED part
    /\ UNCHANGED <<publisher, sidecar, litter, extracted, published, tag, from, attempt, calls, breaks>>

\* The connection is lost: another attempt starts from HEAD.
Break ==
    /\ at \in {"head", "get", "read"} /\ breaks < MaxBreaks
    /\ breaks' = breaks + 1
    /\ at' = IF attempt = Retries THEN "failed" ELSE "head"
    /\ attempt' = IF attempt = Retries THEN attempt ELSE attempt + 1
    /\ UNCHANGED <<publisher, disk, tag, from, calls>>

\* Another archive than the pinned one: both files go, and the call fails.
Check ==
    /\ at = "check"
    /\ IF part = Whole(Pinned)
       THEN at' = "extract" /\ UNCHANGED <<part, sidecar>>
       ELSE part' = None /\ sidecar' = "absent" /\ at' = "failed"
    /\ UNCHANGED <<publisher, litter, extracted, published, tag, from, attempt, calls, breaks>>

\* An earlier extraction goes first; the receipt is written last.
Extract ==
    /\ at = "extract"
    /\ extracted' = [of |-> part, receipt |-> FALSE]
    /\ at' = "receipt"
    /\ UNCHANGED <<publisher, part, sidecar, litter, published, tag, from, attempt, calls, breaks>>

Receipt ==
    /\ at = "receipt"
    /\ extracted' = [extracted EXCEPT !.receipt = TRUE]
    /\ at' = "publish"
    /\ UNCHANGED <<publisher, part, sidecar, litter, published, tag, from, attempt, calls, breaks>>

Publish ==
    /\ at = "publish"
    /\ published' = IF extracted.receipt THEN extracted.of ELSE None
    /\ extracted' = None
    /\ at' = "clean"
    /\ UNCHANGED <<publisher, part, sidecar, litter, tag, from, attempt, calls, breaks>>

\* The stage is emptied and removed; rmdir fails on what it does not know.
Clean ==
    /\ at = "clean"
    /\ part' = None /\ sidecar' = "absent"
    /\ at' = IF litter THEN "failed" ELSE "idle"
    /\ UNCHANGED <<publisher, litter, extracted, published, tag, from, attempt, calls, breaks>>

Failed ==
    /\ at = "failed"
    /\ at' = "idle"
    /\ UNCHANGED <<publisher, disk, tag, from, attempt, calls, breaks>>

\* The process is killed; in _write_json it leaves its temporary file, and in
\* _extract a directory without a receipt.
Kill ==
    /\ at # "idle" /\ breaks < MaxBreaks
    /\ breaks' = breaks + 1
    /\ at' = "idle"
    /\ litter' \in {litter, litter \/ at = "sidecar"}
    /\ UNCHANGED <<publisher, part, sidecar, extracted, published, tag, from, attempt, calls>>

Next ==
    \/ Change \/ Damage \/ \E repair \in BOOLEAN : Call(repair)
    \/ AskHead \/ Prepare \/ Sidecar \/ Get \/ Read \/ Break \/ Check
    \/ Extract \/ Receipt \/ Publish \/ Clean \/ Failed \/ Kill

Spec == Init /\ [][Next]_vars

-----------------------------------------------------------------------------
\* What is published is the pinned archive until it is damaged, and a part that
\* a later call may resume is all of one version: no order of kills, lost
\* connections and changes at the publisher appends one version to another
\* (dataset_bootstrap.py:176-231).
ArchiveIsOneVersion ==
    /\ published \in {None, Whole(Pinned), Whole(None)}
    /\ part # None => \A i, j \in DOMAIN part : part[i] = part[j]

=============================================================================
