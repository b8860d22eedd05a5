--------------------------- MODULE MCSemanticEdits ---------------------------
(***************************************************************************)
(* SemanticEdits for TLC.  A behaviour is one of two kinds: a race of all  *)
(* editors over RaceRevisions commands about the keyframes that are not in *)
(* the automatic output, with faults; or the long history, without faults, *)
(* of one editor and one automatic output over all keyframes.              *)
(***************************************************************************)
EXTENDS SemanticEdits, TLC

\* Bound: the commands of a race.
RaceRevisions == 2

\* Sound: nothing orders editors or parser outputs, and no liveness property
\* is checked.
Interchangeable == Permutations(Editor) \cup Permutations(Automatic)

VARIABLE racing

RaceMoves ==
    /\ racing
    /\ Next
    /\ \A e \in Editor : call'[e] # NoAsk =>
          /\ call'[e].expected < RaceRevisions
          /\ call'[e].operation \in Operation => call'[e].operation.frame \notin Given
    /\ UNCHANGED racing

\* The other editors have never called.
Alone(e) == \A o \in Editor \ {e} : pc[o] = "idle" /\ reply[o] = NoReply

HistoryMoves ==
    /\ ~racing
    /\ \E e \in Editor :
        /\ Alone(e)
        /\ Asked(e) \/ Step(e)
        /\ HeadOf # 0 /\ call'[e] # NoAsk => call'[e].automatic = pin
    /\ faults' = 0
    /\ UNCHANGED racing

RaceOrHistoryInit == racing \in BOOLEAN /\ Init

RaceOrHistoryNext == RaceMoves \/ HistoryMoves

RaceOrHistory == RaceOrHistoryInit /\ [][RaceOrHistoryNext]_<<racing, vars>>
==============================================================================
