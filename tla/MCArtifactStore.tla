--------------------------- MODULE MCArtifactStore ---------------------------
(* Two callers meet at one key, as get, as get_or_create or as both, with   *)
(* two contents, so that a handle tells whose artifact it is.  Keys do not  *)
(* interact: every action reads and writes the entries of one key.          *)
EXTENDS ArtifactStore
=============================================================================
