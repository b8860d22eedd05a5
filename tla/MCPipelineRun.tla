---------------------------- MODULE MCPipelineRun ----------------------------
(* Two parts of the stage graph.  The chain has a stage that manual offsets  *)
(* reach through another one and that publishes by itself; observations,     *)
(* which nothing in it depends on but attachment, are contracted away.       *)
(* The pair is for the runs that need more changes than stages.              *)
EXTENDS PipelineRun, TLC

ChainStage == {"ingest", "sync", "attachment"}
ChainOrder == <<"ingest", "sync", "attachment">>
ChainDependencies == [ingest |-> {}, sync |-> {"ingest"}, attachment |-> {"sync"}]
PairStage == {"ingest", "sync"}
PairOrder == <<"ingest", "sync">>
PairDependencies == [ingest |-> {}, sync |-> {"ingest"}]
PairSettings == {[s \in PairStage |-> 1]}
=============================================================================
