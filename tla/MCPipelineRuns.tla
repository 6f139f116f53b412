--------------------------- MODULE MCPipelineRuns ---------------------------
(* Instances of PipelineRuns for TLC.                                      *)
EXTENDS PipelineRuns, TLC

\* One stream through two per-stream stages and one shared stage keeps a
\* first, a middle and a last stage.
MCOneStream == <<"imu">>
\* Two streams of one sensor_type, whose stages share their names and rows.
MCTwoSameStreams == <<"imu", "imu">>
MCPerStream == <<"ingestion", "normalization">>
MCShortPerStream == <<"normalization">>
MCShared == <<"package">>
RunSymmetry == Permutations(Runs)
=============================================================================
