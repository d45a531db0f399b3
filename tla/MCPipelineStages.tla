-------------------------- MODULE MCPipelineStages --------------------------
(* PipelineStages on a small instance. *)
EXTENDS PipelineStages, TLC

=============================================================================
