------------------------- MODULE MCPipelineLifecycle -------------------------
(* PipelineLifecycle for TLC.                                              *)
EXTENDS PipelineLifecycle

\* Two tries: one that fails and is repeated, one that is the last.
Attempts == 2
\* A panic, a reload and a device loss in one run.
EventBound == 3
===============================================================================
