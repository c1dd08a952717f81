--------------------------- MODULE MCFramePipeline ---------------------------
(***************************************************************************)
(* The frame pipeline on four frames, one rebuild and setups of up to two *)
(* passes.                                                                 *)
(***************************************************************************)
EXTENDS FramePipeline
===============================================================================
