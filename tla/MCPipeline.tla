----------------------------- MODULE MCPipeline -----------------------------
(* Instances of Pipeline: two workers, a list of a few servers in pages of  *)
(* two.                                                                     *)
EXTENDS Pipeline
=============================================================================
