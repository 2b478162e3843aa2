----------------------------- MODULE MCPipeline -----------------------------
(***************************************************************************)
(* Pipelines of short texts, through a pipe of a few bytes.                *)
(***************************************************************************)
EXTENDS Pipeline

MCText == {"a", "\n"}
MCArgument == <<"k">>
=============================================================================
