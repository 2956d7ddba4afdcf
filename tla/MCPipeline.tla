----------------------------- MODULE MCPipeline -----------------------------
(* Small instances of Pipeline for TLC. *)
EXTENDS Pipeline, TLC

CONSTANTS f1, f2, e1, e2, t1, t2

\* One item whose exceptions have no text.
MCMute == {<<f1, e1>>}
=============================================================================
