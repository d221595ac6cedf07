------------------------------ MODULE MCPcLink ------------------------------
(* Two calls, one of them a repository one, over two connections in turn.   *)
EXTENDS PcLink
=============================================================================
