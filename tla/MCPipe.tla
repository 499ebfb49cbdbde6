------------------------------- MODULE MCPipe -------------------------------
(* One pipe with a small ring.                                             *)
EXTENDS Pipe
=============================================================================
