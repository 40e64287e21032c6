------------------------------- MODULE MCPipe -------------------------------
(* A small instance of Pipe. *)
EXTENDS Pipe
=============================================================================
