---------------------------- MODULE MCLiballoc ----------------------------
(* A small instance of Liballoc over Kheap. *)
EXTENDS Liballoc
=============================================================================
