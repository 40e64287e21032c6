-------------------------------- MODULE Fifo --------------------------------
(***************************************************************************)
(* What a pipe promises: a queue of bounded length that bytes leave in the *)
(* order in which they entered it.                                         *)
(***************************************************************************)
EXTENDS Naturals, Sequences

CONSTANTS Bytes, Capacity

VARIABLE queue

Init == queue = <<>>

Put(b) ==
  /\ Len(queue) < Capacity
  /\ queue' = Append(queue, b)

Get ==
  /\ queue # <<>>
  /\ queue' = Tail(queue)

Next == Get \/ \E b \in Bytes : Put(b)

Spec == Init /\ [][Next]_queue
=============================================================================
