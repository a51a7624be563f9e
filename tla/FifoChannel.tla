---------------------------- MODULE FifoChannel ----------------------------
(***************************************************************************)
(* What Queue<T> (Queue.h) promises to the threads that share it: an       *)
(* unbounded first-in first-out channel whose two operations are atomic.   *)
(* Add never blocks; Wait takes the oldest item and is only possible when  *)
(* there is one.  The semaphore, the critical section and the linked list  *)
(* of the implementation are specified in Queue.tla, which is shown to     *)
(* implement this module.                                                  *)
(***************************************************************************)
EXTENDS Sequences

CONSTANT Values     \* what travels through the channel

VARIABLES chan,     \* the items added and not yet taken, oldest first
          out       \* every item Wait has taken, in the order of the takes

Init == chan = <<>> /\ out = <<>>

Put(v) == chan' = Append(chan, v) /\ UNCHANGED out

Get ==
    /\ chan # <<>>
    /\ chan' = Tail(chan)
    /\ out' = Append(out, Head(chan))

Next == (\E v \in Values : Put(v)) \/ Get

Spec == Init /\ [][Next]_<<chan, out>>
=============================================================================
