------------------------------ MODULE ByteQueue ------------------------------
(***************************************************************************)
(* What a pipe promises: a bounded first-in first-out queue of bytes with  *)
(* a write side and a read side that are closed once each.  Nothing is     *)
(* stored after the read side is closed, nothing after the write side is.  *)
(***************************************************************************)
EXTENDS Naturals, Sequences

CONSTANTS Bytes, Capacity

VARIABLES queue,    \* bytes stored and not yet taken
          taken,    \* the byte taken last
          readers,  \* the read side is open
          writers   \* the write side is open

vars == <<queue, taken, readers, writers>>

Init == queue = <<>> /\ taken \in Bytes /\ readers = TRUE /\ writers = TRUE

Put(b) == /\ readers /\ writers /\ Len(queue) < Capacity
          /\ queue' = Append(queue, b)
          /\ UNCHANGED <<taken, readers, writers>>

Get == /\ readers /\ queue # <<>>
       /\ taken' = Head(queue)
       /\ queue' = Tail(queue)
       /\ UNCHANGED <<readers, writers>>

CloseRead == readers /\ readers' = FALSE /\ UNCHANGED <<queue, taken, writers>>
CloseWrite == writers /\ writers' = FALSE /\ UNCHANGED <<queue, taken, readers>>

Next == (\E b \in Bytes : Put(b)) \/ Get \/ CloseRead \/ CloseWrite

Spec == Init /\ [][Next]_vars
=============================================================================
