----------------------------- MODULE AtomicDisk ------------------------------
(***************************************************************************)
(* What the disk driver promises to the buffer cache: a call that transfers *)
(* one block does so at one instant between its start and its return.       *)
(***************************************************************************)
CONSTANTS Procs, Blocks, Values, NoReq

VARIABLES disk,   \* disk[b]
          mem,    \* mem[p]: the data of the buffer p holds
          req,    \* req[p]: direction and block of p's call, if it is in one
          stage   \* stage[p]: "none", "pending" or "done"

vars == <<disk, mem, req, stage>>

Init == /\ disk \in [Blocks -> Values]
        /\ mem \in [Procs -> Values]
        /\ req = [p \in Procs |-> NoReq]
        /\ stage = [p \in Procs |-> "none"]

Call(p) == /\ stage[p] = "none"
           /\ \E v \in Values : mem' = [mem EXCEPT ![p] = v]
           /\ \E r \in [write : BOOLEAN, block : Blocks] : req' = [req EXCEPT ![p] = r]
           /\ stage' = [stage EXCEPT ![p] = "pending"]
           /\ UNCHANGED disk

Transfer(p) == /\ stage[p] = "pending"
               /\ LET b == req[p].block IN
                  IF req[p].write THEN disk' = [disk EXCEPT ![b] = mem[p]] /\ UNCHANGED mem
                                  ELSE mem' = [mem EXCEPT ![p] = disk[b]] /\ UNCHANGED disk
               /\ UNCHANGED req
               /\ stage' = [stage EXCEPT ![p] = "done"]

Return(p) == /\ stage[p] = "done"
             /\ stage' = [stage EXCEPT ![p] = "none"]
             /\ req' = [req EXCEPT ![p] = NoReq]
             /\ UNCHANGED <<disk, mem>>

Next == \E p \in Procs : Call(p) \/ Transfer(p) \/ Return(p)
Spec == Init /\ [][Next]_vars
=============================================================================
