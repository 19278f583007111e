------------------------------- MODULE TxDisk -------------------------------
(***************************************************************************)
(* What the logging layer promises to the file system: a disk of blocks    *)
(* whose updates become durable atomically.  System calls bracket their    *)
(* updates with Begin and End; the updates of all calls finished since the *)
(* last commit become durable in one step, never while a call is in        *)
(* progress; a crash takes memory back to the last commit.                 *)
(***************************************************************************)
CONSTANTS Procs, Blocks, Values

VARIABLES durable,  \* what a reboot would find, once recovered
          memory,   \* what a running system call reads
          active    \* the processes inside a file-system call

vars == <<durable, memory, active>>

Init == /\ durable \in [Blocks -> Values]
        /\ memory = durable
        /\ active = {}

Begin(p) == /\ p \notin active
            /\ active' = active \cup {p}
            /\ UNCHANGED <<durable, memory>>

Write(p, b, v) == /\ p \in active
                  /\ memory' = [memory EXCEPT ![b] = v]
                  /\ UNCHANGED <<durable, active>>

End(p) == /\ p \in active
          /\ active' = active \ {p}
          /\ UNCHANGED <<durable, memory>>

Commit == /\ active = {}
          /\ durable' = memory
          /\ UNCHANGED <<memory, active>>

Crash == /\ memory' = durable
         /\ active' = {}
         /\ UNCHANGED durable

Next == \/ \E p \in Procs : \/ Begin(p)
                            \/ End(p)
                            \/ \E b \in Blocks, v \in Values : Write(p, b, v)
        \/ Commit
        \/ Crash

Spec == Init /\ [][Next]_vars
=============================================================================
