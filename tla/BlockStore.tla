----------------------------- MODULE BlockStore ------------------------------
(***************************************************************************)
(* What the buffer cache promises to the file system: every block has one  *)
(* current contents and at most one user at a time.  The caching, the      *)
(* recycling and the disk reads behind it are invisible.                   *)
(***************************************************************************)
CONSTANTS Procs, Blocks, Values, NoProc

VARIABLES contents,  \* contents[b]: what the next user of b finds
          user       \* user[b]: the process between bread(b) and brelse(b)

vars == <<contents, user>>

Init == /\ contents \in [Blocks -> Values]
        /\ user = [b \in Blocks |-> NoProc]

Take(p, b) == /\ user[b] = NoProc
              /\ user' = [user EXCEPT ![b] = p]
              /\ UNCHANGED contents

Modify(p, b, v) == /\ user[b] = p
                   /\ contents' = [contents EXCEPT ![b] = v]
                   /\ UNCHANGED user

Leave(p, b) == /\ user[b] = p
               /\ user' = [user EXCEPT ![b] = NoProc]
               /\ UNCHANGED contents

Next == \E p \in Procs, b \in Blocks : Take(p, b) \/ Leave(p, b) \/ \E v \in Values : Modify(p, b, v)

Spec == Init /\ [][Next]_vars
=============================================================================
