------------------------------ MODULE LogProofs ------------------------------
(***************************************************************************)
(* The steps of commit() and the remaining steps of Log preserve its       *)
(* invariant, the theorems that follow from it, and the refinement: Log    *)
(* implements TxDisk.                                                      *)
(***************************************************************************)
EXTENDS LogInvariant

(* While p commits, every other process is outside begin_op .. end_op. *)
LEMMA Committer ==
  ASSUME IInv, sys = "up", NEW p \in Procs, pc[p] \in InCommit
  PROVE  /\ committing /\ Active = {}
         /\ \A q \in Procs : q # p => pc[q] \notin InCommit \cup {"op"}
BY DEF IInv, CommitInv, Active

LEMMA Inv_write_log == ASSUME NEW p \in Procs, IInv, write_log(p) PROVE IInv'
<1> USE LogAssumption DEF write_log, IInv, disk
<1>0. sys = "up" /\ pc[p] = "write_log" OBVIOUS
<1>1. /\ committing /\ Active = {}
      /\ \A q \in Procs : q # p => pc[q] \notin InCommit \cup {"op"}
  BY <1>0, Committer DEF InCommit
<1>2. /\ UNCHANGED <<home, head, sys, lh, outstanding, committing, pin, wrote>>
      /\ Distinct(lh)' /\ Distinct(head)' /\ RecoverInv'
  BY <1>0 DEF Distinct, Indices, RecoverInv, Recovering
<1>3. CASE tail <= Len(lh)
  <2>1. /\ tail \in Indices(lh) /\ tail \in Slots /\ lh[tail] \in Blocks
        /\ logd' = [logd EXCEPT ![tail] = Buffered(lh[tail])]
        /\ cache' = [cache EXCEPT ![lh[tail]] = Buffered(lh[tail])]
        /\ tail' = tail + 1 /\ UNCHANGED pc
    BY <1>3 DEF TypeOK, Indices, Slots
  <2>2. \A i \in Nat : ~Installed(i) /\ ~Installed(i)'
    BY <1>0, <1>1, <2>1 DEF Installed, InCommit
  <2>3. pin[lh[tail]] = 1 /\ cache[lh[tail]] # NoBuf
    BY <1>0, <2>1, <2>2 DEF PinInv, Indices
  <2>4. /\ cache' = cache /\ cache[lh[tail]] \in Values
        /\ logd' = [logd EXCEPT ![tail] = cache[lh[tail]]]
    BY <2>1, <2>3 DEF Buffered, TypeOK
  <2>5. TypeOK' BY <1>2, <2>1, <2>4 DEF TypeOK
  <2>6. CommitInv' /\ CountInv' BY <1>2, <2>1 DEF CommitInv, CountInv, Active
  <2>7. PinInv' BY <1>2, <2>2, <2>4 DEF PinInv, Indices
  <2>8. DataInv' BY <1>0, <1>1, <1>2, <2>1, <2>4 DEF DataInv, Indices, TypeOK, InCommit, Slots
  <2> QED BY <1>2, <2>5, <2>6, <2>7, <2>8
<1>4. CASE tail > Len(lh)
  <2>1. pc' = [pc EXCEPT ![p] = "write_head"] /\ UNCHANGED <<logd, cache, tail>> BY <1>4 DEF TypeOK
  <2>2. TypeOK' BY <1>2, <2>1 DEF TypeOK, InCommit
  <2>3. Active' = Active /\ \A q \in Procs : q # p => pc'[q] = pc[q] BY <1>0, <2>1 DEF Active, TypeOK
  <2>4. pc'[p] = "write_head" BY <2>1 DEF TypeOK
  <2>5. CommitInv' BY <1>0, <1>1, <1>2, <2>3, <2>4 DEF CommitInv, InCommit
  <2>6. CountInv' BY <1>2, <2>3 DEF CountInv
  <2>7. \A i \in Nat : ~Installed(i) /\ ~Installed(i)'
    BY <1>0, <1>1, <2>3, <2>4 DEF Installed, InCommit
  <2>8. PinInv' BY <1>2, <2>1, <2>7, PinFrame
  <2>9. DataInv' BY <1>0, <1>1, <1>2, <1>4, <2>1, <2>3, <2>4 DEF DataInv, Indices, TypeOK, InCommit
  <2> QED BY <1>2, <2>2, <2>5, <2>6, <2>8, <2>9
<1> QED BY <1>3, <1>4 DEF TypeOK

LEMMA Inv_write_head == ASSUME NEW p \in Procs, IInv, write_head(p) PROVE IInv'
<1> USE LogAssumption DEF write_head, IInv, disk
<1>0. sys = "up" /\ pc[p] = "write_head" OBVIOUS
<1>1. /\ committing /\ Active = {}
      /\ \A q \in Procs : q # p => pc[q] \notin InCommit \cup {"op"}
  BY <1>0, Committer DEF InCommit
<1>2. TypeOK' BY DEF TypeOK, InCommit
<1>3. Distinct(lh)' /\ Distinct(head)' /\ RecoverInv' BY DEF Distinct, Indices, RecoverInv, Recovering
<1>4. /\ Active' = Active /\ pc'[p] = "install"
      /\ \A q \in Procs : q # p => pc'[q] = pc[q]
  BY DEF Active, TypeOK
<1>5. CommitInv' BY <1>0, <1>1, <1>4 DEF CommitInv, InCommit
<1>6. CountInv' BY <1>4 DEF CountInv
<1>7. \A i \in Indices(lh) : ~Installed(i) /\ ~Installed(i)'
  BY <1>0, <1>1, <1>4 DEF Installed, InCommit, Indices, TypeOK
<1>8. PinInv' BY <1>7 DEF PinInv, Indices
<1>9. DataInv' BY <1>0, <1>1, <1>4 DEF DataInv, Indices, TypeOK, InCommit
<1> QED BY <1>2, <1>3, <1>5, <1>6, <1>8, <1>9

LEMMA Inv_install_trans == ASSUME NEW p \in Procs, IInv, install_trans(p) PROVE IInv'
<1> USE LogAssumption DEF install_trans, IInv, disk
<1>0. sys = "up" /\ pc[p] = "install" OBVIOUS
<1>1. /\ committing /\ Active = {}
      /\ \A q \in Procs : q # p => pc[q] \notin InCommit \cup {"op"}
  BY <1>0, Committer DEF InCommit
<1>2. /\ UNCHANGED <<head, logd, sys, lh, outstanding, committing, wrote>>
      /\ Distinct(lh)' /\ Distinct(head)' /\ RecoverInv'
  BY <1>0 DEF Distinct, Indices, RecoverInv, Recovering, InstallBlock
<1>3. CASE tail <= Len(lh)
  <2>1. /\ tail \in Indices(lh) /\ tail \in Slots
        /\ lh[tail] \in Blocks /\ logd[tail] \in Values
        /\ home' = [home EXCEPT ![lh[tail]] = logd[tail]]
        /\ cache' = [cache EXCEPT ![lh[tail]] = logd[tail]]
        /\ pin' = [pin EXCEPT ![lh[tail]] = @ - 1]
        /\ tail' = tail + 1 /\ UNCHANGED pc
    BY <1>3 DEF TypeOK, Indices, Slots, InstallBlock, Unpinned
  <2>2. \A i \in Indices(lh) : (Installed(i) <=> i < tail) /\ (Installed(i)' <=> i < tail \/ i = tail)
    BY <1>0, <1>1, <2>1 DEF Installed, InCommit, Indices, TypeOK
  <2>3. pin[lh[tail]] = 1 BY <1>0, <2>1, <2>2 DEF PinInv, Indices, TypeOK
  <2>4. TypeOK' BY <1>2, <2>1, <2>3 DEF TypeOK
  <2>5. CommitInv' /\ CountInv' BY <1>2, <2>1 DEF CommitInv, CountInv, Active
  <2>6. PinInv'
    <3>1. \A i \in Indices(lh) : i # tail => lh[i] # lh[tail] BY <2>1 DEF Distinct
    <3>2. ASSUME NEW b \in Blocks
          PROVE  pin'[b] = IF \E i \in Indices(lh) : lh[i] = b /\ ~Installed(i)' THEN 1 ELSE 0
      <4>1. CASE b = lh[tail] BY <2>1, <2>2, <2>3, <3>1, <4>1 DEF TypeOK
      <4>2. CASE b # lh[tail]
        <5>1. pin'[b] = pin[b] BY <2>1, <4>2 DEF TypeOK
        <5>2. \A i \in Indices(lh) : lh[i] = b => (Installed(i)' <=> Installed(i)) BY <2>2, <4>2
        <5> QED BY <1>0, <5>1, <5>2 DEF PinInv
      <4> QED BY <4>1, <4>2
    <3>3. \A b \in Blocks : /\ pin'[b] > 0 => cache'[b] # NoBuf
                            /\ pin'[b] = 0 /\ cache'[b] # NoBuf => cache'[b] = home'[b]
      BY <2>1, <2>3 DEF PinInv, TypeOK
    <3> QED BY <1>2, <3>2, <3>3 DEF PinInv, Indices
  <2>7. DataInv'
    <3>1. \A i \in Indices(lh) : i # tail => lh[i] # lh[tail] BY <2>1 DEF Distinct
    <3> QED BY <1>0, <1>1, <1>2, <2>1, <3>1 DEF DataInv, Indices, TypeOK, InCommit
  <2> QED BY <1>2, <2>4, <2>5, <2>6, <2>7
<1>4. CASE tail > Len(lh)
  <2>1. pc' = [pc EXCEPT ![p] = "erase"] /\ UNCHANGED <<home, cache, pin, tail>> BY <1>4 DEF TypeOK
  <2>2. TypeOK' BY <1>2, <2>1 DEF TypeOK, InCommit
  <2>3. /\ Active' = Active /\ pc'[p] = "erase"
        /\ \A q \in Procs : q # p => pc'[q] = pc[q]
    BY <1>0, <2>1 DEF Active, TypeOK
  <2>4. CommitInv' BY <1>0, <1>1, <1>2, <2>3 DEF CommitInv, InCommit
  <2>5. CountInv' BY <1>2, <2>3 DEF CountInv
  <2>6. \A i \in Indices(lh) : Installed(i) /\ Installed(i)'
    BY <1>0, <1>4, <2>3 DEF Installed, Indices, TypeOK
  <2>7. PinInv' BY <1>2, <2>1, <2>6 DEF PinInv, Indices
  <2>8. DataInv' BY <1>0, <1>1, <1>2, <1>4, <2>1, <2>3 DEF DataInv, Indices, TypeOK, InCommit
  <2> QED BY <1>2, <2>2, <2>4, <2>5, <2>7, <2>8
<1> QED BY <1>3, <1>4 DEF TypeOK

LEMMA Inv_erase == ASSUME NEW p \in Procs, IInv, erase(p) PROVE IInv'
<1> USE LogAssumption DEF erase, IInv, disk
<1>0. sys = "up" /\ pc[p] = "erase" /\ Len(lh') = 0 /\ Len(head') = 0 OBVIOUS
<1>1. /\ committing /\ Active = {}
      /\ \A q \in Procs : q # p => pc[q] \notin InCommit \cup {"op"}
  BY <1>0, Committer DEF InCommit
<1>2. TypeOK' BY DEF TypeOK, InCommit
<1>3. Distinct(lh)' /\ Distinct(head)' /\ RecoverInv' BY <1>0 DEF Distinct, Indices, RecoverInv, Recovering
<1>4. /\ Active' = Active /\ pc'[p] = "done"
      /\ \A q \in Procs : q # p => pc'[q] = pc[q]
  BY DEF Active, TypeOK
<1>5. CommitInv' BY <1>0, <1>1, <1>4 DEF CommitInv, InCommit
<1>6. CountInv' BY <1>4 DEF CountInv
<1>7. \A i \in Indices(lh) : Installed(i) BY <1>0 DEF Installed
<1>8. \A b \in Blocks : pin[b] = 0 BY <1>0, <1>7 DEF PinInv
<1>9. PinInv' BY <1>0, <1>8 DEF PinInv, Indices
<1>10. DataInv' BY <1>0 DEF DataInv, Indices
<1> QED BY <1>2, <1>3, <1>5, <1>6, <1>9, <1>10

LEMMA Inv_end_commit == ASSUME NEW p \in Procs, IInv, end_commit(p) PROVE IInv'
<1> USE LogAssumption DEF end_commit, IInv, disk
<1>0. sys = "up" /\ pc[p] = "done" /\ lh = <<>> /\ Len(lh) = 0 BY DEF CommitInv
<1>1. /\ committing /\ Active = {}
      /\ \A q \in Procs : q # p => pc[q] \notin InCommit \cup {"op"}
  BY <1>0, Committer DEF InCommit
<1>2. pc' \in [Procs -> {"idle", "begin"}] BY <1>0, <1>1 DEF Woken, TypeOK, InCommit
<1>3. TypeOK' BY <1>2 DEF TypeOK
<1>4. Distinct(lh)' /\ Distinct(head)' /\ RecoverInv' BY DEF Distinct, Indices, RecoverInv, Recovering
<1>5. Active' = Active BY <1>1, <1>2 DEF Active
<1>6. CommitInv' BY <1>0, <1>1, <1>2 DEF CommitInv, InCommit
<1>7. CountInv' BY <1>5 DEF CountInv
<1>8. PinInv' BY <1>0 DEF PinInv, Indices
<1>9. DataInv' BY <1>0 DEF DataInv, Indices
<1> QED BY <1>3, <1>4, <1>6, <1>7, <1>8, <1>9

-----------------------------------------------------------------------------
(* A buffer that is filled or recycled belongs to a block without pin, so   *)
(* not to one whose data is still on its way.                               *)
LEMMA Inv_buffer ==
  ASSUME NEW b \in Blocks, IInv, bread(b) \/ recycle(b)
  PROVE  IInv'
<1> USE LogAssumption DEF bread, recycle, IInv, disk
<1>0. /\ sys = "up" /\ pin[b] = 0
      /\ cache' \in [Blocks -> Values \cup {NoBuf}] /\ cache'[b] \in {NoBuf, home[b]}
      /\ \A x \in Blocks : x # b => cache'[x] = cache[x]
      /\ UNCHANGED <<home, head, logd, sys, lh, outstanding, committing, pin, pc, wrote, tail>>
  <2>1. pin[b] \in Nat /\ home[b] \in Values BY DEF TypeOK
  <2>2. CASE bread(b)
    <3>1. cache[b] = NoBuf /\ cache' = [cache EXCEPT ![b] = home[b]] BY <2>2
    <3>2. pin[b] = 0 BY <2>1, <3>1 DEF PinInv
    <3> QED BY <2>1, <2>2, <3>1, <3>2 DEF TypeOK
  <2>3. CASE recycle(b) BY <2>3 DEF TypeOK
  <2> QED BY <2>2, <2>3
<1>1. TypeOK' BY <1>0 DEF TypeOK
<1>2. Distinct(lh)' /\ Distinct(head)' /\ RecoverInv' BY <1>0 DEF Distinct, Indices, RecoverInv, Recovering
<1>3. CommitInv' /\ CountInv' BY <1>0 DEF CommitInv, CountInv, Active
<1>4. PinInv' BY <1>0 DEF PinInv, Indices, Installed, TypeOK
<1>5. DataInv'
  <2>1. ASSUME NEW p \in Procs, NEW i \in Indices(lh), lh[i] = b
        PROVE  pc[p] \notin {"write_log", "write_head"} /\ (pc[p] = "install" => i < tail)
    <3>1. Installed(i)
      <4> HIDE DEF IInv
      <4>1. pin[b] = IF \E j \in Indices(lh) : lh[j] = b /\ ~Installed(j) THEN 1 ELSE 0
        BY <1>0 DEF IInv, PinInv
      <4> QED BY <1>0, <2>1, <4>1
    <3>2. PICK q \in Procs : pc[q] = "erase" \/ (pc[q] = "install" /\ i < tail) BY <3>1 DEF Installed
    <3>3. pc[p] \in InCommit => p = q BY <1>0, <3>2 DEF CommitInv, InCommit
    <3> QED BY <3>2, <3>3 DEF InCommit
  <2>2. \A i \in Indices(lh) : lh[i] \in Blocks BY DEF Indices, TypeOK
  <2>3. ASSUME NEW p \in Procs, NEW i \in Indices(lh)
        PROVE  /\ pc[p] = "write_log" /\ i < tail => logd[i] = cache'[lh[i]]
               /\ pc[p] = "write_head" => logd[i] = cache'[lh[i]]
               /\ pc[p] = "install" /\ i >= tail => logd[i] = cache'[lh[i]]
               /\ pc[p] = "install" /\ i < tail => home[lh[i]] = logd[i]
               /\ pc[p] = "erase" => home[lh[i]] = logd[i]
    <3>1. i \in Nat /\ tail \in Nat BY DEF Indices, TypeOK
    <3>2. CASE lh[i] = b BY <1>0, <2>1, <3>1, <3>2 DEF DataInv
    <3>3. CASE lh[i] # b BY <1>0, <2>2, <3>3 DEF DataInv
    <3> QED BY <3>2, <3>3
  <2> HIDE LogAssumption DEF bread, recycle, IInv, disk
  <2>4. /\ Indices(lh') = Indices(lh)
        /\ UNCHANGED <<home, logd, sys, lh, pc, tail>>
    BY <1>0 DEF Indices
  <2> QED BY <2>3, <2>4 DEF DataInv
<1> QED BY <1>1, <1>2, <1>3, <1>4, <1>5

LEMMA Inv_Crash == ASSUME IInv, Crash PROVE IInv'
<1> USE LogAssumption DEF Crash, IInv, disk
<1>0. /\ sys' = "read_head" /\ lh' = <<>> /\ Len(lh') = 0 /\ pin' = NoPins /\ cache' = NoCache
      /\ pc' = AllIdle /\ wrote' = NoWrites
  OBVIOUS
<1>1. TypeOK'
  <2>1. /\ cache' \in [Blocks -> Values \cup {NoBuf}] /\ pin' \in [Blocks -> Nat]
        /\ wrote' \in [Procs -> SUBSET Blocks]
    BY <1>0 DEF NoCache, NoPins, NoWrites
  <2>2. pc' \in [Procs -> {"idle", "begin", "asleep", "op"} \cup InCommit] BY <1>0 DEF AllIdle
  <2>3. lh' \in Seq(Blocks) /\ Len(lh') < nlog BY <1>0
  <2>4. UNCHANGED <<home, head, logd>> /\ outstanding' \in Nat /\ tail' \in Nat \ {0} OBVIOUS
  <2>5. committing' \in BOOLEAN OBVIOUS
  <2>6. sys' \in Recovering BY DEF Recovering
  <2> HIDE DEF Crash
  <2> QED BY <2>1, <2>2, <2>3, <2>4, <2>5, <2>6 DEF TypeOK
<1>2. Distinct(lh)' /\ Distinct(head)' BY <1>0 DEF Distinct, Indices
<1>3. RecoverInv' BY <1>0 DEF RecoverInv, Recovering
<1>4. PinInv' BY <1>0 DEF PinInv, NoPins, NoCache
<1>5. CommitInv' /\ CountInv' /\ DataInv' BY <1>0 DEF CommitInv, CountInv, DataInv
<1> QED BY <1>1, <1>2, <1>3, <1>4, <1>5

LEMMA Inv_Init == Init => IInv
<1> SUFFICES ASSUME Init PROVE IInv OBVIOUS
<1> USE LogAssumption DEF Init
<1>0. Len(lh) = 0 /\ Len(head) = 0 OBVIOUS
<1>1. TypeOK
  <2>1. /\ cache \in [Blocks -> Values \cup {NoBuf}] /\ pin \in [Blocks -> Nat]
        /\ wrote \in [Procs -> SUBSET Blocks] /\ logd \in [Slots -> Values]
    BY DEF NoCache, NoPins, NoWrites
  <2>2. pc \in [Procs -> {"idle", "begin", "asleep", "op"} \cup InCommit] BY DEF AllIdle
  <2>3. lh \in Seq(Blocks) /\ Len(lh) < nlog /\ head \in Seq(Blocks) /\ Len(head) < nlog BY <1>0
  <2>4. /\ home \in [Blocks -> Values] /\ outstanding \in Nat /\ tail \in Nat \ {0} OBVIOUS
  <2>5. committing \in BOOLEAN OBVIOUS
  <2>6. sys \in Recovering BY DEF Recovering
  <2> HIDE DEF Init
  <2> QED BY <2>1, <2>2, <2>3, <2>4, <2>5, <2>6 DEF TypeOK
<1>2. Distinct(lh) /\ Distinct(head) BY <1>0 DEF Distinct, Indices
<1>3. RecoverInv BY DEF RecoverInv, Recovering
<1>4. PinInv BY DEF PinInv, NoPins, NoCache
<1>5. CommitInv /\ CountInv /\ DataInv BY DEF CommitInv, CountInv, DataInv
<1> QED BY <1>1, <1>2, <1>3, <1>4, <1>5 DEF IInv

LEMMA Inv_Next == ASSUME IInv, [Next]_vars PROVE IInv'
<1>1. CASE Recover BY <1>1, Inv_read_head, Inv_recover_install, Inv_recover_clear DEF Recover
<1>2. ASSUME NEW p \in Procs, Commit(p) PROVE IInv'
  BY <1>2, Inv_write_log, Inv_write_head, Inv_install_trans, Inv_erase, Inv_end_commit DEF Commit
<1>3. CASE UNCHANGED vars
  <2> USE <1>3 DEF vars, IInv
  <2>1. TypeOK' BY DEF TypeOK
  <2>2. Distinct(lh)' /\ Distinct(head)' /\ RecoverInv' BY DEF Distinct, Indices, RecoverInv
  <2>3. CommitInv' /\ CountInv' BY DEF CommitInv, CountInv, Active
  <2>4. \A i \in Nat : Installed(i)' <=> Installed(i) BY DEF Installed
  <2>5. PinInv' BY <2>4, PinFrame
  <2>6. DataInv' BY DEF DataInv, Indices
  <2> QED BY <2>1, <2>2, <2>3, <2>5, <2>6
<1> QED
  BY <1>1, <1>2, <1>3, Inv_call_begin_op, Inv_begin_op, Inv_log_write, Inv_end_op, Inv_buffer, Inv_Crash DEF Next

(* The log's invariant holds in every state the kernel can reach, whatever  *)
(* the interleaving of system calls, commit steps and power failures.       *)
THEOREM Invariance == Spec => []IInv
<1>1. Init => IInv BY Inv_Init
<1>2. IInv /\ [Next]_vars => IInv' BY Inv_Next
<1> QED BY <1>1, <1>2, PTL DEF Spec

(* struct log and the disk keep their types; in particular lh and the       *)
(* header always fit the log area, so no slot beyond it is ever written.    *)
THEOREM TypeCorrect == Spec => []TypeOK
<1>1. IInv => TypeOK BY DEF IInv
<1> QED BY <1>1, Invariance, PTL

(* commit() runs in one process at a time and never while a file-system     *)
(* call is between begin_op and end_op.                                     *)
THEOREM CommitExclusion == Spec => []CommitExcludesOps
<1>1. IInv => CommitExcludesOps BY DEF IInv, CommitInv, CountInv, CommitExcludesOps
<1> QED BY <1>1, Invariance, PTL

(* No buffer that is newer than the disk can be recycled by bget, and every *)
(* pin taken by log_write is given back by install_trans.                   *)
THEOREM PinSafety == Spec => []DirtyIsPinned
<1>1. ASSUME IInv, sys = "up" PROVE DirtyIsPinned
  <2>1. \A b \in Blocks : pin[b] \in Nat BY <1>1 DEF IInv, TypeOK
  <2>2. \A b \in Blocks : cache[b] \notin {NoBuf, home[b]} => pin[b] > 0
    BY <1>1, <2>1 DEF IInv, PinInv
  <2>3. ASSUME lh = <<>>, NEW b \in Blocks PROVE pin[b] = 0
    <3>1. Indices(lh) = {} BY <2>3 DEF Indices
    <3> QED BY <1>1, <3>1 DEF IInv, PinInv
  <2> QED BY <2>2, <2>3 DEF DirtyIsPinned
<1>2. IInv => DirtyIsPinned BY <1>1 DEF DirtyIsPinned
<1> QED BY <1>2, Invariance, PTL

(* A home location is only ever overwritten with what the log holds for it, *)
(* under a header already on disk: the write-ahead rule.                    *)
THEOREM WriteAheadRule == Spec => WriteAhead
<1> DEFINE Rule == \A b \in Blocks : home'[b] # home[b] =>
                     /\ head' = head
                     /\ \E i \in 1 .. Len(head) : head[i] = b /\ home'[b] = logd[i]
<1>1. ASSUME IInv, lh = head, tail <= Len(lh), InstallBlock PROVE Rule
  <2>1. tail \in 1 .. Len(head) /\ head[tail] \in Blocks BY <1>1 DEF IInv, TypeOK
  <2>2. /\ home' = [home EXCEPT ![head[tail]] = logd[tail]] /\ head' = head BY <1>1 DEF InstallBlock
  <2> QED BY <1>1, <2>1, <2>2 DEF IInv, TypeOK
<1>2. ASSUME IInv, recover_install PROVE Rule
  <2>1. lh = head BY <1>2 DEF IInv, RecoverInv, recover_install, Recovering
  <2> QED BY <1>1, <1>2, <2>1 DEF recover_install, disk
<1>3. ASSUME NEW p \in Procs, IInv, install_trans(p) PROVE Rule
  <2>1. lh = head BY <1>3 DEF IInv, CommitInv, install_trans
  <2> QED BY <1>1, <1>3, <2>1 DEF install_trans, disk
<1>4. ASSUME IInv, [Next]_vars PROVE [Rule]_vars
  <2>1. CASE Recover
    BY <1>2, <1>4, <2>1 DEF Recover, read_head, recover_clear, disk
  <2>2. ASSUME NEW p \in Procs, Commit(p) PROVE Rule
    BY <1>3, <1>4, <2>2 DEF Commit, write_log, write_head, erase, end_commit, disk
  <2>3. ASSUME NEW p \in Procs, call_begin_op(p) \/ begin_op(p) \/ end_op(p) PROVE Rule
    BY <2>3 DEF call_begin_op, begin_op, end_op, Panic, disk
  <2>4. ASSUME NEW p \in Procs, NEW b \in Blocks, NEW v \in Values, log_write(p, b, v) PROVE Rule
    BY <2>4 DEF log_write, Panic, disk
  <2>5. CASE (\E b \in Blocks : bread(b) \/ recycle(b)) \/ Crash
    BY <2>5 DEF bread, recycle, Crash, disk
  <2> QED BY <1>4, <2>1, <2>2, <2>3, <2>4, <2>5 DEF Next
<1> QED BY <1>4, Invariance, PTL DEF Spec, WriteAhead
------------------------------------------------------------------------------
(* Log implements TxDisk: a crash at any point loses or keeps a group of    *)
(* file-system calls as a whole.  Every step of commit() but the header     *)
(* write leaves the abstract disk alone; the header write is its Commit.    *)


(* What recovery would restore, without the CHOOSE: distinct header entries *)
(* name each block at most once.                                            *)
LEMMA RecoveredIs ==
  ASSUME Distinct(head), head \in Seq(Blocks)
  PROVE  /\ \A i \in Indices(head) : Recovered[head[i]] = logd[i]
         /\ \A b \in Blocks : (\A i \in Indices(head) : head[i] # b) => Recovered[b] = home[b]
<1>1. ASSUME NEW i \in Indices(head) PROVE Recovered[head[i]] = logd[i]
  <2>1. head[i] \in Blocks BY <1>1 DEF Indices
  <2>2. Logged(head[i]) = {i} BY <1>1 DEF Logged, Distinct, Indices
  <2>3. Logged(head[i]) # {} /\ (CHOOSE j \in Logged(head[i]) : TRUE) = i BY <2>2
  <2> QED BY <2>1, <2>3 DEF Recovered
<1>2. ASSUME NEW b \in Blocks, \A i \in Indices(head) : head[i] # b PROVE Recovered[b] = home[b]
  <2>1. Logged(b) = {} BY <1>2 DEF Logged, Indices
  <2> QED BY <2>1 DEF Recovered
<1> QED BY <1>1, <1>2

LEMMA RecoveredFun == Recovered \in [Blocks -> {Recovered[b] : b \in Blocks}] /\ DOMAIN Recovered = Blocks
BY DEF Recovered

(* An empty header: a reboot finds the home locations. *)
LEMMA RecoveredHome == ASSUME head = <<>>, home \in [Blocks -> Values] PROVE Recovered = home
<1>1. \A b \in Blocks : Logged(b) = {} BY DEF Logged
<1> QED BY <1>1 DEF Recovered

(* Recovery reads nothing but the disk. *)
LEMMA RecoveredFrame == ASSUME UNCHANGED disk PROVE Recovered' = Recovered
BY DEF disk, Recovered, Logged

(* Copying a logged block home does not change what recovery would restore. *)
LEMMA RecoveredInstall ==
  ASSUME IInv, lh = head, tail <= Len(lh), InstallBlock
  PROVE  Recovered' = Recovered
<1>1. tail \in Indices(head) /\ head[tail] \in Blocks BY DEF IInv, TypeOK, Indices
<1>2. UNCHANGED <<head, logd>> /\ home' = [home EXCEPT ![head[tail]] = logd[tail]] BY DEF InstallBlock
<1>3. ASSUME NEW b \in Blocks PROVE Recovered'[b] = Recovered[b]
  <2>1. CASE Logged(b) = {}
    <3>1. head[tail] # b BY <1>1, <2>1 DEF Logged, Indices
    <3>2. home'[b] = home[b] BY <1>2, <3>1 DEF IInv, TypeOK
    <3> QED BY <1>2, <2>1, <3>2 DEF Recovered, Logged
  <2>2. CASE Logged(b) # {} BY <1>2, <2>2 DEF Recovered, Logged
  <2> QED BY <2>1, <2>2
<1> QED BY <1>3 DEF Recovered

(* A fully installed transaction: a reboot finds it with and without the    *)
(* header.                                                                  *)
LEMMA RecoveredInstalled ==
  ASSUME IInv, \A i \in Indices(head) : home[head[i]] = logd[i]
  PROVE  Recovered = home
<1>1. head \in Seq(Blocks) /\ Distinct(head) /\ home \in [Blocks -> Values] BY DEF IInv, TypeOK
<1>2. \A b \in Blocks : Recovered[b] = home[b] BY <1>1, RecoveredIs
<1> QED BY <1>1, <1>2, RecoveredFun
------------------------------------------------------------------------------
(* How each step of the kernel maps to a step of TxDisk. *)

LEMMA BufferedFrame ==
  ASSUME UNCHANGED <<cache, home>> PROVE \A b \in Blocks : Buffered(b)' = Buffered(b)
BY DEF Buffered

LEMMA Map_read_head == ASSUME IInv, read_head PROVE UNCHANGED T!vars
<1>1. Recovered' = Recovered BY RecoveredFrame DEF read_head
<1>2. Visible' = Visible BY <1>1 DEF Visible, read_head
<1>3. Active' = Active BY DEF Active, read_head
<1> QED BY <1>1, <1>2, <1>3 DEF T!vars

LEMMA Map_recover_install == ASSUME IInv, recover_install PROVE UNCHANGED T!vars
<1>0. sys = "recover_install" /\ sys' \in {"recover_install", "clear"} /\ lh = head
  BY DEF recover_install, IInv, RecoverInv, Recovering
<1>1. Recovered' = Recovered BY <1>0, RecoveredFrame, RecoveredInstall DEF recover_install
<1>2. Visible' = Visible BY <1>0, <1>1 DEF Visible
<1>3. Active' = Active BY DEF Active, recover_install
<1> QED BY <1>1, <1>2, <1>3 DEF T!vars

LEMMA Map_recover_clear == ASSUME IInv, recover_clear PROVE UNCHANGED T!vars
<1>0. /\ sys = "clear" /\ sys' = "up" /\ lh = head /\ pin = NoPins /\ head' = <<>>
      /\ \A i \in Indices(head) : home[head[i]] = logd[i]
      /\ UNCHANGED <<home, logd, cache, pin, pc>>
  BY DEF recover_clear, IInv, RecoverInv, Recovering
<1>1. Recovered = home BY <1>0, RecoveredInstalled
<1>2. Recovered' = home
  <2>1. \A b \in Blocks : Logged(b)' = {} BY <1>0 DEF Logged
  <2>2. home = [b \in Blocks |-> home[b]] BY DEF IInv, TypeOK
  <2> QED BY <1>0, <2>1, <2>2 DEF Recovered
<1>3. \A b \in Blocks : Buffered(b)' = home[b] BY <1>0 DEF Buffered, IInv, PinInv, NoPins
<1>4. Visible = home /\ Visible' = home
  <2>1. home = [b \in Blocks |-> home[b]] BY DEF IInv, TypeOK
  <2> QED BY <1>0, <1>1, <1>3, <2>1 DEF Visible
<1>5. Active' = Active BY <1>0 DEF Active
<1> QED BY <1>1, <1>2, <1>4, <1>5 DEF T!vars

(* Steps that touch neither the disk nor a buffer. *)
LEMMA MapFrame ==
  ASSUME sys = "up", sys' \in {"up", "panic"}, UNCHANGED <<home, head, logd, cache>>
  PROVE  Recovered' = Recovered /\ Visible' = Visible
<1>1. Recovered' = Recovered BY RecoveredFrame DEF disk
<1>2. Visible' = Visible BY BufferedFrame DEF Visible
<1> QED BY <1>1, <1>2

LEMMA Map_Panic == ASSUME sys = "up", Panic PROVE UNCHANGED T!vars
<1>1. Recovered' = Recovered /\ Visible' = Visible BY MapFrame DEF Panic, disk
<1>2. Active' = Active BY DEF Panic, Active
<1> QED BY <1>1, <1>2 DEF T!vars

LEMMA Map_call_begin_op ==
  ASSUME IInv, NEW p \in Procs, call_begin_op(p) PROVE UNCHANGED T!vars
<1>1. Recovered' = Recovered /\ Visible' = Visible BY MapFrame DEF call_begin_op, disk
<1>2. Active' = Active BY DEF call_begin_op, Active, IInv, TypeOK
<1> QED BY <1>1, <1>2 DEF T!vars

LEMMA Map_begin_op == ASSUME IInv, NEW p \in Procs, begin_op(p) PROVE T!Begin(p) \/ UNCHANGED T!vars
<1>1. Recovered' = Recovered /\ Visible' = Visible BY MapFrame DEF begin_op, disk
<1>2. CASE MustWait
  <2>1. Active' = Active BY <1>2 DEF begin_op, Active, IInv, TypeOK
  <2> QED BY <1>1, <2>1 DEF T!vars
<1>3. CASE ~MustWait
  <2>1. Active' = Active \cup {p} /\ p \notin Active BY <1>3 DEF begin_op, Active, IInv, TypeOK
  <2> QED BY <1>1, <2>1 DEF T!Begin
<1> QED BY <1>2, <1>3

LEMMA Map_log_write ==
  ASSUME IInv, NEW p \in Procs, NEW b \in Blocks, NEW v \in Values, log_write(p, b, v)
  PROVE  T!Write(p, b, v) \/ UNCHANGED T!vars
<1>1. CASE LogFull \/ outstanding < 1 BY <1>1, Map_Panic DEF log_write
<1>2. CASE ~(LogFull \/ outstanding < 1)
  <2>1. /\ sys = "up" /\ sys' = "up" /\ pc[p] = "op"
        /\ cache' = [cache EXCEPT ![b] = v] /\ UNCHANGED <<home, head, logd, pc>>
    BY <1>2 DEF log_write, disk
  <2>2. Recovered' = Recovered BY <2>1, RecoveredFrame DEF disk
  <2>3. Active' = Active /\ p \in Active BY <2>1 DEF Active
  <2>4. \A x \in Blocks : Buffered(x)' = IF x = b THEN v ELSE Buffered(x)
    BY <2>1, LogAssumption DEF Buffered, IInv, TypeOK
  <2>5. Visible' = [Visible EXCEPT ![b] = v] BY <2>1, <2>4 DEF Visible
  <2> QED BY <2>2, <2>3, <2>5 DEF T!Write
<1> QED BY <1>1, <1>2

LEMMA Map_end_op == ASSUME IInv, NEW p \in Procs, end_op(p) PROVE T!End(p) \/ UNCHANGED T!vars
<1>1. CASE committing BY <1>1, Map_Panic DEF end_op
<1>2. CASE ~committing
  <2>1. Recovered' = Recovered /\ Visible' = Visible BY <1>2, MapFrame DEF end_op, disk
  <2>2. /\ p \in Active /\ pc'[p] # "op"
        /\ \A q \in Procs : q # p => (pc'[q] = "op" <=> pc[q] = "op")
    <3>1. pc \in [Procs -> {"idle", "begin", "asleep", "op"} \cup InCommit] /\ pc[p] = "op"
      BY DEF IInv, TypeOK, end_op
    <3>2. CASE LastOp
      BY <1>2, <3>1, <3>2 DEF end_op, Active, CommitStart
    <3>3. CASE ~LastOp
      <4>1. pc' = [Woken(pc) EXCEPT ![p] = "idle"] BY <1>2, <3>3 DEF end_op
      <4> QED BY <3>1, <4>1 DEF Active, Woken
    <3> QED BY <3>2, <3>3
  <2>3. Active' = Active \ {p} BY <2>2 DEF Active
  <2> QED BY <2>1, <2>2, <2>3 DEF T!End
<1> QED BY <1>1, <1>2

(* write_log fills log blocks that no header on disk names yet. *)
LEMMA Map_write_log == ASSUME IInv, NEW p \in Procs, write_log(p) PROVE UNCHANGED T!vars
<1>0. sys = "up" /\ sys' = "up" /\ pc[p] = "write_log" /\ UNCHANGED <<home, head, lh>> BY DEF write_log
<1>1. head = <<>>
  <2>1. \A q \in Procs : pc[q] \notin {"install", "erase"} BY <1>0 DEF IInv, CommitInv, InCommit
  <2> QED BY <1>0, <2>1 DEF IInv, CommitInv
<1>2. Recovered = home BY <1>1, RecoveredHome DEF IInv, TypeOK
<1>3. Recovered' = home
  <2>1. \A b \in Blocks : Logged(b)' = {} BY <1>0, <1>1 DEF Logged
  <2>2. home = [b \in Blocks |-> home[b]] BY DEF IInv, TypeOK
  <2> QED BY <1>0, <2>1, <2>2 DEF Recovered
<1>4. \A b \in Blocks : Buffered(b)' = Buffered(b)
  <2>1. CASE tail <= Len(lh)
    <3>1. lh[tail] \in Blocks BY <2>1 DEF IInv, TypeOK
    <3>2. cache' = [cache EXCEPT ![lh[tail]] = Buffered(lh[tail])]
      BY <2>1 DEF write_log, IInv, TypeOK
    <3>3. \A b \in Blocks : Buffered(b) # NoBuf BY LogAssumption DEF Buffered, IInv, TypeOK
    <3>4. \A b \in Blocks : cache'[b] = IF b = lh[tail] THEN Buffered(b) ELSE cache[b]
      BY <3>1, <3>2 DEF IInv, TypeOK
    <3> QED BY <1>0, <3>3, <3>4 DEF Buffered
  <2>2. CASE ~(tail <= Len(lh)) BY <1>0, <2>2, BufferedFrame DEF write_log
  <2> QED BY <2>1, <2>2
<1>5. Visible' = Visible BY <1>0, <1>4 DEF Visible
<1>6. Active' = Active BY <1>0 DEF Active, write_log, IInv, TypeOK
<1> QED BY <1>2, <1>3, <1>5, <1>6 DEF T!vars

(* The header write is the commit: the log then holds the buffers of all    *)
(* logged blocks, and every other block is at home.                         *)
LEMMA Map_write_head == ASSUME IInv, NEW p \in Procs, write_head(p) PROVE T!Commit
<1>0. /\ sys = "up" /\ sys' = "up" /\ pc[p] = "write_head" /\ head' = lh
      /\ UNCHANGED <<home, logd, lh, cache>> /\ pc' = [pc EXCEPT ![p] = "install"]
  BY DEF write_head
<1>1. Active = {} /\ Active' = {}
  <2>1. Active = {} BY <1>0 DEF IInv, CommitInv, InCommit
  <2> QED BY <1>0, <2>1 DEF Active, IInv, TypeOK
<1>2. Visible' = Visible BY <1>0, BufferedFrame DEF Visible
<1>3. ASSUME NEW b \in Blocks PROVE Recovered'[b] = Buffered(b)
  <2>1. Recovered'[b] = IF Logged(b)' # {} THEN logd[CHOOSE i \in Logged(b)' : TRUE] ELSE home[b]
    BY <1>0 DEF Recovered
  <2>2. Logged(b)' = {i \in Indices(lh) : lh[i] = b} BY <1>0 DEF Logged, Indices
  <2>3. ASSUME NEW i \in Indices(lh), lh[i] = b PROVE logd[i] = Buffered(b)
    <3>1. logd[i] = cache[b] BY <1>0, <2>3 DEF IInv, DataInv
    <3>2. logd[i] \in Values BY LogAssumption DEF Indices, IInv, TypeOK, Slots
    <3> QED BY <3>1, <3>2, LogAssumption DEF Buffered
  <2>4. CASE \E i \in Indices(lh) : lh[i] = b
    <3> DEFINE j == CHOOSE i \in Logged(b)' : TRUE
    <3>1. Logged(b)' # {} BY <2>2, <2>4
    <3>2. j \in Logged(b)' BY <3>1
    <3> HIDE DEF j
    <3>3. j \in Indices(lh) /\ lh[j] = b BY <2>2, <3>2
    <3>4. Recovered'[b] = logd[j] BY <2>1, <3>1 DEF j
    <3> QED BY <2>3, <3>3, <3>4
  <2>5. CASE ~\E i \in Indices(lh) : lh[i] = b
    <3>1. Logged(b)' = {} BY <2>2, <2>5
    <3>2. pin[b] = 0 BY <1>0, <2>5 DEF IInv, PinInv
    <3>3. cache[b] # NoBuf => cache[b] = home[b] BY <3>2 DEF IInv, PinInv
    <3> QED BY <2>1, <3>1, <3>3 DEF Buffered
  <2> QED BY <2>4, <2>5
<1>4. Recovered' = Visible
  <2>1. Recovered' = [b \in Blocks |-> Recovered'[b]] BY DEF Recovered
  <2> QED BY <1>0, <1>3, <2>1 DEF Visible
<1> QED BY <1>1, <1>2, <1>4 DEF T!Commit

LEMMA Map_install_trans == ASSUME IInv, NEW p \in Procs, install_trans(p) PROVE UNCHANGED T!vars
<1>0. sys = "up" /\ sys' = "up" /\ pc[p] = "install" /\ lh = head /\ UNCHANGED lh
  BY DEF install_trans, IInv, CommitInv
<1>1. Active' = Active BY <1>0 DEF Active, install_trans, IInv, TypeOK
<1>2. CASE tail <= Len(lh)
  <2>1. InstallBlock BY <1>2 DEF install_trans, IInv, TypeOK
  <2>2. Recovered' = Recovered BY <1>0, <1>2, <2>1, RecoveredInstall
  <2>3. tail \in Indices(lh) /\ lh[tail] \in Blocks /\ logd[tail] \in Values
    BY <1>2, LogAssumption DEF IInv, TypeOK, Indices, Slots
  <2>4. Buffered(lh[tail]) = logd[tail]
    <3>1. tail \in Nat BY DEF IInv, TypeOK
    <3>2. logd[tail] = cache[lh[tail]] BY <1>0, <2>3, <3>1 DEF IInv, DataInv
    <3> QED BY <2>3, <3>2, LogAssumption DEF Buffered
  <2>5. ASSUME NEW b \in Blocks PROVE Buffered(b)' = Buffered(b)
    <3>1. CASE b = lh[tail] BY <2>1, <2>3, <2>4, <3>1, LogAssumption DEF Buffered, InstallBlock, IInv, TypeOK
    <3>2. CASE b # lh[tail] BY <2>1, <2>3, <3>2 DEF Buffered, InstallBlock, IInv, TypeOK
    <3> QED BY <3>1, <3>2
  <2>6. Visible' = Visible BY <1>0, <2>5 DEF Visible
  <2> QED BY <1>1, <2>2, <2>6 DEF T!vars
<1>3. CASE ~(tail <= Len(lh))
  <2>1. Recovered' = Recovered /\ Visible' = Visible BY <1>0, <1>3, MapFrame DEF install_trans, disk
  <2> QED BY <1>1, <2>1 DEF T!vars
<1> QED BY <1>2, <1>3

(* Erasing the header of an installed transaction changes nothing. *)
LEMMA Map_erase == ASSUME IInv, NEW p \in Procs, erase(p) PROVE UNCHANGED T!vars
<1>0. /\ sys = "up" /\ sys' = "up" /\ pc[p] = "erase" /\ lh = head /\ head' = <<>>
      /\ UNCHANGED <<home, logd, cache>>
  BY DEF erase, IInv, CommitInv
<1>1. Active' = Active BY <1>0 DEF Active, erase, IInv, TypeOK
<1>2. Recovered = home BY <1>0, RecoveredInstalled DEF IInv, DataInv
<1>3. Recovered' = home
  <2>1. \A b \in Blocks : Logged(b)' = {} BY <1>0 DEF Logged
  <2>2. home = [b \in Blocks |-> home[b]] BY DEF IInv, TypeOK
  <2> QED BY <1>0, <2>1, <2>2 DEF Recovered
<1>4. Visible' = Visible BY <1>0, BufferedFrame DEF Visible
<1> QED BY <1>1, <1>2, <1>3, <1>4 DEF T!vars

LEMMA Map_end_commit == ASSUME IInv, NEW p \in Procs, end_commit(p) PROVE UNCHANGED T!vars
<1>1. Recovered' = Recovered /\ Visible' = Visible BY MapFrame DEF end_commit, disk
<1>2. Active' = Active BY DEF end_commit, Woken, Active, IInv, TypeOK
<1> QED BY <1>1, <1>2 DEF T!vars

(* Reading or recycling a buffer is invisible: it equals the disk. *)
LEMMA Map_buffer ==
  ASSUME IInv, NEW b \in Blocks, bread(b) \/ recycle(b) PROVE UNCHANGED T!vars
<1>0. sys = "up" /\ sys' = "up" /\ UNCHANGED <<home, head, logd, pc>> BY DEF bread, recycle, disk
<1>1. ASSUME NEW x \in Blocks PROVE Buffered(x)' = Buffered(x)
  <2>1. /\ cache'[x] = cache[x] \/ (x = b /\ {cache[x], cache'[x]} = {NoBuf, home[x]})
    <3>1. CASE bread(b) BY <3>1 DEF bread, IInv, TypeOK
    <3>2. CASE recycle(b)
      <4>1. cache[b] = home[b] BY <3>2 DEF recycle, IInv, PinInv
      <4> QED BY <3>2, <4>1 DEF recycle, IInv, TypeOK
    <3> QED BY <3>1, <3>2
  <2> QED BY <1>0, <2>1 DEF Buffered
<1>2. Visible' = Visible BY <1>0, <1>1 DEF Visible
<1>3. Recovered' = Recovered /\ Active' = Active BY <1>0, RecoveredFrame DEF disk, Active
<1> QED BY <1>2, <1>3 DEF T!vars

LEMMA Map_Crash == ASSUME Crash PROVE T!Crash
<1>1. Recovered' = Recovered BY RecoveredFrame DEF Crash
<1>2. Visible' = Recovered BY <1>1 DEF Crash, Visible
<1>3. Active' = {} BY DEF Crash, Active, AllIdle
<1> QED BY <1>1, <1>2, <1>3 DEF T!Crash

LEMMA Map_Init == Init => T!Init
<1> SUFFICES ASSUME Init PROVE T!Init OBVIOUS
<1>1. Recovered = home BY RecoveredHome DEF Init
<1>2. Visible = Recovered BY DEF Init, Visible
<1>3. Active = {} BY DEF Init, Active, AllIdle
<1> QED BY <1>1, <1>2, <1>3 DEF T!Init, Init

(* The calls grouped in a commit become durable together or not at all,     *)
(* wherever the power fails, a second time during recovery included: Log    *)
(* implements TxDisk under the mapping that reads a block through the log.  *)
THEOREM CrashAtomicity == Spec => CrashAtomic
<1>1. ASSUME IInv, [Next]_vars PROVE [T!Next]_T!vars
  <2>1. CASE Recover BY <1>1, <2>1, Map_read_head, Map_recover_install, Map_recover_clear DEF Recover
  <2>2. ASSUME NEW p \in Procs, Commit(p) PROVE [T!Next]_T!vars
    BY <1>1, <2>2, Map_write_log, Map_write_head, Map_install_trans, Map_erase, Map_end_commit
       DEF Commit, T!Next
  <2>3. ASSUME NEW p \in Procs, call_begin_op(p) \/ begin_op(p) \/ end_op(p) PROVE [T!Next]_T!vars
    BY <1>1, <2>3, Map_call_begin_op, Map_begin_op, Map_end_op DEF T!Next
  <2>4. ASSUME NEW p \in Procs, NEW b \in Blocks, NEW v \in Values, log_write(p, b, v)
        PROVE  [T!Next]_T!vars
    BY <1>1, <2>4, Map_log_write DEF T!Next
  <2>5. ASSUME NEW b \in Blocks, bread(b) \/ recycle(b) PROVE [T!Next]_T!vars
    BY <1>1, <2>5, Map_buffer
  <2>6. CASE Crash BY <2>6, Map_Crash DEF T!Next
  <2>7. CASE UNCHANGED vars
    BY <2>7 DEF vars, T!vars, Recovered, Logged, Visible, Buffered, Active
  <2> QED BY <1>1, <2>1, <2>2, <2>3, <2>4, <2>5, <2>6, <2>7 DEF Next
<1> QED BY <1>1, Map_Init, Invariance, PTL DEF Spec, CrashAtomic, T!Spec
=============================================================================
