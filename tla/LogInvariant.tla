---------------------------- MODULE LogInvariant -----------------------------
(***************************************************************************)
(* The inductive invariant of Log, for any number of processes, blocks and *)
(* values and any size of the log: IInv says, for every step of commit()   *)
(* and of recover_from_log(), which of the four copies of a block (buffer, *)
(* log, header, home) agree.  The lemmas here are for the steps of         *)
(* recovery and of begin_op, log_write and end_op.                         *)
(***************************************************************************)
EXTENDS Log, FiniteSetTheorems, TLAPS

Indices(s) == 1 .. Len(s)
Distinct(s) == \A i, j \in Indices(s) : s[i] = s[j] => i = j

(* Before the system is up there are no calls, no pins, and lh is what the  *)
(* header says; blocks below tail are home.                                 *)
RecoverInv ==
  sys \in Recovering =>
    /\ pc = AllIdle /\ pin = NoPins /\ outstanding = 0 /\ committing = FALSE
    /\ sys # "read_head" => lh = head
    /\ sys = "recover_install" => \A i \in Indices(lh) : i < tail => home[lh[i]] = logd[i]
    /\ sys = "clear" => \A i \in Indices(lh) : home[lh[i]] = logd[i]

(* Who may be where, and what the headers hold meanwhile. *)
CommitInv ==
  sys = "up" =>
    /\ committing <=> \E p \in Procs : pc[p] \in InCommit
    /\ \A p, q \in Procs : pc[p] \in InCommit /\ pc[q] \in InCommit => p = q
    /\ committing => Active = {}
    /\ ~committing /\ Active = {} => lh = <<>>
    /\ \A p \in Procs : pc[p] = "done" => lh = <<>>
    /\ \A p \in Procs : pc[p] \in {"install", "erase"} => head = lh
    /\ (\A p \in Procs : pc[p] \notin {"install", "erase"}) => head = <<>>

CountInv == sys = "up" => outstanding = Cardinality(Active)

(* Block number i of lh has been copied home by the current commit. *)
Installed(i) == \E p \in Procs : pc[p] = "erase" \/ (pc[p] = "install" /\ i < tail)

(* A block is pinned once if it is logged and not yet installed, else not;  *)
(* a pinned block is in the cache, any other buffer equals the disk.        *)
PinInv ==
  /\ sys = "up" =>
       \A b \in Blocks : pin[b] = IF \E i \in Indices(lh) : lh[i] = b /\ ~Installed(i) THEN 1 ELSE 0
  /\ \A b \in Blocks : pin[b] > 0 => cache[b] # NoBuf
  /\ \A b \in Blocks : pin[b] = 0 /\ cache[b] # NoBuf => cache[b] = home[b]

(* How far the committing process has carried the data. *)
DataInv ==
  sys = "up" =>
    \A p \in Procs : \A i \in Indices(lh) :
      /\ pc[p] = "write_log" /\ i < tail => logd[i] = cache[lh[i]]
      /\ pc[p] = "write_head" => logd[i] = cache[lh[i]]
      /\ pc[p] = "install" /\ i >= tail => logd[i] = cache[lh[i]]
      /\ pc[p] = "install" /\ i < tail => home[lh[i]] = logd[i]
      /\ pc[p] = "erase" => home[lh[i]] = logd[i]

IInv == /\ TypeOK
        /\ Distinct(lh) /\ Distinct(head)
        /\ RecoverInv
        /\ CommitInv
        /\ CountInv
        /\ PinInv
        /\ DataInv

------------------------------------------------------------------------------
LEMMA ActiveFinite == IsFiniteSet(Active) /\ Cardinality(Active) \in Nat
<1>1. Active \subseteq Procs BY DEF Active
<1>2. IsFiniteSet(Active) BY <1>1, LogAssumption, FS_Subset
<1> QED BY <1>2, FS_CardinalityType

LEMMA PinFrame ==
  ASSUME PinInv, UNCHANGED <<sys, lh, pin, cache, home>>,
         \A i \in Nat : Installed(i)' <=> Installed(i)
  PROVE  PinInv'
<1>1. \A i \in Indices(lh) : Installed(i)' <=> Installed(i) BY DEF Indices
<1> QED BY <1>1 DEF PinInv, Indices

LEMMA Inv_recover_install == ASSUME IInv, recover_install PROVE IInv'
<1> USE LogAssumption DEF recover_install, InstallBlock, IInv, disk
<1>0. sys = "recover_install" /\ pc = AllIdle /\ pin = NoPins BY DEF RecoverInv, Recovering
<1>1. CASE tail <= Len(lh)
  <2>1. /\ tail \in Indices(lh) /\ tail \in Slots
        /\ lh[tail] \in Blocks /\ logd[tail] \in Values
    BY <1>1 DEF TypeOK, Indices, Slots
  <2>2. /\ home' = [home EXCEPT ![lh[tail]] = logd[tail]]
        /\ cache' = [cache EXCEPT ![lh[tail]] = logd[tail]]
        /\ tail' = tail + 1
        /\ UNCHANGED <<head, logd, sys, lh, outstanding, committing, pin, pc, wrote>>
    BY <1>1, <1>0 DEF TypeOK
  <2>3. TypeOK' BY <2>1, <2>2 DEF TypeOK
  <2>4. Distinct(lh)' /\ Distinct(head)' BY <2>2 DEF Distinct, Indices
  <2>5. \A i \in Indices(lh) : i < tail + 1 => home'[lh[i]] = logd[i]
    BY <1>0, <2>1, <2>2 DEF TypeOK, RecoverInv, Distinct, Indices, Recovering
  <2>6. RecoverInv' BY <1>0, <2>2, <2>5 DEF RecoverInv, Recovering, Indices
  <2>7. PinInv' BY <1>0, <2>1, <2>2 DEF PinInv, TypeOK, NoPins
  <2>8. CommitInv' /\ CountInv' /\ DataInv' BY <1>0, <2>2 DEF CommitInv, CountInv, DataInv
  <2> QED BY <2>3, <2>4, <2>6, <2>7, <2>8
<1>2. CASE tail > Len(lh)
  <2>1. /\ sys' = "clear"
        /\ UNCHANGED <<home, head, logd, lh, outstanding, committing, cache, pin, pc, wrote, tail>>
    BY <1>2, <1>0 DEF TypeOK
  <2>2. TypeOK' BY <2>1 DEF TypeOK, Recovering
  <2>3. RecoverInv' BY <1>0, <1>2, <2>1 DEF RecoverInv, Recovering, Indices, TypeOK
  <2>4. Distinct(lh)' /\ Distinct(head)' BY <2>1 DEF Distinct, Indices
  <2>5. CommitInv' /\ CountInv' /\ PinInv' /\ DataInv' BY <2>1 DEF CommitInv, CountInv, PinInv, DataInv
  <2> QED BY <2>2, <2>3, <2>4, <2>5
<1> QED BY <1>1, <1>2 DEF TypeOK

LEMMA Inv_begin_op == ASSUME NEW p \in Procs, IInv, begin_op(p) PROVE IInv'
<1> USE LogAssumption DEF begin_op, IInv, disk
<1>1. CASE MustWait
  <2>1. /\ pc' = [pc EXCEPT ![p] = "asleep"]
        /\ UNCHANGED <<home, head, logd, sys, lh, outstanding, committing, cache, pin, wrote, tail>>
    BY <1>1
  <2>2. TypeOK' BY <2>1 DEF TypeOK
  <2>3. /\ Active' = Active
        /\ \A q \in Procs : pc'[q] \in InCommit \cup {"op"} \/ pc[q] \in InCommit \cup {"op"} => pc'[q] = pc[q]
    BY <2>1 DEF Active, InCommit, TypeOK
  <2>4. Distinct(lh)' /\ Distinct(head)' /\ RecoverInv' BY <2>1 DEF Distinct, Indices, RecoverInv, Recovering
  <2>5. CommitInv' BY <2>1, <2>3 DEF CommitInv, InCommit
  <2>6. CountInv' BY <2>1, <2>3 DEF CountInv
  <2>7. PinInv' BY <2>1, <2>3 DEF PinInv, Installed, Indices, InCommit
  <2>8. DataInv' BY <2>1, <2>3 DEF DataInv, Indices, InCommit
  <2> QED BY <2>2, <2>4, <2>5, <2>6, <2>7, <2>8
<1>2. CASE ~MustWait
  <2>1. /\ ~committing
        /\ pc' = [pc EXCEPT ![p] = "op"]
        /\ outstanding' = outstanding + 1
        /\ wrote' = [wrote EXCEPT ![p] = {}]
        /\ UNCHANGED <<home, head, logd, sys, lh, committing, cache, pin, tail>>
    BY <1>2 DEF MustWait
  <2>2. TypeOK' BY <2>1 DEF TypeOK
  <2>3. /\ Active' = Active \cup {p} /\ p \notin Active
        /\ \A q \in Procs : pc'[q] \in InCommit \/ pc[q] \in InCommit => pc'[q] = pc[q]
    BY <2>1 DEF Active, InCommit, TypeOK
  <2>4. Distinct(lh)' /\ Distinct(head)' /\ RecoverInv' BY <2>1 DEF Distinct, Indices, RecoverInv, Recovering
  <2>5. CommitInv' BY <2>1, <2>3 DEF CommitInv, InCommit
  <2>6. CountInv' BY <2>1, <2>3, ActiveFinite, FS_AddElement DEF CountInv
  <2>7. PinInv' BY <2>1, <2>3 DEF PinInv, Installed, Indices, InCommit
  <2>8. DataInv' BY <2>1, <2>3 DEF DataInv, Indices, InCommit
  <2> QED BY <2>2, <2>4, <2>5, <2>6, <2>7, <2>8
<1> QED BY <1>1, <1>2

(* The panics change nothing but sys. *)
LEMMA Inv_Panic == ASSUME IInv, Panic PROVE IInv'
<1> USE DEF Panic, IInv, disk
<1>1. TypeOK' BY DEF TypeOK
<1>2. Distinct(lh)' /\ Distinct(head)' BY DEF Distinct, Indices
<1>3. PinInv' BY DEF PinInv
<1>4. RecoverInv' /\ CommitInv' /\ CountInv' /\ DataInv'
  BY DEF RecoverInv, Recovering, CommitInv, CountInv, DataInv
<1> QED BY <1>1, <1>2, <1>3, <1>4

LEMMA Inv_log_write ==
  ASSUME NEW p \in Procs, NEW b \in Blocks, NEW v \in Values, IInv, log_write(p, b, v)
  PROVE  IInv'
<1> USE LogAssumption DEF log_write, IInv, disk
<1>1. CASE LogFull \/ outstanding < 1 BY <1>1, Inv_Panic
<1>2. CASE ~(LogFull \/ outstanding < 1)
  <2>1. /\ sys = "up" /\ pc[p] = "op" /\ Len(lh) + 1 < nlog
        /\ cache' = [cache EXCEPT ![b] = v]
        /\ wrote' = [wrote EXCEPT ![p] = @ \cup {b}]
        /\ UNCHANGED <<home, head, logd, sys, outstanding, committing, pc, tail>>
    BY SMTT(20), <1>2 DEF LogFull, TypeOK
  <2>2. /\ Active' = Active /\ p \in Active
        /\ \A q \in Procs : pc[q] \notin InCommit
    BY <2>1 DEF Active, CommitInv
  <2>3. RecoverInv' BY <2>1 DEF RecoverInv, Recovering
  <2>4. CommitInv' BY <2>1, <2>2 DEF CommitInv, InCommit
  <2>5. CountInv' BY <2>1, <2>2 DEF CountInv
  <2>6. DataInv' BY <2>1, <2>2 DEF DataInv, InCommit
  <2>7. \A i \in Nat : ~Installed(i) /\ ~Installed(i)' BY <2>1, <2>2 DEF Installed, InCommit
  <2>8. CASE \E i \in 1 .. Len(lh) : lh[i] = b
    <3>1. UNCHANGED <<lh, pin>> BY <1>2, <2>8
    <3>2. TypeOK' BY <2>1, <3>1 DEF TypeOK
    <3>3. Distinct(lh)' /\ Distinct(head)' BY <2>1, <3>1 DEF Distinct, Indices
    <3>4. pin[b] = 1 BY <2>1, <2>7, <2>8 DEF PinInv, Indices, TypeOK
    <3>5. PinInv' BY SMTT(20), <2>1, <2>7, <3>1, <3>4 DEF PinInv, Indices, TypeOK
    <3> QED BY <2>3, <2>4, <2>5, <2>6, <3>2, <3>3, <3>5
  <2>9. CASE ~\E i \in 1 .. Len(lh) : lh[i] = b
    <3>1. lh' = Append(lh, b) /\ pin' = [pin EXCEPT ![b] = @ + 1] BY <1>2, <2>9 DEF Pinned
    <3>2. /\ Len(lh') = Len(lh) + 1 /\ lh' \in Seq(Blocks)
          /\ \A i \in 1 .. Len(lh) : lh'[i] = lh[i]
          /\ lh'[Len(lh) + 1] = b
      BY <3>1 DEF TypeOK
    <3>3. TypeOK' BY <2>1, <3>1, <3>2 DEF TypeOK
    <3>0. Indices(lh') = Indices(lh) \cup {Len(lh) + 1} BY SMTT(20), <3>2 DEF Indices, TypeOK
    <3>4. Distinct(lh)' /\ Distinct(head)'
      <4>1. \A i \in Indices(lh) : lh'[i] = lh[i] /\ lh[i] # b BY <2>9, <3>2 DEF Indices
      <4>2. Distinct(lh)' BY <3>0, <3>2, <4>1 DEF Distinct
      <4> QED BY <2>1, <4>2 DEF Distinct, Indices
    <3>5. \A x \in Blocks : (\E i \in Indices(lh') : lh'[i] = x)
                            <=> (x = b \/ \E i \in Indices(lh) : lh[i] = x)
      BY <3>0, <3>2 DEF Indices
    <3>6. \A x \in Blocks : pin[x] = IF \E i \in Indices(lh) : lh[i] = x THEN 1 ELSE 0
      BY <2>1, <2>7 DEF PinInv, Indices, TypeOK
    <3>7. \A x \in Blocks : pin'[x] = IF \E i \in Indices(lh') : lh'[i] = x THEN 1 ELSE 0
      <4> HIDE DEF log_write, IInv
      <4>1. pin \in [Blocks -> Nat] BY DEF IInv, TypeOK
      <4>2. pin[b] = 0 BY <2>9, <3>6 DEF Indices
      <4>3. pin'[b] = 1 /\ \A x \in Blocks : x # b => pin'[x] = pin[x] BY <3>1, <4>1, <4>2
      <4> QED BY <3>5, <3>6, <4>3
    <3>8. PinInv' BY <2>1, <2>7, <3>1, <3>2, <3>7 DEF PinInv, Indices, TypeOK
    <3> QED BY <2>3, <2>4, <2>5, <2>6, <3>3, <3>4, <3>8
  <2> QED BY <2>8, <2>9
<1> QED BY <1>1, <1>2

LEMMA Inv_end_op == ASSUME NEW p \in Procs, IInv, end_op(p) PROVE IInv'
<1> USE LogAssumption DEF end_op, IInv, disk
<1>1. CASE committing BY <1>1, Inv_Panic
<1>2. CASE ~committing
  <2>1. /\ sys = "up" /\ pc[p] = "op" /\ ~committing
        /\ outstanding' = outstanding - 1
        /\ UNCHANGED <<home, head, logd, sys, lh, cache, pin, wrote>>
    BY <1>2
  <2>2. p \in Active /\ \A q \in Procs : pc[q] \notin InCommit
    BY <2>1 DEF Active, CommitInv
  <2>3. /\ IsFiniteSet(Active \ {p}) /\ Cardinality(Active \ {p}) = outstanding - 1
        /\ outstanding - 1 \in Nat
    <3>1. /\ IsFiniteSet(Active \ {p})
          /\ Cardinality(Active \ {p}) = Cardinality(Active) - 1
      BY <2>2, ActiveFinite, FS_RemoveElement
    <3> QED BY <2>1, <3>1, FS_CardinalityType DEF CountInv
  <2>4. Distinct(lh)' /\ Distinct(head)' BY <2>1 DEF Distinct, Indices
  <2>5. RecoverInv' BY <2>1 DEF RecoverInv, Recovering
  <2>6. CASE LastOp
    <3>1. /\ committing' = TRUE /\ tail' = 1
          /\ pc' = [pc EXCEPT ![p] = CommitStart]
      BY <1>2, <2>6
    <3>2. /\ CommitStart \in {"write_log", "done"}
          /\ CommitStart = "done" => lh = <<>>
      BY DEF CommitStart, TypeOK
    <3>3. TypeOK' BY <2>1, <2>3, <3>1, <3>2 DEF TypeOK, InCommit
    <3>4. Active' = Active \ {p} BY <3>1, <3>2, <2>1 DEF Active, TypeOK
    <3>5. Active' = {}
      BY <2>3, <2>6, <3>4, FS_EmptySet DEF LastOp
    <3>6. CountInv' BY <2>1, <2>3, <3>4 DEF CountInv
    <3>7. CommitInv' BY <2>1, <2>2, <3>1, <3>2, <3>5 DEF CommitInv, InCommit, TypeOK
    <3>8. \A i \in Nat : ~Installed(i) /\ ~Installed(i)' BY <2>1, <2>2, <3>1, <3>2 DEF Installed, InCommit, TypeOK
    <3>9. PinInv' BY <2>1, <3>8 DEF PinInv, Indices, TypeOK
    <3>10. DataInv' BY <2>1, <2>2, <3>1, <3>2 DEF DataInv, Indices, InCommit, TypeOK
    <3> QED BY <2>4, <2>5, <3>3, <3>6, <3>7, <3>9, <3>10
  <2>7. CASE ~LastOp
    <3>1. pc' = [Woken(pc) EXCEPT ![p] = "idle"] /\ UNCHANGED <<committing, tail>> BY <1>2, <2>7
    <3>2. /\ pc' \in [Procs -> {"idle", "begin", "op"}]
          /\ \A q \in Procs : pc'[q] = "op" <=> pc[q] = "op" /\ q # p
      BY <2>2, <3>1 DEF Woken, TypeOK, InCommit
    <3>3. TypeOK' BY <2>1, <2>3, <3>1, <3>2 DEF TypeOK, InCommit
    <3>4. Active' = Active \ {p} BY <3>2 DEF Active
    <3>5. CountInv' BY <2>1, <2>3, <3>4 DEF CountInv
    <3>6. Active' # {} BY <2>3, <2>7, <3>4, FS_EmptySet DEF LastOp, TypeOK
    <3>7. CommitInv' BY <2>1, <2>2, <3>1, <3>2, <3>6 DEF CommitInv, InCommit
    <3>8. \A i \in Nat : ~Installed(i) /\ ~Installed(i)' BY SMTT(20), <2>1, <2>2, <3>1, <3>2 DEF Installed, InCommit
    <3>9. PinInv' BY <2>1, <3>8 DEF PinInv, Indices, TypeOK
    <3>10. DataInv' BY <2>1, <3>2 DEF DataInv, InCommit
    <3> QED BY <2>4, <2>5, <3>3, <3>5, <3>7, <3>9, <3>10
  <2> QED BY <2>6, <2>7
<1> QED BY <1>1, <1>2

LEMMA Inv_read_head == ASSUME IInv, read_head PROVE IInv'
<1> USE LogAssumption DEF read_head, IInv, disk
<1>1. TypeOK' BY DEF TypeOK, Recovering
<1>2. Distinct(lh)' /\ Distinct(head)' BY DEF Distinct, Indices
<1>3. RecoverInv' BY DEF RecoverInv, Recovering, Indices
<1>4. CommitInv' /\ CountInv' /\ PinInv' /\ DataInv' BY DEF CommitInv, CountInv, PinInv, DataInv
<1> QED BY <1>1, <1>2, <1>3, <1>4

LEMMA Inv_recover_clear == ASSUME IInv, recover_clear PROVE IInv'
<1> USE LogAssumption DEF recover_clear, IInv, disk
<1>0. /\ sys = "clear" /\ pc = AllIdle /\ pin = NoPins /\ outstanding = 0 /\ committing = FALSE
      /\ Len(lh') = 0 /\ Len(head') = 0
  BY DEF RecoverInv, Recovering
<1>1. TypeOK' BY DEF TypeOK, Recovering
<1>2. Distinct(lh)' /\ Distinct(head)' BY <1>0 DEF Distinct, Indices
<1>3. Active' = {} /\ \A p \in Procs : pc'[p] = "idle" BY <1>0 DEF Active, AllIdle
<1>4. RecoverInv' BY DEF RecoverInv, Recovering
<1>5. CommitInv' BY <1>0, <1>3 DEF CommitInv, InCommit
<1>6. CountInv' BY <1>0, <1>3, FS_EmptySet DEF CountInv
<1>7. PinInv' BY <1>0 DEF PinInv, NoPins, Indices
<1>8. DataInv' BY <1>0 DEF DataInv, Indices
<1> QED BY <1>1, <1>2, <1>4, <1>5, <1>6, <1>7, <1>8

LEMMA Inv_call_begin_op == ASSUME NEW p \in Procs, IInv, call_begin_op(p) PROVE IInv'
<1> USE LogAssumption DEF call_begin_op, IInv, disk
<1>1. TypeOK' BY DEF TypeOK
<1>2. /\ Active' = Active
      /\ \A q \in Procs : pc'[q] \in InCommit \cup {"op"} \/ pc[q] \in InCommit \cup {"op"} => pc'[q] = pc[q]
  BY DEF Active, InCommit, TypeOK
<1>3. Distinct(lh)' /\ Distinct(head)' /\ RecoverInv' BY DEF Distinct, Indices, RecoverInv, Recovering
<1>4. CommitInv' BY <1>2 DEF CommitInv, InCommit
<1>5. CountInv' BY <1>2 DEF CountInv
<1>6. PinInv' BY SMTT(20), <1>2 DEF PinInv, Installed, Indices, InCommit
<1>7. DataInv' BY <1>2 DEF DataInv, Indices, InCommit
<1> QED BY <1>1, <1>3, <1>4, <1>5, <1>6, <1>7
=============================================================================
