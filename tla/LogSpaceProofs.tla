--------------------------- MODULE LogSpaceProofs ----------------------------
(***************************************************************************)
(* begin_op's admission rule, for any number of processes and any log      *)
(* size: it strands no sleeper, and when calls leave two blocks of their   *)
(* reservation unused it keeps log_write from ever finding the log full.   *)
(***************************************************************************)
EXTENDS LogProofs

LEMMA WokenType ==
  ASSUME NEW p \in Procs
  PROVE  \A q \in Procs : [Woken(pc) EXCEPT ![p] = "idle"][q] # "asleep"
BY DEF Woken

(* No step puts a process to sleep in begin_op, or lets the last call or    *)
(* the commit finish, and leaves someone asleep with nobody to wake it.     *)
LEMMA Strand_Next == ASSUME IInv, NoStrandedSleeper, [Next]_vars PROVE NoStrandedSleeper'
<1> USE DEF NoStrandedSleeper
<1>1. CASE Recover
  <2>1. pc' = pc BY <1>1 DEF Recover, read_head, recover_install, recover_clear
  <2>2. sys \in Recovering BY <1>1 DEF Recover, read_head, recover_install, recover_clear, Recovering
  <2>3. pc = AllIdle BY <2>2 DEF IInv, RecoverInv
  <2> QED BY <2>1, <2>3 DEF AllIdle
<1>2. ASSUME NEW p \in Procs, call_begin_op(p) PROVE NoStrandedSleeper'
  BY <1>2 DEF call_begin_op, IInv, TypeOK
<1>3. ASSUME NEW p \in Procs, begin_op(p) PROVE NoStrandedSleeper'
  <2>1. outstanding \in Nat /\ sys = "up" BY <1>3 DEF begin_op, IInv, TypeOK
  <2>2. CASE ~MustWait
    <3>1. outstanding' = outstanding + 1 BY <1>3, <2>2 DEF begin_op
    <3> QED BY <2>1, <3>1
  <2>3. CASE MustWait
    <3>1. UNCHANGED <<outstanding, committing>> BY <1>3, <2>3 DEF begin_op
    <3>2. ASSUME ~committing, outstanding = 0 PROVE FALSE
      <4>1. Active = {} BY <2>1, <3>2, ActiveFinite, FS_EmptySet DEF IInv, CountInv
      <4>2. Len(lh) = 0 BY <2>1, <3>2, <4>1 DEF IInv, CommitInv
      <4> QED BY <2>3, <3>2, <4>2, LogAssumption DEF MustWait, Reserved
    <3> QED BY <2>1, <3>1, <3>2
  <2> QED BY <2>2, <2>3
<1>4. ASSUME NEW p \in Procs, NEW b \in Blocks, NEW v \in Values, log_write(p, b, v)
      PROVE  NoStrandedSleeper'
  BY <1>4 DEF log_write, Panic
<1>5. ASSUME NEW p \in Procs, end_op(p) PROVE NoStrandedSleeper'
  <2>1. CASE committing BY <1>5, <2>1 DEF end_op, Panic
  <2>2. CASE ~committing /\ LastOp BY <1>5, <2>2 DEF end_op
  <2>3. CASE ~committing /\ ~LastOp
    <3>1. pc' = [Woken(pc) EXCEPT ![p] = "idle"] BY <1>5, <2>3 DEF end_op
    <3> QED BY <3>1, WokenType
  <2> QED BY <2>1, <2>2, <2>3
<1>6. ASSUME NEW p \in Procs, Commit(p) PROVE NoStrandedSleeper'
  <2>1. CASE end_commit(p)
    <3>1. pc' = [Woken(pc) EXCEPT ![p] = "idle"] BY <2>1 DEF end_commit
    <3> QED BY <3>1, WokenType
  <2>2. CASE ~end_commit(p)
    <3>1. UNCHANGED <<sys, outstanding, committing>> /\ sys = "up" /\ pc[p] \in InCommit
      BY <1>6, <2>2 DEF Commit, write_log, write_head, install_trans, erase, InCommit
    <3>2. committing BY <3>1 DEF IInv, CommitInv
    <3> QED BY <3>1, <3>2
  <2> QED BY <2>1, <2>2
<1>7. CASE (\E b \in Blocks : bread(b) \/ recycle(b)) \/ UNCHANGED vars
  BY <1>7 DEF bread, recycle, vars
<1>8. CASE Crash BY <1>8 DEF Crash
<1> QED BY <1>1, <1>2, <1>3, <1>4, <1>5, <1>6, <1>7, <1>8 DEF Next

(* A process asleep in begin_op always has a running call or a commit in    *)
(* front of it, whose wakeup(&log) will reach it.                           *)
THEOREM NoLostLogWakeup == Spec => []NoStrandedSleeper
<1>1. Init => NoStrandedSleeper BY DEF Init, NoStrandedSleeper
<1>2. IInv /\ NoStrandedSleeper /\ [Next]_vars => NoStrandedSleeper' BY Strand_Next
<1> QED BY <1>1, <1>2, Invariance, PTL DEF Spec

------------------------------------------------------------------------------
(* The part of the active calls' reservations not spent so far. *)
Unused == {u \in Active \X (1 .. MAXOPBLOCKS) : u[2] > Cardinality(wrote[u[1]])}

RoomInv ==
  sys = "up" =>
    /\ \A p \in Active : /\ IsFiniteSet(wrote[p])
                         /\ Cardinality(wrote[p]) <= OpWrites
                         /\ \A b \in wrote[p] : \E i \in Indices(lh) : lh[i] = b
    /\ Len(lh) + Cardinality(Unused) <= LOGSIZE

(* The log area is as large as param.h says, and a call leaves two blocks   *)
(* of its reservation unused.                                               *)
Roomy == OpWrites + 2 <= MAXOPBLOCKS /\ LOGSIZE <= nlog

LEMMA UnusedFinite ==
  /\ IsFiniteSet(Unused) /\ Cardinality(Unused) \in Nat
  /\ Cardinality(Unused) <= Cardinality(Active) * MAXOPBLOCKS
<1>1. IsFiniteSet(1 .. MAXOPBLOCKS) /\ Cardinality(1 .. MAXOPBLOCKS) = MAXOPBLOCKS
  BY FS_Interval, LogAssumption
<1>2. /\ IsFiniteSet(Active \X (1 .. MAXOPBLOCKS))
      /\ Cardinality(Active \X (1 .. MAXOPBLOCKS)) = Cardinality(Active) * MAXOPBLOCKS
  BY <1>1, ActiveFinite, FS_Product
<1>3. Unused \in SUBSET (Active \X (1 .. MAXOPBLOCKS)) BY DEF Unused
<1>4. IsFiniteSet(Unused) /\ Cardinality(Unused) <= Cardinality(Active \X (1 .. MAXOPBLOCKS))
  BY <1>2, <1>3, FS_Subset
<1> QED BY <1>2, <1>4, FS_CardinalityType

(* What is unused bounds what is still free for each single call. *)
LEMMA UnusedOfOne ==
  ASSUME NEW p \in Active, NEW k \in Nat, k = Cardinality(wrote[p]), k <= MAXOPBLOCKS
  PROVE  MAXOPBLOCKS - k <= Cardinality(Unused)
<1> DEFINE R == (k + 1) .. MAXOPBLOCKS
<1>1. IsFiniteSet(R) /\ Cardinality(R) = MAXOPBLOCKS - k
  <2>1. k + 1 \in Int /\ MAXOPBLOCKS \in Int BY LogAssumption
  <2>2. IsFiniteSet(R) /\ Cardinality(R) = IF k + 1 > MAXOPBLOCKS THEN 0 ELSE MAXOPBLOCKS - (k + 1) + 1
    BY <2>1, FS_Interval
  <2> QED BY <2>2, LogAssumption
<1>2. IsFiniteSet({p}) /\ Cardinality({p}) = 1 BY FS_Singleton
<1>3. IsFiniteSet({p} \X R) /\ Cardinality({p} \X R) = Cardinality({p}) * Cardinality(R)
  <2> HIDE DEF R
  <2> QED BY <1>1, <1>2, FS_Product
<1>4. {p} \X R \in SUBSET Unused BY LogAssumption DEF Unused
<1>5. Cardinality({p} \X R) <= Cardinality(Unused) BY <1>4, UnusedFinite, FS_Subset
<1> QED BY <1>1, <1>2, <1>3, <1>5, LogAssumption

(* A step that only shrinks what is unused and leaves lh alone. *)
LEMMA UnusedShrinks ==
  ASSUME RoomInv, sys = "up", UNCHANGED lh, lh \in Seq(Blocks), Unused' \subseteq Unused
  PROVE  Len(lh') + Cardinality(Unused') <= LOGSIZE
<1>1. IsFiniteSet(Unused') /\ Cardinality(Unused') <= Cardinality(Unused) BY UnusedFinite, FS_Subset
<1>2. Cardinality(Unused') \in Nat BY <1>1, FS_CardinalityType
<1> QED BY <1>1, <1>2, UnusedFinite, LogAssumption DEF RoomInv

LEMMA Room_begin_op ==
  ASSUME IInv, RoomInv, NEW p \in Procs, begin_op(p) PROVE RoomInv'
<1>0. sys = "up" /\ UNCHANGED <<sys, lh>> BY DEF begin_op
<1>1. CASE MustWait
  <2>1. Active' = Active /\ UNCHANGED wrote BY <1>1 DEF begin_op, Active, IInv, TypeOK
  <2>2. Unused' = Unused BY <2>1 DEF Unused
  <2> QED BY <1>0, <2>1, <2>2 DEF RoomInv, Indices
<1>2. CASE ~MustWait
  <2>1. /\ Active' = Active \cup {p} /\ p \notin Active
        /\ wrote' = [wrote EXCEPT ![p] = {}]
    BY <1>2 DEF begin_op, Active, IInv, TypeOK
  <2>2. wrote'[p] = {} /\ \A q \in Active : wrote'[q] = wrote[q] BY <2>1 DEF IInv, TypeOK, Active
  <2>3. ASSUME NEW q \in Active'
        PROVE  /\ IsFiniteSet(wrote'[q])
               /\ Cardinality(wrote'[q]) <= OpWrites
               /\ \A b \in wrote'[q] : \E i \in Indices(lh) : lh[i] = b
    <3>1. IsFiniteSet({}) /\ Cardinality({}) = 0 BY FS_EmptySet
    <3>2. OpWrites \in Nat BY LogAssumption
    <3>3. CASE q = p BY SMTT(20), <2>2, <3>1, <3>2, <3>3
    <3>4. CASE q \in Active BY <1>0, <2>2, <3>4 DEF RoomInv
    <3> QED BY <2>1, <3>3, <3>4
  <2>4. Cardinality(Active') = outstanding + 1 /\ IsFiniteSet(Active')
    BY <1>0, <2>1, ActiveFinite, FS_AddElement DEF IInv, CountInv
  <2>5. /\ IsFiniteSet(Active' \X (1 .. MAXOPBLOCKS))
        /\ Cardinality(Active' \X (1 .. MAXOPBLOCKS)) = (outstanding + 1) * MAXOPBLOCKS
    <3>1. IsFiniteSet(1 .. MAXOPBLOCKS) /\ Cardinality(1 .. MAXOPBLOCKS) = MAXOPBLOCKS
      BY FS_Interval, LogAssumption
    <3> QED BY ZenonT(30), <2>4, <3>1, FS_Product
  <2>6. Unused' \in SUBSET (Active' \X (1 .. MAXOPBLOCKS)) BY DEF Unused
  <2>7. IsFiniteSet(Unused') /\ Cardinality(Unused') <= (outstanding + 1) * MAXOPBLOCKS
    BY <2>5, <2>6, FS_Subset
  <2>8. Cardinality(Unused') \in Nat BY <2>7, FS_CardinalityType
  <2>9. (outstanding + 1) * MAXOPBLOCKS \in Nat BY LogAssumption DEF IInv, TypeOK
  <2>10. Len(lh) + (outstanding + 1) * MAXOPBLOCKS <= LOGSIZE
    BY <1>2, <2>9, LogAssumption DEF MustWait, Reserved, IInv, TypeOK
  <2>11. Len(lh') + Cardinality(Unused') <= LOGSIZE
    BY <1>0, <2>7, <2>8, <2>9, <2>10, LogAssumption DEF IInv, TypeOK
  <2> QED BY <1>0, <2>3, <2>11 DEF RoomInv, Indices
<1> QED BY <1>1, <1>2

(* A call that keeps to OpWrites blocks finds the log neither full nor      *)
(* closed.                                                                  *)
LEMMA NotFull ==
  ASSUME Roomy, IInv, RoomInv, NEW p \in Procs, NEW b \in Blocks, NEW v \in Values, log_write(p, b, v)
  PROVE  ~(LogFull \/ outstanding < 1)
<1>1. sys = "up" /\ p \in Active BY DEF log_write, Active
<1> DEFINE k == Cardinality(wrote[p])
<1>2. k \in Nat /\ k <= OpWrites BY <1>1, FS_CardinalityType DEF RoomInv
<1>3. MAXOPBLOCKS - k <= Cardinality(Unused)
  <2>1. k <= MAXOPBLOCKS BY <1>2, LogAssumption DEF Roomy
  <2> HIDE DEF k
  <2> QED BY <1>1, <1>2, <2>1, UnusedOfOne DEF k
<1> HIDE DEF k
<1>4. Len(lh) + 2 <= LOGSIZE
  BY <1>1, <1>2, <1>3, UnusedFinite, LogAssumption DEF RoomInv, Roomy, IInv, TypeOK
<1>5. ~LogFull BY <1>4, LogAssumption DEF LogFull, Roomy, IInv, TypeOK
<1>6. outstanding > 0
  <2>1. Cardinality(Active) # 0 BY <1>1, ActiveFinite, FS_EmptySet
  <2> QED BY <1>1, <2>1, ActiveFinite DEF IInv, CountInv
<1> QED BY <1>5, <1>6 DEF IInv, TypeOK

LEMMA Room_log_write ==
  ASSUME Roomy, IInv, RoomInv, NEW p \in Procs, NEW b \in Blocks, NEW v \in Values, log_write(p, b, v)
  PROVE  RoomInv' /\ sys' = "up"
<1>0. /\ sys = "up" /\ sys' = "up" /\ UNCHANGED pc /\ p \in Active
      /\ wrote' = [wrote EXCEPT ![p] = @ \cup {b}]
      /\ Cardinality(wrote[p] \cup {b}) <= OpWrites
      /\ IF \E i \in 1 .. Len(lh) : lh[i] = b THEN UNCHANGED lh ELSE lh' = Append(lh, b)
  BY NotFull DEF log_write, Active
<1>1. Active' = Active BY <1>0 DEF Active
<1>2. /\ wrote'[p] = wrote[p] \cup {b} /\ \A q \in Active : q # p => wrote'[q] = wrote[q]
  BY <1>0 DEF IInv, TypeOK, Active
<1> DEFINE k == Cardinality(wrote[p])
<1>3. /\ IsFiniteSet(wrote[p]) /\ k \in Nat
      /\ IsFiniteSet(wrote[p] \cup {b})
      /\ Cardinality(wrote'[p]) = IF b \in wrote[p] THEN k ELSE k + 1
  BY SMTT(20), <1>0, <1>2, FS_AddElement, FS_CardinalityType DEF RoomInv
<1>4. /\ Len(lh') \in Nat /\ \E i \in Indices(lh') : lh'[i] = b
      /\ \A i \in Indices(lh) : i \in Indices(lh') /\ lh'[i] = lh[i]
  <2>1. CASE \E i \in 1 .. Len(lh) : lh[i] = b BY <1>0, <2>1 DEF Indices, IInv, TypeOK
  <2>2. CASE ~\E i \in 1 .. Len(lh) : lh[i] = b
    <3>1. /\ lh' = Append(lh, b) /\ Len(lh') = Len(lh) + 1 /\ Len(lh) \in Nat
          /\ lh'[Len(lh) + 1] = b /\ \A i \in 1 .. Len(lh) : lh'[i] = lh[i]
      BY <1>0, <2>2 DEF IInv, TypeOK
    <3> QED BY <3>1 DEF Indices
  <2> QED BY <2>1, <2>2
<1>5. ASSUME NEW q \in Active'
      PROVE  /\ IsFiniteSet(wrote'[q])
             /\ Cardinality(wrote'[q]) <= OpWrites
             /\ \A x \in wrote'[q] : \E i \in Indices(lh') : lh'[i] = x
  <2>1. \A x \in wrote[q] : \E i \in Indices(lh') : lh'[i] = x
    BY <1>0, <1>1, <1>4 DEF RoomInv
  <2>2. CASE q = p BY <1>0, <1>2, <1>3, <1>4, <2>1, <2>2
  <2>3. CASE q # p BY <1>0, <1>1, <1>2, <2>1, <2>3 DEF RoomInv
  <2> QED BY <2>2, <2>3
<1>6. Len(lh') + Cardinality(Unused') <= LOGSIZE
  <2>1. Unused' \subseteq Unused
    <3> HIDE DEF k
    <3>1. ASSUME NEW u \in Unused' PROVE u \in Unused
      <4>1. u \in Active \X (1 .. MAXOPBLOCKS) /\ u[2] > Cardinality(wrote'[u[1]])
        BY <1>1 DEF Unused
      <4>2. PICK q \in Active, n \in 1 .. MAXOPBLOCKS : u = <<q, n>> BY <4>1
      <4>3. CASE q = p BY <1>3, <4>1, <4>2, <4>3, LogAssumption DEF Unused, k
      <4>4. CASE q # p BY <1>2, <4>1, <4>2, <4>4 DEF Unused
      <4> QED BY <4>3, <4>4
    <3> QED BY <3>1
  <2>2. CASE \E i \in 1 .. Len(lh) : lh[i] = b
    BY <1>0, <2>1, <2>2, UnusedShrinks DEF IInv, TypeOK
  <2>3. CASE ~\E i \in 1 .. Len(lh) : lh[i] = b
    <3>1. b \notin wrote[p] BY <1>0, <2>3 DEF RoomInv, Indices
    <3>2. Cardinality(wrote'[p]) = k + 1 BY <1>3, <3>1
    <3>3. k + 1 <= OpWrites BY <1>0, <1>2, <3>2
    <3> HIDE DEF k
    <3>4. k + 1 \in 1 .. MAXOPBLOCKS BY <1>3, <3>3, LogAssumption DEF Roomy
    <3>5. <<p, k + 1>> \in Unused BY <1>0, <1>3, <3>4 DEF Unused, k
    <3>6. <<p, k + 1>> \notin Unused' BY <1>3, <3>2 DEF Unused
    <3>7. Unused' \in SUBSET (Unused \ {<<p, k + 1>>}) BY <2>1, <3>6
    <3>8. /\ IsFiniteSet(Unused \ {<<p, k + 1>>})
          /\ Cardinality(Unused \ {<<p, k + 1>>}) = Cardinality(Unused) - 1
      BY <3>5, UnusedFinite, FS_RemoveElement
    <3>9. IsFiniteSet(Unused') /\ Cardinality(Unused') <= Cardinality(Unused) - 1
      BY <3>7, <3>8, FS_Subset
    <3>10. Cardinality(Unused') \in Nat BY <3>9, FS_CardinalityType
    <3>11. Len(lh') = Len(lh) + 1 /\ Len(lh) \in Nat BY <1>0, <2>3 DEF IInv, TypeOK
    <3> QED BY <1>0, <3>9, <3>10, <3>11, UnusedFinite, LogAssumption DEF RoomInv
  <2> QED BY <2>2, <2>3
<1> QED BY <1>0, <1>5, <1>6 DEF RoomInv

LEMMA Room_end_op ==
  ASSUME IInv, RoomInv, NEW p \in Procs, end_op(p) PROVE RoomInv' /\ sys' = "up"
<1>1. sys = "up" /\ pc[p] = "op" /\ ~committing BY DEF end_op, IInv, CommitInv, Active
<1>2. sys' = "up" /\ UNCHANGED <<lh, wrote>> BY <1>1 DEF end_op
<1>3. Active' \subseteq Active
  <2>1. CASE LastOp BY <1>1, <2>1 DEF end_op, Active, CommitStart, IInv, TypeOK
  <2>2. CASE ~LastOp
    <3>1. pc' = [Woken(pc) EXCEPT ![p] = "idle"] BY <1>1, <2>2 DEF end_op
    <3> QED BY <3>1 DEF Active, Woken
  <2> QED BY <2>1, <2>2
<1>4. Unused' \subseteq Unused BY <1>2, <1>3 DEF Unused
<1>5. Len(lh') + Cardinality(Unused') <= LOGSIZE BY <1>1, <1>2, <1>4, UnusedShrinks DEF IInv, TypeOK
<1> QED BY <1>1, <1>2, <1>3, <1>5 DEF RoomInv, Indices

(* Steps that run while no call is active. *)
LEMMA Room_quiet ==
  ASSUME Active' = {}, Len(lh') \in Nat, Len(lh') <= LOGSIZE PROVE RoomInv'
<1>1. Unused' = {} BY DEF Unused
<1>2. Cardinality(Unused') = 0 BY <1>1, FS_EmptySet
<1> QED BY <1>2, LogAssumption DEF RoomInv

LEMMA Room_Next ==
  ASSUME Roomy, IInv, RoomInv, NoPanic, [Next]_vars PROVE RoomInv' /\ NoPanic'
<1>0. Len(lh) \in Nat /\ sys # "panic" BY DEF IInv, TypeOK, NoPanic
<1>1. CASE Recover
  <2>1. sys \in Recovering /\ pc' = pc /\ sys' # "panic"
    BY <1>1 DEF Recover, read_head, recover_install, recover_clear, Recovering
  <2>2. Active' = {} BY <2>1 DEF IInv, RecoverInv, AllIdle, Active
  <2>3. CASE recover_clear
    <3>1. Len(lh') = 0 BY <2>3 DEF recover_clear
    <3> QED BY <2>1, <2>2, <3>1, Room_quiet, LogAssumption DEF NoPanic
  <2>4. CASE ~recover_clear
    <3>1. sys' # "up" BY <1>1, <2>4 DEF Recover, read_head, recover_install
    <3> QED BY <2>1, <3>1 DEF RoomInv, NoPanic
  <2> QED BY <2>3, <2>4
<1>2. ASSUME NEW p \in Procs, call_begin_op(p) PROVE RoomInv' /\ NoPanic'
  <2>1. Active' = Active /\ UNCHANGED <<sys, lh, wrote>> BY <1>2 DEF call_begin_op, Active, IInv, TypeOK
  <2> QED BY <2>1 DEF RoomInv, Unused, NoPanic, Indices
<1>3. ASSUME NEW p \in Procs, begin_op(p) PROVE RoomInv' /\ NoPanic'
  BY <1>3, Room_begin_op DEF begin_op, NoPanic
<1>4. ASSUME NEW p \in Procs, NEW b \in Blocks, NEW v \in Values, log_write(p, b, v)
      PROVE  RoomInv' /\ NoPanic'
  BY <1>4, Room_log_write DEF NoPanic
<1>5. ASSUME NEW p \in Procs, end_op(p) PROVE RoomInv' /\ NoPanic'
  BY <1>5, Room_end_op DEF NoPanic
<1>6. ASSUME NEW p \in Procs, Commit(p) PROVE RoomInv' /\ NoPanic'
  <2>1. sys = "up" /\ sys' = "up" /\ pc[p] \in InCommit
    BY <1>6 DEF Commit, write_log, write_head, install_trans, erase, end_commit, InCommit
  <2>2. Active = {} BY SMTT(20), <2>1, Committer
  <2>3. Active' = {}
    BY <1>6, <2>2 DEF Commit, write_log, write_head, install_trans, erase, end_commit, Woken, Active, IInv, TypeOK
  <2>4. Len(lh) <= LOGSIZE
    BY <1>0, <2>1, UnusedFinite, LogAssumption DEF RoomInv
  <2>5. lh' = lh \/ lh' = <<>> BY <1>6 DEF Commit, write_log, write_head, install_trans, erase, end_commit
  <2>6. Len(lh') \in Nat /\ Len(lh') <= LOGSIZE BY <1>0, <2>4, <2>5, LogAssumption
  <2> QED BY <2>1, <2>3, <2>6, Room_quiet DEF NoPanic
<1>7. CASE (\E b \in Blocks : bread(b) \/ recycle(b)) \/ UNCHANGED vars
  <2>1. UNCHANGED <<sys, lh, pc, wrote>> BY <1>7 DEF bread, recycle, vars
  <2> QED BY <2>1 DEF RoomInv, Unused, Active, NoPanic, Indices
<1>8. CASE Crash BY <1>8 DEF Crash, RoomInv, NoPanic
<1> QED BY <1>1, <1>2, <1>3, <1>4, <1>5, <1>6, <1>7, <1>8 DEF Next

(* When the log has LOGSIZE blocks and every call leaves two blocks of its  *)
(* reservation unused, neither log_write's nor end_op's panic is reachable: *)
(* begin_op's reservation is enough, for any number of concurrent calls.    *)
THEOREM ReservationSuffices == ASSUME Roomy PROVE Spec => []NoPanic
<1>1. Init => RoomInv /\ NoPanic BY DEF Init, RoomInv, NoPanic
<1>2. IInv /\ RoomInv /\ NoPanic /\ [Next]_vars => RoomInv' /\ NoPanic' BY Room_Next
<1> QED BY <1>1, <1>2, Invariance, PTL DEF Spec
=============================================================================
