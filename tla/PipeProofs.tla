----------------------------- MODULE PipeProofs ------------------------------
(***************************************************************************)
(* Proofs about Pipe, for any number of processes, any capacity, any wrap  *)
(* of the counters that the capacity divides, and any bytes: struct pipe   *)
(* is sound, no wakeup is lost, and the pipe implements ByteQueue.         *)
(***************************************************************************)
EXTENDS Pipe, TLAPS

(* Where a process is when it holds pi->lock, reads, or writes. *)
Holding == {"w_loop", "r_wait", "r_copy"}
Reading == {"r_lock", "r_wait", "r_copy", "r_asleep"}
Writing == {"w_lock", "w_loop", "w_asleep"}

(* The lock is held by the one process in a critical section; a process in  *)
(* a call has the descriptor it was called with.                            *)
LockInv ==
  \A p \in Procs : /\ lock = p <=> pc[p] \in Holding
                   /\ pc[p] \in Reading => "r" \in ends[p]
                   /\ pc[p] \in Writing => "w" \in ends[p]

(* An end is open as long as a process has a descriptor for it or is about  *)
(* to call pipeclose for it; only one process is, and only when nobody has  *)
(* a descriptor any more.                                                   *)
OpenInv ==
  /\ readopen <=> \E p \in Procs : "r" \in ends[p] \/ pc[p] = "r_close"
  /\ writeopen <=> \E p \in Procs : "w" \in ends[p] \/ pc[p] = "w_close"
  /\ \A p, q \in Procs : pc[p] = "r_close" => "r" \notin ends[q] /\ (pc[q] = "r_close" => p = q)
  /\ \A p, q \in Procs : pc[p] = "w_close" => "w" \notin ends[q] /\ (pc[q] = "w_close" => p = q)
  /\ freed <=> ~readopen /\ ~writeopen

(* While somebody sleeps who could go on, the process that will wake it is  *)
(* in its critical section.                                                 *)
SleepInv ==
  /\ \A p \in Procs : pc[p] = "w_asleep" => readopen /\ (Full \/ \E q \in Procs : pc[q] = "r_copy")
  /\ \A p \in Procs : pc[p] = "r_asleep" =>
        writeopen /\ (Empty \/ \E q \in Procs : pc[q] = "w_loop" \/ killed[q])

PInv == TypeOK /\ LockInv /\ OpenInv /\ SleepInv
------------------------------------------------------------------------------
(* Arithmetic of the counters. *)

LEMMA DivMod ==
  ASSUME NEW W \in Nat \ {0}, NEW x \in Nat
  PROVE  x = W * (x \div W) + (x % W) /\ x \div W \in Nat /\ x % W \in 0 .. W - 1
<1>1. x = W * (x \div W) + (x % W) BY Z3
<1>2. x \div W \in Nat BY Z3
<1>3. x % W \in 0 .. W - 1 BY Z3
<1> QED BY <1>1, <1>2, <1>3

(* Reduction modulo W, for what is less than 2W. *)
LEMMA ModOnce ==
  ASSUME NEW W \in Nat \ {0}, NEW x \in 0 .. (2 * W - 1)
  PROVE  x % W = IF x < W THEN x ELSE x - W
<1>1. CASE x < W BY <1>1, Z3
<1>2. CASE x >= W BY <1>2, Z3
<1> QED BY <1>1, <1>2

LEMMA ModShift ==
  ASSUME NEW W \in Nat \ {0}, NEW q \in Nat, NEW x \in Nat
  PROVE  (W * q + x) % W = x % W
<1> DEFINE y == W * q + x
           a == y \div W
           b == x \div W
           r == y % W
           s == x % W
<1>1. y \in Nat OBVIOUS
<1>2. y = W * a + r /\ a \in Nat /\ r \in 0 .. W - 1 BY <1>1, DivMod
<1>3. x = W * b + s /\ b \in Nat /\ s \in 0 .. W - 1 BY DivMod, Zenon
<1> HIDE DEF a, b, r, s
<1>4. W * (a - (q + b)) = s - r BY <1>2, <1>3
<1>5. r = s BY <1>2, <1>3, <1>4, Z3
<1> QED BY <1>5 DEF r, s

(* Places less than W apart are different slots of a ring of W. *)
LEMMA ModDiffer ==
  ASSUME NEW W \in Nat \ {0}, NEW i \in Nat, NEW j \in Nat, i < j, j < i + W
  PROVE  i % W # j % W
<1> SUFFICES ASSUME i % W = j % W PROVE FALSE OBVIOUS
<1> DEFINE a == i \div W
           b == j \div W
           r == i % W
<1>1. i = W * a + r /\ a \in Nat /\ r \in 0 .. W - 1 BY DivMod, Zenon
<1>2. j = W * b + r /\ b \in Nat BY DivMod, Zenon
<1> HIDE DEF a, b, r
<1>3. j - i = W * (b - a) BY <1>1, <1>2
<1> QED BY <1>1, <1>2, <1>3, Z3

Counters == nread \in 0 .. Wrap - 1 /\ nwrite \in 0 .. Wrap - 1 /\ Count <= PIPESIZE

LEMMA IncIs == ASSUME NEW k \in 0 .. Wrap - 1 PROVE Inc(k) = IF k + 1 = Wrap THEN 0 ELSE k + 1
<1>1. k + 1 \in 0 .. (2 * Wrap - 1) /\ Wrap \in Nat \ {0} BY PipeAssumption
<1>2. (k + 1) % Wrap = IF k + 1 < Wrap THEN k + 1 ELSE (k + 1) - Wrap BY <1>1, ModOnce, Zenon
<1> QED BY <1>1, <1>2 DEF Inc

LEMMA CountIs ==
  ASSUME nread \in 0 .. Wrap - 1, nwrite \in 0 .. Wrap - 1
  PROVE  /\ Count = IF nwrite >= nread THEN nwrite - nread ELSE nwrite - nread + Wrap
         /\ Count \in 0 .. Wrap - 1
         /\ Full <=> Count = PIPESIZE
         /\ Empty <=> Count = 0
<1> USE PipeAssumption
<1>1. nwrite - nread + Wrap \in 0 .. (2 * Wrap - 1) /\ Wrap \in Nat \ {0} OBVIOUS
<1>2. Count = IF nwrite - nread + Wrap < Wrap THEN nwrite - nread + Wrap ELSE (nwrite - nread + Wrap) - Wrap
  BY <1>1, ModOnce, Zenon DEF Count
<1>3. nread + PIPESIZE \in 0 .. (2 * Wrap - 1) OBVIOUS
<1>4. (nread + PIPESIZE) % Wrap = IF nread + PIPESIZE < Wrap THEN nread + PIPESIZE ELSE (nread + PIPESIZE) - Wrap
  BY <1>1, <1>3, ModOnce, Zenon
<1>5. Full <=> Count = PIPESIZE BY <1>2, <1>4 DEF Full
<1> QED BY <1>2, <1>5 DEF Empty

LEMMA CountPut ==
  ASSUME Counters, ~Full, nwrite' = Inc(nwrite), nread' = nread
  PROVE  Count' = Count + 1 /\ Counters' /\ ~Empty'
<1> USE PipeAssumption
<1>1. nwrite' = (IF nwrite + 1 = Wrap THEN 0 ELSE nwrite + 1) /\ nwrite' \in 0 .. Wrap - 1
  BY IncIs DEF Counters
<1>2. Count' = IF nwrite' - nread' + Wrap < Wrap THEN nwrite' - nread' + Wrap ELSE (nwrite' - nread' + Wrap) - Wrap
  <2>1. nwrite' - nread' + Wrap \in 0 .. (2 * Wrap - 1) /\ Wrap \in Nat \ {0} BY <1>1 DEF Counters
  <2> QED BY <2>1, ModOnce, Zenon DEF Count
<1>3. Count < PIPESIZE BY CountIs DEF Counters
<1>4. Count = IF nwrite >= nread THEN nwrite - nread ELSE nwrite - nread + Wrap BY CountIs DEF Counters
<1>5. Count' = Count + 1 BY <1>1, <1>2, <1>3, <1>4 DEF Counters
<1> QED BY <1>1, <1>3, <1>4, <1>5, <1>2 DEF Counters, Empty

LEMMA CountGet ==
  ASSUME Counters, ~Empty, nread' = Inc(nread), nwrite' = nwrite
  PROVE  Count' = Count - 1 /\ Counters' /\ ~Full'
<1> USE PipeAssumption
<1>1. nread' = (IF nread + 1 = Wrap THEN 0 ELSE nread + 1) /\ nread' \in 0 .. Wrap - 1
  BY IncIs DEF Counters
<1>2. Count' = IF nwrite' - nread' + Wrap < Wrap THEN nwrite' - nread' + Wrap ELSE (nwrite' - nread' + Wrap) - Wrap
  <2>1. nwrite' - nread' + Wrap \in 0 .. (2 * Wrap - 1) /\ Wrap \in Nat \ {0} BY <1>1 DEF Counters
  <2> QED BY <2>1, ModOnce, Zenon DEF Count
<1>3. Count > 0 /\ Count <= PIPESIZE BY CountIs DEF Counters
<1>4. Count = IF nwrite >= nread THEN nwrite - nread ELSE nwrite - nread + Wrap BY CountIs DEF Counters
<1>5. Count' = Count - 1 BY <1>1, <1>2, <1>3, <1>4 DEF Counters
<1>6. nread' + PIPESIZE \in 0 .. (2 * Wrap - 1) /\ Wrap \in Nat \ {0} BY <1>1
<1>7. (nread' + PIPESIZE) % Wrap = IF nread' + PIPESIZE < Wrap THEN nread' + PIPESIZE ELSE (nread' + PIPESIZE) - Wrap
  BY <1>6, ModOnce, Zenon
<1>8. nwrite' # IF nread' + PIPESIZE < Wrap THEN nread' + PIPESIZE ELSE (nread' + PIPESIZE) - Wrap
  BY <1>1, <1>2, <1>3, <1>4, <1>5 DEF Counters
<1>9. ~Full' BY <1>7, <1>8, Zenon DEF Full
<1> QED BY <1>1, <1>3, <1>4, <1>5, <1>9 DEF Counters

------------------------------------------------------------------------------
(* The invariant, action by action. *)

LEMMA SameCounters ==
  ASSUME UNCHANGED <<nread, nwrite>>
  PROVE  Count' = Count /\ (Full' <=> Full) /\ (Empty' <=> Empty)
  BY DEF Count, Full, Empty

LEMMA Inv_sys_write == ASSUME NEW p \in Procs, NEW k \in 1 .. MaxN, PInv, sys_write(p, k) PROVE PInv'
<1> USE PipeAssumption DEF sys_write, Goto, PInv, pipe
<1>1. TypeOK' BY SameCounters DEF TypeOK
<1>2. LockInv' BY DEF TypeOK, LockInv, Holding, Reading, Writing
<1>3. OpenInv' BY DEF TypeOK, LockInv, OpenInv, Holding, Reading, Writing
<1>4. SleepInv' BY SameCounters DEF TypeOK, SleepInv
<1> QED BY <1>1, <1>2, <1>3, <1>4

LEMMA Inv_sys_read == ASSUME NEW p \in Procs, NEW k \in 1 .. MaxN, PInv, sys_read(p, k) PROVE PInv'
<1> USE PipeAssumption DEF sys_read, Goto, PInv, pipe
<1>1. TypeOK' BY SameCounters DEF TypeOK
<1>2. LockInv' BY DEF TypeOK, LockInv, Holding, Reading, Writing
<1>3. OpenInv' BY DEF TypeOK, LockInv, OpenInv, Holding, Reading, Writing
<1>4. SleepInv' BY SameCounters DEF TypeOK, SleepInv
<1> QED BY <1>1, <1>2, <1>3, <1>4

LEMMA Inv_pipewrite_lock == ASSUME NEW p \in Procs, PInv, pipewrite_lock(p) PROVE PInv'
<1> USE PipeAssumption DEF pipewrite_lock, Acquire, Goto, PInv, pipe
<1>1. TypeOK' BY SameCounters DEF TypeOK
<1>2. LockInv' BY DEF TypeOK, LockInv, Holding, Reading, Writing
<1>3. OpenInv' BY DEF TypeOK, LockInv, OpenInv, Holding, Reading, Writing
<1>4. SleepInv' BY SameCounters DEF TypeOK, LockInv, OpenInv, SleepInv, Holding, Reading, Writing
<1> QED BY <1>1, <1>2, <1>3, <1>4

LEMMA Inv_piperead_lock == ASSUME NEW p \in Procs, PInv, piperead_lock(p) PROVE PInv'
<1> USE PipeAssumption DEF piperead_lock, Acquire, Goto, PInv, pipe
<1>1. TypeOK' BY SameCounters DEF TypeOK
<1>2. LockInv' BY DEF TypeOK, LockInv, Holding, Reading, Writing
<1>3. OpenInv' BY DEF TypeOK, LockInv, OpenInv, Holding, Reading, Writing
<1>4. SleepInv' BY SameCounters DEF TypeOK, LockInv, OpenInv, SleepInv, Holding, Reading, Writing
<1> QED BY <1>1, <1>2, <1>3, <1>4

LEMMA Inv_pipewrite_done == ASSUME NEW p \in Procs, PInv, pipewrite_done(p) PROVE PInv'
<1> USE PipeAssumption DEF pipewrite_done, Return, WakeReaders, PInv, pipe
<1>1. TypeOK' BY SameCounters DEF TypeOK
<1>2. LockInv' BY DEF TypeOK, LockInv, Holding, Reading, Writing
<1>3. OpenInv' BY DEF TypeOK, LockInv, OpenInv, Holding, Reading, Writing
<1>4. SleepInv' BY SameCounters DEF TypeOK, LockInv, OpenInv, SleepInv, Holding, Reading, Writing
<1> QED BY <1>1, <1>2, <1>3, <1>4

LEMMA Inv_pipewrite_abort == ASSUME NEW p \in Procs, PInv, pipewrite_abort(p) PROVE PInv'
<1> USE PipeAssumption DEF pipewrite_abort, Return, WriteEnds, PInv, pipe
<1>1. TypeOK' BY SameCounters DEF TypeOK
<1>2. LockInv' BY DEF TypeOK, LockInv, Holding, Reading, Writing
<1>3. OpenInv' BY DEF TypeOK, LockInv, OpenInv, Holding, Reading, Writing
<1>4. SleepInv' BY SameCounters DEF TypeOK, LockInv, OpenInv, SleepInv, Holding, Reading, Writing
<1> QED BY <1>1, <1>2, <1>3, <1>4

LEMMA Inv_pipewrite_full == ASSUME NEW p \in Procs, PInv, pipewrite_full(p) PROVE PInv'
<1> USE PipeAssumption DEF pipewrite_full, WakeReaders, WriteEnds, PInv, pipe
<1>1. TypeOK' BY SameCounters DEF TypeOK
<1>2. LockInv' BY DEF TypeOK, LockInv, Holding, Reading, Writing
<1>3. OpenInv' BY DEF TypeOK, LockInv, OpenInv, Holding, Reading, Writing
<1>4. SleepInv' BY SameCounters DEF TypeOK, LockInv, OpenInv, SleepInv, Holding, Reading, Writing
<1> QED BY <1>1, <1>2, <1>3, <1>4

LEMMA Inv_piperead_sleep == ASSUME NEW p \in Procs, PInv, piperead_sleep(p) PROVE PInv'
<1> USE PipeAssumption DEF piperead_sleep, Return, Goto, ReadWaits, PInv, pipe
<1>1. TypeOK'
  <2>1. CASE killed[p]
    <3>1. pc' = [pc EXCEPT ![p] = "user"] /\ left' = [left EXCEPT ![p] = 0] /\ lock' = NoProc BY <2>1
    <3> QED BY <3>1, SameCounters DEF TypeOK
  <2>2. CASE ~killed[p] BY <2>2, SameCounters DEF TypeOK
  <2> QED BY <2>1, <2>2
<1>2. LockInv' BY DEF TypeOK, LockInv, Holding, Reading, Writing
<1>3. OpenInv' BY DEF TypeOK, LockInv, OpenInv, Holding, Reading, Writing
<1>4. SleepInv' BY SameCounters DEF TypeOK, LockInv, OpenInv, SleepInv, Holding, Reading, Writing
<1> QED BY <1>1, <1>2, <1>3, <1>4

LEMMA Inv_piperead_copy == ASSUME NEW p \in Procs, PInv, piperead_copy(p) PROVE PInv'
<1> USE PipeAssumption DEF piperead_copy, Goto, ReadWaits, PInv, pipe
<1>1. TypeOK' BY SameCounters DEF TypeOK
<1>2. LockInv' BY DEF TypeOK, LockInv, Holding, Reading, Writing
<1>3. OpenInv' BY DEF TypeOK, LockInv, OpenInv, Holding, Reading, Writing
<1>4. SleepInv' BY SameCounters DEF TypeOK, LockInv, OpenInv, SleepInv, Holding, Reading, Writing
<1> QED BY <1>1, <1>2, <1>3, <1>4

LEMMA Inv_piperead_done == ASSUME NEW p \in Procs, PInv, piperead_done(p) PROVE PInv'
<1> USE PipeAssumption DEF piperead_done, Return, WakeWriters, PInv, pipe
<1>1. TypeOK' BY SameCounters DEF TypeOK
<1>2. LockInv' BY DEF TypeOK, LockInv, Holding, Reading, Writing
<1>3. OpenInv' BY DEF TypeOK, LockInv, OpenInv, Holding, Reading, Writing
<1>4. SleepInv' BY SameCounters DEF TypeOK, LockInv, OpenInv, SleepInv, Holding, Reading, Writing
<1> QED BY <1>1, <1>2, <1>3, <1>4

LEMMA Inv_fork == ASSUME NEW p \in Procs, NEW q \in Procs, PInv, fork(p, q) PROVE PInv'
<1> USE PipeAssumption DEF fork, PInv, pipe
<1>1. TypeOK' BY SameCounters DEF TypeOK
<1>2. LockInv' BY DEF TypeOK, LockInv, Holding, Reading, Writing
<1>3. OpenInv' BY DEF TypeOK, LockInv, OpenInv, Holding, Reading, Writing
<1>4. SleepInv' BY SameCounters DEF TypeOK, LockInv, OpenInv, SleepInv, Holding, Reading, Writing
<1> QED BY <1>1, <1>2, <1>3, <1>4

LEMMA Inv_fileclose == ASSUME NEW p \in Procs, NEW e \in {"r", "w"}, PInv, fileclose(p, e) PROVE PInv'
<1> USE PipeAssumption DEF fileclose, LastRef, Closing, Goto, PInv, pipe
<1>1. TypeOK' BY SameCounters DEF TypeOK
<1>2. LockInv' BY DEF TypeOK, LockInv, Holding, Reading, Writing
<1>3. OpenInv' BY DEF TypeOK, LockInv, OpenInv, Holding, Reading, Writing
<1>4. SleepInv' BY SameCounters DEF TypeOK, LockInv, OpenInv, SleepInv, Holding, Reading, Writing
<1> QED BY <1>1, <1>2, <1>3, <1>4

LEMMA Inv_pipeclose == ASSUME NEW p \in Procs, PInv, pipeclose(p) PROVE PInv'
<1> USE PipeAssumption DEF pipeclose, WakeReaders, WakeWriters, FreePipe, PInv, pipe
<1>1. TypeOK' BY SameCounters DEF TypeOK
<1>2. LockInv' BY DEF TypeOK, LockInv, Holding, Reading, Writing
<1>3. OpenInv'
  <2>1. CASE pc[p] = "w_close"
    <3>1. /\ writeopen' = FALSE /\ readopen' = readopen /\ ends' = ends
          /\ freed' <=> ~readopen
      BY <2>1 DEF TypeOK
    <3>2. \A q \in Procs : /\ "w" \notin ends[q] /\ pc'[q] # "w_close"
                           /\ pc'[q] = "r_close" <=> pc[q] = "r_close"
      BY <2>1 DEF TypeOK, OpenInv
    <3> QED BY <2>1, <3>1, <3>2 DEF OpenInv
  <2>2. CASE pc[p] = "r_close"
    <3>1. /\ readopen' = FALSE /\ writeopen' = writeopen /\ ends' = ends
          /\ freed' <=> ~writeopen
      BY <2>2 DEF TypeOK
    <3>2. \A q \in Procs : /\ "r" \notin ends[q] /\ pc'[q] # "r_close"
                           /\ pc'[q] = "w_close" <=> pc[q] = "w_close"
      BY <2>2 DEF TypeOK, OpenInv
    <3> QED BY <2>2, <3>1, <3>2 DEF OpenInv
  <2> QED BY <2>1, <2>2
<1>4. SleepInv'
  <2>1. CASE pc[p] = "w_close" BY <2>1, SameCounters DEF TypeOK, SleepInv
  <2>2. CASE pc[p] = "r_close" BY <2>2, SameCounters DEF TypeOK, SleepInv
  <2> QED BY <2>1, <2>2
<1> QED BY <1>1, <1>2, <1>3, <1>4

LEMMA Inv_kill == ASSUME NEW p \in Procs, PInv, kill(p) PROVE PInv'
<1> USE PipeAssumption DEF kill, Goto, PInv, pipe
<1>1. TypeOK' BY SameCounters DEF TypeOK
<1>2. LockInv' BY DEF TypeOK, LockInv, Holding, Reading, Writing
<1>3. OpenInv' BY DEF TypeOK, LockInv, OpenInv, Holding, Reading, Writing
<1>4. SleepInv' BY SameCounters DEF TypeOK, LockInv, OpenInv, SleepInv, Holding, Reading, Writing
<1> QED BY <1>1, <1>2, <1>3, <1>4

LEMMA Inv_pipewrite_byte == ASSUME NEW p \in Procs, NEW b \in Bytes, PInv, pipewrite_byte(p, b) PROVE PInv'
<1> USE PipeAssumption DEF pipewrite_byte, PInv, pipe
<1>1. Counters' /\ ~Empty' BY CountPut DEF TypeOK, Counters
<1>2. TypeOK' BY <1>1 DEF TypeOK, Counters
<1>3. LockInv' BY DEF LockInv
<1>4. OpenInv' BY DEF OpenInv
<1>5. SleepInv' BY DEF TypeOK, LockInv, SleepInv, Holding
<1> QED BY <1>2, <1>3, <1>4, <1>5

LEMMA Inv_piperead_byte == ASSUME NEW p \in Procs, PInv, piperead_byte(p) PROVE PInv'
<1> USE PipeAssumption DEF piperead_byte, PInv
<1>1. Counters' /\ ~Full' BY CountGet DEF TypeOK, Counters
<1>2. nread % PIPESIZE \in 0 .. PIPESIZE - 1 BY DivMod DEF TypeOK
<1>3. ch' \in Bytes BY <1>2 DEF TypeOK, ReadIndex
<1>4. CASE left' = [left EXCEPT ![p] = @ - 1] /\ UNCHANGED <<pc, lock>>
  <2>1. TypeOK' BY <1>1, <1>3, <1>4 DEF TypeOK, Counters
  <2>2. LockInv' /\ OpenInv' BY <1>4 DEF LockInv, OpenInv
  <2>3. SleepInv' BY <1>4 DEF TypeOK, LockInv, SleepInv, Holding
  <2> QED BY <2>1, <2>2, <2>3
<1>5. CASE Return(p, WakeWriters(pc))
  <2> USE <1>5 DEF Return, WakeWriters
  <2>1. TypeOK' BY <1>1, <1>3 DEF TypeOK, Counters
  <2>2. LockInv' BY DEF TypeOK, LockInv, Holding, Reading, Writing
  <2>3. OpenInv'
    <3>1. \A q \in Procs : /\ pc'[q] = "r_close" <=> pc[q] = "r_close"
                           /\ pc'[q] = "w_close" <=> pc[q] = "w_close"
      BY DEF TypeOK
    <3>2. readopen' = readopen /\ writeopen' = writeopen /\ freed' = freed /\ ends' = ends OBVIOUS
    <3>3. OpenInv OBVIOUS
    <3> HIDE DEF piperead_byte, PInv, Return, WakeWriters
    <3> QED BY <3>1, <3>2, <3>3 DEF OpenInv
  <2>4. SleepInv' BY DEF TypeOK, LockInv, SleepInv, Holding
  <2> QED BY <2>1, <2>2, <2>3, <2>4
<1> QED BY <1>4, <1>5

LEMMA Inv_Init == Init => PInv
<1> SUFFICES ASSUME Init PROVE PInv OBVIOUS
<1> USE PipeAssumption DEF Init
<1>1. nread \in 0 .. Wrap - 1 /\ nwrite \in 0 .. Wrap - 1 /\ nread = nwrite OBVIOUS
<1>2. Count = 0 BY <1>1, CountIs DEF Empty
<1>3. TypeOK
  <2>1. ends \in [Procs -> SUBSET {"r", "w"}] OBVIOUS
  <2>2. left \in [Procs -> 0 .. MaxN] /\ killed \in [Procs -> BOOLEAN] OBVIOUS
  <2>3. pc \in [Procs -> {"user"}] /\ lock = NoProc OBVIOUS
  <2>4. readopen = TRUE /\ writeopen = TRUE /\ freed = FALSE OBVIOUS
  <2>5. data \in [0 .. PIPESIZE - 1 -> Bytes] /\ ch \in Bytes /\ Count <= PIPESIZE BY <1>2
  <2> HIDE DEF Init
  <2> QED BY <1>1, <2>1, <2>2, <2>3, <2>4, <2>5 DEF TypeOK
<1>4. LockInv BY DEF LockInv, Holding, Reading, Writing
<1>5. OpenInv BY DEF OpenInv
<1>6. SleepInv BY DEF SleepInv
<1> QED BY <1>3, <1>4, <1>5, <1>6 DEF PInv

LEMMA Inv_Next == PInv /\ [Next]_vars => PInv'
<1> SUFFICES ASSUME PInv, [Next]_vars PROVE PInv' OBVIOUS
<1>1. CASE UNCHANGED vars
  BY <1>1 DEF vars, PInv, TypeOK, LockInv, OpenInv, SleepInv, Count, Full, Empty
<1>2. ASSUME NEW p \in Procs, NEW k \in 1 .. MaxN, sys_write(p, k) \/ sys_read(p, k) PROVE PInv'
  BY <1>2, Inv_sys_write, Inv_sys_read
<1>3. ASSUME NEW p \in Procs, pipewrite(p) PROVE PInv'
  BY <1>3, Inv_pipewrite_lock, Inv_pipewrite_done, Inv_pipewrite_abort, Inv_pipewrite_full,
     Inv_pipewrite_byte DEF pipewrite
<1>4. ASSUME NEW p \in Procs, piperead(p) PROVE PInv'
  BY <1>4, Inv_piperead_lock, Inv_piperead_sleep, Inv_piperead_copy, Inv_piperead_byte,
     Inv_piperead_done DEF piperead
<1>5. ASSUME NEW p \in Procs, pipeclose(p) \/ kill(p) PROVE PInv' BY <1>5, Inv_pipeclose, Inv_kill
<1>6. ASSUME NEW p \in Procs, NEW q \in Procs, fork(p, q) PROVE PInv' BY <1>6, Inv_fork
<1>7. ASSUME NEW p \in Procs, NEW e \in {"r", "w"}, fileclose(p, e) PROVE PInv' BY <1>7, Inv_fileclose
<1> QED BY <1>1, <1>2, <1>3, <1>4, <1>5, <1>6, <1>7 DEF Next

(* What holds at every step of pipe.c about the lock, the descriptors and   *)
(* open ends, and the sleepers: the inductive invariant of the pipe.        *)
THEOREM PipeInvariant == Spec => []PInv
<1> QED BY Inv_Init, Inv_Next, PTL DEF Spec

(* The counters never run apart by more than PIPESIZE, and pipeclose frees  *)
(* the page once, when no process has a descriptor of the pipe or is        *)
(* anywhere in pipe.c.                                                      *)
THEOREM PipeStaysSound == Spec => []PipeSound
<1>1. PInv => PipeSound
  <2> SUFFICES ASSUME PInv, freed, NEW p \in Procs PROVE ends[p] = {} /\ pc[p] = "user"
    BY DEF PInv, PipeSound, NoUseAfterFree
  <2>1. ~readopen /\ ~writeopen BY DEF PInv, OpenInv
  <2>2. "r" \notin ends[p] /\ "w" \notin ends[p] /\ pc[p] \notin {"r_close", "w_close"}
    BY <2>1 DEF PInv, OpenInv
  <2> QED BY <2>2 DEF PInv, TypeOK, LockInv, Reading, Writing
<1> QED BY <1>1, PipeInvariant, PTL

(* Nobody sleeps in pipe.c who could go on, once pi->lock is free: the      *)
(* wakeups of pipewrite, piperead and pipeclose suffice, for any number of  *)
(* readers and writers and any capacity.                                    *)
THEOREM PipeWakeups == Spec => []WakeupsArrive
<1>1. PInv => WakeupsArrive
  <2> SUFFICES ASSUME PInv, lock = NoProc, NEW p \in Procs
               PROVE  /\ pc[p] = "w_asleep" => Full /\ readopen
                      /\ pc[p] = "r_asleep" => writeopen /\ (Empty \/ \E q \in Procs : killed[q])
    BY DEF WakeupsArrive
  <2>1. \A q \in Procs : pc[q] \notin Holding BY PipeAssumption DEF PInv, LockInv
  <2> QED BY <2>1 DEF PInv, SleepInv, OpenInv, LockInv, Holding, Reading, Writing
<1> QED BY <1>1, PipeInvariant, PTL

------------------------------------------------------------------------------
(* The bytes in the ring are the abstract queue. *)

LEMMA WrapMultiple == \E q \in Nat : Wrap = PIPESIZE * q
<1>1. Wrap = PIPESIZE * (Wrap \div PIPESIZE) + (Wrap % PIPESIZE) /\ Wrap \div PIPESIZE \in Nat
  BY PipeAssumption, DivMod, Zenon
<1> DEFINE q == Wrap \div PIPESIZE
<1> HIDE DEF q
<1>2. Wrap = PIPESIZE * q /\ q \in Nat BY <1>1, PipeAssumption DEF q
<1> QED BY <1>2

(* Counting past the wrap does not change the slot. *)
LEMMA SameSlot == ASSUME NEW x \in Nat PROVE (Wrap + x) % PIPESIZE = x % PIPESIZE
<1>1. PICK q \in Nat : Wrap = PIPESIZE * q BY WrapMultiple
<1>2. (PIPESIZE * q + x) % PIPESIZE = x % PIPESIZE BY PipeAssumption, ModShift, Zenon
<1> QED BY <1>1, <1>2, Zenon

LEMMA ContentsType ==
  ASSUME Counters, data \in [0 .. PIPESIZE - 1 -> Bytes]
  PROVE  Contents \in Seq(Bytes) /\ Len(Contents) = Count /\ Count \in 0 .. PIPESIZE
<1>1. Count \in 0 .. PIPESIZE BY CountIs, PipeAssumption DEF Counters
<1>2. ASSUME NEW k \in 1 .. Count PROVE data[(nread + k - 1) % PIPESIZE] \in Bytes
  <2>1. nread + k - 1 \in Nat BY <1>1 DEF Counters
  <2>2. (nread + k - 1) % PIPESIZE \in 0 .. PIPESIZE - 1 BY <2>1, PipeAssumption, DivMod, Zenon
  <2> QED BY <2>2
<1> QED BY <1>1, <1>2 DEF Contents

LEMMA ContentsPut ==
  ASSUME NEW b \in Bytes, Counters, data \in [0 .. PIPESIZE - 1 -> Bytes], ~Full,
         nread' = nread, nwrite' = Inc(nwrite), data' = [data EXCEPT ![nwrite % PIPESIZE] = b]
  PROVE  Contents' = Append(Contents, b) /\ Len(Contents) < PIPESIZE
<1> USE PipeAssumption
<1>1. Count' = Count + 1 BY CountPut
<1>2. Contents \in Seq(Bytes) /\ Len(Contents) = Count /\ Count \in 0 .. PIPESIZE - 1
  BY ContentsType, CountIs DEF Counters
<1>3. nwrite % PIPESIZE = (nread + Count) % PIPESIZE
  <2>1. nread + Count = nwrite \/ nread + Count = Wrap + nwrite BY CountIs DEF Counters
  <2>2. nwrite \in Nat BY DEF Counters
  <2>3. (Wrap + nwrite) % PIPESIZE = nwrite % PIPESIZE BY <2>2, SameSlot, Zenon
  <2> QED BY <2>1, <2>3, Zenon
<1>4. nwrite % PIPESIZE \in 0 .. PIPESIZE - 1 BY DivMod DEF Counters
<1> DEFINE slot(k) == (nread + k - 1) % PIPESIZE
<1>5. ASSUME NEW k \in 1 .. Count PROVE slot(k) # nwrite % PIPESIZE
  <2>1. /\ nread + k - 1 \in Nat /\ nread + Count \in Nat
        /\ nread + k - 1 < nread + Count /\ nread + Count < nread + k - 1 + PIPESIZE
    BY <1>2 DEF Counters
  <2>2. (nread + k - 1) % PIPESIZE # (nread + Count) % PIPESIZE BY <2>1, ModDiffer, Zenon
  <2> QED BY <2>2, <1>3, Zenon
<1>6. slot(Count + 1) = nwrite % PIPESIZE
  <2>1. nread + (Count + 1) - 1 = nread + Count BY <1>2 DEF Counters
  <2> QED BY <2>1, <1>3, Zenon
<1>7. Contents = [k \in 1 .. Count |-> data[slot(k)]] BY DEF Contents
<1>8. Contents' = [k \in 1 .. Count + 1 |-> data'[slot(k)]] BY <1>1 DEF Contents
<1> HIDE DEF slot
<1>9. \A k \in 1 .. Count : data'[slot(k)] = data[slot(k)] BY <1>5
<1>10. data'[slot(Count + 1)] = b BY <1>4, <1>6
<1> QED BY <1>2, <1>7, <1>8, <1>9, <1>10

LEMMA ContentsGet ==
  ASSUME Counters, data \in [0 .. PIPESIZE - 1 -> Bytes], ~Empty,
         nread' = Inc(nread), UNCHANGED <<nwrite, data>>
  PROVE  Contents # <<>> /\ Head(Contents) = data[ReadIndex] /\ Contents' = Tail(Contents)
<1> USE PipeAssumption
<1>1. Count' = Count - 1 BY CountGet
<1>2. Contents \in Seq(Bytes) /\ Len(Contents) = Count /\ Count \in 1 .. PIPESIZE
  BY ContentsType, CountIs DEF Counters
<1> DEFINE slot(k) == (nread + k - 1) % PIPESIZE
<1>3. slot(1) = nread % PIPESIZE
  <2>1. nread + 1 - 1 = nread BY DEF Counters
  <2> QED BY <2>1, Zenon
<1>4. ASSUME NEW k \in 1 .. Count PROVE (nread' + k - 1) % PIPESIZE = slot(k + 1)
  <2>1. CASE nread + 1 = Wrap
    <3>1. nread' + k - 1 = k - 1 /\ nread + (k + 1) - 1 = Wrap + (k - 1) /\ k - 1 \in Nat
      BY <2>1, IncIs DEF Counters
    <3>2. (Wrap + (k - 1)) % PIPESIZE = (k - 1) % PIPESIZE BY <3>1, SameSlot, Zenon
    <3> QED BY <3>1, <3>2, Zenon
  <2>2. CASE nread + 1 # Wrap
    <3>1. nread' + k - 1 = nread + (k + 1) - 1 BY <2>2, IncIs DEF Counters
    <3> QED BY <3>1, Zenon
  <2> QED BY <2>1, <2>2
<1>5. Contents = [k \in 1 .. Count |-> data[slot(k)]] BY DEF Contents
<1>6. Contents' = [k \in 1 .. Count - 1 |-> data[(nread' + k - 1) % PIPESIZE]] BY <1>1 DEF Contents
<1> HIDE DEF slot
<1>7. Contents' = [k \in 1 .. Count - 1 |-> data[slot(k + 1)]] BY <1>2, <1>4, <1>6
<1>8. Contents[1] = data[ReadIndex] BY <1>2, <1>3, <1>5 DEF ReadIndex
<1> QED BY <1>2, <1>5, <1>7, <1>8

LEMMA ContentsSame ==
  ASSUME UNCHANGED <<data, nread, nwrite>>
  PROVE  Contents' = Contents
  BY DEF Contents, Count

LEMMA Map_Init == Init => Q!Init
<1> SUFFICES ASSUME Init PROVE Q!Init OBVIOUS
<1>1. Count = 0 BY PipeAssumption, CountIs DEF Init, Empty
<1>2. Contents = <<>> BY <1>1 DEF Contents
<1> QED BY <1>2 DEF Init, Q!Init

(* The steps that move no byte and close no end. *)
LEMMA Map_stutter ==
  ASSUME UNCHANGED <<data, nread, nwrite, readopen, writeopen, ch>>
  PROVE  UNCHANGED Q!vars
  BY ContentsSame DEF Q!vars

LEMMA Map_pipewrite_byte ==
  ASSUME NEW p \in Procs, NEW b \in Bytes, PInv, pipewrite_byte(p, b)
  PROVE  Q!Put(b)
<1>1. readopen /\ writeopen BY DEF PInv, TypeOK, LockInv, OpenInv, Writing, pipewrite_byte, WriteEnds
<1>2. Contents' = Append(Contents, b) /\ Len(Contents) < PIPESIZE
  BY ContentsPut DEF PInv, TypeOK, Counters, pipewrite_byte
<1> QED BY <1>1, <1>2 DEF pipewrite_byte, Q!Put

LEMMA Map_piperead_byte == ASSUME NEW p \in Procs, PInv, piperead_byte(p) PROVE Q!Get
<1>1. readopen BY DEF PInv, TypeOK, LockInv, OpenInv, Reading, piperead_byte
<1>2. Contents # <<>> /\ Head(Contents) = data[ReadIndex] /\ Contents' = Tail(Contents)
  BY ContentsGet DEF PInv, TypeOK, Counters, piperead_byte
<1> QED BY <1>1, <1>2 DEF piperead_byte, Q!Get

LEMMA Map_pipeclose ==
  ASSUME NEW p \in Procs, PInv, pipeclose(p)
  PROVE  Q!CloseRead \/ Q!CloseWrite
<1> USE DEF pipeclose
<1>1. Contents' = Contents /\ ch' = ch BY ContentsSame
<1>2. CASE pc[p] = "w_close"
  <2>1. writeopen BY <1>2 DEF PInv, OpenInv
  <2> QED BY <1>1, <1>2, <2>1 DEF Q!CloseWrite
<1>3. CASE pc[p] = "r_close"
  <2>1. readopen BY <1>3 DEF PInv, OpenInv
  <2> QED BY <1>1, <1>3, <2>1 DEF Q!CloseRead
<1> QED BY <1>2, <1>3

LEMMA Map_Next == PInv /\ [Next]_vars => [Q!Next]_(Q!vars)
<1> SUFFICES ASSUME PInv, [Next]_vars PROVE [Q!Next]_(Q!vars) OBVIOUS
<1> USE DEF pipe
<1>1. CASE UNCHANGED vars BY <1>1, Map_stutter DEF vars
<1>2. ASSUME NEW p \in Procs, NEW k \in 1 .. MaxN, sys_write(p, k) \/ sys_read(p, k)
      PROVE  UNCHANGED Q!vars
  BY <1>2, Map_stutter DEF sys_write, sys_read
<1>3. ASSUME NEW p \in Procs, pipewrite(p) PROVE [Q!Next]_(Q!vars)
  <2>1. ASSUME NEW b \in Bytes, pipewrite_byte(p, b) PROVE Q!Next
    BY <2>1, Map_pipewrite_byte DEF Q!Next
  <2>2. CASE pipewrite_lock(p) \/ pipewrite_done(p) \/ pipewrite_abort(p) \/ pipewrite_full(p)
    BY <2>2, Map_stutter DEF pipewrite_lock, pipewrite_done, pipewrite_abort, pipewrite_full
  <2> QED BY <1>3, <2>1, <2>2 DEF pipewrite
<1>4. ASSUME NEW p \in Procs, piperead(p) PROVE [Q!Next]_(Q!vars)
  <2>1. CASE piperead_byte(p) BY <2>1, Map_piperead_byte DEF Q!Next
  <2>2. CASE piperead_lock(p) \/ piperead_sleep(p) \/ piperead_copy(p) \/ piperead_done(p)
    BY <2>2, Map_stutter DEF piperead_lock, piperead_sleep, piperead_copy, piperead_done
  <2> QED BY <1>4, <2>1, <2>2 DEF piperead
<1>5. ASSUME NEW p \in Procs, pipeclose(p) PROVE Q!Next BY <1>5, Map_pipeclose DEF Q!Next
<1>6. ASSUME NEW p \in Procs, kill(p) PROVE UNCHANGED Q!vars BY <1>6, Map_stutter DEF kill
<1>7. ASSUME NEW p \in Procs, NEW q \in Procs, fork(p, q) PROVE UNCHANGED Q!vars
  BY <1>7, Map_stutter DEF fork
<1>8. ASSUME NEW p \in Procs, NEW e \in {"r", "w"}, fileclose(p, e) PROVE UNCHANGED Q!vars
  BY <1>8, Map_stutter DEF fileclose
<1> QED BY <1>1, <1>2, <1>3, <1>4, <1>5, <1>6, <1>7, <1>8 DEF Next

(* The ring implements the bounded first-in first-out queue: every step of  *)
(* pipewrite, piperead and pipeclose is a step of ByteQueue or changes      *)
(* nothing it sees, however often nread and nwrite wrap around.             *)
THEOREM PipeIsQueue == Spec => IsQueue
<1> QED BY Map_Init, Map_Next, PipeInvariant, PTL DEF Spec, IsQueue, Q!Spec

==============================================================================
