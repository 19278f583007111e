----------------------------- MODULE ProcProofs ------------------------------
(***************************************************************************)
(* Proofs about Proc, on ProcInvariant: exit, wait and kill preserve the   *)
(* invariant; hence the scheduler and the locks are sound, no wakeup of    *)
(* wait() is lost, and every process has a parent that can wait for it.    *)
(***************************************************************************)
EXTENDS ProcInvariant

LEMMA Inv_reparent ==
  ASSUME PInv, NEW c \in CPUs, NEW s \in Slots, reparent(c, s) PROVE PInv'
<1> USE SlotFacts DEF PInv, TypeOK, Forks, Live, NotYet, Forking, Exits, WaitLocked, LockFree,
        WantsWaitLock, reparent, At, Goto, Reparented, FirstWakeup, Children
<1>1. TypeOK'
  <2>1. parent' \in [Slots -> Slots \cup {NoProc}] OBVIOUS
  <2>2. pc' \in [Slots -> LockFree \cup {"fork_copy", "wake_init", "wake_parent", "zombie", "wait_scan", "wait_sleep"}]
    OBVIOUS
  <2>3. wi' \in [Slots -> Slots] OBVIOUS
  <2> QED BY <2>1, <2>2, <2>3
<1>2. CpuInv' BY DEF CpuInv
<1>3. LocksInv' BY DEF LocksInv
<1>4. PcInv' BY DEF PcInv
<1>5. ForkInv' BY DEF ForkInv
<1>6. FamilyInv' BY DEF FamilyInv
<1>7. PidInv' BY DEF PidInv
<1>8. SleepInv' BY DEF PcInv, SleepInv
<1>9. WakeInv' BY DEF WakeInv
<1> HIDE DEF TypeOK
<1> QED BY <1>1, <1>2, <1>3, <1>4, <1>5, <1>6, <1>7, <1>8, <1>9

LEMMA Inv_wakeup_init ==
  ASSUME PInv, NEW c \in CPUs, NEW s \in Slots, wakeup_init(c, s) PROVE PInv'
<1> USE SlotFacts DEF PInv, TypeOK, Forks, Live, NotYet, Forking, Exits, WaitLocked, LockFree,
        WantsWaitLock, wakeup_init, At, Goto, wakeup, Free
<1>1. TypeOK'
  <2>1. state' \in [Slots -> {"UNUSED", "USED", "SLEEPING", "RUNNABLE", "RUNNING", "ZOMBIE"}] OBVIOUS
  <2>2. NextSlot(wi[s]) \in Slots BY NextSlotIn, Zenon
  <2>3. wi' = [wi EXCEPT ![s] = NextSlot(wi[s])] /\ wi' \in [Slots -> Slots] BY <2>2
  <2>4. pc' \in [Slots -> LockFree \cup {"fork_copy", "wake_init", "wake_parent", "zombie", "wait_scan", "wait_sleep"}]
    OBVIOUS
  <2> QED BY <2>1, <2>3, <2>4
<1>2. CpuInv' BY DEF CpuInv
<1>3. LocksInv' BY DEF LocksInv
<1>4. PcInv' BY DEF PcInv
<1>5. ForkInv' BY DEF ForkInv
<1>6. FamilyInv' BY DEF FamilyInv
<1>7. PidInv' BY DEF PidInv
<1>8. SleepInv'
  <2>1. wlock = s /\ s # initproc BY DEF CpuInv, PcInv, FamilyInv
  <2>2. \A x \in Slots : /\ state'[x] = "SLEEPING" => state[x] = "SLEEPING"
                         /\ state'[x] = "ZOMBIE" => state[x] = "ZOMBIE"
    OBVIOUS
  <2>3. wi[s] = initproc => state'[initproc] # "SLEEPING"
    BY <2>1 DEF PcInv, FamilyInv
  <2>4. ASSUME NEW x \in Slots, state'[x] = "SLEEPING", NEW k \in Slots, parent'[k] = x, state'[k] = "ZOMBIE"
        PROVE  FALSE
    BY <2>1, <2>2, <2>3, <2>4 DEF SleepInv
  <2>5. ASSUME NEW x \in Slots, pc'[x] = "wait_sleep" PROVE pc[x] = "wait_sleep" BY <2>5
  <2> QED BY <2>2, <2>4, <2>5 DEF SleepInv
<1>9. WakeInv'
  <2>1. wlock = s BY DEF CpuInv, PcInv
  <2>2. \A x \in Slots : state'[x] = "SLEEPING" => state[x] = "SLEEPING" OBVIOUS
  <2>3. pc'[s] = "wake_parent" => wi[s] = NPROC OBVIOUS
  <2>4. pc'[s] # "zombie" OBVIOUS
  <2>5. wi'[s] = NextSlot(wi[s]) OBVIOUS
  <2>6. wi[s] = NPROC => wi'[s] = 1 BY <2>5 DEF NextSlot
  <2>7. UNCHANGED <<parent, wlock>> OBVIOUS
  <2> QED BY <2>1, <2>3, <2>4, <2>6, <2>7 DEF WakeInv
<1> HIDE DEF TypeOK
<1> QED BY <1>1, <1>2, <1>3, <1>4, <1>5, <1>6, <1>7, <1>8, <1>9

LEMMA Inv_wakeup_parent ==
  ASSUME PInv, NEW c \in CPUs, NEW s \in Slots, wakeup_parent(c, s) PROVE PInv'
<1> USE SlotFacts DEF PInv, TypeOK, Forks, Live, NotYet, Forking, Exits, WaitLocked, LockFree,
        WantsWaitLock, wakeup_parent, At, Goto, wakeup, Free
<1>1. TypeOK'
  <2>1. state' \in [Slots -> {"UNUSED", "USED", "SLEEPING", "RUNNABLE", "RUNNING", "ZOMBIE"}] OBVIOUS
  <2>2. NextSlot(wi[s]) \in Slots BY NextSlotIn, Zenon
  <2>3. wi' = [wi EXCEPT ![s] = NextSlot(wi[s])] /\ wi' \in [Slots -> Slots] BY <2>2
  <2>4. pc' \in [Slots -> LockFree \cup {"fork_copy", "wake_init", "wake_parent", "zombie", "wait_scan", "wait_sleep"}]
    OBVIOUS
  <2> QED BY <2>1, <2>3, <2>4
<1>2. CpuInv' BY DEF CpuInv
<1>3. LocksInv' BY DEF LocksInv
<1>4. PcInv' BY DEF PcInv
<1>5. ForkInv' BY DEF ForkInv
<1>6. FamilyInv' BY DEF FamilyInv
<1>7. PidInv' BY DEF PidInv
<1>8. SleepInv' BY DEF SleepInv
<1>9. WakeInv'
  <2>1. wlock = s /\ parent[s] # s BY DEF CpuInv, PcInv, FamilyInv
  <2> SUFFICES ASSUME NEW x \in Slots, parent[s] = x, state'[x] = "SLEEPING"
               PROVE  pc'[s] = "wake_parent" /\ wi'[s] <= x
    BY <2>1 DEF WakeInv
  <2>2. state[x] = "SLEEPING" /\ chan[x] = x BY DEF PcInv
  <2>3. wi[s] <= x BY <2>1, <2>2 DEF WakeInv
  <2>4. wi[s] # x BY <2>1, <2>2
  <2>5. x \in Nat /\ x <= NPROC /\ wi[s] \in Nat /\ wi[s] <= NPROC /\ NPROC \in Nat BY Zenon
  <2>6. wi[s] # NPROC /\ wi[s] + 1 <= x BY <2>3, <2>4, <2>5
  <2>7. wi'[s] = NextSlot(wi[s]) /\ pc'[s] = "wake_parent" BY <2>6
  <2> QED BY <2>6, <2>7 DEF NextSlot
<1> HIDE DEF TypeOK
<1> QED BY <1>1, <1>2, <1>3, <1>4, <1>5, <1>6, <1>7, <1>8, <1>9

LEMMA Inv_exit_zombie ==
  ASSUME PInv, NEW c \in CPUs, NEW s \in Slots, exit_zombie(c, s) PROVE PInv'
<1> USE SlotFacts DEF PInv, TypeOK, Forks, Live, NotYet, Forking, Exits, WaitLocked, LockFree,
        WantsWaitLock, exit_zombie, At, EnterSched, Free, locals
<1>1. TypeOK' OBVIOUS
<1>2. CpuInv' BY DEF CpuInv
<1>3. LocksInv'
  <2>1. \A k \in Slots : plock[k] # c BY DEF LocksInv
  <2> QED BY <2>1 DEF LocksInv
<1>4. PcInv' BY DEF CpuInv, PcInv
<1>5. ForkInv' BY DEF CpuInv, ForkInv
<1>6. FamilyInv' BY DEF CpuInv, FamilyInv
<1>7. PidInv' BY DEF CpuInv, PidInv
<1>8. SleepInv'
  <2>1. wlock = s BY DEF CpuInv, PcInv
  <2>2. \A x \in Slots : pc[x] = "wait_sleep" => wlock = x BY DEF PcInv
  <2>3. \A x \in Slots : state[x] = "SLEEPING" => parent[s] # x BY <2>1 DEF WakeInv
  <2>4. \A x \in Slots : state'[x] = "SLEEPING" => state[x] = "SLEEPING" OBVIOUS
  <2>5. \A x \in Slots : state'[x] = "ZOMBIE" => state[x] = "ZOMBIE" \/ x = s OBVIOUS
  <2>6. ASSUME NEW x \in Slots, state'[x] = "SLEEPING", NEW k \in Slots, parent'[k] = x, state'[k] = "ZOMBIE"
        PROVE  FALSE
    BY <2>1, <2>3, <2>4, <2>5, <2>6 DEF SleepInv
  <2>7. \A x \in Slots : pc'[x] # "wait_sleep" BY <2>1, <2>2
  <2> QED BY <2>4, <2>6, <2>7 DEF SleepInv
<1>9. WakeInv' BY DEF WakeInv
<1> HIDE DEF TypeOK
<1> QED BY <1>1, <1>2, <1>3, <1>4, <1>5, <1>6, <1>7, <1>8, <1>9

LEMMA Inv_call_wait ==
  ASSUME PInv, NEW c \in CPUs, NEW s \in Slots, call_wait(c, s) PROVE PInv'
<1> USE SlotFacts DEF PInv, TypeOK, Forks, Live, NotYet, Forking, Exits, WaitLocked, LockFree,
        WantsWaitLock, call_wait, Syscall, At, Goto, Free, table
<1>1. TypeOK' OBVIOUS
<1>2. CpuInv' BY DEF CpuInv
<1>3. LocksInv' BY DEF LocksInv
<1>4. PcInv' BY DEF CpuInv, PcInv
<1>5. ForkInv' BY DEF ForkInv
<1>6. FamilyInv' BY DEF FamilyInv
<1>7. PidInv' BY DEF PidInv
<1>8. SleepInv' BY DEF SleepInv
<1>9. WakeInv' BY DEF WakeInv
<1> HIDE DEF TypeOK
<1> QED BY <1>1, <1>2, <1>3, <1>4, <1>5, <1>6, <1>7, <1>8, <1>9

LEMMA Inv_wait_lock ==
  ASSUME PInv, NEW c \in CPUs, NEW s \in Slots, wait_lock(c, s) PROVE PInv'
<1> USE SlotFacts DEF PInv, TypeOK, Forks, Live, NotYet, Forking, Exits, WaitLocked, LockFree,
        WantsWaitLock, wait_lock, At, Goto, table
<1>1. TypeOK' OBVIOUS
<1>2. CpuInv' BY DEF CpuInv
<1>3. LocksInv' BY DEF LocksInv
<1>4. PcInv' BY DEF PcInv
<1>5. ForkInv' BY DEF ForkInv
<1>6. FamilyInv' BY DEF FamilyInv
<1>7. PidInv' BY DEF PidInv
<1>8. SleepInv' BY DEF SleepInv
<1>9. WakeInv' BY DEF WakeInv
<1> HIDE DEF TypeOK
<1> QED BY <1>1, <1>2, <1>3, <1>4, <1>5, <1>6, <1>7, <1>8, <1>9

LEMMA Inv_wait_reap ==
  ASSUME PInv, NEW c \in CPUs, NEW s \in Slots, NEW k \in Slots, wait_reap(c, s, k) PROVE PInv'
<1> USE SlotFacts DEF PInv, TypeOK, Forks, Live, NotYet, Forking, Exits, WaitLocked, LockFree,
        WantsWaitLock, wait_reap, At, Goto, Zombies, Children, Free, freeproc, table
<1>1. TypeOK'
  <2>1. 0 \in 0 .. MaxPid + 1 BY ProcAssumption
  <2>2. CASE freeproc(k) BY <2>1, <2>2
  <2>3. CASE UNCHANGED table BY <2>3
  <2> QED BY <2>2, <2>3
<1>2. CpuInv' BY DEF CpuInv
<1>3. LocksInv' BY DEF LocksInv
<1>4. PcInv' BY DEF PcInv
<1>5. ForkInv'
  <2>1. \A x \in Slots : pc[x] \in Forking => child[x] # s BY DEF CpuInv, ForkInv
  <2>2. pc'[s] \notin Forking /\ pc[s] \notin Forking /\ \A x \in Slots : x # s => pc'[x] = pc[x] OBVIOUS
  <2>3. \A x \in Slots : x # k => state'[x] = state[x] /\ parent'[x] = parent[x] OBVIOUS
  <2>4. \A x \in Slots : pc[x] \in Forking => child[x] # k BY DEF ForkInv
  <2>5. UNCHANGED <<child, inSched>> OBVIOUS
  <2> HIDE DEF wait_reap
  <2>6. ASSUME NEW x \in Slots PROVE Forks(x)'
    <3>1. CASE x = s BY <3>1, <2>1, <2>2, <2>3, <2>4, <2>5 DEF ForkInv
    <3>2. CASE x # s /\ pc[x] \notin Forking BY <3>2, <2>1, <2>2, <2>3, <2>4, <2>5 DEF ForkInv
    <3>3. CASE x # s /\ pc[x] \in Forking
      <4>1. child[x] \in Slots BY <3>3 DEF ForkInv
      <4>2. /\ child'[x] = child[x] /\ pc'[x] = pc[x] /\ pc'[child[x]] = pc[child[x]]
            /\ state'[child[x]] = state[child[x]] /\ parent'[child[x]] = parent[child[x]]
            /\ inSched'[child[x]] <=> inSched[child[x]]
        BY <3>3, <4>1, <2>1, <2>2, <2>3, <2>4, <2>5, Zenon
      <4> HIDE DEF TypeOK, wait_reap
      <4> QED BY <3>3, <4>2 DEF ForkInv
    <3> QED BY <3>1, <3>2, <3>3
  <2>7. \A x, t \in Slots : pc'[x] \in Forking /\ child'[x] = child'[t] => x = t
    BY <2>1, <2>2, <2>3, <2>4, <2>5 DEF ForkInv
  <2> HIDE DEF TypeOK, Forks
  <2> QED BY <2>6, <2>7 DEF ForkInv
<1>6. FamilyInv'
  <2>1. state[k] = "ZOMBIE" /\ parent[k] = s OBVIOUS
  <2>2. CASE freeproc(k)
    <3>1. state' = [state EXCEPT ![k] = "UNUSED"] /\ pid' = [pid EXCEPT ![k] = 0] BY <2>2
    <3>2. parent' = [parent EXCEPT ![k] = NoProc] /\ chan' = [chan EXCEPT ![k] = 0] BY <2>2
    <3>3. \A x \in Slots : parent[x] # k BY <2>1 DEF FamilyInv
    <3> QED BY <2>1, <3>1, <3>2, <3>3 DEF FamilyInv, PcInv
  <2>3. CASE UNCHANGED table BY <2>3 DEF FamilyInv
  <2> QED BY <2>2, <2>3
<1>7. PidInv'
  <2>1. state[k] = "ZOMBIE" /\ parent[k] = s OBVIOUS
  <2>2. CASE freeproc(k)
    <3>1. state' = [state EXCEPT ![k] = "UNUSED"] /\ pid' = [pid EXCEPT ![k] = 0] BY <2>2
    <3>2. parent' = [parent EXCEPT ![k] = NoProc] /\ chan' = [chan EXCEPT ![k] = 0] BY <2>2

    <3> QED BY <2>1, <3>1, <3>2 DEF PidInv
  <2>3. CASE UNCHANGED table BY <2>3 DEF PidInv
  <2> QED BY <2>2, <2>3
<1>8. SleepInv'
  <2>1. state[k] = "ZOMBIE" /\ parent[k] = s OBVIOUS
  <2>2. CASE freeproc(k)
    <3>1. state' = [state EXCEPT ![k] = "UNUSED"] /\ pid' = [pid EXCEPT ![k] = 0] BY <2>2
    <3>2. parent' = [parent EXCEPT ![k] = NoProc] /\ chan' = [chan EXCEPT ![k] = 0] BY <2>2
    <3>3. state[s] = "RUNNING" /\ \A x \in Slots : pc[x] = "wait_sleep" => x # s BY DEF CpuInv
    <3>4. \A x \in Slots : pc'[x] = "wait_sleep" => pc[x] = "wait_sleep" OBVIOUS
    <3> QED BY <2>1, <3>1, <3>2, <3>3, <3>4 DEF SleepInv, PcInv, CpuInv
  <2>3. CASE UNCHANGED table BY <2>3 DEF CpuInv, PcInv, SleepInv
  <2> QED BY <2>2, <2>3
<1>9. WakeInv' BY DEF WakeInv
<1> HIDE DEF TypeOK
<1> QED BY <1>1, <1>2, <1>3, <1>4, <1>5, <1>6, <1>7, <1>8, <1>9

LEMMA Inv_wait_none ==
  ASSUME PInv, NEW c \in CPUs, NEW s \in Slots, wait_none(c, s) PROVE PInv'
<1> USE SlotFacts DEF PInv, TypeOK, Forks, Live, NotYet, Forking, Exits, WaitLocked, LockFree,
        WantsWaitLock, wait_none, At, Goto, Zombies, Children, Free, table
<1>1. TypeOK' OBVIOUS
<1>2. CpuInv' BY DEF CpuInv
<1>3. LocksInv' BY DEF LocksInv
<1>4. PcInv' BY DEF PcInv
<1>5. ForkInv'
  <2>1. \A x \in Slots : pc[x] \in Forking => child[x] # s BY DEF CpuInv, ForkInv
  <2>2. pc'[s] \notin Forking /\ \A x \in Slots : x # s => pc'[x] = pc[x] OBVIOUS
  <2>3. pc[s] \notin Forking /\ UNCHANGED <<child, parent, state, inSched>> OBVIOUS
  <2>4. ASSUME NEW x \in Slots PROVE Forks(x)'
    <3>1. CASE x = s BY <3>1, <2>1, <2>2, <2>3 DEF ForkInv
    <3>2. CASE x # s /\ pc[x] \notin Forking BY <3>2, <2>1, <2>2, <2>3 DEF ForkInv
    <3>3. CASE x # s /\ pc[x] \in Forking
      <4>1. child[x] \in Slots BY <3>3 DEF ForkInv
      <4>2. /\ child'[x] = child[x] /\ pc'[x] = pc[x] /\ pc'[child[x]] = pc[child[x]]
            /\ state'[child[x]] = state[child[x]] /\ parent'[child[x]] = parent[child[x]]
            /\ inSched'[child[x]] <=> inSched[child[x]]
        BY <3>3, <4>1, <2>1, <2>2, <2>3, Zenon
      <4> HIDE DEF TypeOK, wait_none
      <4> QED BY <3>3, <4>2 DEF ForkInv
    <3> QED BY <3>1, <3>2, <3>3
  <2>5. \A x, t \in Slots : pc'[x] \in Forking /\ child'[x] = child'[t] => x = t
    BY <2>1, <2>2, <2>3 DEF ForkInv
  <2> HIDE DEF TypeOK, Forks
  <2> QED BY <2>4, <2>5 DEF ForkInv
<1>6. FamilyInv' BY DEF FamilyInv
<1>7. PidInv' BY DEF PidInv
<1>8. SleepInv'
  <2>1. wlock = s /\ state[s] = "RUNNING" BY DEF CpuInv, PcInv
  <2>2. UNCHANGED <<state, parent, wi>> OBVIOUS
  <2>3. \A x \in Slots : pc'[x] = "wait_sleep" => x = s
    BY <2>1 DEF PcInv
  <2>4. pc'[s] = "wait_sleep" => /\ \E k \in Slots : parent[k] = s
                                 /\ \A k \in Slots : parent[k] = s => state[k] # "ZOMBIE"
    <3>1. pc'[s] = "wait_sleep" => Children(s) # {} /\ Zombies(s) = {} OBVIOUS
    <3> QED BY <3>1, Zenon
  <2>5. \A x, k \in Slots : state[x] = "SLEEPING" /\ parent[k] = x => state[k] # "ZOMBIE" BY <2>1 DEF SleepInv
  <2> QED BY <2>2, <2>3, <2>4, <2>5 DEF SleepInv
<1>9. WakeInv' BY DEF WakeInv
<1> HIDE DEF TypeOK
<1> QED BY <1>1, <1>2, <1>3, <1>4, <1>5, <1>6, <1>7, <1>8, <1>9

LEMMA Inv_sleep ==
  ASSUME PInv, NEW c \in CPUs, NEW s \in Slots, sleep(c, s) PROVE PInv'
<1> USE SlotFacts DEF PInv, TypeOK, Forks, Live, NotYet, Forking, Exits, WaitLocked, LockFree,
        WantsWaitLock, sleep, At, Goto, EnterSched, Free
<1>1. TypeOK' OBVIOUS
<1>2. CpuInv' BY DEF CpuInv
<1>3. LocksInv' BY DEF LocksInv
<1>4. PcInv' BY DEF PcInv
<1>5. ForkInv' BY DEF CpuInv, ForkInv
<1>6. FamilyInv' BY DEF CpuInv, FamilyInv
<1>7. PidInv' BY DEF CpuInv, PidInv
<1>8. SleepInv' BY DEF PcInv, SleepInv
<1>9. WakeInv' BY DEF WakeInv
<1> HIDE DEF TypeOK
<1> QED BY <1>1, <1>2, <1>3, <1>4, <1>5, <1>6, <1>7, <1>8, <1>9

LEMMA Inv_kill ==
  ASSUME PInv, NEW c \in CPUs, NEW s \in Slots, NEW k \in Slots, kill(c, s, k) PROVE PInv'
<1> USE SlotFacts DEF PInv, TypeOK, Forks, Live, NotYet, Forking, Exits, WaitLocked, LockFree,
        WantsWaitLock, kill, Syscall, At, Goto, Free
<1>1. TypeOK' OBVIOUS
<1>2. CpuInv' BY DEF CpuInv
<1>3. LocksInv' BY DEF LocksInv
<1>4. PcInv' BY DEF CpuInv, PcInv
<1>5. ForkInv' BY DEF ForkInv
<1>6. FamilyInv' BY DEF FamilyInv
<1>7. PidInv' BY DEF PidInv
<1>8. SleepInv' BY DEF SleepInv
<1>9. WakeInv' BY DEF WakeInv
<1> HIDE DEF TypeOK
<1> QED BY <1>1, <1>2, <1>3, <1>4, <1>5, <1>6, <1>7, <1>8, <1>9
-----------------------------------------------------------------------------
LEMMA Inv_Init == ASSUME Init PROVE PInv
<1> USE SlotFacts DEF Init, Live, NotYet, Forks, Forking, Exits, WaitLocked, LockFree
<1>1. TypeOK BY ProcAssumption DEF TypeOK
<1>2. CpuInv /\ LocksInv BY DEF CpuInv, LocksInv
<1>3. PcInv BY Zenon DEF PcInv
<1>4. ForkInv BY DEF ForkInv
<1>5. FamilyInv BY DEF FamilyInv
<1>6. PidInv BY DEF PidInv
<1>7. SleepInv /\ WakeInv BY DEF SleepInv, WakeInv
<1> QED BY <1>1, <1>2, <1>3, <1>4, <1>5, <1>6, <1>7 DEF PInv

LEMMA Inv_Next == ASSUME PInv, [Next]_vars PROVE PInv'
<1>1. CASE UNCHANGED vars
  <2> USE <1>1 DEF vars
  <2>1. TypeOK' BY DEF PInv, TypeOK
  <2>2. CpuInv' /\ LocksInv' BY DEF PInv, CpuInv, LocksInv
  <2>3. PcInv' BY DEF PInv, PcInv
  <2>4. ForkInv' BY DEF PInv, ForkInv, Forks
  <2>5. FamilyInv' BY DEF PInv, FamilyInv
  <2>6. PidInv' BY DEF PInv, PidInv
  <2>7. SleepInv' /\ WakeInv' BY DEF PInv, SleepInv, WakeInv
  <2> QED BY <2>1, <2>2, <2>3, <2>4, <2>7, <2>5, <2>6 DEF PInv
<1>2. CASE Next
  <2>1. PICK c \in CPUs, s \in Slots : \/ scheduler(c, s) \/ sched(c, s) \/ resume(c, s)
                                       \/ yield(c, s) \/ Kernel(c, s) \/ User(c, s)
    BY <1>2 DEF Next
  <2>2. CASE scheduler(c, s) \/ sched(c, s) \/ resume(c, s) \/ yield(c, s)
    BY <2>2, Inv_scheduler, Inv_sched, Inv_resume, Inv_yield
  <2>3. CASE Kernel(c, s)
    <3>1. CASE usertrapret(c, s) \/ usertrap_killed(c, s) BY <3>1, Inv_usertrapret, Inv_usertrap_killed
    <3>2. CASE fork_fail(c, s) \/ fork_copy(c, s) \/ fork_link(c, s) \/ fork_run(c, s)
      BY <3>2, Inv_fork_fail, Inv_fork_copy, Inv_fork_link, Inv_fork_run
    <3>3. CASE reparent(c, s) \/ wakeup_init(c, s) \/ wakeup_parent(c, s) \/ exit_zombie(c, s)
      BY <3>3, Inv_reparent, Inv_wakeup_init, Inv_wakeup_parent, Inv_exit_zombie
    <3>4. CASE wait_lock(c, s) \/ wait_none(c, s) \/ sleep(c, s)
      BY <3>4, Inv_wait_lock, Inv_wait_none, Inv_sleep
    <3>5. CASE \E k \in Slots : wait_reap(c, s, k) BY <3>5, Inv_wait_reap
    <3> QED BY <2>3, <3>1, <3>2, <3>3, <3>4, <3>5 DEF Kernel
  <2>4. CASE User(c, s)
    <3>1. CASE call_wait(c, s) \/ sys_exit(c, s) \/ usertrap_fault(c, s)
      BY <3>1, Inv_call_wait, Inv_sys_exit, Inv_usertrap_fault
    <3>2. CASE \E k \in Slots : allocproc(c, s, k) \/ kill(c, s, k) BY <3>2, Inv_allocproc, Inv_kill
    <3> QED BY <2>4, <3>1, <3>2 DEF User
  <2> QED BY <2>1, <2>2, <2>3, <2>4
<1> QED BY <1>1, <1>2

(* The inductive invariant of proc.c. *)
THEOREM ProcInvariantHolds == Spec => []PInv
<1>1. Init => PInv BY Inv_Init
<1>2. PInv /\ [Next]_vars => PInv' BY Inv_Next
<1> QED BY <1>1, <1>2, PTL DEF Spec

(* On any number of CPUs no process is executed twice, none is executed     *)
(* after it has been freed or while it waits, swtch is called with p->lock  *)
(* and no other lock held, and nobody spins for wait_lock with a p->lock.   *)
THEOREM SchedulerStaysSound == Spec => []SchedulerSound
<1>1. ASSUME PInv PROVE SchedulerSound
  <2>1. ASSUME NEW c \in CPUs, run[c] # NoProc PROVE run[c] \in Slots BY <1>1, <2>1 DEF PInv, TypeOK
  <2>2. OneCpuPerProcess
    <3>1. ASSUME NEW c \in CPUs, NEW d \in CPUs, run[c] = run[d], run[c] # NoProc PROVE c = d
      BY <1>1, <2>1, <3>1 DEF PInv, CpuInv
    <3>2. ASSUME NEW c \in CPUs, run[c] # NoProc, state[run[c]] # "RUNNING"
          PROVE  plock[run[c]] = c /\ inSched[run[c]]
      <4>1. run[c] \in Slots BY <2>1, <3>2
      <4> QED BY <1>1, <3>2, <4>1 DEF PInv, CpuInv
    <3>3. \A s \in Slots : state[s] = "RUNNING" => \E c \in CPUs : run[c] = s BY <1>1 DEF PInv, CpuInv
    <3> QED BY <3>1, <3>2, <3>3 DEF OneCpuPerProcess
  <2>3. ASSUME NEW c \in CPUs, NEW s \in Slots, run[c] = s
        PROVE  /\ inSched[s] => {k \in Slots : plock[k] = c} = {s} /\ wlock # s
               /\ ~inSched[s] => {k \in Slots : plock[k] = c} = IF pc[s] = "fork_copy" THEN {child[s]} ELSE {}
               /\ wlock = s => pc[s] \in WaitLocked
    <3> USE <1>1, <2>3, SlotFacts DEF PInv, TypeOK
    <3>1. wlock = s => pc[s] \in WaitLocked /\ ~inSched[s] BY DEF PcInv
    <3>2. CASE inSched[s]
      <4>1. plock[s] = c BY <3>2 DEF CpuInv
      <4>2. \A k \in Slots : plock[k] = c => k = s BY <3>2 DEF LocksInv
      <4> HIDE DEF PInv, TypeOK
      <4> QED BY <3>1, <3>2, <4>1, <4>2, Zenon
    <3>3. CASE ~inSched[s] /\ pc[s] = "fork_copy"
      <4>1. child[s] \in Slots BY <3>3 DEF ForkInv, Forks, Forking
      <4>2. plock[child[s]] = c BY <3>3 DEF CpuInv
      <4>3. \A k \in Slots : plock[k] = c => k = child[s] BY <3>3 DEF LocksInv
      <4> HIDE DEF PInv, TypeOK
      <4> QED BY <3>1, <3>3, <4>1, <4>2, <4>3, Zenon
    <3>4. CASE ~inSched[s] /\ pc[s] # "fork_copy"
      <4>1. \A k \in Slots : plock[k] # c BY <3>4 DEF LocksInv
      <4> HIDE DEF PInv, TypeOK
      <4> QED BY <3>1, <3>4, <4>1, Zenon
    <3> QED BY <3>2, <3>3, <3>4
  <2>4. TypeOK BY <1>1 DEF PInv
  <2>5. LockDiscipline BY <2>1, <2>3, Zenon DEF LockDiscipline, WaitLocked, Exits
  <2> QED BY <2>2, <2>4, <2>5 DEF SchedulerSound
<1> QED BY <1>1, ProcInvariantHolds, PTL

(* With wait_lock free, nobody sleeps in wait() who has a ZOMBIE child or   *)
(* no child: exit's wakeups, reparenting to init and kill lose nothing.     *)
THEOREM NoWakeupLost == Spec => []NoLostWakeup
<1>1. ASSUME PInv PROVE NoLostWakeup
  <2> SUFFICES ASSUME wlock = NoProc, NEW s \in Slots, state[s] = "SLEEPING"
               PROVE  /\ \E k \in Slots : parent[k] = s
                      /\ \A k \in Slots : parent[k] = s => state[k] # "ZOMBIE"
    BY DEF NoLostWakeup, Zombies, Children
  <2> QED BY <1>1, SlotFacts DEF PInv, SleepInv
<1> QED BY <1>1, ProcInvariantHolds, PTL

(* Every process that can run or has exited has a live parent, live         *)
(* processes have distinct pids, and a freed slot is clean.                 *)
THEOREM FamilyStaysSound == Spec => []FamilySound
<1>1. ASSUME PInv PROVE FamilySound
  <2> USE <1>1, SlotFacts DEF PInv, TypeOK
  <2>1. \A s \in Slots : parent[s] # NoProc => parent[s] \in Slots /\ state[parent[s]] \in Live
    BY Zenon DEF FamilyInv
  <2>2. \A s \in Slots : state[s] = "UNUSED" => Children(s) = {} /\ wlock # s
    <3> SUFFICES ASSUME NEW s \in Slots, state[s] = "UNUSED"
                 PROVE  (\A k \in Slots : parent[k] # s) /\ wlock # s
      <4> HIDE DEF PInv, TypeOK
      <4> QED BY Zenon DEF Children
    <3> QED BY <2>1 DEF PcInv, Live
  <2>3. FreedIsClean BY <2>2 DEF FreedIsClean, PidInv, FamilyInv
  <2>4. ParentsLive BY <2>1 DEF ParentsLive, FamilyInv, NotYet, Live
  <2> QED BY <2>3, <2>4 DEF FamilySound
<1> QED BY <1>1, ProcInvariantHolds, PTL
==============================================================================
