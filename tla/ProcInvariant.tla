----------------------------- MODULE ProcInvariant ----------------------------
(***************************************************************************)
(* The inductive invariant of Proc, and its preservation by the switching  *)
(* between processes, by the entry to and exit from the kernel and by      *)
(* fork, for any number of CPUs, any size of the process table, any bound  *)
(* on pids and any set of calls.                                           *)
(***************************************************************************)
EXTENDS Proc, TLAPS

Live == {"RUNNABLE", "RUNNING", "SLEEPING"}
NotYet == {"UNUSED", "USED"}
Forking == {"fork_copy", "fork_link", "fork_run"}
(* exit past reparent, and all code that runs with wait_lock held. *)
Exits == {"wake_init", "wake_parent", "zombie"}
WaitLocked == Exits \cup {"wait_scan", "wait_sleep"}

(* A CPU executes a process that is not free, of its own, and has p->lock   *)
(* throughout sched(), np->lock throughout fork's copying; every RUNNING    *)
(* process is on a CPU.                                                     *)
CpuInv ==
  /\ \A c, d \in CPUs, s \in Slots : run[c] = s /\ run[d] = s => c = d
  /\ \A s \in Slots : state[s] = "RUNNING" => \E c \in CPUs : run[c] = s
  /\ \A c \in CPUs, s \in Slots : run[c] = s =>
       /\ state[s] \notin NotYet
       /\ inSched[s] => plock[s] = c
       /\ ~inSched[s] => state[s] = "RUNNING"
       /\ ~inSched[s] /\ pc[s] = "fork_copy" => plock[child[s]] = c

(* A CPU holds no p->lock but these. *)
LocksInv ==
  \A c \in CPUs, k \in Slots : plock[k] = c =>
    \E s \in Slots : /\ run[c] = s
                     /\ inSched[s] => k = s
                     /\ ~inSched[s] => pc[s] = "fork_copy" /\ child[s] = k

(* Where a process can be in each state.  A freed slot keeps the pc of the  *)
(* process that was there.  wait_lock is held by the one RUNNING process    *)
(* that is in code it protects.                                             *)
PcInv ==
  \A s \in Slots :
    /\ state[s] \in {"RUNNABLE", "SLEEPING", "ZOMBIE"} => inSched[s]
    /\ state[s] \in Live /\ inSched[s] => pc[s] \in LockFree
    /\ state[s] \in NotYet => pc[s] \in {"user", "zombie"}
    /\ state[s] = "ZOMBIE" => pc[s] = "zombie"
    /\ state[s] = "SLEEPING" => chan[s] = s
    /\ wlock = s <=> state[s] = "RUNNING" /\ ~inSched[s] /\ pc[s] \in WaitLocked

(* The child of a process in fork is USED, its own, ready to be scheduled   *)
(* once copied, and linked to its parent by fork_link.                      *)
Forks(s) ==
  /\ child[s] # NoProc <=> pc[s] \in Forking
  /\ pc[s] \in Forking => state[child[s]] = "USED"
  /\ pc[s] \in {"fork_link", "fork_run"} => inSched[child[s]] /\ pc[child[s]] = "user"
  /\ pc[s] \in {"fork_copy", "fork_link"} => parent[child[s]] = NoProc
  /\ pc[s] = "fork_run" => parent[child[s]] = s
ForkInv == /\ \A s \in Slots : Forks(s)
           /\ \A s, t \in Slots : pc[s] \in Forking /\ child[s] = child[t] => s = t

(* A parent is alive and has not begun to give its children away; init      *)
(* never will.                                                              *)
FamilyInv ==
  /\ \A s, k \in Slots : parent[k] = s => state[s] \in Live /\ pc[s] \notin Exits
  /\ \A s \in Slots : s # initproc /\ state[s] \notin NotYet => parent[s] # NoProc
  /\ \A s \in Slots : state[s] = "UNUSED" => parent[s] = NoProc /\ chan[s] = 0
  /\ state[initproc] \in Live /\ pc[initproc] \notin Exits \cup {"exit"}

PidInv ==
  /\ nextpid > 0
  /\ \A s \in Slots : pid[s] < nextpid /\ (state[s] = "UNUSED" <=> pid[s] = 0)
  /\ \A s, t \in Slots : pid[s] = pid[t] /\ pid[s] # 0 => s = t

(* A process asleep in wait() has a child, and a ZOMBIE one only while the  *)
(* process that gave it to init has yet to wake init.                       *)
SleepInv ==
  /\ \A s \in Slots : state[s] = "SLEEPING" =>
       /\ \E k \in Slots : parent[k] = s
       /\ \A k \in Slots : parent[k] = s /\ state[k] = "ZOMBIE" =>
            s = initproc /\ \E t \in Slots : wlock = t /\ pc[t] = "wake_init" /\ wi[t] = 1
  /\ \A s \in Slots : pc[s] = "wait_sleep" =>
       /\ \E k \in Slots : parent[k] = s
       /\ \A k \in Slots : parent[k] = s => state[k] # "ZOMBIE"

(* exit's wakeup of the parent has not passed the parent yet, or has woken  *)
(* it; it starts with the first slot.                                       *)
WakeInv ==
  \A s, t \in Slots : wlock = t /\ parent[t] = s /\ state[s] = "SLEEPING" =>
    /\ pc[t] = "wake_parent" => wi[t] <= s
    /\ pc[t] # "zombie"

PInv == TypeOK /\ CpuInv /\ LocksInv /\ PcInv /\ ForkInv /\ FamilyInv /\ PidInv /\ SleepInv /\ WakeInv
-----------------------------------------------------------------------------
LEMMA SlotFacts ==
  /\ NoProc \notin Slots /\ initproc \in Slots /\ NoCpu \notin CPUs /\ NoProc = 0 /\ initproc = 1
  /\ NPROC \in Slots /\ \A i \in Slots : i \in Nat /\ 1 <= i /\ i <= NPROC /\ (i # NPROC => i + 1 \in Slots)
BY ProcAssumption DEF Slots, NoProc, initproc

LEMMA NextSlotIn == ASSUME NEW i \in Slots PROVE NextSlot(i) \in Slots
BY SlotFacts DEF NextSlot, initproc

LEMMA Inv_scheduler ==
  ASSUME PInv, NEW c \in CPUs, NEW s \in Slots, scheduler(c, s) PROVE PInv'
<1> USE SlotFacts DEF PInv, TypeOK, Forks, Live, NotYet, Forking, Exits, WaitLocked, LockFree,
        WantsWaitLock, scheduler, Free, locals
<1>1. TypeOK' OBVIOUS
<1>2. CpuInv' BY DEF CpuInv, PcInv
<1>3. LocksInv' BY DEF CpuInv, LocksInv, PcInv
<1>4. PcInv' BY DEF PcInv
<1>5. ForkInv' BY DEF ForkInv
<1>6. FamilyInv' BY DEF FamilyInv
<1>7. PidInv' BY DEF PidInv
<1>8. SleepInv' BY DEF SleepInv
<1>9. WakeInv' BY DEF WakeInv
<1> HIDE DEF TypeOK
<1> QED BY <1>1, <1>2, <1>3, <1>4, <1>5, <1>6, <1>7, <1>8, <1>9

LEMMA Inv_sched ==
  ASSUME PInv, NEW c \in CPUs, NEW s \in Slots, sched(c, s) PROVE PInv'
<1> USE SlotFacts DEF PInv, TypeOK, Forks, Live, NotYet, Forking, Exits, WaitLocked, LockFree,
        WantsWaitLock, sched, table, locals
<1>1. TypeOK' OBVIOUS
<1>2. CpuInv' BY DEF CpuInv
<1>3. LocksInv' BY DEF LocksInv
<1>4. PcInv' BY DEF PcInv
<1>5. ForkInv' BY DEF ForkInv
<1>6. FamilyInv' BY DEF FamilyInv
<1>7. PidInv' BY DEF PidInv
<1>8. SleepInv' BY DEF SleepInv
<1>9. WakeInv' BY DEF WakeInv
<1> HIDE DEF TypeOK
<1> QED BY <1>1, <1>2, <1>3, <1>4, <1>5, <1>6, <1>7, <1>8, <1>9

LEMMA Inv_resume ==
  ASSUME PInv, NEW c \in CPUs, NEW s \in Slots, resume(c, s) PROVE PInv'
<1> USE SlotFacts DEF PInv, TypeOK, Forks, Live, NotYet, Forking, Exits, WaitLocked, LockFree,
        WantsWaitLock, resume, locals
<1>1. TypeOK' OBVIOUS
<1>2. CpuInv'
  <2>1. pc[s] # "fork_copy" BY DEF PcInv
  <2> QED BY <2>1 DEF CpuInv, LocksInv
<1>3. LocksInv' BY DEF LocksInv
<1>4. PcInv' BY DEF PcInv
<1>5. ForkInv' BY DEF ForkInv
<1>6. FamilyInv' BY DEF FamilyInv
<1>7. PidInv' BY DEF PidInv
<1>8. SleepInv' BY DEF SleepInv
<1>9. WakeInv' BY DEF WakeInv
<1> HIDE DEF TypeOK
<1> QED BY <1>1, <1>2, <1>3, <1>4, <1>5, <1>6, <1>7, <1>8, <1>9

LEMMA Inv_yield ==
  ASSUME PInv, NEW c \in CPUs, NEW s \in Slots, yield(c, s) PROVE PInv'
<1> USE SlotFacts DEF PInv, TypeOK, Forks, Live, NotYet, Forking, Exits, WaitLocked, LockFree,
        WantsWaitLock, yield, EnterSched, Free, locals
<1>1. TypeOK' OBVIOUS
<1>2. CpuInv' BY DEF CpuInv
<1>3. LocksInv' BY DEF LocksInv
<1>4. PcInv' BY DEF PcInv
<1>5. ForkInv' BY DEF CpuInv, ForkInv
<1>6. FamilyInv' BY DEF CpuInv, FamilyInv
<1>7. PidInv' BY DEF CpuInv, PidInv
<1>8. SleepInv' BY DEF SleepInv
<1>9. WakeInv' BY DEF WakeInv
<1> HIDE DEF TypeOK
<1> QED BY <1>1, <1>2, <1>3, <1>4, <1>5, <1>6, <1>7, <1>8, <1>9

LEMMA Inv_sys_exit ==
  ASSUME PInv, NEW c \in CPUs, NEW s \in Slots, sys_exit(c, s) PROVE PInv'
<1> USE SlotFacts DEF PInv, TypeOK, Forks, Live, NotYet, Forking, Exits, WaitLocked, LockFree,
        WantsWaitLock, sys_exit, Syscall, At, Goto, Free, Exiting, table
<1>1. TypeOK' OBVIOUS
<1>2. CpuInv' BY DEF CpuInv
<1>3. LocksInv' BY DEF LocksInv
<1>4. PcInv' BY DEF CpuInv, PcInv
<1>5. ForkInv' BY DEF ForkInv
<1>6. FamilyInv' BY DEF FamilyInv
<1>7. PidInv' BY DEF PidInv
<1>8. SleepInv' BY DEF SleepInv
<1>9. WakeInv' BY DEF WakeInv
<1> HIDE DEF TypeOK
<1> QED BY <1>1, <1>2, <1>3, <1>4, <1>5, <1>6, <1>7, <1>8, <1>9

LEMMA Inv_usertrap_killed ==
  ASSUME PInv, NEW c \in CPUs, NEW s \in Slots, usertrap_killed(c, s) PROVE PInv'
<1> USE SlotFacts DEF PInv, TypeOK, Forks, Live, NotYet, Forking, Exits, WaitLocked, LockFree,
        WantsWaitLock, usertrap_killed, At, Goto, Free, Exiting, table
<1>1. TypeOK' OBVIOUS
<1>2. CpuInv' BY DEF CpuInv
<1>3. LocksInv' BY DEF LocksInv
<1>4. PcInv' BY DEF CpuInv, PcInv
<1>5. ForkInv' BY DEF ForkInv
<1>6. FamilyInv' BY DEF FamilyInv
<1>7. PidInv' BY DEF PidInv
<1>8. SleepInv' BY DEF SleepInv
<1>9. WakeInv' BY DEF WakeInv
<1> HIDE DEF TypeOK
<1> QED BY <1>1, <1>2, <1>3, <1>4, <1>5, <1>6, <1>7, <1>8, <1>9

LEMMA Inv_usertrap_fault ==
  ASSUME PInv, NEW c \in CPUs, NEW s \in Slots, usertrap_fault(c, s) PROVE PInv'
<1> USE SlotFacts DEF PInv, TypeOK, Forks, Live, NotYet, Forking, Exits, WaitLocked, LockFree,
        WantsWaitLock, usertrap_fault, At, Goto, Free
<1>1. TypeOK' OBVIOUS
<1>2. CpuInv' BY DEF CpuInv
<1>3. LocksInv' BY DEF LocksInv
<1>4. PcInv' BY DEF CpuInv, PcInv
<1>5. ForkInv' BY DEF ForkInv
<1>6. FamilyInv' BY DEF FamilyInv
<1>7. PidInv' BY DEF PidInv
<1>8. SleepInv' BY DEF SleepInv
<1>9. WakeInv' BY DEF WakeInv
<1> HIDE DEF TypeOK
<1> QED BY <1>1, <1>2, <1>3, <1>4, <1>5, <1>6, <1>7, <1>8, <1>9

LEMMA Inv_usertrapret ==
  ASSUME PInv, NEW c \in CPUs, NEW s \in Slots, usertrapret(c, s) PROVE PInv'
<1> USE SlotFacts DEF PInv, TypeOK, Forks, Live, NotYet, Forking, Exits, WaitLocked, LockFree,
        WantsWaitLock, usertrapret, At, Goto, Free, table
<1>1. TypeOK' OBVIOUS
<1>2. CpuInv' BY DEF CpuInv
<1>3. LocksInv' BY DEF LocksInv
<1>4. PcInv' BY DEF PcInv
<1>5. ForkInv' BY DEF ForkInv
<1>6. FamilyInv' BY DEF FamilyInv
<1>7. PidInv' BY DEF PidInv
<1>8. SleepInv' BY DEF SleepInv
<1>9. WakeInv' BY DEF WakeInv
<1> HIDE DEF TypeOK
<1> QED BY <1>1, <1>2, <1>3, <1>4, <1>5, <1>6, <1>7, <1>8, <1>9

LEMMA Inv_allocproc ==
  ASSUME PInv, NEW c \in CPUs, NEW s \in Slots, NEW np \in Slots, allocproc(c, s, np) PROVE PInv'
<1> USE SlotFacts DEF PInv, TypeOK, Forks, Live, NotYet, Forking, Exits, WaitLocked, LockFree,
        WantsWaitLock, allocproc, Syscall, At, Goto, Free
<1>1. TypeOK'
  <2>1. nextpid \in 0 .. MaxPid + 1 BY ProcAssumption
  <2> QED BY <2>1
<1>2. CpuInv' BY DEF CpuInv
<1>3. LocksInv' BY DEF LocksInv
<1>4. PcInv' BY DEF CpuInv, PcInv
<1>5. ForkInv' BY DEF CpuInv, PcInv, ForkInv, FamilyInv
<1>6. FamilyInv' BY DEF FamilyInv
<1>7. PidInv' BY DEF PidInv
<1>8. SleepInv' BY DEF SleepInv
<1>9. WakeInv' BY DEF WakeInv
<1> HIDE DEF TypeOK
<1> QED BY <1>1, <1>2, <1>3, <1>4, <1>5, <1>6, <1>7, <1>8, <1>9

LEMMA Inv_fork_fail ==
  ASSUME PInv, NEW c \in CPUs, NEW s \in Slots, fork_fail(c, s) PROVE PInv'
<1> USE SlotFacts DEF PInv, TypeOK, Forks, Live, NotYet, Forking, Exits, WaitLocked, LockFree,
        WantsWaitLock, fork_fail, At, Goto, freeproc
<1>1. TypeOK'
  <2>1. child[s] \in Slots BY DEF ForkInv

  <2>2. pid' \in [Slots -> 0 .. MaxPid + 1] BY <2>1, ProcAssumption
  <2> QED BY <2>1, <2>2
<1>2. CpuInv' BY DEF CpuInv, ForkInv
<1>3. LocksInv' BY DEF LocksInv
<1>4. PcInv' BY DEF CpuInv, PcInv, ForkInv
<1>5. ForkInv' BY DEF ForkInv
<1>6. FamilyInv' BY DEF CpuInv, ForkInv, FamilyInv
<1>7. PidInv' BY DEF PidInv
<1>8. SleepInv' BY DEF CpuInv, ForkInv, SleepInv
<1>9. WakeInv' BY DEF WakeInv
<1> HIDE DEF TypeOK
<1> QED BY <1>1, <1>2, <1>3, <1>4, <1>5, <1>6, <1>7, <1>8, <1>9

LEMMA Inv_fork_copy ==
  ASSUME PInv, NEW c \in CPUs, NEW s \in Slots, fork_copy(c, s) PROVE PInv'
<1> USE SlotFacts DEF PInv, TypeOK, Forks, Live, NotYet, Forking, Exits, WaitLocked, LockFree,
        WantsWaitLock, fork_copy, At, table
<1>1. TypeOK'
  <2>1. child[s] \in Slots BY DEF ForkInv
  <2> QED BY <2>1
<1>2. CpuInv' BY DEF CpuInv, ForkInv
<1>3. LocksInv' BY DEF CpuInv, LocksInv, ForkInv
<1>4. PcInv'
  <2>1. child[s] \in Slots BY DEF ForkInv
  <2>2. child[s] # s /\ state[child[s]] = "USED" BY DEF CpuInv, ForkInv
  <2>3. pc' = [pc EXCEPT ![s] = "fork_link", ![child[s]] = "user"] /\ inSched' = [inSched EXCEPT ![child[s]] = TRUE]
    OBVIOUS
  <2> QED BY <2>1, <2>2, <2>3 DEF CpuInv, PcInv
<1>5. ForkInv'
  <2>1. child[s] \in Slots BY DEF ForkInv
  <2>2. \A x \in Slots : pc[x] \in Forking => child[x] # s BY DEF CpuInv, ForkInv
  <2>3. parent[child[s]] = NoProc BY <2>1 DEF ForkInv
  <2>4. state[child[s]] = "USED" /\ pc[child[s]] \notin Forking BY <2>1, Zenon DEF ForkInv, PcInv
  <2>5. pc' = [pc EXCEPT ![s] = "fork_link", ![child[s]] = "user"] /\ inSched' = [inSched EXCEPT ![child[s]] = TRUE]
    OBVIOUS
  <2>6. s # child[s] BY <2>2
  <2>7. /\ pc'[s] = "fork_link" /\ pc'[child[s]] = "user" /\ inSched'[child[s]]
        /\ \A x \in Slots : x \notin {s, child[s]} => pc'[x] = pc[x] /\ inSched'[x] = inSched[x]
    BY <2>1, <2>5, <2>6, Zenon
  <2>8. UNCHANGED <<child, parent, state>> OBVIOUS
  <2> HIDE DEF fork_copy
  <2>9. \A x \in Slots : x # s /\ pc[x] \in Forking => child[x] # child[s] BY DEF ForkInv
  <2>10. ASSUME NEW x \in Slots PROVE Forks(x)'
    <3>1. CASE x = s
      <4>1. child[s] # NoProc BY <2>1
      <4> HIDE DEF TypeOK
      <4> QED BY <3>1, <4>1, <2>4, <2>7, <2>8, <2>3
    <3>2. CASE x # s /\ pc[x] \notin Forking BY <3>2, <2>1, <2>2, <2>4, <2>6, <2>7, <2>8 DEF ForkInv
    <3>3. CASE x # s /\ pc[x] \in Forking
      <4>1. child[x] \in Slots BY <3>3 DEF ForkInv
      <4>2. /\ child'[x] = child[x] /\ pc'[x] = pc[x] /\ pc'[child[x]] = pc[child[x]]
            /\ state'[child[x]] = state[child[x]] /\ parent'[child[x]] = parent[child[x]]
            /\ inSched'[child[x]] <=> inSched[child[x]]
        BY <3>3, <4>1, <2>1, <2>2, <2>4, <2>9, <2>6, <2>7, <2>8, Zenon
      <4> HIDE DEF TypeOK, fork_copy
      <4> QED BY <3>3, <4>2 DEF ForkInv
    <3> QED BY <3>1, <3>2, <3>3
  <2>11. \A x, t \in Slots : pc'[x] \in Forking /\ child'[x] = child'[t] => x = t
    BY <2>1, <2>2, <2>4, <2>6, <2>7, <2>8 DEF ForkInv
  <2> HIDE DEF TypeOK, Forks
  <2> QED BY <2>10, <2>11 DEF ForkInv
<1>6. FamilyInv' BY DEF FamilyInv
<1>7. PidInv' BY DEF PidInv
<1>8. SleepInv' BY DEF CpuInv, PcInv, ForkInv, SleepInv
<1>9. WakeInv' BY DEF WakeInv
<1> HIDE DEF TypeOK
<1> QED BY <1>1, <1>2, <1>3, <1>4, <1>5, <1>6, <1>7, <1>8, <1>9

LEMMA Inv_fork_link ==
  ASSUME PInv, NEW c \in CPUs, NEW s \in Slots, fork_link(c, s) PROVE PInv'
<1> USE SlotFacts DEF PInv, TypeOK, Forks, Live, NotYet, Forking, Exits, WaitLocked, LockFree,
        WantsWaitLock, fork_link, At, Goto
<1>1. TypeOK'
  <2>1. child[s] \in Slots BY DEF ForkInv
  <2> QED BY <2>1
<1>2. CpuInv' BY DEF CpuInv
<1>3. LocksInv' BY DEF LocksInv
<1>4. PcInv' BY DEF PcInv
<1>5. ForkInv' BY DEF ForkInv
<1>6. FamilyInv' BY DEF CpuInv, ForkInv, FamilyInv
<1>7. PidInv' BY DEF PidInv
<1>8. SleepInv' BY DEF CpuInv, ForkInv, SleepInv
<1>9. WakeInv' BY DEF WakeInv
<1> HIDE DEF TypeOK
<1> QED BY <1>1, <1>2, <1>3, <1>4, <1>5, <1>6, <1>7, <1>8, <1>9

LEMMA Inv_fork_run ==
  ASSUME PInv, NEW c \in CPUs, NEW s \in Slots, fork_run(c, s) PROVE PInv'
<1> USE SlotFacts DEF PInv, TypeOK, Forks, Live, NotYet, Forking, Exits, WaitLocked, LockFree,
        WantsWaitLock, fork_run, At, Goto, Free
<1>1. TypeOK'
  <2>1. child[s] \in Slots BY DEF ForkInv
  <2> QED BY <2>1
<1>2. CpuInv' BY DEF CpuInv, ForkInv
<1>3. LocksInv' BY DEF LocksInv
<1>4. PcInv'
  <2>1. child[s] \in Slots BY DEF ForkInv
  <2>2. child[s] # s /\ state[child[s]] = "USED" BY DEF CpuInv, ForkInv
  <2>3. inSched[child[s]] /\ pc[child[s]] = "user" BY DEF ForkInv
  <2> QED BY <2>1, <2>2, <2>3 DEF CpuInv, PcInv
<1>5. ForkInv' BY DEF ForkInv
<1>6. FamilyInv' BY DEF CpuInv, ForkInv, FamilyInv
<1>7. PidInv' BY DEF ForkInv, PidInv
<1>8. SleepInv' BY DEF SleepInv
<1>9. WakeInv' BY DEF WakeInv
<1> HIDE DEF TypeOK
<1> QED BY <1>1, <1>2, <1>3, <1>4, <1>5, <1>6, <1>7, <1>8, <1>9
==============================================================================
