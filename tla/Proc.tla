-------------------------------- MODULE Proc --------------------------------
(***************************************************************************)
(* kernel/proc.c: the process table on several CPUs.  fork, exit, wait,    *)
(* kill, sleep, wakeup, yield, sched and the scheduler, at the granularity *)
(* of their locks: one action per critical section of a p->lock, wait_lock *)
(* held across actions, and the switch between a process and its CPU's     *)
(* scheduler as steps of their own, during which p->lock stays held.       *)
(*                                                                         *)
(* A process executes only while some CPU runs it (run[c]).  Between       *)
(* taking its own lock to call sched() and releasing it after it has been  *)
(* switched back in, inSched[s] holds.  User programs are arbitrary: they  *)
(* trap, fork, wait, kill and exit in any order.                           *)
(***************************************************************************)
EXTENDS Integers, FiniteSets

CONSTANTS CPUs,      \* cpus[]
          NoCpu,     \* lk->cpu of a lock that is not held
          NPROC,     \* size of the process table
          MaxPid,    \* bound on nextpid
          Calls      \* what user programs do: "fork", "wait", "exit", "kill", "fault"

ASSUME ProcAssumption == /\ NoCpu \notin CPUs
                         /\ NPROC \in Nat \ {0}
                         /\ MaxPid \in Nat

NoProc == 0
Slots == 1 .. NPROC
initproc == 1

VARIABLES state, pid, parent, killed, chan,  \* struct proc, one entry per slot
          plock,    \* plock[s]: the CPU holding proc[s].lock
          wlock,    \* the process holding wait_lock
          run,      \* run[c]: the process CPU c executes, NoProc in scheduler()
          inSched,  \* between taking p->lock for sched() and releasing it again
          pc,       \* where the process is in the kernel
          child,    \* np, in fork
          wi,       \* loop index of wakeup
          nextpid

vars == <<state, pid, parent, killed, chan, plock, wlock, run, inSched, pc, child, wi, nextpid>>
table == <<state, pid, parent, killed, chan>>
locals == <<pc, child, wi>>

(* userinit has run: slot 1 is initproc, runnable, and every CPU enters     *)
(* scheduler().                                                             *)
Init == /\ state = [s \in Slots |-> IF s = initproc THEN "RUNNABLE" ELSE "UNUSED"]
        /\ pid = [s \in Slots |-> IF s = initproc THEN 1 ELSE 0]
        /\ parent = [s \in Slots |-> NoProc]
        /\ killed = [s \in Slots |-> FALSE]
        /\ chan = [s \in Slots |-> 0]
        /\ plock = [s \in Slots |-> NoCpu]
        /\ wlock = NoProc
        /\ run = [c \in CPUs |-> NoProc]
        /\ inSched = [s \in Slots |-> s = initproc]
        /\ pc = [s \in Slots |-> "user"]
        /\ child = [s \in Slots |-> NoProc]
        /\ wi = [s \in Slots |-> 1]
        /\ nextpid = 2

(* CPU c executes process s, which is at l and not in sched(). *)
At(c, s, l) == run[c] = s /\ ~inSched[s] /\ pc[s] = l
Goto(s, l) == pc' = [pc EXCEPT ![s] = l]
Free(s) == plock[s] = NoCpu
Children(s) == {k \in Slots : parent[k] = s}

-----------------------------------------------------------------------------
(* Switching. *)

(* scheduler: take the lock of a RUNNABLE process and swtch to it. *)
scheduler(c, s) == /\ run[c] = NoProc
                   /\ Free(s) /\ state[s] = "RUNNABLE"
                   /\ state' = [state EXCEPT ![s] = "RUNNING"]
                   /\ plock' = [plock EXCEPT ![s] = c]
                   /\ run' = [run EXCEPT ![c] = s]
                   /\ UNCHANGED <<pid, parent, killed, chan, wlock, inSched, locals, nextpid>>

(* sched: swtch to the scheduler, which clears c->proc and releases p->lock. *)
sched(c, s) == /\ run[c] = s /\ inSched[s] /\ state[s] # "RUNNING"
               /\ run' = [run EXCEPT ![c] = NoProc]
               /\ plock' = [plock EXCEPT ![s] = NoCpu]
               /\ UNCHANGED <<table, wlock, inSched, locals, nextpid>>

(* Back from swtch, in sleep, yield or forkret: tidy up, release p->lock. *)
resume(c, s) == /\ run[c] = s /\ inSched[s] /\ state[s] = "RUNNING"
                /\ chan' = [chan EXCEPT ![s] = 0]
                /\ inSched' = [inSched EXCEPT ![s] = FALSE]
                /\ plock' = [plock EXCEPT ![s] = NoCpu]
                /\ UNCHANGED <<state, pid, parent, killed, wlock, run, locals, nextpid>>

(* Take p->lock, set p->state and call sched(). *)
EnterSched_unlocked(c, s, st) == /\ Free(s)  \* mutant: p->lock released before sched
                                 /\ state' = [state EXCEPT ![s] = st]
                                 /\ inSched' = [inSched EXCEPT ![s] = TRUE]
                                 /\ UNCHANGED plock
EnterSched(c, s, st) == /\ Free(s)
                        /\ plock' = [plock EXCEPT ![s] = c]
                        /\ state' = [state EXCEPT ![s] = st]
                        /\ inSched' = [inSched EXCEPT ![s] = TRUE]

(* A timer interrupt.  From user space usertrap first looks at killed; in   *)
(* the kernel interrupts are on only while the process neither holds a      *)
(* spinlock nor spins for one.                                              *)
LockFree == {"user", "ret", "fork_link", "fork_run", "wait", "exit", "panic"}
WantsWaitLock == {"fork_link", "wait", "exit"}

yield(c, s) == /\ run[c] = s /\ ~inSched[s] /\ pc[s] \in LockFree
               /\ pc[s] = "user" => ~killed[s]
               /\ pc[s] \in WantsWaitLock => wlock = NoProc
               /\ EnterSched(c, s, "RUNNABLE")
               /\ UNCHANGED <<pid, parent, killed, chan, wlock, run, locals, nextpid>>

-----------------------------------------------------------------------------
(* Entering and leaving the kernel. *)

(* A system call begins: usertrap has seen killed clear. *)
Syscall(c, s, call) == call \in Calls /\ At(c, s, "user") /\ Free(s) /\ ~killed[s]

(* exit() of init panics: the CPU loops, interrupts on. *)
Exiting(s) == IF s = initproc THEN "panic" ELSE "exit"

sys_exit(c, s) == /\ Syscall(c, s, "exit")
                  /\ Goto(s, Exiting(s))
                  /\ UNCHANGED <<table, plock, wlock, run, inSched, child, wi, nextpid>>

(* usertrap finds killed(p) set, before or after the call: exit(-1). *)
usertrap_killed(c, s) == /\ At(c, s, "user") \/ At(c, s, "ret")
                         /\ Free(s) /\ killed[s]
                         /\ Goto(s, Exiting(s))
                         /\ UNCHANGED <<table, plock, wlock, run, inSched, child, wi, nextpid>>

(* An unexpected trap from user space: setkilled(p). *)
usertrap_fault(c, s) == /\ "fault" \in Calls
                        /\ At(c, s, "user") /\ Free(s)
                        /\ killed' = [killed EXCEPT ![s] = TRUE]
                        /\ Goto(s, "ret")
                        /\ UNCHANGED <<state, pid, parent, chan, plock, wlock, run, inSched, child, wi, nextpid>>

usertrapret(c, s) == /\ At(c, s, "ret")
                     /\ Free(s) /\ ~killed[s]
                     /\ Goto(s, "user")
                     /\ UNCHANGED <<table, plock, wlock, run, inSched, child, wi, nextpid>>

-----------------------------------------------------------------------------
(* fork *)

(* allocproc: an UNUSED slot, a fresh pid; returns holding np->lock.  The   *)
(* scan may have passed lower slots before they were freed.  (When it finds *)
(* none, fork returns -1 and nothing changes.)                              *)
allocproc(c, s, np) == /\ Syscall(c, s, "fork")
                       /\ nextpid <= MaxPid
                       /\ Free(np) /\ state[np] = "UNUSED"
                       /\ state' = [state EXCEPT ![np] = "USED"]
                       /\ pid' = [pid EXCEPT ![np] = nextpid]
                       /\ nextpid' = nextpid + 1
                       /\ plock' = [plock EXCEPT ![np] = c]
                       /\ child' = [child EXCEPT ![s] = np]
                       /\ Goto(s, "fork_copy")
                       /\ UNCHANGED <<parent, killed, chan, wlock, run, inSched, wi>>

freeproc_parent(k) == /\ state' = [state EXCEPT ![k] = "UNUSED"]  \* mutant: parent kept
                      /\ pid' = [pid EXCEPT ![k] = 0]
                      /\ killed' = [killed EXCEPT ![k] = FALSE]
                      /\ chan' = [chan EXCEPT ![k] = 0]
                      /\ UNCHANGED parent
freeproc(k) == /\ state' = [state EXCEPT ![k] = "UNUSED"]
               /\ pid' = [pid EXCEPT ![k] = 0]
               /\ parent' = [parent EXCEPT ![k] = NoProc]
               /\ killed' = [killed EXCEPT ![k] = FALSE]
               /\ chan' = [chan EXCEPT ![k] = 0]

(* Memory runs out in allocproc or uvmcopy: the slot is given back. *)
fork_fail(c, s) == /\ At(c, s, "fork_copy")
                   /\ freeproc(child[s])
                   /\ plock' = [plock EXCEPT ![child[s]] = NoCpu]
                   /\ child' = [child EXCEPT ![s] = NoProc]
                   /\ Goto(s, "ret")
                   /\ UNCHANGED <<wlock, run, inSched, wi, nextpid>>

(* The copy is made, with forkret as the child's context: release np->lock. *)
fork_copy_locked(c, s) == /\ At(c, s, "fork_copy")  \* mutant: np->lock kept
                          /\ inSched' = [inSched EXCEPT ![child[s]] = TRUE]
                          /\ pc' = [pc EXCEPT ![s] = "fork_link", ![child[s]] = "user"]
                          /\ UNCHANGED <<table, plock, wlock, run, child, wi, nextpid>>
fork_copy(c, s) == /\ At(c, s, "fork_copy")
                   /\ plock' = [plock EXCEPT ![child[s]] = NoCpu]
                   /\ inSched' = [inSched EXCEPT ![child[s]] = TRUE]
                   /\ pc' = [pc EXCEPT ![s] = "fork_link", ![child[s]] = "user"]
                   /\ UNCHANGED <<table, wlock, run, child, wi, nextpid>>

fork_link(c, s) == /\ At(c, s, "fork_link")
                   /\ wlock = NoProc
                   /\ parent' = [parent EXCEPT ![child[s]] = s]
                   /\ Goto(s, "fork_run")
                   /\ UNCHANGED <<state, pid, killed, chan, plock, wlock, run, inSched, child, wi, nextpid>>

fork_run(c, s) == /\ At(c, s, "fork_run")
                  /\ Free(child[s])
                  /\ state' = [state EXCEPT ![child[s]] = "RUNNABLE"]
                  /\ child' = [child EXCEPT ![s] = NoProc]
                  /\ Goto(s, "ret")
                  /\ UNCHANGED <<pid, parent, killed, chan, plock, wlock, run, inSched, wi, nextpid>>

-----------------------------------------------------------------------------
(* exit *)

Reparented_not(s) == parent  \* mutant: orphans keep their parent
Reparented(s) == [k \in Slots |-> IF parent[k] = s THEN initproc ELSE parent[k]]

(* reparent calls wakeup(initproc) if it finds a child; wakeup(p->parent)   *)
(* follows in any case.                                                     *)
FirstWakeup(s) == IF Children(s) # {} THEN "wake_init" ELSE "wake_parent"

(* Take wait_lock and pass the children to init; wakeups follow. *)
reparent(c, s) == /\ At(c, s, "exit")
                  /\ wlock = NoProc
                  /\ wlock' = s
                  /\ parent' = Reparented(s)
                  /\ Goto(s, FirstWakeup(s))
                  /\ wi' = [wi EXCEPT ![s] = 1]
                  /\ UNCHANGED <<state, pid, killed, chan, plock, run, inSched, child, nextpid>>

NextSlot_beyond(i) == IF i = NPROC + 1 THEN 1 ELSE i + 1  \* mutant: <= &proc[NPROC]
NextSlot(i) == IF i = NPROC THEN 1 ELSE i + 1

(* One iteration of wakeup(ch): slot wi[s], under its lock. *)
wakeup_skips(s, ch) == LET i == wi[s] IN  \* mutant: the loop starts at proc + 1
                       /\ i # s => Free(i)
                       /\ state' = IF i \notin {1, s} /\ state[i] = "SLEEPING" /\ chan[i] = ch
                                   THEN [state EXCEPT ![i] = "RUNNABLE"] ELSE state
                       /\ wi' = [wi EXCEPT ![s] = NextSlot(i)]
wakeup(s, ch) == LET i == wi[s] IN
                 /\ i # s => Free(i)
                 /\ state' = IF i # s /\ state[i] = "SLEEPING" /\ chan[i] = ch
                             THEN [state EXCEPT ![i] = "RUNNABLE"] ELSE state
                 /\ wi' = [wi EXCEPT ![s] = NextSlot(i)]

wakeup_init(c, s) == /\ At(c, s, "wake_init")
                     /\ wakeup(s, initproc)
                     /\ Goto(s, IF wi[s] = NPROC THEN "wake_parent" ELSE "wake_init")
                     /\ UNCHANGED <<pid, parent, killed, chan, plock, wlock, run, inSched, child, nextpid>>

wakeup_parent(c, s) == /\ At(c, s, "wake_parent")
                       /\ wakeup(s, parent[s])
                       /\ Goto(s, IF wi[s] = NPROC THEN "zombie" ELSE "wake_parent")
                       /\ UNCHANGED <<pid, parent, killed, chan, plock, wlock, run, inSched, child, nextpid>>

(* Take p->lock, become a ZOMBIE, release wait_lock, into sched for good. *)
exit_zombie(c, s) == /\ At(c, s, "zombie")
                     /\ EnterSched(c, s, "ZOMBIE")
                     /\ wlock' = NoProc
                     /\ UNCHANGED <<pid, parent, killed, chan, run, locals, nextpid>>

-----------------------------------------------------------------------------
(* wait *)

call_wait(c, s) == /\ Syscall(c, s, "wait")
                   /\ Goto(s, "wait")
                   /\ UNCHANGED <<table, plock, wlock, run, inSched, child, wi, nextpid>>

(* acquire(&wait_lock), on entry and again at the end of sleep. *)
wait_lock(c, s) == /\ At(c, s, "wait")
                   /\ wlock = NoProc
                   /\ wlock' = s
                   /\ Goto(s, "wait_scan")
                   /\ UNCHANGED <<table, plock, run, inSched, child, wi, nextpid>>

Zombies(s) == {k \in Children(s) : state[k] = "ZOMBIE"}

(* The first ZOMBIE child, under its lock, is freed; or copyout of its      *)
(* status fails (init passes no address).                                   *)
wait_reap(c, s, k) == /\ At(c, s, "wait_scan")
                      /\ k \in Zombies(s) /\ \A j \in Zombies(s) : k <= j
                      /\ \A j \in Children(s) : j <= k => Free(j)
                      /\ \/ freeproc(k)
                         \/ s # initproc /\ UNCHANGED table
                      /\ wlock' = NoProc
                      /\ Goto(s, "ret")
                      /\ UNCHANGED <<plock, run, inSched, child, wi, nextpid>>

(* No ZOMBIE child: give up, or go on to sleep(p, &wait_lock). *)
wait_none_unlocks(c, s) == /\ At(c, s, "wait_scan")  \* mutant: wait_lock released before p->lock is taken
                           /\ Zombies(s) = {}
                           /\ \A j \in Children(s) \cup {s} : Free(j)
                           /\ wlock' = NoProc
                           /\ Goto(s, IF Children(s) = {} \/ killed[s] THEN "ret" ELSE "wait_sleep")
                           /\ UNCHANGED <<table, plock, run, inSched, child, wi, nextpid>>
wait_none_keeps(c, s) == /\ At(c, s, "wait_scan")  \* mutant: returns -1 with wait_lock held
                         /\ Zombies(s) = {}
                         /\ \A j \in Children(s) \cup {s} : Free(j)
                         /\ Goto(s, IF Children(s) = {} \/ killed[s] THEN "ret" ELSE "wait_sleep")
                         /\ UNCHANGED <<table, plock, wlock, run, inSched, child, wi, nextpid>>
wait_none(c, s) == /\ At(c, s, "wait_scan")
                   /\ Zombies(s) = {}
                   /\ \A j \in Children(s) \cup {s} : Free(j)
                   /\ IF Children(s) = {} \/ killed[s]
                      THEN /\ wlock' = NoProc
                           /\ Goto(s, "ret")
                      ELSE /\ Goto(s, "wait_sleep")
                           /\ UNCHANGED wlock
                   /\ UNCHANGED <<table, plock, run, inSched, child, wi, nextpid>>

(* sleep(p, &wait_lock): p->lock first, then wait_lock is released. *)
sleep(c, s) == /\ At(c, s, "wait_sleep")
               /\ EnterSched(c, s, "SLEEPING")
               /\ wlock' = NoProc
               /\ chan' = [chan EXCEPT ![s] = s]
               /\ Goto(s, "wait")
               /\ UNCHANGED <<pid, parent, killed, run, child, wi, nextpid>>

-----------------------------------------------------------------------------
(* kill(pid[k]): slot k is where the scan finds the pid, and is changed     *)
(* under its lock.  An UNUSED slot has pid 0, so kill(0) finds one.         *)
kill(c, s, k) == /\ Syscall(c, s, "kill")
                 /\ Free(k)
                 /\ killed' = [killed EXCEPT ![k] = TRUE]
                 /\ state' = IF state[k] = "SLEEPING" THEN [state EXCEPT ![k] = "RUNNABLE"] ELSE state
                 /\ Goto(s, "ret")
                 /\ UNCHANGED <<pid, parent, chan, plock, wlock, run, inSched, child, wi, nextpid>>

-----------------------------------------------------------------------------
(* A step of the system call process s is in. *)
Kernel(c, s) == \/ usertrapret(c, s) \/ usertrap_killed(c, s)
                \/ fork_fail(c, s) \/ fork_copy(c, s) \/ fork_link(c, s) \/ fork_run(c, s)
                \/ reparent(c, s) \/ wakeup_init(c, s) \/ wakeup_parent(c, s) \/ exit_zombie(c, s)
                \/ wait_lock(c, s) \/ wait_none(c, s) \/ sleep(c, s)
                \/ \E k \in Slots : wait_reap(c, s, k)

(* What a user program may do next. *)
User(c, s) == \/ call_wait(c, s) \/ sys_exit(c, s) \/ usertrap_fault(c, s)
              \/ \E k \in Slots : allocproc(c, s, k) \/ kill(c, s, k)

Next == \E c \in CPUs, s \in Slots : \/ scheduler(c, s) \/ sched(c, s) \/ resume(c, s)
                                     \/ yield(c, s) \/ Kernel(c, s) \/ User(c, s)

Spec == Init /\ [][Next]_vars

(* Every scheduler goes round the whole table, so a RUNNABLE process is     *)
(* picked again and again; each CPU has its timer, and interrupts what it   *)
(* runs; a process executes its kernel code between interrupts, and a       *)
(* spinning CPU gets the lock in the end; init.c calls wait() in a loop.    *)
Fairness == /\ \A s \in Slots : /\ SF_vars(\E c \in CPUs : scheduler(c, s))
                                /\ SF_vars(\E c \in CPUs : Kernel(c, s) \/ (s = initproc /\ call_wait(c, s)))
                                /\ WF_vars(\E c \in CPUs : sched(c, s) \/ resume(c, s))
            /\ \A c \in CPUs : SF_vars(\E s \in Slots : yield(c, s))

FairSpec == Spec /\ Fairness

(* struct proc, the locks and the CPUs keep their types; no wakeup loop     *)
(* leaves the table.                                                        *)
TypeOK ==
  /\ state \in [Slots -> {"UNUSED", "USED", "SLEEPING", "RUNNABLE", "RUNNING", "ZOMBIE"}]
  /\ pid \in [Slots -> 0 .. MaxPid + 1]
  /\ parent \in [Slots -> Slots \cup {NoProc}]
  /\ killed \in [Slots -> BOOLEAN]
  /\ chan \in [Slots -> Slots \cup {0}]
  /\ plock \in [Slots -> CPUs \cup {NoCpu}]
  /\ wlock \in Slots \cup {NoProc}
  /\ run \in [CPUs -> Slots \cup {NoProc}]
  /\ inSched \in [Slots -> BOOLEAN]
  /\ pc \in [Slots -> LockFree \cup {"fork_copy", "wake_init", "wake_parent", "zombie",
                                     "wait_scan", "wait_sleep"}]
  /\ child \in [Slots -> Slots \cup {NoProc}]
  /\ wi \in [Slots -> Slots]
  /\ nextpid \in Nat

(* swtch: a process, and so its kernel stack, is executed by at most one    *)
(* CPU, and by none once wait() or fork() has freed it or while it is       *)
(* SLEEPING, RUNNABLE or ZOMBIE with its lock released.                     *)
OneCpuPerProcess ==
  /\ \A c, d \in CPUs : run[c] = run[d] /\ run[c] # NoProc => c = d
  /\ \A c \in CPUs : run[c] # NoProc /\ state[run[c]] # "RUNNING" =>
       plock[run[c]] = c /\ inSched[run[c]]
  /\ \A s \in Slots : state[s] = "RUNNING" => \E c \in CPUs : run[c] = s

(* sched()'s panics, and proc.c:21-24 "must be acquired before any p->lock": *)
(* a process enters the scheduler holding p->lock and nothing else, and     *)
(* spins for wait_lock holding no p->lock.                                  *)
LockDiscipline ==
  \A c \in CPUs : run[c] # NoProc =>
    LET s == run[c]
        held == {k \in Slots : plock[k] = c}
    IN /\ inSched[s] => held = {s} /\ wlock # s
       /\ ~inSched[s] => held = IF pc[s] = "fork_copy" THEN {child[s]} ELSE {}
       /\ wlock = s => pc[s] \in {"wake_init", "wake_parent", "zombie", "wait_scan", "wait_sleep"}

(* exit's wakeups are not lost: with wait_lock free, no process sleeps in   *)
(* wait() while one of its children is a ZOMBIE or it has no child at all.  *)
NoLostWakeup ==
  wlock = NoProc =>
    \A s \in Slots : state[s] = "SLEEPING" => Zombies(s) = {} /\ Children(s) # {}

(* reparent: every process that can run or has exited has a parent that is  *)
(* still able to wait() for it.                                             *)
ParentsLive ==
  \A s \in Slots \ {initproc} : state[s] \notin {"UNUSED", "USED"} =>
    parent[s] # NoProc /\ state[parent[s]] \in {"RUNNABLE", "RUNNING", "SLEEPING"}

(* Live processes have distinct pids, and a freed slot carries nothing of   *)
(* the old process but the killed flag that kill(0) may leave.              *)
FreedIsClean ==
  /\ \A s, t \in Slots : pid[s] = pid[t] /\ pid[s] # 0 => s = t
  /\ \A s \in Slots : state[s] = "UNUSED" <=> pid[s] = 0
  /\ \A s \in Slots : state[s] = "UNUSED" =>
       parent[s] = NoProc /\ chan[s] = 0 /\ Children(s) = {} /\ wlock # s

(* A process that has begun to exit becomes a ZOMBIE, although the other    *)
(* CPUs hold wait_lock and the p->locks its wakeups need now and again; and *)
(* every ZOMBIE that is or becomes a child of init is reaped and its slot   *)
(* freed, as long as init itself lives.  exit, wakeup and wait.             *)
OrphansReaped ==
  [](pc[initproc] # "panic") =>
    \A s \in Slots \ {initproc} :
      pc[s] = "exit" \/ state[s] = "ZOMBIE"
        ~> state[s] = "UNUSED" \/ (state[s] = "ZOMBIE" /\ parent[s] # initproc)

(* The process table, its locks and the CPUs agree: the three above.        *)
SchedulerSound == TypeOK /\ OneCpuPerProcess /\ LockDiscipline

(* A slot is either wholly a process with a parent that can wait for it, or *)
(* wholly free: freeproc and reparent, in exit and wait.                    *)
FamilySound == ParentsLive /\ FreedIsClean
=============================================================================
