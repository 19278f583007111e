--------------------------------- MODULE Log ---------------------------------
(***************************************************************************)
(* kernel/log.c: the write-ahead redo log, with crashes and recovery.      *)
(*                                                                         *)
(* Every access to struct log outside commit() is made under log.lock, so  *)
(* each critical section is one action; commit() runs without the lock and *)
(* is one action per disk write.  A disk write of one block is atomic and  *)
(* synchronous (bwrite waits for the device).  Buffers are reduced to what *)
(* the log needs of kernel/bio.c: cache[b] is the data of the buffer that  *)
(* holds block b (NoBuf when none does) and pin[b] counts the references   *)
(* taken by bpin; a buffer with no pin may be recycled at any time.        *)
(***************************************************************************)
EXTENDS Integers, Sequences, FiniteSets

CONSTANTS Procs,        \* processes making file-system calls
          Blocks,       \* home block numbers
          Values,       \* contents of a block
          Zero,         \* what mkfs fills the log with
          NoBuf,        \* no buffer caches the block
          MAXOPBLOCKS,  \* param.h: blocks begin_op reserves for a call
          LOGSIZE,      \* param.h: MAXOPBLOCKS*3
          nlog,         \* superblock: blocks of the log, header included
          OpWrites      \* distinct blocks a call really writes, at most

ASSUME LogAssumption ==
  /\ IsFiniteSet(Procs)
  /\ Zero \in Values /\ NoBuf \notin Values
  /\ MAXOPBLOCKS \in Nat /\ LOGSIZE \in Nat /\ OpWrites \in Nat
  /\ nlog \in Nat \ {0}
  /\ MAXOPBLOCKS <= LOGSIZE

VARIABLES home,        \* on disk: the blocks' home locations
          head,        \* on disk: the header block, as the sequence block[0..n-1]
          logd,        \* on disk: the log's data blocks
          sys,         \* "up", "panic", or the step of recover_from_log
          lh,          \* log.lh, in memory
          outstanding, \* log.outstanding
          committing,  \* log.committing
          cache, pin,  \* the buffer cache, as far as the log uses it
          pc,          \* where each process is in begin_op .. end_op
          wrote,       \* blocks the current call of each process has logged
          tail         \* loop index of write_log and install_trans

disk == <<home, head, logd>>
vars == <<home, head, logd, sys, lh, outstanding, committing, cache, pin, pc, wrote, tail>>

Recovering == {"read_head", "recover_install", "clear"}
InCommit == {"write_log", "write_head", "install", "erase", "done"}
Slots == 1 .. nlog - 1

(* Memory after a reset. *)
NoCache == [b \in Blocks |-> NoBuf]
NoPins == [b \in Blocks |-> 0]
AllIdle == [p \in Procs |-> "idle"]
NoWrites == [p \in Procs |-> {}]

(* The disk as mkfs leaves it, and a first boot. *)
Init == /\ home \in [Blocks -> Values]
        /\ head = <<>>
        /\ logd = [i \in Slots |-> Zero]
        /\ sys = "read_head"
        /\ lh = <<>> /\ outstanding = 0 /\ committing = FALSE
        /\ cache = NoCache /\ pin = NoPins
        /\ pc = AllIdle /\ wrote = NoWrites /\ tail = 1

------------------------------------------------------------------------------
(* Recovery: initlog, before any process runs. *)

read_head == /\ sys = "read_head"
             /\ lh' = head
             /\ tail' = 1
             /\ sys' = "recover_install"
             /\ UNCHANGED <<disk, outstanding, committing, cache, pin, pc, wrote>>

(* Copy log block number tail to its home, through the destination's buffer. *)
InstallBlock_stuck == /\ home' = [home EXCEPT ![lh[tail]] = logd[tail]]  \* mutant: no tail++
                      /\ cache' = [cache EXCEPT ![lh[tail]] = logd[tail]]
                      /\ UNCHANGED <<head, logd, tail>>
InstallBlock == /\ home' = [home EXCEPT ![lh[tail]] = logd[tail]]
                /\ cache' = [cache EXCEPT ![lh[tail]] = logd[tail]]
                /\ tail' = tail + 1
                /\ UNCHANGED <<head, logd>>

recover_install ==
  /\ sys = "recover_install"
  /\ \/ /\ tail <= Len(lh)
        /\ InstallBlock
        /\ UNCHANGED sys
     \/ /\ tail > Len(lh)
        /\ sys' = "clear"
        /\ UNCHANGED <<disk, cache, tail>>
  /\ UNCHANGED <<lh, outstanding, committing, pin, pc, wrote>>

recover_clear == /\ sys = "clear"
                 /\ lh' = <<>>
                 /\ head' = <<>>
                 /\ sys' = "up"
                 /\ UNCHANGED <<home, logd, outstanding, committing, cache, pin, pc, wrote, tail>>

------------------------------------------------------------------------------
(* The calls of a file-system operation. *)

Reserved(n, ops) == n + ops * MAXOPBLOCKS

(* begin_op may not go on: a commit is running, or this call might exhaust  *)
(* the log.                                                                 *)
MustWait_uncounted == committing \/ Reserved(Len(lh), outstanding) > LOGSIZE  \* mutant: itself not counted
MustWait == committing \/ Reserved(Len(lh), outstanding + 1) > LOGSIZE

(* wakeup(&log): every process asleep in begin_op goes round its loop again. *)
Woken_none(f) == f  \* mutant: wakeup forgotten
Woken(f) == [p \in Procs |-> IF f[p] = "asleep" THEN "begin" ELSE f[p]]

call_begin_op(p) == /\ sys = "up" /\ pc[p] = "idle"
                    /\ pc' = [pc EXCEPT ![p] = "begin"]
                    /\ UNCHANGED <<disk, sys, lh, outstanding, committing, cache, pin, wrote, tail>>

begin_op(p) ==
  /\ sys = "up" /\ pc[p] = "begin"
  /\ IF MustWait
     THEN /\ pc' = [pc EXCEPT ![p] = "asleep"]
          /\ UNCHANGED <<outstanding, wrote>>
     ELSE /\ pc' = [pc EXCEPT ![p] = "op"]
          /\ outstanding' = outstanding + 1
          /\ wrote' = [wrote EXCEPT ![p] = {}]
  /\ UNCHANGED <<disk, sys, lh, committing, cache, pin, tail>>

Panic == /\ sys' = "panic"
         /\ UNCHANGED <<disk, lh, outstanding, committing, cache, pin, pc, wrote, tail>>

LogFull == Len(lh) >= LOGSIZE \/ Len(lh) >= nlog - 1

(* bpin and bunpin. *)
Pinned_not(b) == pin  \* mutant: bpin forgotten
Pinned(b) == [pin EXCEPT ![b] = @ + 1]
Unpinned_twice(b) == [pin EXCEPT ![b] = @ - 2]  \* mutant: bunpin called twice
Unpinned(b) == [pin EXCEPT ![b] = @ - 1]

(* bread(b), an update of its data, log_write(b), brelse(b).  The buffer's  *)
(* sleep lock keeps every other user of b out from bread to brelse.         *)
log_write(p, b, v) ==
  /\ sys = "up" /\ pc[p] = "op"
  /\ Cardinality(wrote[p] \cup {b}) <= OpWrites
  /\ IF LogFull \/ outstanding < 1
     THEN Panic
     ELSE /\ cache' = [cache EXCEPT ![b] = v]
          /\ wrote' = [wrote EXCEPT ![p] = @ \cup {b}]
          /\ IF \E i \in 1 .. Len(lh) : lh[i] = b
             THEN UNCHANGED <<lh, pin>>
             ELSE /\ lh' = Append(lh, b)
                  /\ pin' = Pinned(b)
          /\ UNCHANGED <<disk, sys, outstanding, committing, pc, tail>>

LastOp_always == TRUE  \* mutant: commits although other calls are outstanding
LastOp == outstanding = 1

(* commit() does nothing for an empty transaction. *)
CommitStart_header == IF Len(lh) > 0 THEN "write_head" ELSE "done"  \* mutant: no write_log
CommitStart == IF Len(lh) > 0 THEN "write_log" ELSE "done"

end_op(p) ==
  /\ sys = "up" /\ pc[p] = "op"
  /\ IF committing
     THEN Panic
     ELSE /\ outstanding' = outstanding - 1
          /\ IF LastOp
             THEN /\ committing' = TRUE
                  /\ pc' = [pc EXCEPT ![p] = CommitStart]
                  /\ tail' = 1
             ELSE /\ pc' = [Woken(pc) EXCEPT ![p] = "idle"]
                  /\ UNCHANGED <<committing, tail>>
          /\ UNCHANGED <<disk, sys, lh, cache, pin, wrote>>

------------------------------------------------------------------------------
(* commit(), by the process whose end_op found no other call outstanding. *)

Buffered(b) == IF cache[b] = NoBuf THEN home[b] ELSE cache[b]

write_log(p) ==
  /\ sys = "up" /\ pc[p] = "write_log"
  /\ \/ /\ tail <= Len(lh)
        /\ logd' = [logd EXCEPT ![tail] = Buffered(lh[tail])]
        /\ cache' = [cache EXCEPT ![lh[tail]] = Buffered(lh[tail])]
        /\ tail' = tail + 1
        /\ UNCHANGED pc
     \/ /\ tail > Len(lh)
        /\ pc' = [pc EXCEPT ![p] = "write_head"]
        /\ UNCHANGED <<logd, cache, tail>>
  /\ UNCHANGED <<home, head, sys, lh, outstanding, committing, pin, wrote>>

(* The commit point: the header names the logged blocks. *)
write_head_memory(p) == /\ sys = "up" /\ pc[p] = "write_head"  \* mutant: no bwrite
                        /\ tail' = 1
                        /\ pc' = [pc EXCEPT ![p] = "install"]
                        /\ UNCHANGED <<disk, sys, lh, outstanding, committing, cache, pin, wrote>>
write_head(p) == /\ sys = "up" /\ pc[p] = "write_head"
                 /\ head' = lh
                 /\ tail' = 1
                 /\ pc' = [pc EXCEPT ![p] = "install"]
                 /\ UNCHANGED <<home, logd, sys, lh, outstanding, committing, cache, pin, wrote>>

install_trans(p) ==
  /\ sys = "up" /\ pc[p] = "install"
  /\ \/ /\ tail <= Len(lh)
        /\ InstallBlock
        /\ pin' = Unpinned(lh[tail])
        /\ UNCHANGED pc
     \/ /\ tail > Len(lh)
        /\ pc' = [pc EXCEPT ![p] = "erase"]
        /\ UNCHANGED <<disk, cache, pin, tail>>
  /\ UNCHANGED <<sys, lh, outstanding, committing, wrote>>

(* log.lh.n = 0 and the second write_head. *)
erase(p) == /\ sys = "up" /\ pc[p] = "erase"
            /\ lh' = <<>>
            /\ head' = <<>>
            /\ pc' = [pc EXCEPT ![p] = "done"]
            /\ UNCHANGED <<home, logd, sys, outstanding, committing, cache, pin, wrote, tail>>

(* The end of end_op: committing is cleared and every waiter woken. *)
end_commit_held(p) == /\ sys = "up" /\ pc[p] = "done"  \* mutant: committing stays set
                      /\ pc' = [Woken(pc) EXCEPT ![p] = "idle"]
                      /\ UNCHANGED <<disk, sys, lh, outstanding, committing, cache, pin, wrote, tail>>
end_commit(p) == /\ sys = "up" /\ pc[p] = "done"
                 /\ committing' = FALSE
                 /\ pc' = [Woken(pc) EXCEPT ![p] = "idle"]
                 /\ UNCHANGED <<disk, sys, lh, outstanding, cache, pin, wrote, tail>>

------------------------------------------------------------------------------
(* The environment: the buffer cache, and the power supply. *)

(* Some process reads block b into a buffer. *)
bread(b) == /\ sys = "up" /\ cache[b] = NoBuf
            /\ cache' = [cache EXCEPT ![b] = home[b]]
            /\ UNCHANGED <<disk, sys, lh, outstanding, committing, pin, pc, wrote, tail>>

(* bget recycles the buffer of a block nobody references. *)
recycle(b) == /\ sys = "up" /\ cache[b] # NoBuf /\ pin[b] = 0
              /\ cache' = [cache EXCEPT ![b] = NoBuf]
              /\ UNCHANGED <<disk, sys, lh, outstanding, committing, pin, pc, wrote, tail>>

(* A power failure at any moment: the disk stays, memory is lost. *)
Crash == /\ sys' = "read_head"
         /\ lh' = <<>> /\ outstanding' = 0 /\ committing' = FALSE
         /\ cache' = NoCache /\ pin' = NoPins
         /\ pc' = AllIdle /\ wrote' = NoWrites /\ tail' = 1
         /\ UNCHANGED disk

------------------------------------------------------------------------------
Recover == read_head \/ recover_install \/ recover_clear

Commit(p) == \/ write_log(p)
             \/ write_head(p)
             \/ install_trans(p)
             \/ erase(p)
             \/ end_commit(p)

Next == \/ Recover
        \/ \E p \in Procs : \/ call_begin_op(p)
                            \/ begin_op(p)
                            \/ \E b \in Blocks, v \in Values : log_write(p, b, v)
                            \/ end_op(p)
                            \/ Commit(p)
        \/ \E b \in Blocks : bread(b) \/ recycle(b)
        \/ Crash

(* The kernel runs every runnable process (round robin, timer interrupts),  *)
(* every file-system call is a finite piece of code that reaches end_op,    *)
(* and the boot code runs to its end.                                       *)
Fairness == /\ WF_vars(Recover)
            /\ \A p \in Procs : /\ WF_vars(begin_op(p))
                                /\ WF_vars(end_op(p))
                                /\ WF_vars(Commit(p))

Spec == Init /\ [][Next]_vars
FairSpec == Spec /\ Fairness

------------------------------------------------------------------------------
(* What a reboot would restore: the log's copy of every block the header    *)
(* names, the home location of the others.                                  *)
Logged(b) == {i \in 1 .. Len(head) : head[i] = b}
Recovered == [b \in Blocks |-> IF Logged(b) # {} THEN logd[CHOOSE i \in Logged(b) : TRUE]
                                                 ELSE home[b]]

(* What a system call sees: the buffers over the disk. *)
Visible == IF sys = "up" \/ sys = "panic" THEN [b \in Blocks |-> Buffered(b)] ELSE Recovered

Active == {p \in Procs : pc[p] = "op"}

T == INSTANCE TxDisk WITH durable <- Recovered, memory <- Visible, active <- Active

(* TYPE.  The variables have the shapes of struct log and of the disk.      *)
TypeOK ==
  /\ home \in [Blocks -> Values]
  /\ head \in Seq(Blocks) /\ Len(head) < nlog
  /\ logd \in [Slots -> Values]
  /\ sys \in Recovering \cup {"up", "panic"}
  /\ lh \in Seq(Blocks) /\ Len(lh) < nlog
  /\ outstanding \in Nat /\ committing \in BOOLEAN
  /\ cache \in [Blocks -> Values \cup {NoBuf}]
  /\ pin \in [Blocks -> Nat]
  /\ pc \in [Procs -> {"idle", "begin", "asleep", "op"} \cup InCommit]
  /\ wrote \in [Procs -> SUBSET Blocks]
  /\ tail \in Nat \ {0}

(* log_write's and end_op's panics are unreachable: begin_op admits no more *)
(* calls than the log has room for, and no call runs during a commit.       *)
NoPanic == sys # "panic"

(* log.c:12-16, "only commits when there are no FS system calls active":    *)
(* while some process is in commit(), it is the only one, committing is     *)
(* set, and no process is between begin_op and end_op.                      *)
CommitExcludesOps ==
  sys = "up" =>
    /\ committing <=> \E p \in Procs : pc[p] \in InCommit
    /\ \A p, q \in Procs : pc[p] \in InCommit /\ pc[q] \in InCommit => p = q
    /\ committing => Active = {}
    /\ outstanding = Cardinality(Active)

(* bpin in log_write, bunpin in install_trans: a buffer that is newer than  *)
(* the disk cannot be recycled, and no pin outlives its transaction.        *)
DirtyIsPinned ==
  sys = "up" =>
    /\ \A b \in Blocks : cache[b] \notin {NoBuf, home[b]} => pin[b] > 0
    /\ lh = <<>> => \A b \in Blocks : pin[b] = 0

(* No wakeup(&log) is lost: a process asleep in begin_op always has a       *)
(* running call or a commit in front of it, whose end will wake it.         *)
NoStrandedSleeper ==
  sys = "up" /\ (\E p \in Procs : pc[p] = "asleep") => committing \/ outstanding > 0

(* The write-ahead rule: a home location changes only to the contents the   *)
(* log holds for it, under a header that is already on disk.                *)
WriteAhead ==
  [][\A b \in Blocks : home'[b] # home[b] =>
        /\ head' = head
        /\ \E i \in 1 .. Len(head) : head[i] = b /\ home'[b] = logd[i]]_vars

(* The log implements the transactional disk: whatever the interleaving and *)
(* wherever the power fails, recovery included, the calls grouped in a      *)
(* commit become durable together or not at all.                            *)
CrashAtomic == T!Spec

(* A process asleep in begin_op is woken. *)
SleeperWakes == \A p \in Procs : pc[p] = "asleep" ~> pc[p] # "asleep"

(* A commit that is not cut short by a crash ends, and recovery ends once   *)
(* crashes do.                                                              *)
CommitFinishes == committing ~> ~committing
RecoveryFinishes == <>[][~Crash]_vars => <>[](sys = "up")

(* Whoever waits for the log gets on: the three above. *)
LogProgress == SleeperWakes /\ CommitFinishes /\ RecoveryFinishes
=============================================================================
