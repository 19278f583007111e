-------------------------------- MODULE Pipe --------------------------------
(***************************************************************************)
(* kernel/pipe.c: one pipe, from pipealloc to kfree, shared by processes   *)
(* that read, write, pass their descriptors on with fork, close them and   *)
(* are killed.  pi->lock is held from acquire to release or sleep, a step  *)
(* of the loops of pipewrite and piperead is an action, and so are the     *)
(* last fileclose of an end and the pipeclose that follows it.             *)
(***************************************************************************)
EXTENDS Integers, Sequences, FiniteSets

CONSTANTS Procs,
          Creator,   \* the process that calls pipe()
          NoProc,
          Bytes,
          PIPESIZE,  \* capacity of the ring
          Wrap,      \* 2^32: nread and nwrite are uint
          MaxN,      \* bound on the n of read and write
          Killable   \* processes that kill may hit

ASSUME PipeAssumption ==
  /\ Creator \in Procs /\ NoProc \notin Procs /\ Killable \subseteq Procs
  /\ PIPESIZE \in Nat \ {0} /\ MaxN \in Nat
  /\ Wrap \in Nat /\ Wrap > PIPESIZE /\ Wrap % PIPESIZE = 0

VARIABLES data, nread, nwrite, readopen, writeopen,  \* struct pipe
          freed,     \* the page has been given back
          lock,      \* holder of pi->lock
          ends,      \* ends[p]: the ends process p has descriptors for
          pc, left,  \* the system call of each process, and its n - i
          ch,        \* the byte piperead took last
          killed

vars == <<data, nread, nwrite, readopen, writeopen, freed, lock, ends, pc, left, ch, killed>>
pipe == <<data, nread, nwrite, readopen, writeopen, freed>>

Empty == nread = nwrite
Full_late == nwrite = (nread + PIPESIZE + 1) % Wrap  \* mutant: off by one
Full == nwrite = (nread + PIPESIZE) % Wrap
Inc(k) == (k + 1) % Wrap
ReadIndex_early == Inc(nread) % PIPESIZE  \* mutant: ++nread for nread++
ReadIndex == nread % PIPESIZE

(* pipealloc has succeeded; no byte has been stored. *)
Init == /\ data \in [0 .. PIPESIZE - 1 -> Bytes]
        /\ nread = 0 /\ nwrite = 0
        /\ readopen = TRUE /\ writeopen = TRUE /\ freed = FALSE
        /\ lock = NoProc
        /\ ends = [p \in Procs |-> IF p = Creator THEN {"r", "w"} ELSE {}]
        /\ pc = [p \in Procs |-> "user"]
        /\ left = [p \in Procs |-> 0]
        /\ ch \in Bytes
        /\ killed = [p \in Procs |-> FALSE]

Goto(p, l) == pc' = [pc EXCEPT ![p] = l]

(* wakeup(chan): the sleepers are about to take pi->lock again. *)
WakeReaders(f) == [p \in Procs |-> IF f[p] = "r_asleep" THEN "r_lock" ELSE f[p]]
WakeWriters_none(f) == f  \* mutant: wakeup(&pi->nwrite) forgotten
WakeWriters(f) == [p \in Procs |-> IF f[p] = "w_asleep" THEN "w_lock" ELSE f[p]]

Acquire(p, from, to) == /\ pc[p] = from /\ lock = NoProc
                        /\ lock' = p
                        /\ Goto(p, to)

(* Release pi->lock and return, after the wakeups that made f of pc. *)
Return(p, f) == /\ pc' = [f EXCEPT ![p] = "user"]
                /\ left' = [left EXCEPT ![p] = 0]
                /\ lock' = NoProc

-----------------------------------------------------------------------------
(* pipewrite *)

sys_write(p, k) == /\ pc[p] = "user" /\ ~killed[p] /\ "w" \in ends[p]
                   /\ Goto(p, "w_lock")
                   /\ left' = [left EXCEPT ![p] = k]
                   /\ UNCHANGED <<pipe, lock, ends, ch, killed>>

pipewrite_lock(p) == /\ Acquire(p, "w_lock", "w_loop")
                     /\ UNCHANGED <<pipe, ends, left, ch, killed>>

WriteEnds(p) == readopen = FALSE \/ killed[p]

(* All bytes stored, or copyin failed: wake the readers and return i. *)
pipewrite_done(p) == /\ pc[p] = "w_loop"
                     /\ left[p] > 0 => ~WriteEnds(p) /\ ~Full
                     /\ Return(p, WakeReaders(pc))
                     /\ UNCHANGED <<pipe, ends, ch, killed>>

(* return -1 *)
pipewrite_abort(p) == /\ pc[p] = "w_loop" /\ left[p] > 0 /\ WriteEnds(p)
                      /\ Return(p, pc)
                      /\ UNCHANGED <<pipe, ends, ch, killed>>

pipewrite_full(p) == /\ pc[p] = "w_loop" /\ left[p] > 0 /\ ~WriteEnds(p) /\ Full
                     /\ pc' = [WakeReaders(pc) EXCEPT ![p] = "w_asleep"]
                     /\ lock' = NoProc
                     /\ UNCHANGED <<pipe, ends, left, ch, killed>>

pipewrite_byte(p, b) == /\ pc[p] = "w_loop" /\ left[p] > 0 /\ ~WriteEnds(p) /\ ~Full
                        /\ data' = [data EXCEPT ![nwrite % PIPESIZE] = b]
                        /\ nwrite' = Inc(nwrite)
                        /\ left' = [left EXCEPT ![p] = @ - 1]
                        /\ UNCHANGED <<nread, readopen, writeopen, freed, lock, ends, pc, ch, killed>>

-----------------------------------------------------------------------------
(* piperead *)

sys_read(p, k) == /\ pc[p] = "user" /\ ~killed[p] /\ "r" \in ends[p]
                  /\ Goto(p, "r_lock")
                  /\ left' = [left EXCEPT ![p] = k]
                  /\ UNCHANGED <<pipe, lock, ends, ch, killed>>

piperead_lock(p) == /\ Acquire(p, "r_lock", "r_wait")
                    /\ UNCHANGED <<pipe, ends, left, ch, killed>>

(* Nothing to read, and more may come: give up if killed, else sleep. *)
ReadWaits_eof == Empty  \* mutant: end of file not noticed
ReadWaits == Empty /\ writeopen

piperead_sleep(p) == /\ pc[p] = "r_wait" /\ ReadWaits
                     /\ IF killed[p] THEN Return(p, pc)
                        ELSE /\ Goto(p, "r_asleep")
                             /\ lock' = NoProc
                             /\ UNCHANGED left
                     /\ UNCHANGED <<pipe, ends, ch, killed>>

piperead_copy(p) == /\ pc[p] = "r_wait" /\ ~ReadWaits
                    /\ Goto(p, "r_copy")
                    /\ UNCHANGED <<pipe, lock, ends, left, ch, killed>>

(* One byte; when copyout fails it is lost, and the call ends. *)
piperead_byte(p) == /\ pc[p] = "r_copy" /\ left[p] > 0 /\ ~Empty
                    /\ ch' = data[ReadIndex]
                    /\ nread' = Inc(nread)
                    /\ \/ /\ left' = [left EXCEPT ![p] = @ - 1]
                          /\ UNCHANGED <<pc, lock>>
                       \/ Return(p, WakeWriters(pc))
                    /\ UNCHANGED <<data, nwrite, readopen, writeopen, freed, ends, killed>>

piperead_done(p) == /\ pc[p] = "r_copy" /\ (left[p] = 0 \/ Empty)
                    /\ Return(p, WakeWriters(pc))
                    /\ UNCHANGED <<pipe, ends, ch, killed>>

-----------------------------------------------------------------------------
(* Descriptors. *)

(* fork: a process that has none of the pipe's descriptors gets its         *)
(* parent's.                                                                *)
fork(p, q) == /\ pc[p] = "user" /\ ~killed[p] /\ ends[p] # {}
              /\ ends[q] = {} /\ pc[q] = "user" /\ ~killed[q]
              /\ ends' = [ends EXCEPT ![q] = ends[p]]
              /\ UNCHANGED <<pipe, lock, pc, left, ch, killed>>

(* fileclose, by close or exit: the last reference to an end is dropped     *)
(* under ftable.lock, pipeclose follows later.                              *)
LastRef(p, e) == \A q \in Procs \ {p} : e \notin ends[q]
Closing(e) == IF e = "r" THEN "r_close" ELSE "w_close"
fileclose(p, e) == /\ pc[p] = "user" /\ e \in ends[p]
                   /\ ends' = [ends EXCEPT ![p] = @ \ {e}]
                   /\ Goto(p, IF LastRef(p, e) THEN Closing(e) ELSE "user")
                   /\ UNCHANGED <<pipe, lock, left, ch, killed>>

FreePipe_either == readopen' = FALSE \/ writeopen' = FALSE  \* mutant: || for &&
FreePipe == readopen' = FALSE /\ writeopen' = FALSE

pipeclose(p) == /\ lock = NoProc
                /\ \/ /\ pc[p] = "w_close"
                      /\ writeopen' = FALSE /\ UNCHANGED readopen
                      /\ pc' = [WakeReaders(pc) EXCEPT ![p] = "user"]
                   \/ /\ pc[p] = "r_close"
                      /\ readopen' = FALSE /\ UNCHANGED writeopen
                      /\ pc' = [WakeWriters(pc) EXCEPT ![p] = "user"]
                /\ freed' = FreePipe
                /\ UNCHANGED <<data, nread, nwrite, lock, ends, left, ch, killed>>

(* kill: the victim is woken, wherever it sleeps. *)
kill(p) == /\ p \in Killable /\ ~killed[p]
           /\ killed' = [killed EXCEPT ![p] = TRUE]
           /\ Goto(p, CASE pc[p] = "r_asleep" -> "r_lock"
                        [] pc[p] = "w_asleep" -> "w_lock"
                        [] OTHER -> pc[p])
           /\ UNCHANGED <<pipe, lock, ends, left, ch>>

-----------------------------------------------------------------------------
pipewrite(p) == \/ pipewrite_lock(p) \/ pipewrite_done(p) \/ pipewrite_abort(p) \/ pipewrite_full(p)
                \/ \E b \in Bytes : pipewrite_byte(p, b)
piperead(p) == \/ piperead_lock(p) \/ piperead_sleep(p) \/ piperead_copy(p)
               \/ piperead_byte(p) \/ piperead_done(p)

Next == \E p \in Procs : \/ \E k \in 1 .. MaxN : sys_write(p, k) \/ sys_read(p, k)
                         \/ pipewrite(p) \/ piperead(p) \/ pipeclose(p) \/ kill(p)
                         \/ \E q \in Procs : fork(p, q)
                         \/ \E e \in {"r", "w"} : fileclose(p, e)

Spec == Init /\ [][Next]_vars

-----------------------------------------------------------------------------
(* The bytes in the ring, oldest first. *)
Count == (nwrite - nread + Wrap) % Wrap
Contents == [k \in 1 .. Count |-> data[(nread + k - 1) % PIPESIZE]]

Q == INSTANCE ByteQueue WITH Capacity <- PIPESIZE, queue <- Contents, taken <- ch,
                             readers <- readopen, writers <- writeopen

(* struct pipe keeps its type, and nwrite never runs more than PIPESIZE     *)
(* ahead of nread, whatever the counters' wrap.                             *)
TypeOK ==
  /\ data \in [0 .. PIPESIZE - 1 -> Bytes] /\ ch \in Bytes
  /\ nread \in 0 .. Wrap - 1 /\ nwrite \in 0 .. Wrap - 1 /\ Count <= PIPESIZE
  /\ readopen \in BOOLEAN /\ writeopen \in BOOLEAN /\ freed \in BOOLEAN
  /\ lock \in Procs \cup {NoProc}
  /\ ends \in [Procs -> SUBSET {"r", "w"}]
  /\ pc \in [Procs -> {"user", "w_lock", "w_loop", "w_asleep", "w_close",
                       "r_lock", "r_wait", "r_copy", "r_asleep", "r_close"}]
  /\ left \in [Procs -> 0 .. MaxN]
  /\ killed \in [Procs -> BOOLEAN]

(* The pipe is a queue of bytes: across wrapping counters, several readers  *)
(* and writers, sleeping, closing and kills, bytes come out once each, in   *)
(* the order they went in, and never more than PIPESIZE are inside.         *)
IsQueue == Q!Spec

(* pipeclose frees the page once, when nobody can reach it any more: no     *)
(* process has a descriptor of it or is anywhere in pipe.c.                 *)
NoUseAfterFree ==
  freed => \A p \in Procs : ends[p] = {} /\ pc[p] = "user"

(* struct pipe is sound as long as it can be reached: the first two above.  *)
PipeSound == TypeOK /\ NoUseAfterFree

(* Every wakeup of pipewrite, piperead and pipeclose arrives: once the lock *)
(* is free, a writer asleep has no room and a reader left (pipe.c:88,       *)
(* "pipewrite-full"), and a reader asleep has a writer left and nothing to  *)
(* read (pipe.c:113, "pipe-empty").  Only a writer that was killed half way *)
(* leaves bytes behind without waking the readers (pipe.c:84-87).           *)
WakeupsArrive ==
  lock = NoProc => \A p \in Procs :
    /\ pc[p] = "w_asleep" => Full /\ readopen
    /\ pc[p] = "r_asleep" => writeopen /\ (Empty \/ \E q \in Procs : killed[q])
=============================================================================
