--------------------------------- MODULE Bio ---------------------------------
(***************************************************************************)
(* kernel/bio.c with the sleep locks of its buffers (kernel/sleeplock.c).  *)
(* bget's scan and the reference counts change under bcache.lock, one      *)
(* action each; the buffer lock is taken afterwards, in an action of its   *)
(* own.  Processes read blocks, change them, and either write them through *)
(* (bwrite) or leave them to the log (bpin), which later writes and unpins *)
(* them, as log_write and install_trans do.                                *)
(***************************************************************************)
EXTENDS Integers, Sequences, FiniteSets, SequencesExt

CONSTANTS Procs, Blocks, Values,
          NoProc, NoBlock,
          NBUF,      \* buffers
          MaxPins    \* the log pins at most so many

ASSUME BioAssumption == /\ NoProc \notin Procs /\ NoBlock \notin Blocks /\ IsFiniteSet(Procs)
                        /\ NBUF \in Nat \ {0} /\ MaxPins \in Nat

Bufs == 1 .. NBUF

VARIABLES lru,       \* the list from bcache.head.next to bcache.head.prev
          blockno, valid, refcnt, data,  \* struct buf
          holder,    \* buf.lock: the process that has it
          disk,
          pinned,    \* buffers the log holds a pin on
          pc, mine,  \* each process, and the buffer bget gave it
          panicked

vars == <<lru, blockno, valid, refcnt, data, holder, disk, pinned, pc, mine, panicked>>
buffers == <<lru, blockno, valid, refcnt>>

(* binit, and a first boot. *)
Init == /\ lru = [k \in Bufs |-> NBUF + 1 - k]
        /\ blockno = [k \in Bufs |-> NoBlock]
        /\ valid = [k \in Bufs |-> FALSE]
        /\ refcnt = [k \in Bufs |-> 0]
        /\ disk \in [Blocks -> Values]
        /\ data \in [Bufs -> Values] /\ \A j, k \in Bufs : data[j] = data[k]
        /\ holder = [k \in Bufs |-> NoProc]
        /\ pinned = {}
        /\ pc = [p \in Procs |-> "idle"]
        /\ mine = [p \in Procs |-> 1]
        /\ panicked = FALSE

(* p runs, and has got this far; a panic stops everybody. *)
At(p, l) == ~panicked /\ pc[p] = l
Goto(p, l) == pc' = [pc EXCEPT ![p] = l]
Cached_valid(b) == {k \in Bufs : blockno[k] = b /\ valid[k]}  \* mutant: also asks for valid
Cached(b) == {k \in Bufs : blockno[k] = b}

(* Position of the buffer to recycle: the unused one nearest the tail. *)
Unused == {j \in 1 .. NBUF : refcnt[lru[j]] = 0}
Victim == lru[CHOOSE j \in Unused : \A k \in Unused : j >= k]

(* bget, up to the release of bcache.lock. *)
bget_hit(p, b) == /\ At(p, "idle") /\ Cached(b) # {}
                  /\ LET k == CHOOSE k \in Cached(b) : TRUE IN
                     /\ refcnt' = [refcnt EXCEPT ![k] = @ + 1]
                     /\ mine' = [mine EXCEPT ![p] = k]
                  /\ Goto(p, "lock")
                  /\ UNCHANGED <<lru, blockno, valid, data, holder, disk, pinned, panicked>>

Recycle_valid(k, b) == /\ blockno' = [blockno EXCEPT ![k] = b]  \* mutant: valid = 0 forgotten
                       /\ refcnt' = [refcnt EXCEPT ![k] = 1]
                       /\ UNCHANGED valid
Recycle(k, b) == /\ blockno' = [blockno EXCEPT ![k] = b]
                 /\ valid' = [valid EXCEPT ![k] = FALSE]
                 /\ refcnt' = [refcnt EXCEPT ![k] = 1]

bget_miss(p, b) == /\ At(p, "idle") /\ Cached(b) = {} /\ Unused # {}
                   /\ Recycle(Victim, b)
                   /\ mine' = [mine EXCEPT ![p] = Victim]
                   /\ Goto(p, "lock")
                   /\ UNCHANGED <<lru, data, holder, disk, pinned, panicked>>

(* "bget: no buffers" *)
bget_panic(p, b) == /\ At(p, "idle") /\ Cached(b) = {} /\ Unused = {}
                    /\ panicked' = TRUE
                    /\ UNCHANGED <<buffers, data, holder, disk, pinned, pc, mine>>

(* acquiresleep: under lk->lk, take the lock or go to sleep. *)
acquiresleep(p) == /\ At(p, "lock")
                   /\ IF holder[mine[p]] = NoProc
                      THEN /\ holder' = [holder EXCEPT ![mine[p]] = p]
                           /\ Goto(p, IF valid[mine[p]] THEN "use" ELSE "read")
                      ELSE /\ Goto(p, "asleep")
                           /\ UNCHANGED holder
                   /\ UNCHANGED <<buffers, data, disk, pinned, mine, panicked>>

(* kill() makes a sleeping process runnable; the loop of acquiresleep looks  *)
(* at the lock again.                                                       *)
kill(p) == /\ At(p, "asleep")
           /\ Goto(p, "lock")
           /\ UNCHANGED <<buffers, data, holder, disk, pinned, mine, panicked>>

(* bread: virtio_disk_rw(b, 0) and b->valid = 1. *)
bread(p) == /\ At(p, "read")
            /\ data' = [data EXCEPT ![mine[p]] = disk[blockno[mine[p]]]]
            /\ valid' = [valid EXCEPT ![mine[p]] = TRUE]
            /\ Goto(p, "use")
            /\ UNCHANGED <<lru, blockno, refcnt, holder, disk, pinned, mine, panicked>>

(* The caller changes the buffer; unless the log already has it, it must    *)
(* write it through or have the log pin it before brelse.                   *)
modify(p, v) == /\ At(p, "use")
                /\ data' = [data EXCEPT ![mine[p]] = v]
                /\ Goto(p, IF mine[p] \in pinned THEN "use" ELSE "dirty")
                /\ UNCHANGED <<buffers, holder, disk, pinned, mine, panicked>>

bwrite(p) == /\ At(p, "use") \/ At(p, "dirty")
             /\ disk' = [disk EXCEPT ![blockno[mine[p]]] = data[mine[p]]]
             /\ Goto(p, "written")
             /\ UNCHANGED <<buffers, data, holder, pinned, mine, panicked>>

bpin_uncounted(p) == /\ At(p, "dirty") /\ Cardinality(pinned) < MaxPins  \* mutant: refcnt++ forgotten
                     /\ pinned' = pinned \cup {mine[p]}
                     /\ Goto(p, "use")
                     /\ UNCHANGED <<buffers, data, holder, disk, mine, panicked>>
bpin(p) == /\ At(p, "dirty") /\ Cardinality(pinned) < MaxPins
           /\ refcnt' = [refcnt EXCEPT ![mine[p]] = @ + 1]
           /\ pinned' = pinned \cup {mine[p]}
           /\ Goto(p, "use")
           /\ UNCHANGED <<lru, blockno, valid, data, holder, disk, mine, panicked>>

(* install_trans: only right after bwrite. *)
bunpin_leaks(p) == /\ At(p, "written") /\ mine[p] \in pinned  \* mutant: refcnt-- forgotten
                   /\ pinned' = pinned \ {mine[p]}
                   /\ UNCHANGED <<buffers, data, holder, disk, pc, mine, panicked>>
bunpin(p) == /\ At(p, "written") /\ mine[p] \in pinned
             /\ refcnt' = [refcnt EXCEPT ![mine[p]] = @ - 1]
             /\ pinned' = pinned \ {mine[p]}
             /\ UNCHANGED <<lru, blockno, valid, data, holder, disk, pc, mine, panicked>>

(* brelse: releasesleep wakes every process asleep on the buffer ...        *)
Woken_none(k) == pc  \* mutant: wakeup forgotten
Woken(k) == [q \in Procs |-> IF pc[q] = "asleep" /\ mine[q] = k THEN "lock" ELSE pc[q]]
releasesleep(p) == /\ At(p, "use") \/ At(p, "written")
                   /\ holder' = [holder EXCEPT ![mine[p]] = NoProc]
                   /\ pc' = [Woken(mine[p]) EXCEPT ![p] = "release"]
                   /\ UNCHANGED <<buffers, data, disk, pinned, mine, panicked>>

(* ... and then the reference is dropped under bcache.lock; an unused       *)
(* buffer moves to the head of the list.                                    *)
Position(s, k) == CHOOSE j \in 1 .. Len(s) : s[j] = k
MoveToFront_linked(s, k) == <<k>> \o s  \* mutant: not unlinked first
MoveToFront(s, k) == <<k>> \o RemoveAt(s, Position(s, k))
brelse(p) == /\ At(p, "release")
             /\ refcnt' = [refcnt EXCEPT ![mine[p]] = @ - 1]
             /\ lru' = IF refcnt[mine[p]] = 1 THEN MoveToFront(lru, mine[p]) ELSE lru
             /\ Goto(p, "idle")
             /\ UNCHANGED <<blockno, valid, data, holder, disk, pinned, mine, panicked>>

-----------------------------------------------------------------------------
Next == \E p \in Procs : \/ \E b \in Blocks : bget_hit(p, b) \/ bget_miss(p, b) \/ bget_panic(p, b)
                         \/ acquiresleep(p) \/ kill(p) \/ bread(p) \/ bwrite(p) \/ bpin(p) \/ bunpin(p)
                         \/ releasesleep(p) \/ brelse(p)
                         \/ \E v \in Values : modify(p, v)

Spec == Init /\ [][Next]_vars

-----------------------------------------------------------------------------
Holding == {"use", "dirty", "written"}

(* The current contents of a block: its buffer's if that is valid. *)
Contents == [b \in Blocks |-> IF \E k \in Cached(b) : valid[k]
                              THEN data[CHOOSE k \in Cached(b) : valid[k]] ELSE disk[b]]
User == [b \in Blocks |-> IF \E p \in Procs : pc[p] \in Holding /\ blockno[mine[p]] = b
                          THEN CHOOSE p \in Procs : pc[p] \in Holding /\ blockno[mine[p]] = b
                          ELSE NoProc]
B == INSTANCE BlockStore WITH contents <- Contents, user <- User

(* struct buf and the list of bcache keep their types: the list always      *)
(* holds every buffer exactly once.                                         *)
TypeOK ==
  /\ lru \in [1 .. NBUF -> Bufs] /\ IsInjective(lru)
  /\ blockno \in [Bufs -> Blocks \cup {NoBlock}]
  /\ valid \in [Bufs -> BOOLEAN] /\ refcnt \in [Bufs -> Nat] /\ data \in [Bufs -> Values]
  /\ holder \in [Bufs -> Procs \cup {NoProc}]
  /\ disk \in [Blocks -> Values] /\ pinned \subseteq Bufs
  /\ pc \in [Procs -> Holding \cup {"idle", "lock", "asleep", "read", "release"}]
  /\ mine \in [Procs -> Bufs] /\ panicked \in BOOLEAN

(* bget never makes a second buffer for a block. *)
OneBufferPerBlock ==
  \A j, k \in Bufs : blockno[j] = blockno[k] /\ blockno[j] # NoBlock => j = k

(* refcnt counts exactly the processes between bget and brelse and the      *)
(* log's pin, so that a buffer is recycled when and only when nobody needs  *)
(* it.                                                                      *)
RefcntExact ==
  \A k \in Bufs : refcnt[k] = Cardinality({p \in Procs : pc[p] # "idle" /\ mine[p] = k})
                              + (IF k \in pinned THEN 1 ELSE 0)

(* sleeplock: a process asleep on a buffer has a holder to wait for.        *)
SleeperHasHolder == \A p \in Procs : pc[p] = "asleep" => holder[mine[p]] # NoProc

(* The cache is invisible: readers and writers of all processes see one     *)
(* current contents per block, one user at a time, whatever is recycled,    *)
(* reread, written through or left to the log meanwhile.                    *)
IsStore == B!Spec

(* bget panics ("bget: no buffers") only when every buffer really is in use *)
(* by a process of its own or by the log: never with as many buffers as     *)
(* there are processes and pins, since the caller itself holds none.        *)
PanicJustified ==
  panicked => Cardinality({p \in Procs : pc[p] # "idle"}) + Cardinality(pinned) >= NBUF

(* The buffers' books agree, whatever is recycled: one buffer for a block,  *)
(* exact counts, no sleeper left behind, no panic without need.  kernel/    *)
(* bio.c, bget and brelse.                                                  *)
BuffersExact == TypeOK /\ OneBufferPerBlock /\ RefcntExact /\ SleeperHasHolder /\ PanicJustified
=============================================================================
