----------------------------- MODULE VirtioDisk ------------------------------
(***************************************************************************)
(* kernel/virtio_disk.c and the device it drives.  vdisk_lock is explicit,  *)
(* because the device runs while a process or the interrupt handler holds   *)
(* it.  A process transfers one buffer at a time, so the buffer is named by *)
(* the process.  The ring indices are uint16 in the code: here they count   *)
(* modulo Wrap, a multiple of RING as 2^16 is of NUM.                       *)
(***************************************************************************)
EXTENDS Integers, FiniteSets

CONSTANTS Procs, Blocks, Values,
          Handler, Nobody,  \* who else may hold vdisk_lock; nobody
          NoBuf,            \* info[].b = 0
          NoReq,            \* no request: ops[] as virtio_disk_init leaves it
          Writes,           \* the values of the argument write: 0, 1 or both
          NUM,              \* descriptors
          RING,             \* entries of each ring: NUM in the code; fewer only makes it
                            \* more likely that an entry is overwritten too early
          Wrap

ASSUME VirtioAssumption == /\ NUM \in Nat \ {0} /\ RING \in 1 .. NUM /\ Wrap \in Nat \ {0} /\ Wrap % RING = 0
                           /\ {Handler, Nobody, NoBuf} \cap Procs = {}
                           /\ Writes \subseteq BOOLEAN

Descs == 0 .. NUM - 1
Slots == 0 .. RING - 1
None == NUM   \* no next descriptor: VRING_DESC_F_NEXT is not set

VARIABLES
  free, desc, ops, info,              \* disk.free, .desc, .ops, .info
  availRing, availIdx,                \* the driver's ring
  usedRing, usedIdx,                  \* the device's ring
  used_idx,                           \* disk.used_idx, how far the handler got
  lock,                               \* disk.vdisk_lock
  pc, head, req, mem, busy,           \* each call: idx[0], its request, b->data, b->disk
  seen, inflight, irq, disk,          \* the device: avail entries taken, chains in work
  panicked

driver == <<free, desc, ops>>
device == <<seen, inflight, disk>>
vars == <<driver, info, availRing, availIdx, usedRing, usedIdx, used_idx, lock,
          pc, head, req, mem, busy, device, irq, panicked>>

Blank == [to |-> "none", of |-> None, next |-> None]
Request == [write : Writes, block : Blocks]

(* virtio_disk_init: all descriptors free, memset of the rings to 0. *)
Init == /\ free = Descs
        /\ desc = [d \in Descs |-> Blank]
        /\ ops = [d \in Descs |-> NoReq]
        /\ info = [d \in Descs |-> [b |-> NoBuf, status |-> 0]]
        /\ availRing = [k \in Slots |-> 0] /\ availIdx = 0
        /\ usedRing = [k \in Slots |-> 0] /\ usedIdx = 0 /\ used_idx = 0
        /\ lock = Nobody
        /\ pc = [p \in Procs |-> "idle"] /\ head = [p \in Procs |-> 0]
        /\ req = [p \in Procs |-> NoReq]
        /\ mem \in [Procs -> Values]
        /\ busy = [p \in Procs |-> FALSE]
        /\ seen = 0 /\ inflight = {} /\ irq = FALSE
        /\ disk \in [Blocks -> Values]
        /\ panicked = FALSE

Inc_unbounded(i) == i + 1  \* mutant: the index is not a uint16
Inc(i) == (i + 1) % Wrap

(* p runs, and has got this far; a panic stops the kernel, not the device.  *)
At(p, l) == ~panicked /\ pc[p] = l

(* bread or bwrite calls the driver on the buffer it has locked. *)
call(p, r, v) == /\ At(p, "idle")
                 /\ r.write \/ v = mem[p]
                 /\ req' = [req EXCEPT ![p] = r]
                 /\ mem' = [mem EXCEPT ![p] = v]
                 /\ pc' = [pc EXCEPT ![p] = "alloc"]
                 /\ UNCHANGED <<driver, info, availRing, availIdx, usedRing, usedIdx, used_idx, lock,
                                head, busy, device, irq, panicked>>

(* wakeup(&disk.free[0]) *)
WakeAlloc_none == pc  \* mutant: no wakeup in free_desc
WakeAlloc == [q \in Procs |-> IF pc[q] = "nodesc" THEN "alloc" ELSE pc[q]]

(* alloc3_desc finds the three lowest free descriptors, in this order. *)
Lowest(S) == CHOOSE d \in S : \A e \in S : d <= e
Second(S) == Lowest(S \ {Lowest(S)})
Third(S) == Lowest(S \ {Lowest(S), Second(S)})

(* alloc3_desc fails: what it took it frees again, one wakeup each, and     *)
(* sleep releases the lock.                                                 *)
rw_nodesc_spins(p) == /\ At(p, "alloc") /\ lock \in {Nobody, p}  \* mutant: tries again at once, lock held
                      /\ Cardinality(free) < 3
                      /\ lock' = p
                      /\ UNCHANGED <<driver, info, availRing, availIdx, usedRing, usedIdx, used_idx,
                                     pc, head, req, mem, busy, device, irq, panicked>>
rw_nodesc(p) == /\ At(p, "alloc") /\ lock = Nobody
                /\ Cardinality(free) < 3
                /\ pc' = [(IF free = {} THEN pc ELSE WakeAlloc) EXCEPT ![p] = "nodesc"]
                /\ desc' = [d \in Descs |-> IF d \in free THEN Blank ELSE desc[d]]
                /\ UNCHANGED <<free, ops, info, availRing, availIdx, usedRing, usedIdx, used_idx, lock,
                               head, req, mem, busy, device, irq, panicked>>

(* Descriptors formatted, info recorded, the head put into the avail ring.  *)
rw_fill(p) ==
  /\ At(p, "alloc") /\ lock = Nobody
  /\ Cardinality(free) >= 3
  /\ LET d0 == Lowest(free)
         d1 == Second(free)
         d2 == Third(free) IN
     /\ free' = free \ {d0, d1, d2}
     /\ ops' = [ops EXCEPT ![d0] = req[p]]
     /\ desc' = [desc EXCEPT ![d0] = [to |-> "ops", of |-> d0, next |-> d1],
                             ![d1] = [to |-> "data", of |-> p, next |-> d2],
                             ![d2] = [to |-> "status", of |-> d0, next |-> None]]
     /\ info' = [info EXCEPT ![d0] = [b |-> p, status |-> 255]]
     /\ availRing' = [availRing EXCEPT ![availIdx % RING] = d0]
     /\ head' = [head EXCEPT ![p] = d0]
  /\ busy' = [busy EXCEPT ![p] = TRUE]
  /\ lock' = p
  /\ pc' = [pc EXCEPT ![p] = "publish"]
  /\ UNCHANGED <<availIdx, usedRing, usedIdx, used_idx, req, mem, device, irq, panicked>>

(* avail->idx += 1, notify, and sleep(b): b->disk is still 1, since the     *)
(* handler needs the lock.                                                  *)
rw_publish(p) == /\ At(p, "publish")
                 /\ availIdx' = Inc(availIdx)
                 /\ lock' = Nobody
                 /\ pc' = [pc EXCEPT ![p] = "wait"]
                 /\ UNCHANGED <<driver, info, availRing, usedRing, usedIdx, used_idx,
                                head, req, mem, busy, device, irq, panicked>>

(* The chain free_chain follows. *)
Chain_short(d) == {d, desc[d].next}  \* mutant: the last descriptor is not freed
Chain(d) == {d, desc[d].next, desc[desc[d].next].next}

(* Woken from sleep(b): test b->disk again; when it is 0, free the chain    *)
(* and return.                                                              *)
StillBusy_not(p) == FALSE  \* mutant: if instead of while
StillBusy(p) == busy[p]
rw_again(p) == /\ At(p, "ready") /\ lock = Nobody /\ StillBusy(p)
               /\ pc' = [pc EXCEPT ![p] = "wait"]
               /\ UNCHANGED <<driver, info, availRing, availIdx, usedRing, usedIdx, used_idx, lock,
                              head, req, mem, busy, device, irq, panicked>>
rw_return(p) == /\ At(p, "ready") /\ lock = Nobody /\ ~StillBusy(p)
                /\ LET C == Chain(head[p]) IN
                   /\ panicked' = (C \cap free # {})   \* "free_desc 2"
                   /\ free' = free \cup C
                   /\ desc' = [d \in Descs |-> IF d \in C THEN Blank ELSE desc[d]]
                /\ info' = [info EXCEPT ![head[p]].b = NoBuf]
                /\ head' = [head EXCEPT ![p] = 0]   \* locals, dead after the return
                /\ req' = [req EXCEPT ![p] = NoReq]
                /\ pc' = [WakeAlloc EXCEPT ![p] = "idle"]
                /\ UNCHANGED <<ops, availRing, availIdx, usedRing, usedIdx, used_idx, lock,
                               mem, busy, device, irq>>

(* kill() makes a sleeping process runnable. *)
kill(p) == /\ At(p, "wait") \/ At(p, "nodesc")
           /\ pc' = [pc EXCEPT ![p] = IF @ = "wait" THEN "ready" ELSE "alloc"]
           /\ UNCHANGED <<driver, info, availRing, availIdx, usedRing, usedIdx, used_idx, lock,
                          head, req, mem, busy, device, irq, panicked>>

(* virtio_disk_intr: lock, acknowledge ... *)
intr == /\ ~panicked /\ irq /\ lock = Nobody
        /\ lock' = Handler
        /\ irq' = FALSE
        /\ UNCHANGED <<driver, info, availRing, availIdx, usedRing, usedIdx, used_idx,
                       pc, head, req, mem, busy, device, panicked>>

(* ... one completion at a time, while the device may add more ...          *)
UsedEntry_next == usedRing[Inc(used_idx) % RING]  \* mutant: used_idx advanced first
UsedEntry == usedRing[used_idx % RING]
intr_entry == /\ ~panicked /\ lock = Handler /\ used_idx # usedIdx
              /\ LET b == info[UsedEntry].b IN
                 IF info[UsedEntry].status # 0 \/ b = NoBuf
                 THEN /\ panicked' = TRUE   \* "virtio_disk_intr status", or a null buf
                      /\ UNCHANGED <<busy, pc, used_idx>>
                 ELSE /\ busy' = [busy EXCEPT ![b] = FALSE]
                      /\ pc' = [pc EXCEPT ![b] = IF @ = "wait" THEN "ready" ELSE @]
                      /\ used_idx' = Inc(used_idx)
                      /\ UNCHANGED panicked
              /\ UNCHANGED <<driver, info, availRing, availIdx, usedRing, usedIdx, lock,
                             head, req, mem, device, irq>>

(* ... until there is none.                                                 *)
intr_end_early == /\ ~panicked /\ lock = Handler  \* mutant: if instead of while
                  /\ lock' = Nobody
                  /\ UNCHANGED <<driver, info, availRing, availIdx, usedRing, usedIdx, used_idx,
                                 pc, head, req, mem, busy, device, irq, panicked>>
intr_end == /\ ~panicked /\ lock = Handler /\ used_idx = usedIdx
            /\ lock' = Nobody
            /\ UNCHANGED <<driver, info, availRing, availIdx, usedRing, usedIdx, used_idx,
                           pc, head, req, mem, busy, device, irq, panicked>>

-----------------------------------------------------------------------------
(* The device: takes published chains in order, works on several at once,   *)
(* finishes them in any order and then asks for an interrupt.               *)
device_take == /\ seen # availIdx
               /\ inflight' = inflight \cup {availRing[seen % RING]}
               /\ seen' = Inc(seen)
               /\ UNCHANGED <<driver, info, availRing, availIdx, usedRing, usedIdx, used_idx, lock,
                              pc, head, req, mem, busy, disk, irq, panicked>>

device_complete(d) ==
  /\ d \in inflight
  /\ LET r == ops[d]
         p == desc[desc[d].next].of
         s == desc[desc[desc[d].next].next].of IN
     /\ IF r.write THEN disk' = [disk EXCEPT ![r.block] = mem[p]] /\ UNCHANGED mem
                   ELSE mem' = [mem EXCEPT ![p] = disk[r.block]] /\ UNCHANGED disk
     /\ info' = [info EXCEPT ![s].status = 0]
  /\ usedRing' = [usedRing EXCEPT ![usedIdx % RING] = d]
  /\ usedIdx' = Inc(usedIdx)
  /\ inflight' = inflight \ {d}
  /\ irq' = TRUE
  /\ UNCHANGED <<driver, availRing, availIdx, used_idx, lock, pc, head, req, busy, seen, panicked>>

-----------------------------------------------------------------------------
Driver(p) == rw_nodesc(p) \/ rw_fill(p) \/ rw_publish(p) \/ rw_again(p) \/ rw_return(p)
Interrupt == intr \/ intr_entry \/ intr_end
Device == device_take \/ \E d \in Descs : device_complete(d)

Next == \/ \E p \in Procs : Driver(p) \/ kill(p) \/ \E r \in Request, v \in Values : call(p, r, v)
        \/ Interrupt
        \/ Device

Spec == Init /\ [][Next]_vars

(* Processes that are runnable get vdisk_lock now and again, the handler    *)
(* runs once its interrupt is raised, the device finishes what it took.     *)
Fairness == /\ \A p \in Procs : SF_vars(Driver(p))
            /\ SF_vars(Interrupt)
            /\ WF_vars(device_take)
            /\ \A d \in Descs : WF_vars(device_complete(d))
FairSpec == Spec /\ Fairness

-----------------------------------------------------------------------------
Stage == [p \in Procs |-> CASE pc[p] = "idle" -> "none"
                            [] pc[p] \in {"wait", "ready"} /\ info[head[p]].status = 0 -> "done"
                            [] OTHER -> "pending"]
D == INSTANCE AtomicDisk WITH stage <- Stage

(* struct disk, the rings and the calls keep their types; the four ring     *)
(* positions stay below the wrap of their width.                            *)
TypeOK ==
  /\ free \subseteq Descs
  /\ desc \in [Descs -> [to : {"none", "ops", "data", "status"}, of : Descs \cup {None} \cup Procs,
                         next : Descs \cup {None}]]
  /\ ops \in [Descs -> Request \cup {NoReq}]
  /\ info \in [Descs -> [b : Procs \cup {NoBuf}, status : {0, 255}]]
  /\ availRing \in [Slots -> Descs] /\ usedRing \in [Slots -> Descs]
  /\ {availIdx, usedIdx, used_idx, seen} \subseteq 0 .. Wrap - 1
  /\ lock \in Procs \cup {Handler, Nobody}
  /\ pc \in [Procs -> {"idle", "alloc", "nodesc", "publish", "wait", "ready"}]
  /\ head \in [Procs -> Descs] /\ req \in [Procs -> Request \cup {NoReq}] /\ mem \in [Procs -> Values]
  /\ busy \in [Procs -> BOOLEAN] /\ inflight \subseteq Descs
  /\ irq \in BOOLEAN /\ disk \in [Blocks -> Values] /\ panicked \in BOOLEAN

Calling == {p \in Procs : pc[p] \in {"publish", "wait", "ready"}}

(* alloc3_desc and free_chain: the calls under way own three descriptors    *)
(* each, no two the same one, and every other descriptor is free.           *)
DescriptorsAccounted ==
  /\ \A p \in Calling : Cardinality(Chain(head[p])) = 3 /\ Chain(head[p]) \cap free = {}
  /\ \A p, q \in Calling : p # q => Chain(head[p]) \cap Chain(head[q]) = {}
  /\ Cardinality(free) + 3 * Cardinality(Calling) = NUM

(* No completion is taken for one that has not happened, and no descriptor  *)
(* is freed twice: the panics of virtio_disk_intr and free_desc are         *)
(* unreachable.                                                             *)
NoPanic == ~panicked

(* A process sleeps on disk.free only while three descriptors are not       *)
(* available: the wakeups of free_desc leave nobody behind.                 *)
NoDescJustified == \A p \in Procs : pc[p] = "nodesc" => Cardinality(free) < 3

(* An entry of the used ring that the handler has not consumed still has an *)
(* interrupt to come, or the handler still at its loop: acknowledged first  *)
(* and read after, no completion is left behind.  virtio_disk_intr.         *)
CompletionsSeen == used_idx # usedIdx => irq \/ lock = Handler

(* Each call of virtio_disk_rw transfers its own block, exactly once, at    *)
(* some instant before it returns, in whatever order the device works.      *)
IsDisk == D!Spec

(* A published request returns: no completion is lost, and the processes    *)
(* that wait for descriptors, which wake one another whenever alloc3_desc   *)
(* gives back what it took, do not keep the handler out.                    *)
RequestReturns == \A p \in Procs : pc[p] = "wait" ~> pc[p] = "idle"

(* The driver's books agree with the rings: the types, the descriptors and  *)
(* the panics of virtio_disk.c above.                                       *)
DriverSound == TypeOK /\ DescriptorsAccounted /\ NoPanic
=============================================================================
