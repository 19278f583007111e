------------------------------ MODULE BioProofs ------------------------------
(***************************************************************************)
(* Proofs about Bio, for any number of buffers, of processes and of pins,  *)
(* and any blocks and contents: the books of the buffer cache are exact.   *)
(***************************************************************************)
EXTENDS Bio, FiniteSetTheorems, SequenceTheorems, TLAPS

Locking == Holding \cup {"read"}

(* The lock of a buffer is held by the one process that is between          *)
(* acquiresleep and releasesleep on it.                                     *)
HolderInv == \A p \in Procs, k \in Bufs : holder[k] = p <=> pc[p] \in Locking /\ mine[p] = k

(* A process that has a buffer has one that stands for a block; b->valid    *)
(* says whether it has been read.                                           *)
UseInv == \A p \in Procs : /\ pc[p] # "idle" => blockno[mine[p]] \in Blocks
                           /\ pc[p] = "read" => ~valid[mine[p]]
                           /\ pc[p] \in Holding => valid[mine[p]]
                           /\ pc[p] = "dirty" => mine[p] \notin pinned

(* What is read and neither pinned nor being changed is on the disk.        *)
CleanInv ==
  /\ \A k \in Bufs : valid[k] => blockno[k] \in Blocks
  /\ \A k \in Bufs : valid[k] /\ k \notin pinned /\ (\A p \in Procs : pc[p] = "dirty" => mine[p] # k)
       => data[k] = disk[blockno[k]]
  /\ \A p \in Procs : pc[p] = "written" => data[mine[p]] = disk[blockno[mine[p]]]

BInv == BuffersExact /\ HolderInv /\ UseInv /\ CleanInv
------------------------------------------------------------------------------
(* A nonempty set of positions has a greatest one. *)
LEMMA Greatest ==
  ASSUME NEW n \in Nat, NEW T \in SUBSET (1 .. n), T # {}
  PROVE  \E j \in T : \A k \in T : j >= k
<1> DEFINE F == {j .. n : j \in T}
           R == StrictSubsetOrdering(1 .. n)
<1>1. IsWellFoundedOn(R, FiniteSubsetsOf(1 .. n)) BY FS_StrictSubsetOrderingWellFounded
<1>2. F \subseteq FiniteSubsetsOf(1 .. n)
  <2> SUFFICES ASSUME NEW j \in T PROVE j .. n \in FiniteSubsetsOf(1 .. n) OBVIOUS
  <2>1. IsFiniteSet(j .. n) BY FS_Interval
  <2>2. j .. n \subseteq 1 .. n OBVIOUS
  <2> QED BY <2>1, <2>2 DEF FiniteSubsetsOf
<1>3. F # {} OBVIOUS
<1> HIDE DEF F, R
<1>4. \E X \in F : \A Y \in F : ~(<<Y, X>> \in R) BY <1>1, <1>2, <1>3, WFMin
<1> USE DEF F
<1>5. PICK j \in T : \A Y \in F : ~(<<Y, j .. n>> \in R) BY <1>4
<1>6. \A k \in T : j >= k
  <2> SUFFICES ASSUME NEW k \in T, k > j PROVE FALSE OBVIOUS
  <2>1. k .. n \subseteq j .. n /\ j \in j .. n /\ j \notin k .. n OBVIOUS
  <2>2. k .. n \in SUBSET (1 .. n) /\ j .. n \in SUBSET (1 .. n) OBVIOUS
  <2>3. <<k .. n, j .. n>> \in R BY <2>1, <2>2 DEF R, StrictSubsetOrdering
  <2> QED BY <2>3, <1>5
<1> QED BY <1>6

(* The list of bcache is a permutation of the buffers. *)
Listed == lru \in [1 .. NBUF -> Bufs] /\ IsInjective(lru)

LEMMA EveryBufferListed == ASSUME Listed, NEW k \in Bufs PROVE \E j \in 1 .. NBUF : lru[j] = k
<1>1. lru \in Injection(1 .. NBUF, Bufs) BY DEF Listed, IsInjective, Injection
<1>2. IsFiniteSet(Bufs) BY BioAssumption, FS_Interval DEF Bufs
<1>3. lru \in Surjection(1 .. NBUF, Bufs) BY <1>1, <1>2, FS_Injection DEF Bufs
<1> QED BY <1>3 DEF Surjection

(* bget recycles a buffer nobody uses. *)
LEMMA VictimUnused == ASSUME Listed, Unused # {} PROVE Victim \in Bufs /\ refcnt[Victim] = 0
<1>1. Unused \in SUBSET (1 .. NBUF) BY DEF Unused
<1>2. \E j \in Unused : \A k \in Unused : j >= k BY <1>1, Greatest, BioAssumption
<1> DEFINE j == CHOOSE j \in Unused : \A k \in Unused : j >= k
<1>3. j \in Unused BY <1>2
<1> QED BY <1>3 DEF Victim, Unused, Listed

LEMMA MoveKeepsList ==
  ASSUME Listed, NEW k \in Bufs, lru' = MoveToFront(lru, k) PROVE Listed'
<1> DEFINE i == Position(lru, k)
           n == NBUF
<1>1. n \in Nat \ {0} /\ lru \in Seq(Bufs) /\ Len(lru) = n BY BioAssumption DEF Listed
<1>2. i \in 1 .. n /\ lru[i] = k BY <1>1, EveryBufferListed DEF Position
<1> HIDE DEF i
<1> DEFINE a == SubSeq(lru, 1, i - 1)
           b == SubSeq(lru, i + 1, n)
<1>3. a \in Seq(Bufs) /\ Len(a) = i - 1 /\ \A j \in 1 .. i - 1 : a[j] = lru[j] BY <1>1, <1>2
<1>4. b \in Seq(Bufs) /\ Len(b) = n - i /\ \A j \in 1 .. n - i : b[j] = lru[i + j] BY <1>1, <1>2
<1>5. lru' = <<k>> \o (a \o b) BY <1>1 DEF MoveToFront, RemoveAt, i
<1> HIDE DEF a, b
<1>6. /\ a \o b \in Seq(Bufs) /\ Len(a \o b) = n - 1
      /\ \A j \in 1 .. n - 1 : (a \o b)[j] = IF j < i THEN lru[j] ELSE lru[j + 1]
  <2>1. a \o b \in Seq(Bufs) /\ Len(a \o b) = Len(a) + Len(b) BY <1>3, <1>4, ConcatProperties
  <2>2. a \o b \in Seq(Bufs) /\ Len(a \o b) = n - 1 BY <1>1, <1>2, <1>3, <1>4, <2>1
  <2>3. \A j \in 1 .. n - 1 : (a \o b)[j] = IF j < i THEN a[j] ELSE b[j - (i - 1)] BY <1>1, <1>2, <1>3, <1>4, <2>2
  <2>4. \A j \in 1 .. n - 1 : j >= i => j - (i - 1) \in 1 .. n - i /\ i + (j - (i - 1)) = j + 1 BY <1>1, <1>2
  <2> QED BY <1>1, <1>2, <1>3, <1>4, <2>2, <2>3, <2>4
<1> DEFINE m == a \o b
<1> HIDE DEF m
<1>7. /\ <<k>> \o m \in Seq(Bufs) /\ Len(<<k>> \o m) = n
      /\ (<<k>> \o m)[1] = k /\ \A j \in 2 .. n : (<<k>> \o m)[j] = m[j - 1]
  BY <1>1, <1>6 DEF m
<1>8. /\ lru' \in [1 .. n -> Bufs]
      /\ lru'[1] = k
      /\ \A j \in 2 .. n : lru'[j] = IF j <= i THEN lru[j - 1] ELSE lru[j]
  <2>1. lru' \in Seq(Bufs) /\ Len(lru') = n BY <1>5, <1>7 DEF m
  <2>2. lru' \in [1 .. n -> Bufs] /\ lru'[1] = k BY <1>1, <2>1, <1>5, <1>7, LenProperties DEF m
  <2> SUFFICES ASSUME NEW j \in 2 .. n PROVE lru'[j] = IF j <= i THEN lru[j - 1] ELSE lru[j] BY <2>2
  <2>3. j - 1 \in 1 .. n - 1 /\ (j - 1) + 1 = j /\ (j - 1 < i <=> j <= i) BY <1>1, <1>2
  <2>4. m[j - 1] = IF j - 1 < i THEN lru[j - 1] ELSE lru[(j - 1) + 1] BY <2>3, <1>6 DEF m
  <2> QED BY <1>5, <1>7, <2>3, <2>4 DEF m
<1>9. \A x, y \in 1 .. n : lru[x] = lru[y] => x = y BY <1>1 DEF Listed, IsInjective
<1>10. \A x, y \in 1 .. n : lru'[x] = lru'[y] => x = y BY <1>1, <1>2, <1>8, <1>9
<1> QED BY <1>8, <1>10 DEF Listed, IsInjective
------------------------------------------------------------------------------
(* Reference counts.  Users(k) are the processes between bget and brelse.   *)
Users(k) == {p \in Procs : pc[p] # "idle" /\ mine[p] = k}
Pin(k) == IF k \in pinned THEN 1 ELSE 0

LEMMA RefcntIs == RefcntExact <=> \A k \in Bufs : refcnt[k] = Cardinality(Users(k)) + Pin(k)
BY DEF RefcntExact, Users, Pin

LEMMA UsersFinite == \A k : IsFiniteSet(Users(k)) /\ Cardinality(Users(k)) \in Nat
<1> SUFFICES ASSUME NEW k PROVE IsFiniteSet(Users(k)) /\ Cardinality(Users(k)) \in Nat OBVIOUS
<1>1. Users(k) \in SUBSET Procs BY DEF Users
<1>2. IsFiniteSet(Users(k)) BY <1>1, BioAssumption, FS_Subset
<1> QED BY <1>2, FS_CardinalityType

(* A buffer with refcnt 0 has no user and no pin; one with a user has       *)
(* refcnt > 0, and one with a pin besides refcnt > 1.                       *)
LEMMA RefcntMeans ==
  ASSUME RefcntExact, NEW k \in Bufs
  PROVE  /\ refcnt[k] \in Nat
         /\ refcnt[k] = 0 => k \notin pinned /\ \A p \in Procs : mine[p] = k => pc[p] = "idle"
         /\ \A p \in Procs : pc[p] # "idle" /\ mine[p] = k => refcnt[k] >= 1 + Pin(k)
<1>1. refcnt[k] = Cardinality(Users(k)) + Pin(k) /\ Pin(k) \in {0, 1} BY RefcntIs DEF Pin
<1>2. IsFiniteSet(Users(k)) /\ Cardinality(Users(k)) \in Nat BY UsersFinite
<1>3. Cardinality(Users(k)) = 0 <=> Users(k) = {} BY <1>2, FS_EmptySet
<1>4. refcnt[k] = 0 => Pin(k) = 0 /\ Users(k) = {} BY <1>1, <1>2, <1>3
<1>5. \A p \in Procs : pc[p] # "idle" /\ mine[p] = k => Users(k) # {} BY DEF Users
<1>6. \A p \in Procs : pc[p] # "idle" /\ mine[p] = k => refcnt[k] >= 1 + Pin(k) BY <1>1, <1>2, <1>3, <1>5
<1> QED BY <1>1, <1>2, <1>4, <1>5, <1>6 DEF Pin

LEMMA RefSame ==
  ASSUME RefcntExact, UNCHANGED <<refcnt, pinned, mine>>, \A q \in Procs : pc'[q] = "idle" <=> pc[q] = "idle"
  PROVE  RefcntExact'
<1> SUFFICES ASSUME NEW k \in Bufs PROVE Users(k)' = Users(k) BY DEF RefcntExact, Users
<1> QED BY DEF Users

(* bget: one user more. *)
LEMMA RefEnter ==
  ASSUME TypeOK, RefcntExact, NEW p \in Procs, NEW k \in Bufs, pc[p] = "idle",
         pc' = [pc EXCEPT ![p] = "lock"], mine' = [mine EXCEPT ![p] = k],
         refcnt' = [refcnt EXCEPT ![k] = refcnt[k] + 1], pinned' = pinned
  PROVE  RefcntExact'
<1>1. Users(k)' = Users(k) \cup {p} /\ p \notin Users(k) BY DEF Users, TypeOK
<1>2. \A j \in Bufs : j # k => Users(j)' = Users(j) BY DEF Users, TypeOK
<1>3. Cardinality(Users(k) \cup {p}) = Cardinality(Users(k)) + 1 BY <1>1, UsersFinite, FS_AddElement
<1>4. \A j \in Bufs : Pin(j)' = Pin(j) /\ Pin(j) \in Nat /\ Cardinality(Users(j)) \in Nat BY UsersFinite DEF Pin
<1>5. \A j \in Bufs : refcnt[j] = Cardinality(Users(j)) + Pin(j) BY RefcntIs
<1> SUFFICES ASSUME NEW j \in Bufs PROVE refcnt'[j] = Cardinality(Users(j)') + Pin(j)' BY DEF RefcntExact, Users, Pin
<1>6. CASE j = k
  <2>1. refcnt'[k] = refcnt[k] + 1 BY DEF TypeOK
  <2>2. Cardinality(Users(k)') = Cardinality(Users(k)) + 1 BY <1>1, <1>3
  <2>3. Pin(k)' = Pin(k) /\ Pin(k) \in Nat /\ Cardinality(Users(k)) \in Nat BY <1>4
  <2>4. refcnt[k] = Cardinality(Users(k)) + Pin(k) BY <1>5
  <2> QED BY <1>6, <2>1, <2>2, <2>3, <2>4
<1>7. CASE j # k BY <1>2, <1>4, <1>5, <1>7 DEF TypeOK
<1> QED BY <1>6, <1>7

(* brelse: one user less. *)
LEMMA RefLeave ==
  ASSUME TypeOK, RefcntExact, NEW p \in Procs, pc[p] # "idle",
         pc' = [pc EXCEPT ![p] = "idle"], mine' = mine,
         refcnt' = [refcnt EXCEPT ![mine[p]] = refcnt[mine[p]] - 1], pinned' = pinned
  PROVE  RefcntExact'
<1> DEFINE k == mine[p]
<1>1. Users(k)' = Users(k) \ {p} /\ p \in Users(k) BY DEF Users, TypeOK
<1>2. \A j \in Bufs : j # k => Users(j)' = Users(j) BY DEF Users, TypeOK
<1>3. Cardinality(Users(k) \ {p}) = Cardinality(Users(k)) - 1 BY <1>1, UsersFinite, FS_RemoveElement
<1>4. \A j \in Bufs : Pin(j)' = Pin(j) /\ Pin(j) \in Nat /\ Cardinality(Users(j)) \in Nat BY UsersFinite DEF Pin
<1>5. \A j \in Bufs : refcnt[j] = Cardinality(Users(j)) + Pin(j) BY RefcntIs
<1> SUFFICES ASSUME NEW j \in Bufs PROVE refcnt'[j] = Cardinality(Users(j)') + Pin(j)' BY DEF RefcntExact, Users, Pin
<1>6. CASE j = k
  <2>1. refcnt'[k] = refcnt[k] - 1 BY DEF TypeOK
  <2>2. Cardinality(Users(k)') = Cardinality(Users(k)) - 1 BY <1>1, <1>3
  <2>3. Pin(k)' = Pin(k) /\ Pin(k) \in Nat /\ Cardinality(Users(k)) \in Nat BY <1>4, <1>6
  <2>4. refcnt[k] = Cardinality(Users(k)) + Pin(k) BY <1>5, <1>6
  <2>5. refcnt'[k] = Cardinality(Users(k)') + Pin(k)' BY <2>1, <2>2, <2>3, <2>4
  <2> QED BY <1>6, <2>5
<1>7. CASE j # k BY <1>2, <1>4, <1>5, <1>7 DEF TypeOK
<1> QED BY <1>6, <1>7

(* bpin and bunpin. *)
LEMMA RefPin ==
  ASSUME TypeOK, RefcntExact, NEW k \in Bufs, mine' = mine, \A q \in Procs : pc'[q] = "idle" <=> pc[q] = "idle",
         \/ k \notin pinned /\ pinned' = pinned \cup {k} /\ refcnt' = [refcnt EXCEPT ![k] = refcnt[k] + 1]
         \/ k \in pinned /\ pinned' = pinned \ {k} /\ refcnt' = [refcnt EXCEPT ![k] = refcnt[k] - 1]
  PROVE  RefcntExact'
<1>1. \A j \in Bufs : Users(j)' = Users(j) /\ Cardinality(Users(j)) \in Nat BY UsersFinite DEF Users
<1>2. \A j \in Bufs : refcnt[j] = Cardinality(Users(j)) + Pin(j) BY RefcntIs
<1> SUFFICES ASSUME NEW j \in Bufs PROVE refcnt'[j] = Cardinality(Users(j)') + Pin(j)' BY DEF RefcntExact, Users, Pin
<1> QED BY <1>1, <1>2 DEF TypeOK, Pin

(* With all buffers in use, each has a user or a pin of its own. *)
LEMMA AllInUse ==
  ASSUME TypeOK, RefcntExact, Unused = {}
  PROVE  Cardinality({p \in Procs : pc[p] # "idle"}) + Cardinality(pinned) >= NBUF
<1> DEFINE A == {p \in Procs : pc[p] # "idle"}
           M == {mine[p] : p \in A}
           f == [p \in A |-> mine[p]]
<1>1. IsFiniteSet(Bufs) /\ Cardinality(Bufs) = NBUF BY BioAssumption, FS_Interval DEF Bufs
<1>2. IsFiniteSet(A) BY BioAssumption, FS_Subset
<1>3. f \in Surjection(A, M) BY DEF Surjection
<1> HIDE DEF f
<1>4. IsFiniteSet(M) /\ Cardinality(M) <= Cardinality(A) BY <1>2, <1>3, FS_Surjection
<1>5. IsFiniteSet(pinned) BY <1>1, FS_Subset DEF TypeOK
<1>6. Bufs \subseteq M \cup pinned
  <2> SUFFICES ASSUME NEW k \in Bufs, k \notin pinned PROVE \E p \in A : mine[p] = k OBVIOUS
  <2>1. PICK j \in 1 .. NBUF : lru[j] = k BY EveryBufferListed DEF Listed, TypeOK
  <2>2. refcnt[k] # 0 BY <2>1 DEF Unused
  <2>3. Pin(k) = 0 /\ refcnt[k] = Cardinality(Users(k)) + Pin(k) BY RefcntIs DEF Pin
  <2>4. Users(k) # {} BY <2>2, <2>3, FS_EmptySet
  <2> QED BY <2>4 DEF Users
<1> HIDE DEF M, A
<1>7. /\ IsFiniteSet(M \cup pinned)
      /\ Cardinality(M \cup pinned) = Cardinality(M) + Cardinality(pinned) - Cardinality(M \cap pinned)
  BY <1>4, <1>5, FS_Union
<1>8. Cardinality(Bufs) <= Cardinality(M \cup pinned) BY <1>6, <1>7, FS_Subset
<1>9. IsFiniteSet(M \cap pinned) BY <1>4, FS_Intersection
<1>10. /\ Cardinality(M) \in Nat /\ Cardinality(A) \in Nat /\ Cardinality(pinned) \in Nat
       /\ Cardinality(M \cap pinned) \in Nat
  BY <1>2, <1>4, <1>5, <1>9, FS_CardinalityType
<1>11. Cardinality(A) + Cardinality(pinned) >= NBUF BY <1>1, <1>4, <1>7, <1>8, <1>10, BioAssumption
<1> QED BY <1>11 DEF A
LEMMA Inv_bget_hit == ASSUME BInv, NEW p \in Procs, NEW b \in Blocks, bget_hit(p, b) PROVE BInv'
<1> USE BioAssumption DEF BInv, BuffersExact, TypeOK, Holding, Locking
<1> DEFINE k == CHOOSE k \in Cached(b) : TRUE
<1>1. k \in Bufs /\ blockno[k] = b BY DEF bget_hit, Cached
<1>2. /\ ~panicked /\ pc[p] = "idle" /\ pc' = [pc EXCEPT ![p] = "lock"] /\ mine' = [mine EXCEPT ![p] = k]
      /\ refcnt' = [refcnt EXCEPT ![k] = refcnt[k] + 1]
      /\ UNCHANGED <<lru, blockno, valid, data, holder, disk, pinned, panicked>>
  BY DEF bget_hit, At, Goto
<1> HIDE DEF k
<1> USE <1>1, <1>2
<1>3. TypeOK' OBVIOUS
<1>4. OneBufferPerBlock' BY DEF OneBufferPerBlock
<1>5. RefcntExact' BY RefEnter
<1>6. SleeperHasHolder' BY DEF SleeperHasHolder
<1>7. PanicJustified' BY DEF PanicJustified
<1>8. HolderInv' BY DEF HolderInv
<1>9. UseInv' BY DEF UseInv
<1>10. CleanInv' BY DEF CleanInv
<1> HIDE DEF TypeOK
<1> QED BY <1>3, <1>4, <1>5, <1>6, <1>7, <1>8, <1>9, <1>10

LEMMA Inv_bget_miss == ASSUME BInv, NEW p \in Procs, NEW b \in Blocks, bget_miss(p, b) PROVE BInv'
<1> USE BioAssumption DEF BInv, BuffersExact, TypeOK, Holding, Locking
<1> DEFINE k == Victim
<1>1. k \in Bufs /\ refcnt[k] = 0 BY VictimUnused DEF bget_miss, Listed
<1>2. /\ ~panicked /\ pc[p] = "idle" /\ pc' = [pc EXCEPT ![p] = "lock"] /\ mine' = [mine EXCEPT ![p] = k]
      /\ refcnt' = [refcnt EXCEPT ![k] = 1] /\ blockno' = [blockno EXCEPT ![k] = b]
      /\ valid' = [valid EXCEPT ![k] = FALSE] /\ UNCHANGED <<lru, data, holder, disk, pinned, panicked>>
  BY DEF bget_miss, At, Goto, Recycle
<1>3. \A j \in Bufs : blockno[j] # b BY DEF bget_miss, Cached
<1> HIDE DEF k
<1>4. k \notin pinned /\ \A q \in Procs : mine[q] = k => pc[q] = "idle" BY <1>1, RefcntMeans
<1> USE <1>1, <1>2, <1>3, <1>4
<1>5. TypeOK' OBVIOUS
<1>6. OneBufferPerBlock' BY DEF OneBufferPerBlock
<1>7. RefcntExact'
  <2>1. refcnt' = [refcnt EXCEPT ![k] = refcnt[k] + 1] OBVIOUS
  <2> QED BY <2>1, RefEnter
<1>8. SleeperHasHolder' BY DEF SleeperHasHolder
<1>9. PanicJustified' BY DEF PanicJustified
<1>10. HolderInv' BY DEF HolderInv
<1>11. UseInv' BY DEF UseInv
<1>12. CleanInv' BY DEF CleanInv
<1> HIDE DEF TypeOK
<1> QED BY <1>5, <1>6, <1>7, <1>8, <1>9, <1>10, <1>11, <1>12

LEMMA Inv_bget_panic == ASSUME BInv, NEW p \in Procs, NEW b \in Blocks, bget_panic(p, b) PROVE BInv'
<1> USE BioAssumption DEF BInv, BuffersExact, TypeOK, Holding, Locking
<1> USE DEF bget_panic, At, buffers
<1>1. TypeOK' OBVIOUS
<1>2. OneBufferPerBlock' BY DEF OneBufferPerBlock
<1>3. RefcntExact'
  <2>1. UNCHANGED <<refcnt, pinned, mine>> /\ \A q \in Procs : pc'[q] = "idle" <=> pc[q] = "idle" OBVIOUS
  <2> QED BY <2>1, RefSame
<1>4. SleeperHasHolder' BY DEF SleeperHasHolder
<1>5. PanicJustified'
  <2>1. Cardinality({q \in Procs : pc[q] # "idle"}) + Cardinality(pinned) >= NBUF BY AllInUse
  <2> QED BY <2>1 DEF PanicJustified
<1>6. HolderInv' BY DEF HolderInv
<1>7. UseInv' BY DEF UseInv
<1>8. CleanInv' BY DEF CleanInv
<1> HIDE DEF TypeOK
<1> QED BY <1>1, <1>2, <1>3, <1>4, <1>5, <1>6, <1>7, <1>8

LEMMA Inv_acquiresleep == ASSUME BInv, NEW p \in Procs, acquiresleep(p) PROVE BInv'
<1> USE BioAssumption DEF BInv, BuffersExact, TypeOK, Holding, Locking
<1> USE DEF acquiresleep, At, Goto, buffers
<1>1. TypeOK'
  <2>1. pc' \in [Procs -> Holding \cup {"idle", "lock", "asleep", "read", "release"}]
    <3>1. PICK l \in {"use", "read", "asleep"} : pc' = [pc EXCEPT ![p] = l] OBVIOUS
    <3> QED BY <3>1
  <2>2. holder' \in [Bufs -> Procs \cup {NoProc}] OBVIOUS
  <2> QED BY <2>1, <2>2
<1>2. OneBufferPerBlock' BY DEF OneBufferPerBlock
<1>3. RefcntExact'
  <2>1. UNCHANGED <<refcnt, pinned, mine>> /\ \A q \in Procs : pc'[q] = "idle" <=> pc[q] = "idle" OBVIOUS
  <2> QED BY <2>1, RefSame
<1>4. SleeperHasHolder'
  <2>1. CASE holder[mine[p]] = NoProc BY <2>1 DEF SleeperHasHolder
  <2>2. CASE holder[mine[p]] # NoProc BY <2>2 DEF SleeperHasHolder
  <2> QED BY <2>1, <2>2
<1>5. PanicJustified' BY DEF PanicJustified
<1>6. HolderInv' BY DEF HolderInv
<1>7. UseInv' BY DEF UseInv
<1>8. CleanInv' BY DEF CleanInv
<1> HIDE DEF TypeOK
<1> QED BY <1>1, <1>2, <1>3, <1>4, <1>5, <1>6, <1>7, <1>8

LEMMA Inv_kill == ASSUME BInv, NEW p \in Procs, kill(p) PROVE BInv'
<1> USE BioAssumption DEF BInv, BuffersExact, TypeOK, Holding, Locking
<1> USE DEF kill, At, Goto, buffers
<1>1. TypeOK' OBVIOUS
<1>2. OneBufferPerBlock' BY DEF OneBufferPerBlock
<1>3. RefcntExact'
  <2>1. UNCHANGED <<refcnt, pinned, mine>> /\ \A q \in Procs : pc'[q] = "idle" <=> pc[q] = "idle" OBVIOUS
  <2> QED BY <2>1, RefSame
<1>4. SleeperHasHolder' BY DEF SleeperHasHolder
<1>5. PanicJustified' BY DEF PanicJustified
<1>6. HolderInv' BY DEF HolderInv
<1>7. UseInv' BY DEF UseInv
<1>8. CleanInv' BY DEF CleanInv
<1> HIDE DEF TypeOK
<1> QED BY <1>1, <1>2, <1>3, <1>4, <1>5, <1>6, <1>7, <1>8

LEMMA Inv_bread == ASSUME BInv, NEW p \in Procs, bread(p) PROVE BInv'
<1> USE BioAssumption DEF BInv, BuffersExact, TypeOK, Holding, Locking
<1> USE DEF bread, At, Goto
<1>1. TypeOK' BY DEF UseInv
<1>2. OneBufferPerBlock' BY DEF OneBufferPerBlock
<1>3. RefcntExact'
  <2>1. UNCHANGED <<refcnt, pinned, mine>> /\ \A q \in Procs : pc'[q] = "idle" <=> pc[q] = "idle" OBVIOUS
  <2> QED BY <2>1, RefSame
<1>4. SleeperHasHolder' BY DEF SleeperHasHolder
<1>5. PanicJustified' BY DEF PanicJustified
<1>6. HolderInv' BY DEF HolderInv
<1>7. UseInv' BY DEF HolderInv, UseInv
<1>8. CleanInv' BY DEF UseInv, CleanInv
<1> HIDE DEF TypeOK
<1> QED BY <1>1, <1>2, <1>3, <1>4, <1>5, <1>6, <1>7, <1>8

LEMMA Inv_modify == ASSUME BInv, NEW p \in Procs, NEW v \in Values, modify(p, v) PROVE BInv'
<1> USE BioAssumption DEF BInv, BuffersExact, TypeOK, Holding, Locking
<1> USE DEF modify, At, Goto, buffers
<1>1. TypeOK' OBVIOUS
<1>2. OneBufferPerBlock' BY DEF OneBufferPerBlock
<1>3. RefcntExact'
  <2>1. UNCHANGED <<refcnt, pinned, mine>> /\ \A q \in Procs : pc'[q] = "idle" <=> pc[q] = "idle" OBVIOUS
  <2> QED BY <2>1, RefSame
<1>4. SleeperHasHolder' BY DEF SleeperHasHolder
<1>5. PanicJustified' BY DEF PanicJustified
<1>6. HolderInv' BY DEF HolderInv
<1>7. UseInv' BY DEF UseInv
<1>8. CleanInv' BY DEF HolderInv, CleanInv
<1> HIDE DEF TypeOK
<1> QED BY <1>1, <1>2, <1>3, <1>4, <1>5, <1>6, <1>7, <1>8

LEMMA Inv_bwrite == ASSUME BInv, NEW p \in Procs, bwrite(p) PROVE BInv'
<1> USE BioAssumption DEF BInv, BuffersExact, TypeOK, Holding, Locking
<1> USE DEF bwrite, At, Goto, buffers
<1>1. TypeOK'
  <2>1. disk' \in [Blocks -> Values] BY DEF UseInv
  <2>2. pc' \in [Procs -> Holding \cup {"idle", "lock", "asleep", "read", "release"}] OBVIOUS
  <2> QED BY <2>1, <2>2
<1>2. OneBufferPerBlock' BY DEF OneBufferPerBlock
<1>3. RefcntExact'
  <2>1. UNCHANGED <<refcnt, pinned, mine>> /\ \A q \in Procs : pc'[q] = "idle" <=> pc[q] = "idle" OBVIOUS
  <2> QED BY <2>1, RefSame
<1>4. SleeperHasHolder' BY DEF SleeperHasHolder
<1>5. PanicJustified' BY DEF PanicJustified
<1>6. HolderInv' BY DEF HolderInv
<1>7. UseInv' BY DEF UseInv
<1>8. CleanInv' BY DEF OneBufferPerBlock, HolderInv, UseInv, CleanInv
<1> HIDE DEF TypeOK
<1> QED BY <1>1, <1>2, <1>3, <1>4, <1>5, <1>6, <1>7, <1>8

LEMMA Inv_bpin == ASSUME BInv, NEW p \in Procs, bpin(p) PROVE BInv'
<1> USE BioAssumption DEF BInv, BuffersExact, TypeOK, Holding, Locking
<1> USE DEF bpin, At, Goto
<1>1. TypeOK' OBVIOUS
<1>2. OneBufferPerBlock' BY DEF OneBufferPerBlock
<1>3. RefcntExact'
  <2>1. \A q \in Procs : pc'[q] = "idle" <=> pc[q] = "idle" OBVIOUS
  <2>2. mine[p] \notin pinned BY DEF UseInv
  <2> QED BY <2>1, <2>2, RefPin
<1>4. SleeperHasHolder' BY DEF SleeperHasHolder
<1>5. PanicJustified' BY DEF PanicJustified
<1>6. HolderInv' BY DEF HolderInv
<1>7. UseInv' BY DEF HolderInv, UseInv
<1>8. CleanInv' BY DEF CleanInv
<1> HIDE DEF TypeOK
<1> QED BY <1>1, <1>2, <1>3, <1>4, <1>5, <1>6, <1>7, <1>8

LEMMA Inv_bunpin == ASSUME BInv, NEW p \in Procs, bunpin(p) PROVE BInv'
<1> USE BioAssumption DEF BInv, BuffersExact, TypeOK, Holding, Locking
<1> USE DEF bunpin, At
<1>1. TypeOK'
  <2>1. refcnt[mine[p]] \in Nat \ {0} BY RefcntMeans DEF Pin
  <2> QED BY <2>1
<1>2. OneBufferPerBlock' BY DEF OneBufferPerBlock
<1>3. RefcntExact'
  <2>1. \A q \in Procs : pc'[q] = "idle" <=> pc[q] = "idle" OBVIOUS
  <2> QED BY <2>1, RefPin
<1>4. SleeperHasHolder' BY DEF SleeperHasHolder
<1>5. PanicJustified' BY DEF PanicJustified
<1>6. HolderInv' BY DEF HolderInv
<1>7. UseInv' BY DEF UseInv
<1>8. CleanInv' BY DEF CleanInv
<1> HIDE DEF TypeOK
<1> QED BY <1>1, <1>2, <1>3, <1>4, <1>5, <1>6, <1>7, <1>8

LEMMA Inv_releasesleep == ASSUME BInv, NEW p \in Procs, releasesleep(p) PROVE BInv'
<1> USE BioAssumption DEF BInv, BuffersExact, TypeOK, Holding, Locking
<1> USE DEF releasesleep, At, Woken, buffers
<1>1. TypeOK' OBVIOUS
<1>2. OneBufferPerBlock' BY DEF OneBufferPerBlock
<1>3. RefcntExact'
  <2>1. UNCHANGED <<refcnt, pinned, mine>> /\ \A q \in Procs : pc'[q] = "idle" <=> pc[q] = "idle" OBVIOUS
  <2> QED BY <2>1, RefSame
<1>4. SleeperHasHolder' BY DEF SleeperHasHolder
<1>5. PanicJustified' BY DEF PanicJustified
<1>6. HolderInv' BY DEF HolderInv
<1>7. UseInv' BY DEF UseInv
<1>8. CleanInv' BY DEF CleanInv
<1> HIDE DEF TypeOK
<1> QED BY <1>1, <1>2, <1>3, <1>4, <1>5, <1>6, <1>7, <1>8

LEMMA Inv_brelse == ASSUME BInv, NEW p \in Procs, brelse(p) PROVE BInv'
<1> USE BioAssumption DEF BInv, BuffersExact, TypeOK, Holding, Locking
<1> USE DEF brelse, At, Goto
<1>1. TypeOK'
  <2>1. refcnt[mine[p]] \in Nat \ {0} BY RefcntMeans DEF Pin
  <2>2. Listed' BY MoveKeepsList DEF Listed
  <2> QED BY <2>1, <2>2 DEF Listed
<1>2. OneBufferPerBlock' BY DEF OneBufferPerBlock
<1>3. RefcntExact' BY RefLeave
<1>4. SleeperHasHolder' BY DEF SleeperHasHolder
<1>5. PanicJustified' BY DEF PanicJustified
<1>6. HolderInv' BY DEF HolderInv
<1>7. UseInv' BY DEF UseInv
<1>8. CleanInv' BY DEF CleanInv
<1> HIDE DEF TypeOK
<1> QED BY <1>1, <1>2, <1>3, <1>4, <1>5, <1>6, <1>7, <1>8

LEMMA Inv_Init == ASSUME Init PROVE BInv
<1> USE BioAssumption DEF Init, Holding, Locking
<1>1. TypeOK
  <2>1. lru \in [1 .. NBUF -> Bufs] BY DEF Bufs
  <2>2. IsInjective(lru) BY DEF IsInjective, Bufs
  <2>3. \A p \in Procs : 1 \in Bufs BY DEF Bufs
  <2> QED BY <2>1, <2>2, <2>3 DEF TypeOK
<1>2. RefcntExact
  <2> SUFFICES ASSUME NEW k \in Bufs PROVE refcnt[k] = Cardinality(Users(k)) + Pin(k) BY RefcntIs
  <2>1. Users(k) = {} BY DEF Users
  <2> QED BY <2>1, FS_EmptySet DEF Pin
<1>3. OneBufferPerBlock /\ SleeperHasHolder /\ PanicJustified
  BY DEF OneBufferPerBlock, SleeperHasHolder, PanicJustified
<1>4. HolderInv /\ UseInv /\ CleanInv BY DEF HolderInv, UseInv, CleanInv
<1> QED BY <1>1, <1>2, <1>3, <1>4 DEF BInv, BuffersExact

LEMMA Inv_Next == ASSUME BInv, [Next]_vars PROVE BInv'
<1>1. CASE UNCHANGED vars
  <2> USE <1>1 DEF vars, BInv, BuffersExact
  <2>1. TypeOK' BY DEF TypeOK
  <2>2. RefcntExact' BY RefSame
  <2>3. OneBufferPerBlock' /\ SleeperHasHolder' BY DEF OneBufferPerBlock, SleeperHasHolder
  <2>4. PanicJustified' BY DEF PanicJustified
  <2>5. HolderInv' /\ UseInv' /\ CleanInv' BY DEF HolderInv, UseInv, CleanInv
  <2> QED BY <2>1, <2>2, <2>3, <2>4, <2>5
<1>2. CASE Next
  <2>1. PICK p \in Procs : \/ \E b \in Blocks : bget_hit(p, b) \/ bget_miss(p, b) \/ bget_panic(p, b)
                           \/ acquiresleep(p) \/ kill(p) \/ bread(p) \/ bwrite(p) \/ bpin(p) \/ bunpin(p)
                           \/ releasesleep(p) \/ brelse(p)
                           \/ \E v \in Values : modify(p, v)
    BY <1>2 DEF Next
  <2>2. CASE \E b \in Blocks : bget_hit(p, b) \/ bget_miss(p, b) \/ bget_panic(p, b)
    BY <2>2, Inv_bget_hit, Inv_bget_miss, Inv_bget_panic
  <2>3. CASE acquiresleep(p) \/ kill(p) \/ bread(p) \/ bwrite(p) \/ bpin(p) \/ bunpin(p)
    BY <2>3, Inv_acquiresleep, Inv_kill, Inv_bread, Inv_bwrite, Inv_bpin, Inv_bunpin
  <2>4. CASE releasesleep(p) \/ brelse(p) BY <2>4, Inv_releasesleep, Inv_brelse
  <2>5. CASE \E v \in Values : modify(p, v) BY <2>5, Inv_modify
  <2> QED BY <2>1, <2>2, <2>3, <2>4, <2>5
<1> QED BY <1>1, <1>2

(* The inductive invariant of bio.c. *)
THEOREM BioInvariant == Spec => []BInv
<1>1. Init => BInv BY Inv_Init
<1>2. BInv /\ [Next]_vars => BInv' BY Inv_Next
<1> QED BY <1>1, <1>2, PTL DEF Spec

(* At any moment a block has at most one buffer, refcnt counts the users    *)
(* and the log's pin, the list holds every buffer once, a sleeper has a     *)
(* holder to wait for, and bget panics only with every buffer in use.       *)
THEOREM BuffersStayExact == Spec => []BuffersExact
<1>1. BInv => BuffersExact BY DEF BInv
<1> QED BY <1>1, BioInvariant, PTL
==============================================================================
