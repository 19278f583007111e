---------------------------- MODULE BioRefinement ----------------------------
(***************************************************************************)
(* Bio implements BlockStore: the proof that the cache is invisible, for   *)
(* any number of buffers, processes, blocks and pins.  A block is taken    *)
(* when its buffer is locked and valid, and left by releasesleep; looking  *)
(* up, recycling, reading, writing through and pinning change nothing.     *)
(***************************************************************************)
EXTENDS BioProofs

(* The contents of a block are those of its valid buffer, or the disk's. *)
ContentsAre ==
  \A x \in Blocks : /\ \A k \in Bufs : blockno[k] = x /\ valid[k] => Contents[x] = data[k]
                    /\ (\A k \in Bufs : blockno[k] = x => ~valid[k]) => Contents[x] = disk[x]
(* The user of a block is the process that holds its buffer. *)
UserAre ==
  \A x \in Blocks : /\ \A q \in Procs : pc[q] \in Holding /\ blockno[mine[q]] = x => User[x] = q
                    /\ (\A q \in Procs : pc[q] \in Holding => blockno[mine[q]] # x) => User[x] = NoProc

LEMMA Mapping == BInv => ContentsAre /\ UserAre
<1> SUFFICES ASSUME BInv PROVE ContentsAre /\ UserAre OBVIOUS
<1> USE BioAssumption DEF BInv, BuffersExact, TypeOK
<1>1. ASSUME NEW x \in Blocks, NEW k \in Bufs, blockno[k] = x, valid[k] PROVE Contents[x] = data[k]
  <2>1. \E j \in Cached(x) : valid[j] BY <1>1 DEF Cached
  <2>2. \A j \in Cached(x) : j = k BY <1>1 DEF Cached, OneBufferPerBlock
  <2>3. (CHOOSE j \in Cached(x) : valid[j]) = k BY <2>1, <2>2
  <2> QED BY <2>1, <2>3 DEF Contents
<1>2. ASSUME NEW x \in Blocks, \A k \in Bufs : blockno[k] = x => ~valid[k] PROVE Contents[x] = disk[x]
  <2>1. ~\E j \in Cached(x) : valid[j] BY <1>2 DEF Cached
  <2> QED BY <2>1 DEF Contents
<1>3. ASSUME NEW x \in Blocks, NEW q \in Procs, pc[q] \in Holding, blockno[mine[q]] = x PROVE User[x] = q
  <2>1. \A r \in Procs : pc[r] \in Holding /\ blockno[mine[r]] = x => r = q
    BY <1>3 DEF OneBufferPerBlock, HolderInv, Locking
  <2>2. (CHOOSE r \in Procs : pc[r] \in Holding /\ blockno[mine[r]] = x) = q BY <1>3, <2>1
  <2> QED BY <1>3, <2>2 DEF User
<1>4. ASSUME NEW x \in Blocks, \A q \in Procs : pc[q] \in Holding => blockno[mine[q]] # x PROVE User[x] = NoProc
  BY <1>4 DEF User
<1> HIDE DEF BInv
<1>5. ContentsAre BY <1>1, <1>2 DEF ContentsAre
<1>6. UserAre BY <1>3, <1>4 DEF UserAre
<1> QED BY <1>5, <1>6

LEMMA MappingAfter == BInv' => ContentsAre' /\ UserAre'
BY Mapping, PTL

(* When no process comes or goes, and when no buffer or disk block that     *)
(* counts changes.                                                          *)
SameHolders ==
  \A q \in Procs : /\ pc'[q] \in Holding <=> pc[q] \in Holding
                   /\ pc[q] \in Holding => mine'[q] = mine[q] /\ blockno'[mine[q]] = blockno[mine[q]]

LEMMA SameUser == ASSUME BInv, BInv', SameHolders PROVE User' = User
<1>1. UserAre /\ UserAre' BY Mapping, MappingAfter
<1> SUFFICES ASSUME NEW x \in Blocks PROVE User'[x] = User[x] BY DEF User
<1>2. CASE \E q \in Procs : pc[q] \in Holding /\ blockno[mine[q]] = x
  <2>1. PICK q \in Procs : pc[q] \in Holding /\ blockno[mine[q]] = x BY <1>2
  <2>2. User[x] = q BY <1>1, <2>1 DEF UserAre
  <2>3. pc'[q] \in Holding /\ blockno'[mine'[q]] = x BY <2>1 DEF SameHolders
  <2>4. User'[x] = q BY <1>1, <2>3 DEF UserAre
  <2> QED BY <2>2, <2>4
<1>3. CASE \A q \in Procs : pc[q] \in Holding => blockno[mine[q]] # x
  <2>1. User[x] = NoProc BY <1>1, <1>3 DEF UserAre
  <2>2. \A q \in Procs : pc'[q] \in Holding => blockno'[mine'[q]] # x BY <1>3 DEF SameHolders
  <2>3. User'[x] = NoProc BY <1>1, <2>2 DEF UserAre
  <2> QED BY <2>1, <2>3
<1> QED BY <1>2, <1>3

LEMMA SameContents ==
  ASSUME UNCHANGED <<blockno, valid, data, disk>> PROVE Contents' = Contents
BY DEF Contents, Cached

(* A step that BlockStore does not see. *)
Stutter == UNCHANGED <<Contents, User>>

LEMMA Map_quiet ==
  ASSUME BInv, BInv', NEW p \in Procs,
         \/ \E b \in Blocks : bget_hit(p, b) \/ bget_panic(p, b)
         \/ kill(p) \/ bpin(p) \/ bunpin(p) \/ brelse(p)
  PROVE  Stutter
<1> USE DEF bget_hit, bget_panic, kill, bpin, bunpin, brelse, At, Goto, buffers
<1>1. UNCHANGED <<blockno, valid, data, disk>> OBVIOUS
<1>2. /\ pc \in [Procs -> Holding \cup {"idle", "lock", "asleep", "read", "release"}]
      /\ mine \in [Procs -> Bufs]
  BY DEF BInv, BuffersExact, TypeOK
<1>3. /\ pc[p] \in Holding <=> pc'[p] \in Holding
      /\ pc[p] \in Holding => mine' = mine
      /\ \A q \in Procs : q # p => pc'[q] = pc[q] /\ mine'[q] = mine[q]
  <2>1. CASE \E b \in Blocks : bget_hit(p, b) BY <1>2, <2>1 DEF Holding
  <2>2. CASE \E b \in Blocks : bget_panic(p, b) BY <1>2, <2>2
  <2>3. CASE kill(p) BY <1>2, <2>3 DEF Holding
  <2>4. CASE bpin(p) BY <1>2, <2>4 DEF Holding
  <2>5. CASE bunpin(p) BY <1>2, <2>5
  <2>6. CASE brelse(p) BY <1>2, <2>6 DEF Holding
  <2> QED BY <2>1, <2>2, <2>3, <2>4, <2>5, <2>6, Zenon
<1> HIDE DEF bget_hit, bget_panic, kill, bpin, bunpin, brelse
<1>4. SameHolders BY <1>1, <1>3 DEF SameHolders
<1>5. Contents' = Contents BY <1>1, SameContents
<1>6. User' = User BY <1>4, SameUser
<1> QED BY <1>5, <1>6 DEF Stutter

(* A buffer nobody uses is as its block on the disk: bget may drop it. *)
LEMMA Map_bget_miss ==
  ASSUME BInv, BInv', NEW p \in Procs, NEW b \in Blocks, bget_miss(p, b) PROVE Stutter
<1> USE DEF BInv, BuffersExact, TypeOK
<1> DEFINE k == Victim
<1>1. k \in Bufs /\ refcnt[k] = 0 BY VictimUnused DEF bget_miss, Listed
<1>2. /\ pc[p] = "idle" /\ pc' = [pc EXCEPT ![p] = "lock"] /\ mine' = [mine EXCEPT ![p] = k]
      /\ blockno' = [blockno EXCEPT ![k] = b] /\ valid' = [valid EXCEPT ![k] = FALSE]
      /\ UNCHANGED <<data, disk>>
  BY DEF bget_miss, At, Goto, Recycle
<1>3. \A j \in Bufs : blockno[j] # b BY DEF bget_miss, Cached
<1> HIDE DEF k
<1>4. k \notin pinned /\ \A q \in Procs : mine[q] = k => pc[q] = "idle" BY <1>1, RefcntMeans
<1>5. valid[k] => data[k] = disk[blockno[k]] BY <1>1, <1>4 DEF CleanInv
<1>6. SameHolders BY <1>1, <1>2, <1>4 DEF Holding, SameHolders
<1>7. ContentsAre /\ ContentsAre' BY Mapping, MappingAfter
<1>8. ASSUME NEW x \in Blocks PROVE Contents'[x] = Contents[x]
  <2>1. CASE \E j \in Bufs : blockno[j] = x /\ valid[j] /\ j # k
    <3>1. PICK j \in Bufs : blockno[j] = x /\ valid[j] /\ j # k BY <2>1
    <3>2. blockno'[j] = x /\ valid'[j] /\ data'[j] = data[j] BY <1>1, <1>2, <3>1
    <3> QED BY <1>7, <3>1, <3>2 DEF ContentsAre
  <2>2. CASE \A j \in Bufs : blockno[j] = x /\ valid[j] => j = k
    <3>1. \A j \in Bufs : blockno'[j] = x => ~valid'[j] BY <1>1, <1>2, <2>2
    <3>2. Contents'[x] = disk[x] BY <1>2, <1>7, <3>1 DEF ContentsAre
    <3>3. CASE blockno[k] = x /\ valid[k] BY <1>1, <1>5, <1>7, <3>2, <3>3 DEF ContentsAre
    <3>4. CASE ~(blockno[k] = x /\ valid[k])
      <4>1. \A j \in Bufs : blockno[j] = x => ~valid[j] BY <2>2, <3>4
      <4> QED BY <1>7, <3>2, <4>1 DEF ContentsAre
    <3> QED BY <3>3, <3>4
  <2> QED BY <2>1, <2>2
<1> HIDE DEF BInv, BuffersExact, TypeOK
<1>9. Contents' = Contents BY <1>8 DEF Contents
<1>10. User' = User BY <1>6, SameUser
<1> QED BY <1>9, <1>10 DEF Stutter

(* A process that comes to hold a buffer takes its block. *)
LEMMA Taken ==
  ASSUME BInv, BInv', NEW p \in Procs, pc' = [pc EXCEPT ![p] = "use"], UNCHANGED <<mine, blockno>>,
         pc[p] # "idle", pc[p] \notin Holding, \A q \in Procs : pc[q] \in Holding => mine[q] # mine[p],
         Contents' = Contents
  PROVE  B!Next
<1> DEFINE b == blockno[mine[p]]
<1>1. b \in Blocks BY DEF BInv, UseInv
<1>2. UserAre /\ UserAre' BY Mapping, MappingAfter
<1>3. /\ pc \in [Procs -> Holding \cup {"idle", "lock", "asleep", "read", "release"}]
      /\ mine \in [Procs -> Bufs]
  BY DEF BInv, BuffersExact, TypeOK
<1>4. \A q \in Procs : pc[q] \in Holding => blockno[mine[q]] # b
  BY <1>1, <1>3, BioAssumption DEF BInv, BuffersExact, OneBufferPerBlock
<1>5. User[b] = NoProc BY <1>1, <1>2, <1>4 DEF UserAre
<1>6. User'[b] = p BY <1>1, <1>2, <1>3 DEF UserAre, Holding
<1>7. ASSUME NEW x \in Blocks, x # b PROVE User'[x] = User[x]
  <2>1. \A q \in Procs : q # p => pc'[q] = pc[q] BY <1>3
  <2>2. CASE \E q \in Procs : pc[q] \in Holding /\ blockno[mine[q]] = x
    <3>1. PICK q \in Procs : pc[q] \in Holding /\ blockno[mine[q]] = x BY <2>2
    <3>2. pc'[q] \in Holding /\ blockno'[mine'[q]] = x BY <2>1, <3>1
    <3> QED BY <1>2, <3>1, <3>2 DEF UserAre
  <2>3. CASE \A q \in Procs : pc[q] \in Holding => blockno[mine[q]] # x
    <3>1. \A q \in Procs : pc'[q] \in Holding => blockno'[mine'[q]] # x BY <1>7, <2>1, <2>3
    <3> QED BY <1>2, <2>3, <3>1 DEF UserAre
  <2> QED BY <2>2, <2>3
<1> HIDE DEF b
<1>8. User = [x \in Blocks |-> User[x]] /\ User' = [x \in Blocks |-> User'[x]] BY DEF User
<1>9. User' = [User EXCEPT ![b] = p] BY <1>1, <1>6, <1>7, <1>8
<1>10. B!Take(p, b) BY <1>5, <1>9 DEF B!Take
<1> QED BY <1>1, <1>10 DEF B!Next

LEMMA Map_acquiresleep ==
  ASSUME BInv, BInv', NEW p \in Procs, acquiresleep(p) PROVE Stutter \/ B!Next
<1> USE DEF acquiresleep, At, Goto, buffers
<1>1. Contents' = Contents BY SameContents
<1>2. /\ pc \in [Procs -> Holding \cup {"idle", "lock", "asleep", "read", "release"}]
      /\ mine \in [Procs -> Bufs]
  BY DEF BInv, BuffersExact, TypeOK
<1>3. CASE holder[mine[p]] = NoProc /\ valid[mine[p]]
  <2>1. \A q \in Procs : pc[q] \in Holding => mine[q] # mine[p]
    <3> HIDE DEF acquiresleep
    <3>1. \A q \in Procs : pc[q] \in Holding => holder[mine[q]] = q BY <1>2 DEF BInv, HolderInv, Locking
    <3> QED BY <1>3, <3>1, BioAssumption
  <2>2. pc' = [pc EXCEPT ![p] = "use"] BY <1>3
  <2> QED BY <1>1, <2>1, <2>2, Taken DEF Holding
<1>4. CASE ~(holder[mine[p]] = NoProc /\ valid[mine[p]])
  <2>1. \A q \in Procs : pc'[q] \in Holding <=> pc[q] \in Holding BY <1>2, <1>4 DEF Holding
  <2>2. UNCHANGED <<mine, blockno>> OBVIOUS
  <2>3. User' = User BY <2>1, <2>2, SameUser DEF SameHolders
  <2> QED BY <1>1, <2>3 DEF Stutter
<1> QED BY <1>3, <1>4

LEMMA Map_bread == ASSUME BInv, BInv', NEW p \in Procs, bread(p) PROVE B!Next
<1> USE DEF bread, At, Goto
<1> DEFINE k == mine[p]
           b == blockno[mine[p]]
<1>1. /\ pc \in [Procs -> Holding \cup {"idle", "lock", "asleep", "read", "release"}]
      /\ mine \in [Procs -> Bufs]
      /\ data \in [Bufs -> Values] /\ valid \in [Bufs -> BOOLEAN]
  BY DEF BInv, BuffersExact, TypeOK
<1>2. b \in Blocks /\ ~valid[k] BY DEF BInv, UseInv
<1>3. \A q \in Procs : pc[q] \in Holding => mine[q] # k BY <1>2 DEF BInv, UseInv
<1>4. ContentsAre /\ ContentsAre' BY Mapping, MappingAfter
<1>5. \A j \in Bufs : blockno[j] = b => j = k
  BY <1>1, <1>2, BioAssumption DEF BInv, BuffersExact, OneBufferPerBlock
<1>6. Contents[b] = disk[b] BY <1>2, <1>4, <1>5 DEF ContentsAre
<1>7. Contents'[b] = disk[b]
  <2>1. blockno'[k] = b /\ valid'[k] /\ data'[k] = disk[b] BY <1>1
  <2> QED BY <1>1, <1>2, <1>4, <2>1 DEF ContentsAre
<1>8. ASSUME NEW x \in Blocks, x # b PROVE Contents'[x] = Contents[x]
  <2>1. \A j \in Bufs : blockno[j] = x => blockno'[j] = x /\ valid'[j] = valid[j] /\ data'[j] = data[j]
    BY <1>1, <1>8
  <2>2. CASE \E j \in Bufs : blockno[j] = x /\ valid[j]
    <3>1. PICK j \in Bufs : blockno[j] = x /\ valid[j] BY <2>2
    <3>2. blockno'[j] = x /\ valid'[j] /\ data'[j] = data[j] BY <2>1, <3>1
    <3> QED BY <1>4, <3>1, <3>2 DEF ContentsAre
  <2>3. CASE \A j \in Bufs : blockno[j] = x => ~valid[j]
    <3>1. \A j \in Bufs : blockno'[j] = x => ~valid'[j] BY <2>1, <2>3
    <3> QED BY <1>4, <2>3, <3>1 DEF ContentsAre
  <2> QED BY <2>2, <2>3
<1> HIDE DEF b, k
<1>9. Contents' = Contents BY <1>6, <1>7, <1>8 DEF Contents
<1> QED BY <1>3, <1>9, Taken DEF Holding, k

LEMMA Map_modify == ASSUME BInv, BInv', NEW p \in Procs, NEW v \in Values, modify(p, v) PROVE B!Next
<1> DEFINE k == mine[p]
           b == blockno[mine[p]]
<1>1. /\ pc[p] = "use" /\ pc' = [pc EXCEPT ![p] = IF k \in pinned THEN "use" ELSE "dirty"]
      /\ data' = [data EXCEPT ![k] = v] /\ UNCHANGED <<mine, blockno, valid, disk>>
  BY DEF modify, At, Goto, buffers
<1>2. /\ pc \in [Procs -> Holding \cup {"idle", "lock", "asleep", "read", "release"}]
      /\ mine \in [Procs -> Bufs]
      /\ data \in [Bufs -> Values]
  BY DEF BInv, BuffersExact, TypeOK
<1>3. b \in Blocks /\ valid[k] BY <1>1 DEF BInv, UseInv, Holding
<1>4. ContentsAre /\ ContentsAre' /\ UserAre BY Mapping, MappingAfter
<1>5. \A j \in Bufs : blockno[j] = b => j = k
  BY <1>2, <1>3, BioAssumption DEF BInv, BuffersExact, OneBufferPerBlock
<1>6. User[b] = p BY <1>1, <1>3, <1>4 DEF UserAre, Holding
<1>7. SameHolders BY <1>1, <1>2 DEF Holding, SameHolders
<1>8. User' = User BY <1>7, SameUser
<1>9. Contents'[b] = v
  <2>1. blockno'[k] = b /\ valid'[k] /\ data'[k] = v BY <1>1, <1>2, <1>3
  <2> QED BY <1>2, <1>3, <1>4, <2>1 DEF ContentsAre
<1>10. ASSUME NEW x \in Blocks, x # b PROVE Contents'[x] = Contents[x]
  <2>1. \A j \in Bufs : blockno[j] = x => data'[j] = data[j] BY <1>1, <1>2, <1>10
  <2>2. CASE \E j \in Bufs : blockno[j] = x /\ valid[j] BY <1>1, <1>4, <2>1, <2>2 DEF ContentsAre
  <2>3. CASE \A j \in Bufs : blockno[j] = x => ~valid[j] BY <1>1, <1>4, <2>3 DEF ContentsAre
  <2> QED BY <2>2, <2>3
<1> HIDE DEF b, k
<1>11. Contents = [x \in Blocks |-> Contents[x]] /\ Contents' = [x \in Blocks |-> Contents'[x]] BY DEF Contents
<1>12. Contents' = [Contents EXCEPT ![b] = v] BY <1>3, <1>9, <1>10, <1>11
<1>13. B!Modify(p, b, v) BY <1>6, <1>8, <1>12 DEF B!Modify
<1> QED BY <1>3, <1>13 DEF B!Next

(* Written through, the contents are the buffer's as before. *)
LEMMA Map_bwrite == ASSUME BInv, BInv', NEW p \in Procs, bwrite(p) PROVE Stutter
<1> DEFINE k == mine[p]
           b == blockno[mine[p]]
<1>1. /\ pc[p] \in {"use", "dirty"} /\ pc' = [pc EXCEPT ![p] = "written"]
      /\ disk' = [disk EXCEPT ![b] = data[k]] /\ UNCHANGED <<mine, blockno, valid, data>>
  BY DEF bwrite, At, Goto, buffers
<1>2. /\ pc \in [Procs -> Holding \cup {"idle", "lock", "asleep", "read", "release"}]
      /\ mine \in [Procs -> Bufs]
      /\ disk \in [Blocks -> Values]
  BY DEF BInv, BuffersExact, TypeOK
<1>3. b \in Blocks /\ valid[k] BY <1>1 DEF BInv, UseInv, Holding
<1>4. ContentsAre /\ ContentsAre' BY Mapping, MappingAfter
<1>5. ASSUME NEW x \in Blocks PROVE Contents'[x] = Contents[x]
  <2>1. CASE \E j \in Bufs : blockno[j] = x /\ valid[j]
    <3>1. PICK j \in Bufs : blockno[j] = x /\ valid[j] BY <2>1
    <3>2. blockno'[j] = x /\ valid'[j] /\ data'[j] = data[j] BY <1>1, <3>1
    <3> QED BY <1>4, <3>1, <3>2 DEF ContentsAre
  <2>2. CASE \A j \in Bufs : blockno[j] = x => ~valid[j]
    <3>1. x # b BY <1>2, <1>3, <2>2
    <3>2. disk'[x] = disk[x] BY <1>1, <1>2, <3>1
    <3> QED BY <1>1, <1>4, <2>2, <3>2 DEF ContentsAre
  <2> QED BY <2>1, <2>2
<1>6. SameHolders BY <1>1, <1>2 DEF Holding, SameHolders
<1>7. User' = User BY <1>6, SameUser
<1>8. Contents' = Contents BY <1>5 DEF Contents
<1> QED BY <1>7, <1>8 DEF Stutter

(* releasesleep ends the use of the block; the processes it wakes have none. *)
LEMMA Map_releasesleep == ASSUME BInv, BInv', NEW p \in Procs, releasesleep(p) PROVE B!Next
<1> DEFINE b == blockno[mine[p]]
<1>1. pc[p] \in Holding /\ UNCHANGED <<mine, blockno, valid, data, disk>>
  BY DEF releasesleep, At, buffers, Holding
<1>2. /\ pc \in [Procs -> Holding \cup {"idle", "lock", "asleep", "read", "release"}]
      /\ mine \in [Procs -> Bufs]
  BY DEF BInv, BuffersExact, TypeOK
<1>3. pc'[p] \notin Holding BY <1>2 DEF releasesleep, Woken, Holding
<1>4. \A q \in Procs : q # p => (pc'[q] \in Holding <=> pc[q] \in Holding)
  BY <1>2 DEF releasesleep, Woken, Holding
<1>5. b \in Blocks BY <1>1 DEF BInv, UseInv, Holding
<1>6. UserAre /\ UserAre' BY Mapping, MappingAfter
<1>7. User[b] = p BY <1>1, <1>5, <1>6 DEF UserAre
<1>8. \A q \in Procs : pc[q] \in Holding /\ blockno[mine[q]] = b => q = p BY <1>5, <1>6, <1>7 DEF UserAre
<1>9. User'[b] = NoProc
  <2>1. \A q \in Procs : pc'[q] \in Holding => blockno'[mine'[q]] # b BY <1>1, <1>3, <1>4, <1>8
  <2> QED BY <1>5, <1>6, <2>1 DEF UserAre
<1>10. ASSUME NEW x \in Blocks, x # b PROVE User'[x] = User[x]
  <2>1. CASE \E q \in Procs : pc[q] \in Holding /\ blockno[mine[q]] = x
    <3>1. PICK q \in Procs : pc[q] \in Holding /\ blockno[mine[q]] = x BY <2>1
    <3>2. pc'[q] \in Holding /\ blockno'[mine'[q]] = x BY <1>1, <1>4, <1>10, <3>1
    <3> QED BY <1>6, <3>1, <3>2 DEF UserAre
  <2>2. CASE \A q \in Procs : pc[q] \in Holding => blockno[mine[q]] # x
    <3>1. \A q \in Procs : pc'[q] \in Holding => blockno'[mine'[q]] # x BY <1>1, <1>3, <1>4, <2>2
    <3> QED BY <1>6, <2>2, <3>1 DEF UserAre
  <2> QED BY <2>1, <2>2
<1> HIDE DEF b
<1>11. User = [x \in Blocks |-> User[x]] /\ User' = [x \in Blocks |-> User'[x]] BY DEF User
<1>12. User' = [User EXCEPT ![b] = NoProc] BY <1>5, <1>9, <1>10, <1>11
<1>13. Contents' = Contents BY <1>1, SameContents
<1>14. B!Leave(p, b) BY <1>7, <1>12, <1>13 DEF B!Leave
<1> QED BY <1>5, <1>14 DEF B!Next

LEMMA Map_Next == BInv /\ BInv' /\ [Next]_vars => [B!Next]_(B!vars)
<1> SUFFICES ASSUME BInv, BInv', [Next]_vars PROVE Stutter \/ B!Next BY DEF Stutter, B!vars
<1>1. CASE UNCHANGED vars
  <2>1. UNCHANGED <<pc, mine, blockno, valid, data, disk>> BY <1>1 DEF vars, buffers
  <2>2. Contents' = Contents BY <2>1, SameContents
  <2>3. User' = User BY <2>1, SameUser DEF SameHolders
  <2> QED BY <2>2, <2>3 DEF Stutter
<1>2. CASE Next
  <2>1. PICK p \in Procs : \/ \E b \in Blocks : bget_hit(p, b) \/ bget_miss(p, b) \/ bget_panic(p, b)
                           \/ acquiresleep(p) \/ kill(p) \/ bread(p) \/ bwrite(p) \/ bpin(p) \/ bunpin(p)
                           \/ releasesleep(p) \/ brelse(p)
                           \/ \E v \in Values : modify(p, v)
    BY <1>2, Zenon DEF Next
  <2> QED BY <2>1, Map_quiet, Map_bget_miss, Map_acquiresleep, Map_bread, Map_bwrite, Map_releasesleep,
             Map_modify, Zenon
<1> QED BY <1>1, <1>2

(* binit leaves every buffer empty: the contents are the disk's. *)
LEMMA Map_Init == Init => B!Init
<1> SUFFICES ASSUME Init PROVE B!Init OBVIOUS
<1>1. BInv BY Inv_Init
<1>2. ContentsAre /\ UserAre BY <1>1, Mapping
<1>3. disk \in [Blocks -> Values] /\ (\A k \in Bufs : ~valid[k]) /\ \A q \in Procs : pc[q] = "idle"
  BY DEF Init
<1>4. \A x \in Blocks : Contents[x] = disk[x] /\ User[x] = NoProc
  BY <1>2, <1>3 DEF ContentsAre, UserAre, Holding
<1>5. User = [x \in Blocks |-> User[x]] /\ Contents = [x \in Blocks |-> Contents[x]] BY DEF User, Contents
<1> QED BY <1>3, <1>4, <1>5 DEF B!Init

(* For any number of buffers, processes, blocks and pins: the cache of      *)
(* kernel/bio.c is invisible.  Its users see one current contents per block *)
(* and one user at a time, whatever bget recycles, bread rereads, bwrite    *)
(* writes through or the log keeps pinned.                                  *)
THEOREM CacheIsStore == Spec => IsStore
<1>1. Init => B!Init BY Map_Init
<1>2. BInv /\ BInv' /\ [Next]_vars => [B!Next]_(B!vars) BY Map_Next
<1> QED BY <1>1, <1>2, BioInvariant, PTL DEF Spec, IsStore, B!Spec
==============================================================================
