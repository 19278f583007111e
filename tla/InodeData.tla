------------------------------ MODULE InodeData ------------------------------
(***************************************************************************)
(* Where the bytes of a file are: the block bitmap, bmap's direct and      *)
(* indirect blocks, itrunc, readi and writei (kernel/fs.c), under fileread *)
(* and filewrite (kernel/file.c), starting from the image of mkfs/mkfs.c.  *)
(* Programs read, write, reopen and truncate files; writes fail for want   *)
(* of blocks or because the program's memory ends.  A step is what is done *)
(* under one ilock; filewrite's transactions are separate steps.           *)
(* A block holds BSIZE words, each a byte of data or a block number.       *)
(***************************************************************************)
EXTENDS Integers, Sequences, FiniteSets, FiniteSetsExt, SequencesExt

CONSTANTS OpenFiles,    \* open files
          InodeOf,      \* f->ip
          NDIRECT, BSIZE,
          NMETA, FSSIZE,
          BPB,          \* blocks to a bitmap block
          MAXOPBLOCKS,
          Sizes,        \* programs read and write so many bytes at a time
          UserFiles     \* lengths of the files mkfs puts in the image

NINDIRECT == BSIZE
MAXFILE == NDIRECT + NINDIRECT
Root == 1
Inodes == 1 .. (1 + Len(UserFiles))
Blocks == 0 .. (FSSIZE - 1)
Words == 0 .. (BSIZE - 1)
Zeros == [j \in Words |-> 0]
Entries == 2 + Len(UserFiles)   \* of the root directory

(* mkfs rounds the root's size up to the next multiple of BSIZE, also when  *)
(* it is one: the last block would then be missing.  The Makefile's list of *)
(* programs leaves the last block partly filled.                            *)
ASSUME InodeDataAssumption ==
    /\ NDIRECT \in Nat \ {0} /\ BSIZE \in Nat \ {0} /\ BPB \in Nat \ {0}
    /\ NMETA \in Nat /\ FSSIZE \in Nat /\ Sizes \subseteq Nat /\ MAXOPBLOCKS \in Nat
    /\ Entries % BSIZE # 0

VARIABLES fs,      \* [used, buf, home, inode]: bitmap, buffers, logged blocks, inodes
          off,     \* f->off
          todo,    \* bytes a filewrite in progress has yet to write
          logged,  \* how many blocks the last step has logged
          bytes    \* history: the bytes a reader may find at each offset

datavars == <<fs, off, todo, logged, bytes>>

Ceil(n) == (n + BSIZE - 1) \div BSIZE
Small(a, b) == IF a < b THEN a ELSE b

-----------------------------------------------------------------------------
(* mkfs.  Byte o of file i is 2i or 2i + 1, by the parity of o. *)
Byte(tag, o) == (2 * tag) + (o % 2)
Image(i, n) == [o \in 1 .. n |-> Byte(i, o - 1)]

NoInode == [size |-> 0, addrs |-> [k \in 0 .. NDIRECT |-> 0]]

(* iappend for one byte b: m is the file system under construction. *)
MkAddr(m, i) ==
    LET fbn == m.inode[i].size \div BSIZE  ind == m.inode[i].addrs[NDIRECT] IN
    CASE fbn < NDIRECT /\ m.inode[i].addrs[fbn] = 0 ->
            [m EXCEPT !.inode[i].addrs[fbn] = m.freeblock, !.freeblock = @ + 1]
      [] fbn >= NDIRECT /\ ind = 0 ->
            [m EXCEPT !.inode[i].addrs[NDIRECT] = m.freeblock, !.freeblock = @ + 2,
                      !.home[m.freeblock][fbn - NDIRECT] = m.freeblock + 1]
      [] fbn >= NDIRECT /\ ind # 0 /\ m.home[ind][fbn - NDIRECT] = 0 ->
            [m EXCEPT !.home[ind][fbn - NDIRECT] = m.freeblock, !.freeblock = @ + 1]
      [] OTHER -> m

iappend(m, i, b) ==
    LET a == MkAddr(m, i)  o == a.inode[i].size  fbn == o \div BSIZE
        x == IF fbn < NDIRECT THEN a.inode[i].addrs[fbn]
                              ELSE a.home[a.inode[i].addrs[NDIRECT]][fbn - NDIRECT] IN
    [a EXCEPT !.home[x][o % BSIZE] = b, !.inode[i].size = @ + 1]

AppendAll(m, i, s) == FoldLeft(LAMBDA x, b : iappend(x, i, b), m, s)

(* ".", "..", then an entry and the content of each program, in turn. *)
mkfs == LET blank == [inode |-> [i \in Inodes |-> NoInode],
                      home |-> [b \in Blocks |-> Zeros], freeblock |-> NMETA]
            root == AppendAll(blank, Root, Image(Root, 2))
            user == FoldLeft(LAMBDA m, k : AppendAll(iappend(m, Root, Byte(Root, k + 1)), k + 1,
                                                     Image(k + 1, UserFiles[k])),
                             root, [k \in 1 .. Len(UserFiles) |-> k])
        IN [user EXCEPT !.inode[Root].size = (@ \div BSIZE + 1) * BSIZE]

Padded(s, n) == [o \in 1 .. n |-> IF o <= Len(s) THEN {s[o]} ELSE {0}]

DataInit == /\ fs = [used |-> 0 .. (mkfs.freeblock - 1),   \* balloc(freeblock)
                     buf |-> mkfs.home, home |-> mkfs.home, inode |-> mkfs.inode]
            /\ off = [f \in OpenFiles |-> 0]
            /\ todo = [f \in OpenFiles |-> 0]
            /\ logged = 0
            /\ bytes = [i \in Inodes |->
                          IF i = Root THEN Padded(Image(Root, Entries), Ceil(Entries) * BSIZE)
                                      ELSE Padded(Image(i, UserFiles[i - 1]), UserFiles[i - 1])]

-----------------------------------------------------------------------------
(* The functions below take and return s = fs with the set log of what the  *)
(* transaction has logged.                                                  *)
log_write(s, b) == [s EXCEPT !.home[b] = s.buf[b], !.log = @ \cup {<<"block", b>>}]
Bitmap(b) == <<"bitmap", b \div BPB>>

(* balloc: the first free block, marked and zeroed; 0 if there is none. *)
FreeBlocks(s) == Blocks \ s.used
balloc(s) == IF FreeBlocks(s) = {} THEN [s |-> s, addr |-> 0]
             ELSE LET b == Min(FreeBlocks(s)) IN
                  [s |-> log_write([s EXCEPT !.used = @ \cup {b}, !.buf[b] = Zeros,
                                             !.log = @ \cup {Bitmap(b)}], b),
                   addr |-> b]

(* The content of a free block does not matter: balloc zeroes it. *)
bfree(s, b) == [s EXCEPT !.used = @ \ {b}, !.buf[b] = Zeros, !.home[b] = Zeros, !.log = @ \cup {Bitmap(b)}]

(* bmap: the address of block bn of inode i, allocated if there is none. *)
bmap_direct(s, i, bn) ==
    IF s.inode[i].addrs[bn] # 0 THEN [s |-> s, addr |-> s.inode[i].addrs[bn]]
    ELSE LET r == balloc(s) IN [r EXCEPT !.s.inode[i].addrs[bn] = r.addr]

bmap_indirect_unlogged(s, ind, j) == \* mutant: no log_write of the indirect block
    IF s.buf[ind][j] # 0 THEN [s |-> s, addr |-> s.buf[ind][j]]
    ELSE LET r == balloc(s) IN
         IF r.addr = 0 THEN r
         ELSE [r EXCEPT !.s.buf[ind][j] = r.addr]
bmap_indirect(s, ind, j) ==
    IF s.buf[ind][j] # 0 THEN [s |-> s, addr |-> s.buf[ind][j]]
    ELSE LET r == balloc(s) IN
         IF r.addr = 0 THEN r
         ELSE [r EXCEPT !.s = log_write([r.s EXCEPT !.buf[ind][j] = r.addr], ind)]

bmap(s, i, bn) == IF bn < NDIRECT THEN bmap_direct(s, i, bn)
                  ELSE LET r == bmap_direct(s, i, NDIRECT) IN
                       IF r.addr = 0 THEN r ELSE bmap_indirect(r.s, r.addr, bn - NDIRECT)

(* itrunc: every block of the inode, then the indirect block itself. *)
Pointed(s, i) == LET a == s.inode[i].addrs  ind == a[NDIRECT] IN
                 ({a[k] : k \in 0 .. NDIRECT}
                  \cup (IF ind = 0 THEN {} ELSE {s.buf[ind][j] : j \in Words})) \ {0}
Pointed_direct(s, i) == {s.inode[i].addrs[k] : k \in 0 .. NDIRECT} \ {0}
itrunc_leak(s, i) == \* mutant: the blocks the indirect block lists are forgotten
    [FoldFunction(LAMBDA b, x : bfree(x, b), s, [b \in Pointed_direct(s, i) |-> b])
        EXCEPT !.inode[i] = NoInode, !.log = @ \cup {<<"inode", i>>}]
itrunc(s, i) ==
    [FoldFunction(LAMBDA b, x : bfree(x, b), s, [b \in Pointed(s, i) |-> b])
        EXCEPT !.inode[i] = NoInode, !.log = @ \cup {<<"inode", i>>}]

(* The file blocks that bytes off .. off + n - 1 are in, in order. *)
Span(o, n) == IF n = 0 THEN <<>>
              ELSE [k \in 1 .. ((o + n - 1) \div BSIZE - o \div BSIZE + 1) |-> o \div BSIZE + k - 1]

(* readi, for a program whose memory takes the data: the bytes it gets. *)
readi(s, i, o, n) ==
    LET size == s.inode[i].size
        len == IF o > size THEN 0 ELSE Small(n, size - o)
        Piece(bn) == LET b == bmap(s, i, bn).addr IN
                     [k \in 1 .. (Small(o + len, (bn + 1) * BSIZE) - (IF bn * BSIZE < o THEN o ELSE bn * BSIZE)) |->
                        s.buf[b][((IF bn * BSIZE < o THEN o % BSIZE ELSE 0) + k) - 1]]
    IN FoldLeft(LAMBDA acc, bn : acc \o Piece(bn), <<>>, Span(o, len))

(* One turn of writei's loop, for block bn; x = [s, off, torn, stop].  The  *)
(* program's memory ends after byte end of the file's new content: copyin   *)
(* then fails, with what lies before it in the buffer but not logged.       *)
WriteBlock(x, i, bn, tag, last, end) ==
    LET r == bmap(x.s, i, bn)
        to == Small(last, (bn + 1) * BSIZE)
        got == Small(to, end)
        s == [r.s EXCEPT !.buf[r.addr] =
                [j \in Words |-> IF bn * BSIZE + j \in x.off .. (got - 1)
                                 THEN Byte(tag, bn * BSIZE + j) ELSE @[j]]] IN
    CASE x.stop -> x
      [] ~x.stop /\ r.addr = 0 -> [x EXCEPT !.s = r.s, !.stop = TRUE]
      [] ~x.stop /\ r.addr # 0 /\ got < to -> [s |-> s, off |-> x.off, torn |-> got, stop |-> TRUE]
      [] OTHER -> [x EXCEPT !.s = log_write(s, r.addr), !.off = to]

(* writei of n bytes: r is what it returns, torn the end of the bytes that  *)
(* changed in a buffer only.                                                *)
writei(s, i, tag, o, n, end) ==
    LET x == FoldLeft(LAMBDA y, bn : WriteBlock(y, i, bn, tag, o + n, end),
                      [s |-> s, off |-> o, torn |-> o, stop |-> FALSE], Span(o, n)) IN
    IF o > s.inode[i].size \/ o + n > MAXFILE * BSIZE
    THEN [s |-> s, r |-> -1, torn |-> o]
    ELSE [s |-> [x.s EXCEPT !.inode[i].size = IF x.off > @ THEN x.off ELSE @,
                            !.log = @ \cup {<<"inode", i>>}],
          r |-> x.off - o, torn |-> x.torn]

-----------------------------------------------------------------------------
WithLog(s) == [used |-> s.used, buf |-> s.buf, home |-> s.home, inode |-> s.inode, log |-> {}]
NoLog(s) == [used |-> s.used, buf |-> s.buf, home |-> s.home, inode |-> s.inode]

(* fileread: the offset moves by what was read; not at all if copyout fails. *)
fileread(f, n) ==
    /\ todo[f] = 0
    /\ off' = [off EXCEPT ![f] = @ + Len(readi(WithLog(fs), InodeOf[f], @, n))]
    /\ logged' = 0
    /\ UNCHANGED <<fs, todo, bytes>>

(* filewrite: a few blocks at a time, each in its own transaction. *)
MaxWrite_noslop == ((MAXOPBLOCKS - 1 - 1) \div 2) * BSIZE  \* mutant: no slop for unaligned writes
MaxWrite == ((MAXOPBLOCKS - 1 - 1 - 2) \div 2) * BSIZE

(* What the file is after r bytes were written at o, and those before torn  *)
(* may have been.                                                           *)
Written(old, tag, o, r, torn) ==
    [k \in 1 .. (IF o + r > Len(old) THEN o + r ELSE Len(old)) |->
        CASE k - 1 \in o .. (o + r - 1) -> {Byte(tag, k - 1)}
          [] k - 1 \in (o + r) .. (torn - 1) /\ k <= Len(old) -> old[k] \cup {Byte(tag, k - 1)}
          [] OTHER -> old[k]]

(* One turn of its loop, with n bytes to go: all of a call's, or the rest   *)
(* of those of the call in progress.                                        *)
filewrite(f, n, end) ==
    /\ todo[f] \in {0, n}
    /\ LET n1 == Small(n, MaxWrite)  i == InodeOf[f]
           w == writei(WithLog(fs), i, f, off[f], n1, end) IN
       /\ end \in off[f] .. (off[f] + n1)
       /\ fs' = NoLog(w.s)
       /\ logged' = Cardinality(w.s.log)
       /\ off' = [off EXCEPT ![f] = IF w.r > 0 THEN @ + w.r ELSE @]
       /\ todo' = [todo EXCEPT ![f] = IF w.r # n1 THEN 0 ELSE n - n1]
       /\ bytes' = IF w.r < 0 THEN bytes
                   ELSE [bytes EXCEPT ![i] = Written(@, f, off[f], w.r, w.torn)]

(* The program closes f and opens the file again. *)
reopen(f) == /\ todo[f] = 0
             /\ off' = [off EXCEPT ![f] = 0]
             /\ logged' = 0
             /\ UNCHANGED <<fs, todo, bytes>>

(* Some program opens file i with O_TRUNC; the offsets of others stay. *)
open_trunc(i) == /\ LET s == itrunc(WithLog(fs), i) IN
                    /\ fs' = NoLog(s) /\ logged' = Cardinality(s.log)
                 /\ bytes' = [bytes EXCEPT ![i] = <<>>]
                 /\ UNCHANGED <<off, todo>>

(* The buffer cache recycles a buffer: the next bread finds what was logged. *)
(* (A buffer that some transaction has logged is not recycled, and its      *)
(* commit logs what the buffer then holds: nothing happens to fs.buf.)      *)
recycle(b) == /\ fs.buf[b] # fs.home[b]
              /\ fs' = [fs EXCEPT !.buf[b] = fs.home[b]]
              /\ logged' = 0
              /\ UNCHANGED <<off, todo, bytes>>

DataNext == \/ \E f \in OpenFiles : \/ \E n \in Sizes : fileread(f, n)
                                    \/ \E n \in Sizes : \E end \in off[f] .. (off[f] + n) : filewrite(f, n, end)
                                    \/ reopen(f)
            \/ \E i \in Inodes \ {Root} : open_trunc(i)
            \/ \E b \in Blocks : recycle(b)

-----------------------------------------------------------------------------
(* Reading a file at any offset returns exactly the bytes between it and    *)
(* the end of the file, each of them the last one written there (or, where  *)
(* the program's memory ended in the middle of a block, the one before):    *)
(* bmap, readi and writei agree on where a byte is, the size is what was    *)
(* written even if a write fails half way, and a recycled buffer takes      *)
(* nothing back.                                                            *)
ReadsBack == \A i \in Inodes : \A o \in 0 .. fs.inode[i].size, n \in Sizes :
    LET got == readi(WithLog(fs), i, o, n) IN
    /\ Len(bytes[i]) = fs.inode[i].size
    /\ Len(got) = Small(n, fs.inode[i].size - o)
    /\ \A k \in 1 .. Len(got) : got[k] \in bytes[i][o + k]

Pointers(i) == {<<i, "addr", k>> : k \in {k \in 0 .. NDIRECT : fs.inode[i].addrs[k] # 0}}
               \cup (LET ind == fs.inode[i].addrs[NDIRECT] IN
                     IF ind = 0 THEN {} ELSE {<<i, "ind", j>> : j \in {j \in Words : fs.buf[ind][j] # 0}})

(* A block is marked in use exactly if it belongs to mkfs's metadata or to  *)
(* one file, at one place: nothing is lost, shared or freed twice, also     *)
(* when a write stops because the disk is full.  Every block of a file up   *)
(* to its size is there, so that readi, called outside a transaction, never *)
(* allocates one.                                                           *)
BlocksExact ==
    /\ fs.used = 0 .. (NMETA - 1) \cup UNION {Pointed(fs, i) : i \in Inodes}
    /\ Cardinality(fs.used) = NMETA + Cardinality(UNION {Pointers(i) : i \in Inodes})
    /\ \A i \in Inodes, k \in 0 .. (MAXFILE - 1) :
          k < Ceil(fs.inode[i].size) => bmap(WithLog(fs), i, k).s = WithLog(fs)

(* filewrite's arithmetic: what one of its transactions logs (data,         *)
(* indirect and bitmap blocks, the inode) fits in MAXOPBLOCKS, even if      *)
(* every bitmap block is another one, wherever the write starts.  begin_op  *)
(* reserved no more than that.                                              *)
WriteFitsTransaction == logged <= MAXOPBLOCKS
=============================================================================
