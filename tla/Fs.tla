--------------------------------- MODULE Fs ---------------------------------
(***************************************************************************)
(* Inodes, directories and path names (kernel/fs.c), the system calls on   *)
(* names and descriptors (kernel/sysfile.c) and the file table             *)
(* (kernel/file.c), for processes that run them concurrently.  A step is   *)
(* what a process does from taking an inode's sleep lock to the next lock  *)
(* it takes or releases, or one critical section of itable.lock or         *)
(* ftable.lock.  The log is what TxDisk promises: the last end_op makes    *)
(* the updates durable, a crash takes the disk back to that point.  What a *)
(* file contains is InodeData's subject; here a directory is a function    *)
(* from names to inode numbers.                                            *)
(***************************************************************************)
EXTENDS Integers, Sequences, FiniteSets, FiniteSetsExt

CONSTANTS Procs, NoProc,
          Init_,      \* the process that runs after boot
          Names,      \* names a program gives to files
          NINODES,    \* inodes on the disk, numbered from ROOTINO = 1
          NFILE, NOFILE,
          Calls,      \* the calls programs make: [op, type, path, new]
          MaxCalls,   \* bound: calls before the first crash
          MaxAgain,   \* bound: calls from one crash to the next
          MaxLink     \* bound on nlink: link is not called beyond it

ASSUME FsAssumption == /\ NoProc \notin Procs /\ Init_ \in Procs
                       /\ NINODES \in Nat \ {0} /\ NFILE \in Nat /\ NOFILE \in Nat /\ MaxCalls \in Nat
                       /\ MaxAgain \in 0 .. MaxCalls
                       /\ MaxLink \in Nat

Root == 1
Inums == 1 .. NINODES
Files == 1 .. NFILE
Fds == 1 .. NOFILE
AllNames == Names \cup {".", ".."}
NoEnts == [n \in AllNames |-> 0]

VARIABLES disk,     \* struct dinode of every inode, and directory contents
          stable,   \* the disk a reboot finds
          active,   \* processes between begin_op and end_op
          it,       \* itable: the entry of an inode number, its lock included
          ftab,     \* ftable
          ofile, cwd, pc,
          L,        \* what a process in a call has in its local variables
          calls,    \* how many, for the bounds
          excused   \* history: inodes that iput cannot be expected to free

vars == <<disk, stable, active, it, ftab, ofile, cwd, pc, L, calls, excused>>
files == <<ftab, ofile>>

Free == [ref |-> 0, valid |-> FALSE, type |-> "none", nlink |-> 0, lock |-> NoProc]
Closed == [ref |-> 0, type |-> "NONE", ip |-> 0]
Idle == [op |-> "none", type |-> "none", path |-> <<>>, new |-> <<>>, par |-> FALSE,
         w |-> 0, ip |-> 0, put |-> 0, k |-> "user"]

(* The image of mkfs: a root directory that is its own parent. *)
Image == [type |-> [i \in Inums |-> IF i = Root THEN "DIR" ELSE "none"],
          nlink |-> [i \in Inums |-> IF i = Root THEN 1 ELSE 0],
          ents |-> [i \in Inums |-> IF i = Root THEN [NoEnts EXCEPT !["."] = Root, ![".."] = Root]
                                                ELSE NoEnts],
          stray |-> {}]

(* Boot on disk d: the tables are empty, userinit gives the first process   *)
(* the root directory.                                                      *)
Booted == [i \in Inums |-> IF i = Root THEN [Free EXCEPT !.ref = 1] ELSE Free]

Init == /\ disk = Image /\ stable = Image /\ active = {}
        /\ it = Booted
        /\ ftab = [f \in Files |-> Closed]
        /\ ofile = [p \in Procs |-> [d \in Fds |-> 0]]
        /\ cwd = [p \in Procs |-> IF p = Init_ THEN Root ELSE 0]
        /\ pc = [p \in Procs |-> IF p = Init_ THEN "user" ELSE "unused"]
        /\ L = [p \in Procs |-> Idle]
        /\ calls = 0 /\ excused = {}

-----------------------------------------------------------------------------
(* The inode layer, as functions of the inode table t.                      *)
At(p, l) == pc[p] = l
(* A program makes one more call. *)
Enter(p) == At(p, "user") /\ calls < MaxCalls /\ calls' = calls + 1
Goto(p, l, r) == pc' = [pc EXCEPT ![p] = l] /\ L' = [L EXCEPT ![p] = r]

(* iget finds the entry with a reference, or recycles one as invalid. *)
iget(t, i) == [t EXCEPT ![i] = IF @.ref > 0 THEN [@ EXCEPT !.ref = @ + 1]
                                            ELSE [Free EXCEPT !.ref = 1]]
idup(t, i) == [t EXCEPT ![i].ref = @ + 1]

(* ilock, once the sleep lock is free: an invalid entry is read from disk. *)
ilock(t, i, p) == [t EXCEPT ![i] = IF @.valid THEN [@ EXCEPT !.lock = p]
                                   ELSE [@ EXCEPT !.lock = p, !.valid = TRUE,
                                         !.type = disk.type[i], !.nlink = disk.nlink[i]]]
iunlock(t, i) == [t EXCEPT ![i].lock = NoProc]
CanLock(i) == it[i].lock = NoProc /\ (it[i].valid \/ disk.type[i] # "none")

(* ip->nlink += n; iupdate(ip). *)
AddLink(t, i, n) == [t EXCEPT ![i].nlink = @ + n]
iupdate(d, t, i) == [d EXCEPT !.type[i] = t[i].type, !.nlink[i] = t[i].nlink]

(* iput of i by p, then on to label k; iunlockput unlocks first. *)
Put(r, i, k) == [r EXCEPT !.put = i, !.k = k]

(* iput, the critical section that decides whether to free the inode, with  *)
(* its acquiresleep.                                                        *)
Unreferenced_anyref(i) == it[i].valid /\ it[i].nlink = 0  \* mutant: ref == 1 not checked
Unreferenced_never(i) == it[i].ref = 0 /\ it[i].valid /\ it[i].nlink = 0  \* mutant: ref == 0
Unreferenced(i) == it[i].ref = 1 /\ it[i].valid /\ it[i].nlink = 0

DropRef(t, i) == [t EXCEPT ![i] = IF @.ref = 1 THEN Free ELSE [@ EXCEPT !.ref = @ - 1]]

iput(p) == /\ At(p, "iput")
           /\ LET i == L[p].put IN
              IF Unreferenced(i)
              THEN /\ it[i].lock = NoProc
                   /\ it' = [it EXCEPT ![i].lock = p]
                   /\ Goto(p, "itrunc", L[p])
              ELSE /\ it' = DropRef(it, i)
                   /\ Goto(p, L[p].k, [L[p] EXCEPT !.put = 0])
           /\ UNCHANGED <<disk, stable, active, files, cwd, calls, excused>>

(* itrunc(ip); ip->type = 0; iupdate(ip). *)
iput_free(p) == /\ At(p, "itrunc")
                /\ LET i == L[p].put
                       t == [it EXCEPT ![i].type = "none"] IN
                   /\ it' = t
                   /\ disk' = [iupdate(disk, t, i) EXCEPT !.ents[i] = NoEnts, !.stray = @ \ {i}]
                   /\ excused' = excused \ {<<"crash", i>>, <<"late", i>>}
                /\ Goto(p, "freed", L[p])
                /\ UNCHANGED <<stable, active, files, cwd, calls>>

(* ip->valid = 0; releasesleep. *)
iput_release(p) == /\ At(p, "freed")
                   /\ it' = [iunlock(it, L[p].put) EXCEPT ![L[p].put].valid = FALSE]
                   /\ Goto(p, "iput_dec", L[p])
                   /\ UNCHANGED <<disk, stable, active, files, cwd, calls, excused>>

(* acquire(&itable.lock); ip->ref--. *)
iput_dec(p) == /\ At(p, "iput_dec")
               /\ it' = DropRef(it, L[p].put)
               /\ Goto(p, L[p].k, [L[p] EXCEPT !.put = 0])
               /\ UNCHANGED <<disk, stable, active, files, cwd, calls, excused>>

-----------------------------------------------------------------------------
(* begin_op and end_op.  The commit that follows the last end_op excludes   *)
(* every begin_op, so it is part of that end_op.                            *)
begin_op(p) == active' = active \cup {p}

end_op(p) == /\ At(p, "end_op")
             /\ active' = active \ {p}
             /\ stable' = IF active = {p} THEN disk ELSE stable
             /\ Goto(p, IF L[p].op = "exit" THEN "exit" ELSE "user",
                        IF L[p].op = "exit" THEN [Idle EXCEPT !.op = "exit"] ELSE Idle)
             /\ UNCHANGED <<disk, it, files, cwd, calls, excused>>

(* namex, up to its loop.  A path is absolute when it starts with "/". *)
Walk(p, path, par, r) ==
    IF path # <<>> /\ Head(path) = "/"
    THEN /\ it' = iget(it, Root)
         /\ Goto(p, "namex", [r EXCEPT !.path = Tail(path), !.par = par, !.w = Root])
    ELSE /\ it' = idup(it, cwd[p])
         /\ Goto(p, "namex", [r EXCEPT !.path = path, !.par = par, !.w = cwd[p]])

(* A system call that takes a path: begin_op, then namei or nameiparent. *)
Parent(op) == op \in {"creat", "mkdir", "mknod", "unlink"}

syscall(p, c) == /\ Enter(p)
                 /\ begin_op(p)
                 /\ Walk(p, c.path, Parent(c.op),
                         [Idle EXCEPT !.op = c.op, !.type = c.type, !.new = c.new])
                 /\ UNCHANGED <<disk, stable, files, cwd, excused>>

Found(r) == CASE r.op \in {"creat", "mkdir", "mknod"} -> "create"
              [] r.op = "link" -> (IF r.par THEN "link_to" ELSE "link")
              [] OTHER -> r.op
NotFound(r) == IF r.op = "link" /\ r.par THEN "link_bad" ELSE "end_op"

(* The loop of namex ends: the inode is found, unless its parent was asked for. *)
namex_end(p) == /\ At(p, "namex") /\ L[p].path = <<>>
                /\ IF L[p].par
                   THEN Goto(p, "iput", Put([L[p] EXCEPT !.w = 0], L[p].w, NotFound(L[p])))
                   ELSE Goto(p, Found(L[p]), L[p])
                /\ UNCHANGED <<disk, stable, active, it, files, cwd, calls, excused>>

(* One turn of the loop of namex, under the lock of the directory; only the *)
(* iput of iunlockput comes after.                                          *)
namex_locked(p) == \* mutant: iput(ip) for iunlockput(ip)
    /\ At(p, "namex") /\ L[p].path # <<>>
    /\ LET r == L[p]  w == r.w  name == Head(r.path)
           t == ilock(it, w, p)
           next == disk.ents[w][name] IN
       /\ CanLock(w)
       /\ CASE t[w].type = "DIR" /\ r.par /\ Len(r.path) = 1 ->
                 /\ it' = iunlock(t, w) /\ Goto(p, Found(r), r)
            [] t[w].type = "DIR" /\ ~(r.par /\ Len(r.path) = 1) /\ next # 0 ->
                 /\ it' = iget(t, next)
                 /\ Goto(p, "iput", Put([r EXCEPT !.path = Tail(@), !.w = next], w, "namex"))
            [] OTHER -> /\ it' = iunlock(t, w)
                        /\ Goto(p, "iput", Put([r EXCEPT !.w = 0], w, NotFound(r)))
    /\ UNCHANGED <<disk, stable, active, files, cwd, calls, excused>>
namex(p) ==
    /\ At(p, "namex") /\ L[p].path # <<>>
    /\ LET r == L[p]  w == r.w  name == Head(r.path)
           t == ilock(it, w, p)
           next == disk.ents[w][name] IN
       /\ CanLock(w)
       /\ CASE t[w].type = "DIR" /\ r.par /\ Len(r.path) = 1 ->
                 /\ it' = iunlock(t, w) /\ Goto(p, Found(r), r)
            [] t[w].type = "DIR" /\ ~(r.par /\ Len(r.path) = 1) /\ next # 0 ->
                 /\ it' = iget(iunlock(t, w), next)
                 /\ Goto(p, "iput", Put([r EXCEPT !.path = Tail(@), !.w = next], w, "namex"))
            [] OTHER -> /\ it' = iunlock(t, w)
                        /\ Goto(p, "iput", Put([r EXCEPT !.w = 0], w, NotFound(r)))
    /\ UNCHANGED <<disk, stable, active, files, cwd, calls, excused>>

-----------------------------------------------------------------------------
(* sys_unlink.  The parent w is locked and stays locked while the inode of  *)
(* the entry is. *)
unlink(p) ==
    /\ At(p, "unlink")
    /\ LET r == L[p]  w == r.w  name == Head(r.path)
           t == ilock(it, w, p)
           i == disk.ents[w][name] IN
       /\ CanLock(w) /\ t[w].type = "DIR"
       /\ IF name \in {".", ".."} \/ i = 0
          THEN /\ it' = iunlock(t, w)
               /\ Goto(p, "iput", Put([r EXCEPT !.w = 0], w, "end_op"))
          ELSE /\ it' = iget(t, i)
               /\ Goto(p, "unlink_ip", [r EXCEPT !.ip = i])
    /\ UNCHANGED <<disk, stable, active, files, cwd, calls, excused>>

isdirempty(d, i) == \A n \in Names : d.ents[i][n] = 0

unlink_ip(p) ==
    /\ At(p, "unlink_ip")
    /\ LET r == L[p]  w == r.w  i == r.ip  name == Head(r.path)
           t == ilock(it, i, p) IN
       /\ CanLock(i) /\ t[i].nlink >= 1
       /\ IF t[i].type = "DIR" /\ ~isdirempty(disk, i)
          THEN /\ it' = iunlock(t, i)
               /\ Goto(p, "iput", Put([r EXCEPT !.ip = 0], i, "unlock_dp"))
               /\ UNCHANGED disk
          ELSE LET u == IF t[i].type = "DIR" THEN AddLink(t, w, -1) ELSE t IN
               /\ disk' = iupdate([disk EXCEPT !.ents[w][name] = 0], u, w)
               /\ it' = iunlock(u, w)
               /\ Goto(p, "iput", Put([r EXCEPT !.w = 0], w, "unlinked"))
    /\ UNCHANGED <<stable, active, files, cwd, calls, excused>>

(* ip->nlink--; iupdate(ip); iunlockput(ip). *)
unlinked_noupdate(p) == \* mutant: iupdate forgotten
    /\ At(p, "unlinked")
    /\ it' = iunlock(AddLink(it, L[p].ip, -1), L[p].ip)
    /\ Goto(p, "iput", Put([L[p] EXCEPT !.ip = 0], L[p].ip, "end_op"))
    /\ UNCHANGED <<disk, stable, active, files, cwd, calls, excused>>
unlinked(p) ==
    /\ At(p, "unlinked")
    /\ LET i == L[p].ip  t == AddLink(it, i, -1) IN
       /\ disk' = iupdate(disk, t, i)
       /\ it' = iunlock(t, i)
       /\ Goto(p, "iput", Put([L[p] EXCEPT !.ip = 0], i, "end_op"))
    /\ UNCHANGED <<stable, active, files, cwd, calls, excused>>

(* iunlockput(dp) at bad: of sys_unlink, at fail: of create and in sys_link. *)
unlock_dp(p) ==
    /\ At(p, "unlock_dp")
    /\ it' = iunlock(it, L[p].w)
    /\ Goto(p, "iput", Put([L[p] EXCEPT !.w = 0], L[p].w, NotFound(L[p])))
    /\ UNCHANGED <<disk, stable, active, files, cwd, calls, excused>>

-----------------------------------------------------------------------------
(* create, under the lock of the parent w, up to the lock of the inode: the *)
(* one the name has, or a new one from ialloc.                              *)
FreeInums == {i \in Inums : disk.type[i] = "none"}

(* memset(dip, 0); dip->type = type. *)
ialloc(d, i, type) == [d EXCEPT !.type[i] = type, !.nlink[i] = 0, !.ents[i] = NoEnts]

(* A process whose iput has freed i, and has yet to drop its reference. *)
Lingering(i) == \E q \in Procs : L[q].put = i /\ pc[q] \in {"freed", "iput_dec"}

create(p) ==
    /\ At(p, "create")
    /\ LET r == L[p]  w == r.w  name == Head(r.path)
           t == ilock(it, w, p)
           i == disk.ents[w][name]
           new == Min(FreeInums) IN
       /\ CanLock(w) /\ t[w].type = "DIR"
       /\ CASE i # 0 ->
                 /\ it' = iget(iunlock(t, w), i)
                 /\ Goto(p, "iput", Put([r EXCEPT !.w = 0, !.ip = i], w, "create_old"))
                 /\ UNCHANGED <<disk, calls, excused>>
            [] i = 0 /\ FreeInums = {} ->
                 /\ it' = iunlock(t, w)
                 /\ Goto(p, "iput", Put([r EXCEPT !.w = 0], w, "end_op"))
                 /\ UNCHANGED <<disk, calls, excused>>
            [] i = 0 /\ FreeInums # {} ->
                 /\ disk' = ialloc(disk, new, r.type)
                 /\ it' = iget(t, new)
                 /\ Goto(p, "create_new", [r EXCEPT !.ip = new])
                 /\ excused' = excused \cup (IF Lingering(new) THEN {<<"late", new>>} ELSE {})
    /\ UNCHANGED <<stable, active, files, cwd, calls>>

(* The name is in use: fine for open if it is no directory. *)
create_old(p) ==
    /\ At(p, "create_old")
    /\ LET i == L[p].ip  t == ilock(it, i, p) IN
       /\ CanLock(i)
       /\ IF L[p].type = "FILE" /\ t[i].type # "DIR"
          THEN /\ it' = t
               /\ Goto(p, "opened", L[p])
          ELSE /\ it' = iunlock(t, i)
               /\ Goto(p, "iput", Put([L[p] EXCEPT !.ip = 0], i, "end_op"))
    /\ UNCHANGED <<disk, stable, active, files, cwd, calls, excused>>

(* dirlink(d, name, i) where the name is not present.  stray remembers the  *)
(* inodes that got a link in a directory which has none itself.             *)
AddEntry(d, dir, name, i) ==
    [d EXCEPT !.ents[dir][name] = i,
              !.stray = IF name \in Names /\ d.nlink[dir] = 0 THEN @ \cup {i} ELSE @]

(* The new inode: nlink = 1, "." and "..", the entry, dp->nlink++ for "..". *)
create_new(p) ==
    /\ At(p, "create_new")
    /\ LET r == L[p]  w == r.w  i == r.ip  name == Head(r.path)
           t == AddLink(ilock(it, i, p), i, 1)
           d == iupdate(disk, t, i)
           dots == IF r.type = "DIR" THEN AddEntry(AddEntry(d, i, ".", i), i, "..", w) ELSE d
           u == IF r.type = "DIR" THEN AddLink(t, w, 1) ELSE t IN
       /\ CanLock(i)
       /\ disk' = iupdate(AddEntry(dots, w, name, i), u, w)
       /\ it' = iunlock(u, w)
       /\ Goto(p, "iput", Put([r EXCEPT !.w = 0], w, "opened"))
    /\ UNCHANGED <<stable, active, files, cwd, calls, excused>>

(* A dirlink of create finds no disk block: ip->nlink = 0 and both are put. *)
create_fail(p) ==
    /\ At(p, "create_new")
    /\ LET i == L[p].ip  t == [ilock(it, i, p) EXCEPT ![i].nlink = 0] IN
       /\ CanLock(i)
       /\ disk' = iupdate(disk, t, i)
       /\ it' = iunlock(t, i)
       /\ Goto(p, "iput", Put([L[p] EXCEPT !.ip = 0], i, "unlock_dp"))
    /\ UNCHANGED <<stable, active, files, cwd, calls, excused>>

(* sys_mkdir and sys_mknod: iunlockput(ip). *)
created(p) == /\ At(p, "opened") /\ L[p].op \in {"mkdir", "mknod"}
              /\ it' = iunlock(it, L[p].ip)
              /\ Goto(p, "iput", Put([L[p] EXCEPT !.ip = 0], L[p].ip, "end_op"))
              /\ UNCHANGED <<disk, stable, active, files, cwd, calls, excused>>

-----------------------------------------------------------------------------
(* sys_open without O_CREATE; write access to a directory is refused. *)
open(p) ==
    /\ At(p, "open")
    /\ LET i == L[p].w  t == ilock(it, i, p) IN
       /\ CanLock(i)
       /\ IF t[i].type = "DIR" /\ L[p].type = "WRITE"
          THEN /\ it' = iunlock(t, i)
               /\ Goto(p, "iput", Put([L[p] EXCEPT !.w = 0], i, "end_op"))
          ELSE /\ it' = t
               /\ Goto(p, "opened", [L[p] EXCEPT !.w = 0, !.ip = i])
    /\ UNCHANGED <<disk, stable, active, files, cwd, calls, excused>>

(* The rest of sys_open, ip locked: filealloc and fdalloc, and the new file *)
(* takes over the reference; or, with an invalid major number, no file or   *)
(* no descriptor left, iunlockput (and fileclose of a file without type).   *)
FreeFiles == {f \in Files : ftab[f].ref = 0}
FreeFds(p) == {d \in Fds : ofile[p][d] = 0}

opened(p) ==
    /\ At(p, "opened") /\ L[p].op \in {"open", "creat"}
    /\ LET i == L[p].ip IN
       /\ it' = iunlock(it, i)
       /\ IF it[i].type = "BADDEV" \/ FreeFiles = {} \/ FreeFds(p) = {}
          THEN /\ Goto(p, "iput", Put([L[p] EXCEPT !.ip = 0], i, "end_op"))
               /\ UNCHANGED files
          ELSE /\ ftab' = [ftab EXCEPT ![Min(FreeFiles)] =
                              [ref |-> 1, ip |-> i,
                               type |-> IF it[i].type = "DEV" THEN "DEVICE" ELSE "INODE"]]
               /\ ofile' = [ofile EXCEPT ![p][Min(FreeFds(p))] = Min(FreeFiles)]
               /\ Goto(p, "end_op", [L[p] EXCEPT !.ip = 0])
    /\ UNCHANGED <<disk, stable, active, cwd, calls, excused>>

-----------------------------------------------------------------------------
(* sys_link: the old inode w gets its link first and becomes ip, then the   *)
(* parent of the new name is looked up.                                     *)
link(p) ==
    /\ At(p, "link")
    /\ LET r == L[p]  i == r.w  t == ilock(it, i, p)
           u == AddLink(iunlock(t, i), i, 1) IN
       /\ CanLock(i) /\ t[i].nlink < MaxLink
       /\ IF t[i].type = "DIR"
          THEN /\ it' = iunlock(t, i)
               /\ Goto(p, "iput", Put([r EXCEPT !.w = 0], i, "end_op"))
               /\ UNCHANGED disk
          ELSE /\ disk' = iupdate(disk, u, i)
               /\ it' = u
               /\ Goto(p, "link_parent", [r EXCEPT !.w = 0, !.ip = i])
    /\ UNCHANGED <<stable, active, files, cwd, calls, excused>>

(* nameiparent(new, name) *)
link_parent(p) == /\ At(p, "link_parent")
                  /\ Walk(p, L[p].new, TRUE, L[p])
                  /\ UNCHANGED <<disk, stable, active, files, cwd, calls, excused>>

(* dirlink, under the lock of the new parent: the entry is added, or its    *)
(* name is there and the inode dirlookup returned is put.                   *)
link_to(p) ==
    /\ At(p, "link_to")
    /\ LET r == L[p]  w == r.w  name == Head(r.path)
           t == ilock(it, w, p)
           old == disk.ents[w][name] IN
       /\ CanLock(w) /\ t[w].type = "DIR"
       /\ IF old # 0
          THEN /\ it' = iget(t, old)
               /\ Goto(p, "iput", Put(r, old, "unlock_dp"))
               /\ UNCHANGED disk
          ELSE /\ disk' = AddEntry(disk, w, name, r.ip)
               /\ it' = iunlock(t, w)
               /\ Goto(p, "iput", Put([r EXCEPT !.w = 0], w, "linked"))
    /\ UNCHANGED <<stable, active, files, cwd, calls, excused>>

(* dirlink finds no disk block for the entry. *)
link_full(p) ==
    /\ At(p, "link_to")
    /\ LET w == L[p].w  t == ilock(it, w, p) IN
       /\ CanLock(w) /\ t[w].type = "DIR" /\ disk.ents[w][Head(L[p].path)] = 0
       /\ it' = iunlock(t, w)
       /\ Goto(p, "iput", Put([L[p] EXCEPT !.w = 0], w, "link_bad"))
    /\ UNCHANGED <<disk, stable, active, files, cwd, calls, excused>>

linked(p) == /\ At(p, "linked")
             /\ Goto(p, "iput", Put([L[p] EXCEPT !.ip = 0], L[p].ip, "end_op"))
             /\ UNCHANGED <<disk, stable, active, it, files, cwd, calls, excused>>

(* bad: the link is taken back. *)
link_bad(p) ==
    /\ At(p, "link_bad")
    /\ LET i == L[p].ip  t == AddLink(ilock(it, i, p), i, -1) IN
       /\ CanLock(i)
       /\ disk' = iupdate(disk, t, i)
       /\ it' = iunlock(t, i)
       /\ Goto(p, "iput", Put([L[p] EXCEPT !.ip = 0], i, "end_op"))
    /\ UNCHANGED <<stable, active, files, cwd, calls, excused>>

(* sys_chdir: the reference of namei replaces that of the old directory. *)
chdir(p) ==
    /\ At(p, "chdir")
    /\ LET i == L[p].w  t == ilock(it, i, p) IN
       /\ CanLock(i)
       /\ it' = iunlock(t, i)
       /\ IF t[i].type # "DIR"
          THEN /\ Goto(p, "iput", Put([L[p] EXCEPT !.w = 0], i, "end_op"))
               /\ UNCHANGED cwd
          ELSE /\ cwd' = [cwd EXCEPT ![p] = i]
               /\ Goto(p, "iput", Put([L[p] EXCEPT !.w = 0], cwd[p], "end_op"))
    /\ UNCHANGED <<disk, stable, active, files, calls, excused>>

-----------------------------------------------------------------------------
(* fileclose: the last reference puts the inode, in a transaction. *)
fileclose(p, f, r, k) ==
    IF ftab[f].ref > 1
    THEN /\ ftab' = [ftab EXCEPT ![f].ref = @ - 1]
         /\ Goto(p, k, r)
         /\ UNCHANGED active
    ELSE /\ ftab' = [ftab EXCEPT ![f] = Closed]
         /\ begin_op(p)
         /\ Goto(p, "iput", Put(r, ftab[f].ip, "end_op"))

close(p) == /\ Enter(p)
            /\ \E d \in Fds : /\ ofile[p][d] # 0
                              /\ ofile' = [ofile EXCEPT ![p][d] = 0]
                              /\ fileclose(p, ofile[p][d], [Idle EXCEPT !.op = "close"], "user")
            /\ UNCHANGED <<disk, stable, it, cwd, excused>>

(* sys_dup *)
dup(p) == /\ Enter(p) /\ FreeFds(p) # {}
          /\ \E d \in Fds : /\ ofile[p][d] # 0
                            /\ ofile' = [ofile EXCEPT ![p][Min(FreeFds(p))] = ofile[p][d]]
                            /\ ftab' = [ftab EXCEPT ![ofile[p][d]].ref = @ + 1]
          /\ UNCHANGED <<disk, stable, active, it, cwd, pc, L, excused>>

(* fork: the child q shares the open files (filedup) and the directory (idup). *)
fork_nodup(p, q) == \* mutant: idup forgotten
    /\ At(p, "user") /\ pc[q] = "unused"
    /\ ftab' = [f \in Files |-> [ftab[f] EXCEPT !.ref = @ + Cardinality({d \in Fds : ofile[p][d] = f})]]
    /\ ofile' = [ofile EXCEPT ![q] = ofile[p]]
    /\ cwd' = [cwd EXCEPT ![q] = cwd[p]]
    /\ Goto(q, "user", Idle)
    /\ UNCHANGED <<disk, stable, active, it, calls, excused>>
fork(p, q) ==
    /\ At(p, "user") /\ pc[q] = "unused"
    /\ ftab' = [f \in Files |-> [ftab[f] EXCEPT !.ref = @ + Cardinality({d \in Fds : ofile[p][d] = f})]]
    /\ ofile' = [ofile EXCEPT ![q] = ofile[p]]
    /\ it' = idup(it, cwd[p])
    /\ cwd' = [cwd EXCEPT ![q] = cwd[p]]
    /\ Goto(q, "user", Idle)
    /\ UNCHANGED <<disk, stable, active, calls, excused>>

(* exit: closes the files one by one, then puts the directory. *)
exit(p) == /\ Enter(p) /\ p # Init_
           /\ Goto(p, "exit", [Idle EXCEPT !.op = "exit"])
           /\ UNCHANGED <<disk, stable, active, it, files, cwd, excused>>

exit_close(p) ==
    /\ At(p, "exit") /\ \E d \in Fds : ofile[p][d] # 0
    /\ LET d == Min({e \in Fds : ofile[p][e] # 0}) IN
       /\ ofile' = [ofile EXCEPT ![p][d] = 0]
       /\ fileclose(p, ofile[p][d], L[p], "exit")
    /\ UNCHANGED <<disk, stable, it, cwd, calls, excused>>

exit_cwd(p) ==
    /\ At(p, "exit") /\ \A d \in Fds : ofile[p][d] = 0
    /\ IF cwd[p] # 0
       THEN /\ begin_op(p)
            /\ cwd' = [cwd EXCEPT ![p] = 0]
            /\ Goto(p, "iput", Put(L[p], cwd[p], "end_op"))
       ELSE /\ Goto(p, "unused", Idle)
            /\ UNCHANGED <<active, cwd>>
    /\ UNCHANGED <<disk, stable, it, files, calls, excused>>

-----------------------------------------------------------------------------
(* The inode a process locks next; 0 if none. *)
Wants(p) == CASE pc[p] \in {"namex", "unlink", "create", "open", "link", "link_to", "chdir"} ->
                    (IF pc[p] = "namex" /\ L[p].path = <<>> THEN 0 ELSE L[p].w)
              [] pc[p] \in {"unlink_ip", "create_old", "create_new", "link_bad"} -> L[p].ip
              [] pc[p] = "iput" -> (IF Unreferenced(L[p].put) THEN L[p].put ELSE 0)
              [] OTHER -> 0

(* "ilock: no type", "dirlookup not DIR" and "unlink: nlink < 1": what p    *)
(* would find once it had locked the inode it wants.  It then goes no       *)
(* further.                                                                 *)
Panics(p) ==
    /\ Wants(p) # 0 /\ pc[p] # "iput"
    /\ LET i == Wants(p)  t == ilock(it, i, p) IN
       /\ it[i].lock = NoProc
       /\ \/ ~it[i].valid /\ disk.type[i] = "none"
          \/ pc[p] \in {"unlink", "create", "link_to"} /\ t[i].type # "DIR"
          \/ pc[p] = "unlink_ip" /\ t[i].nlink < 1

(* Power fails; the log recovers the disk and the first process runs.  An   *)
(* inode without links stays allocated: nothing looks for it.               *)
crash ==
    /\ disk' = stable /\ active' = {} /\ UNCHANGED stable
    /\ it' = Booted
    /\ ftab' = [f \in Files |-> Closed]
    /\ ofile' = [p \in Procs |-> [d \in Fds |-> 0]]
    /\ cwd' = [p \in Procs |-> IF p = Init_ THEN Root ELSE 0]
    /\ pc' = [p \in Procs |-> IF p = Init_ THEN "user" ELSE "unused"]
    /\ L' = [p \in Procs |-> Idle]
    /\ calls' = MaxCalls - MaxAgain
    /\ excused' = {<<"crash", i>> : i \in {j \in Inums : stable.type[j] # "none" /\ stable.nlink[j] = 0}}

step(p) == \/ \E c \in Calls : syscall(p, c)
           \/ close(p) \/ dup(p) \/ exit(p) \/ exit_close(p) \/ exit_cwd(p)
           \/ \E q \in Procs : fork(p, q)
           \/ namex(p) \/ namex_end(p)
           \/ iput(p) \/ iput_free(p) \/ iput_release(p) \/ iput_dec(p) \/ end_op(p)
           \/ unlink(p) \/ unlink_ip(p) \/ unlinked(p) \/ unlock_dp(p)
           \/ create(p) \/ create_old(p) \/ create_new(p) \/ create_fail(p) \/ created(p)
           \/ open(p) \/ opened(p) \/ chdir(p)
           \/ link(p) \/ link_parent(p) \/ link_to(p) \/ link_full(p) \/ linked(p) \/ link_bad(p)

Next == crash \/ \E p \in Procs : step(p)
Spec == Init /\ [][Next]_vars

-----------------------------------------------------------------------------
(* None of the inode layer's assertions fails: an inode number found in a   *)
(* directory is that of an allocated inode (ilock), the parent returned by  *)
(* nameiparent is still a directory when it is locked again (dirlookup),    *)
(* and an entry's inode still counts it (sys_unlink).                       *)
NoPanic == \A p \in Procs : ~Panics(p)

(* iput's claim that its acquiresleep does not block, and that no two       *)
(* processes wait for each other, or one for itself: the inode a process    *)
(* waits for is never locked by one that waits for an inode of the first.   *)
LocksAcyclic ==
    /\ \A p \in Procs : pc[p] = "iput" /\ Wants(p) # 0 => it[Wants(p)].lock = NoProc
    /\ \A p, q \in Procs : /\ Wants(p) # 0 /\ it[Wants(p)].lock = q
                           /\ Wants(q) # 0
                           => it[Wants(q)].lock # p

(* ip->ref and f->ref count the pointers to the inode and to the file, at   *)
(* every step of every call: an entry is never recycled under a pointer and *)
(* never kept without one.                                                  *)
Pointers(i) == Cardinality({p \in Procs : cwd[p] = i})
               + Cardinality({f \in Files : ftab[f].ip = i})
               + Cardinality({p \in Procs : L[p].w = i})
               + Cardinality({p \in Procs : L[p].ip = i})
               + Cardinality({p \in Procs : L[p].put = i})

RefExact == /\ \A i \in Inums : it[i].ref = Pointers(i)
            /\ \A f \in Files : ftab[f].ref = Cardinality({<<p, d>> \in Procs \X Fds : ofile[p][d] = f})

(* What a reboot may find: every entry of a directory that has links names  *)
(* an allocated inode, and an inode's nlink is the number of entries that   *)
(* name it, plus, for a directory, its subdirectories (and the root's own   *)
(* one); except that an inode which got a link in a removed directory may   *)
(* have more.                                                               *)
Live(d, i) == d.type[i] = "DIR" /\ d.nlink[i] > 0
Links(d, i) == Cardinality({<<j, n>> \in Inums \X Names : Live(d, j) /\ d.ents[j][n] = i})
               + Cardinality({j \in Inums : Live(d, j) /\ j # Root /\ d.ents[j][".."] = i})
               + (IF i = Root THEN 1 ELSE 0)

LinksExact ==
    /\ \A i \in Inums, n \in AllNames : Live(stable, i) /\ stable.ents[i][n] # 0
                                       => stable.type[stable.ents[i][n]] # "none"
    /\ \A i \in Inums : /\ stable.nlink[i] >= Links(stable, i)
                        /\ i \notin stable.stray => stable.nlink[i] = Links(stable, i)

(* "If that was the last reference and the inode has no links to it, free   *)
(* the inode": when no call is in progress, an allocated inode without      *)
(* links is open or somebody's current directory, unless a crash left it so *)
(* or its number was reused while an iput of its last use was unfinished.   *)
Unfreed == {i \in Inums : disk.type[i] # "none" /\ disk.nlink[i] = 0 /\ it[i].ref = 0}

Reclaimed == active = {} => \A i \in Unfreed : {<<"crash", i>>, <<"late", i>>} \cap excused # {}

(* Both counts of an inode are exact: ref, of who uses it, and nlink, of    *)
(* its names.  kernel/fs.c and sysfile.c.                                   *)
CountsExact == RefExact /\ LinksExact
=============================================================================
