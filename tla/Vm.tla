--------------------------------- MODULE Vm ---------------------------------
(***************************************************************************)
(* Physical pages and user address spaces: kernel/kalloc.c, kernel/vm.c,   *)
(* exec (kernel/exec.c) with sys_exec's argument pages, and the memory     *)
(* side of fork, sbrk, exit and wait (kernel/proc.c).  The functions of    *)
(* vm.c are functions of the memory m: they return the memory they leave   *)
(* and their result.  Each operation is one action: processes share        *)
(* nothing here but the free list, and after kalloc has failed an          *)
(* operation only frees.  Which free page kalloc returns does not matter.  *)
(* Sizes and addresses are bytes, of pages of PGSIZE bytes; page tables    *)
(* have LEVELS levels of FAN entries (xv6: 3 levels of 512).               *)
(***************************************************************************)
EXTENDS Integers, Sequences, FiniteSets, FiniteSetsExt, SequencesExt

CONSTANTS Procs, Init_,
          NPAGES, PGSIZE, LEVELS, FAN,
          USERSTACK,   \* pages of a program's stack
          Programs,    \* what exec may find in a file
          Argcs,       \* how many arguments exec is called with
          Grow,        \* arguments of sbrk
          Copies,      \* [va, n]: where system calls return data
          Fetches      \* [va, n]: where they take it from

Pages == 1 .. NPAGES
NoPage == -1
TrampolineText == 0         \* its physical page: not one kalloc knows
MAXPAGE == FAN ^ LEVELS
TRAMPOLINE == MAXPAGE - 1   \* page numbers
TRAPFRAME == MAXPAGE - 2

(* There is less memory than a process would need to grow up to TRAPFRAME:  *)
(* sbrk and exec do not compare sizes with it.                              *)
ASSUME VmAssumption == /\ Init_ \in Procs
                       /\ NPAGES \in Nat /\ PGSIZE \in Nat \ {0}
                       /\ LEVELS \in Nat \ {0, 1} /\ FAN \in Nat \ {0, 1}
                       /\ USERSTACK \in Nat \ {0}
                       /\ NPAGES < TRAPFRAME

VARIABLES m,       \* [free, pt, data, panic]
          proc,    \* struct proc: state, trapframe, pagetable, sz
          pipes,   \* pages that hold a struct pipe
          image    \* history: the memory each program should see, by page

vmvars == <<m, proc, pipes, image>>

NoPte == [to |-> NoPage, f |-> {}]
EmptyTable == [i \in 0 .. (FAN - 1) |-> NoPte]
Valid(pte) == pte.to # NoPage
Junk == [b \in 0 .. (PGSIZE - 1) |-> "junk"]
ZeroPage == [b \in 0 .. (PGSIZE - 1) |-> "0"]

-----------------------------------------------------------------------------
(* kalloc, and kfree.  A page that is freed twice counts as a panic. *)
Take(x, pa) == [m |-> [x EXCEPT !.free = @ \ {pa}, !.pt[pa] = EmptyTable, !.data[pa] = Junk],
                pa |-> pa]
kalloc(x) == IF x.free = {} THEN [m |-> x, pa |-> NoPage] ELSE Take(x, Min(x.free))
kfree(x, pa) == [x EXCEPT !.free = @ \cup {pa}, !.panic = @ \/ pa \notin Pages \/ pa \in x.free,
                          !.pt[pa] = EmptyTable, !.data[pa] = Junk]

(* walk: the page-table page with the entry of page va, NoPage if there is  *)
(* none and none can be made; and the entry's index in it.                  *)
PX(level, va) == (va \div FAN ^ level) % FAN

NewTable(table, i, new) == IF new.pa = NoPage THEN new
                           ELSE [new EXCEPT !.m.pt[table][i] = [to |-> new.pa, f |-> {}]]
WalkLevel(r, i, alloc) ==
    CASE r.pa = NoPage -> r
      [] r.pa # NoPage /\ Valid(r.m.pt[r.pa][i]) -> [r EXCEPT !.pa = r.m.pt[r.pa][i].to]
      [] r.pa # NoPage /\ ~Valid(r.m.pt[r.pa][i]) /\ ~alloc -> [r EXCEPT !.pa = NoPage]
      [] OTHER -> NewTable(r.pa, i, kalloc(r.m))

walk(x, root, va, alloc) ==
    FoldLeft(LAMBDA r, k : WalkLevel(r, PX(LEVELS - k, va), alloc), [m |-> x, pa |-> root],
             [k \in 1 .. (LEVELS - 1) |-> k])

Entry(x, table, va) == IF table = NoPage THEN NoPte ELSE x.pt[table][PX(0, va)]
Pte(x, root, va) == Entry(x, walk(x, root, va, FALSE).pa, va)

(* walkaddr *)
UserPage(va, pte) == IF va < MAXPAGE /\ Valid(pte) /\ "U" \in pte.f THEN pte.to ELSE NoPage
walkaddr(x, root, va) == UserPage(va, Pte(x, root, va))

(* mappages, for the one page every caller but kvmmap maps. *)
SetEntry(r, i, pte) ==
    IF r.pa = NoPage THEN [m |-> r.m, ok |-> FALSE]
    ELSE [m |-> [r.m EXCEPT !.panic = @ \/ Valid(r.m.pt[r.pa][i]), !.pt[r.pa][i] = pte], ok |-> TRUE]
mappages(x, root, va, pa, f) == SetEntry(walk(x, root, va, TRUE), PX(0, va), [to |-> pa, f |-> f])

(* uvmunmap, page by page; the entry must be there and be a leaf. *)
ClearEntry(x, table, i, free) ==
    IF table = NoPage \/ ~Valid(x.pt[table][i]) \/ x.pt[table][i].f = {} THEN [x EXCEPT !.panic = TRUE]
    ELSE [(IF free THEN kfree(x, x.pt[table][i].to) ELSE x) EXCEPT !.pt[table][i] = NoPte]
UnmapOne(x, root, va, free) == ClearEntry(x, walk(x, root, va, FALSE).pa, PX(0, va), free)

uvmunmap(x, root, va, n, free) ==
    FoldLeft(LAMBDA y, k : UnmapOne(y, root, va + k - 1, free), x, [k \in 1 .. n |-> k])

PGROUNDUP(sz) == (sz + PGSIZE - 1) \div PGSIZE   \* in pages

(* uvmdealloc *)
uvmdealloc(x, root, old, new) ==
    IF new >= old THEN [m |-> x, sz |-> old]
    ELSE [m |-> uvmunmap(x, root, PGROUNDUP(new), PGROUNDUP(old) - PGROUNDUP(new), TRUE), sz |-> new]

(* uvmalloc: a page at a time; what it has mapped is taken back when a page *)
(* or a page-table page is missing.  sz = 0 means failure.                  *)
MapNew_keep(r, va, pa, b) == IF b.ok THEN [r EXCEPT !.m = b.m]  \* mutant: mem is not freed when mappages fails
                             ELSE [m |-> b.m, ok |-> FALSE, at |-> va]
MapNew(r, va, pa, b) == IF b.ok THEN [r EXCEPT !.m = b.m]
                        ELSE [m |-> kfree(b.m, pa), ok |-> FALSE, at |-> va]
Fill(r, root, va, f, content, a) ==
    IF a.pa = NoPage THEN [r EXCEPT !.ok = FALSE, !.at = va]
    ELSE MapNew(r, va, a.pa, mappages([a.m EXCEPT !.data[a.pa] = content], root, va, a.pa, f))
AllocOne(r, root, va, f) == IF r.ok THEN Fill(r, root, va, f, ZeroPage, kalloc(r.m)) ELSE r

Grown(r, root, first, new) ==
    IF r.ok THEN [m |-> r.m, sz |-> new]
    ELSE [m |-> uvmdealloc(r.m, root, r.at * PGSIZE, first * PGSIZE).m, sz |-> 0]
AllocAll(x, root, first, n, f) ==
    FoldLeft(LAMBDA y, k : AllocOne(y, root, first + k - 1, f), [m |-> x, ok |-> TRUE, at |-> first],
             [k \in 1 .. n |-> k])
uvmalloc(x, root, old, new, f) ==
    IF new < old THEN [m |-> x, sz |-> old]
    ELSE Grown(AllocAll(x, root, PGROUNDUP(old), PGROUNDUP(new) - PGROUNDUP(old), f \cup {"R", "U"}),
               root, PGROUNDUP(old), new)

(* freewalk: every page-table page below root, and root; no leaf may be left. *)
RECURSIVE freewalk(_, _)
FreeChild(y, pte) == CASE Valid(pte) /\ pte.f = {} -> freewalk(y, pte.to)
                       [] Valid(pte) /\ pte.f # {} -> [y EXCEPT !.panic = TRUE]
                       [] OTHER -> y
freewalk(x, root) == kfree(FoldLeft(LAMBDA y, i : FreeChild(y, x.pt[root][i - 1]), x, [i \in 1 .. FAN |-> i]),
                           root)

uvmfree(x, root, sz) == freewalk(uvmunmap(x, root, 0, PGROUNDUP(sz), TRUE), root)

(* uvmcopy: the entries of the parent must exist; on failure the copies go. *)
CopyPage(r, new, va, pte) == IF Valid(pte) THEN Fill(r, new, va, pte.f, r.m.data[pte.to], kalloc(r.m))
                             ELSE [r EXCEPT !.m.panic = TRUE]
CopyOne(r, old, new, va) == IF r.ok THEN CopyPage(r, new, va, Pte(r.m, old, va)) ELSE r

Copied(r, new) == IF r.ok THEN r ELSE [r EXCEPT !.m = uvmunmap(r.m, new, 0, r.at, TRUE)]
uvmcopy(x, old, new, sz) ==
    Copied(FoldLeft(LAMBDA y, k : CopyOne(y, old, new, k - 1), [m |-> x, ok |-> TRUE, at |-> 0],
                    [k \in 1 .. PGROUNDUP(sz) |-> k]), new)

(* uvmclear *)
uvmclear(x, root, va) == [x EXCEPT !.pt[walk(x, root, va, FALSE).pa][PX(0, va)].f = @ \ {"U"}]

(* copyout of n bytes v to address va, page by page, up to the first page   *)
(* the program may not write.                                               *)
RECURSIVE copyout(_, _, _, _, _)
InPage(va, n) == IF n < PGSIZE - (va % PGSIZE) THEN n ELSE PGSIZE - (va % PGSIZE)
NextPage(va) == (va \div PGSIZE + 1) * PGSIZE
Overwrite(page, off, n, v) == [b \in 0 .. (PGSIZE - 1) |-> IF b \in off .. (off + n - 1) THEN v ELSE page[b]]
CopyoutTo(x, root, va, n, v, pte) ==
    IF va \div PGSIZE >= MAXPAGE \/ ~Valid(pte) \/ ~({"U", "W"} \subseteq pte.f) THEN [m |-> x, ok |-> FALSE]
    ELSE copyout([x EXCEPT !.data[pte.to] = Overwrite(@, va % PGSIZE, InPage(va, n), v)],
                 root, NextPage(va), n - InPage(va, n), v)
copyout(x, root, va, n, v) == IF n = 0 THEN [m |-> x, ok |-> TRUE]
                              ELSE CopyoutTo(x, root, va, n, v, Pte(x, root, va \div PGSIZE))

(* copyin: page by page, n bytes of each; the bytes, or failure. *)
RECURSIVE copyin(_, _, _, _)
Before(s, rest) == [rest EXCEPT !.bytes = s \o @]
CopyinFrom_long(x, root, va, n, pa) == \* mutant: the next page is read from the same offset
    IF pa = NoPage THEN [ok |-> FALSE, bytes |-> <<>>]
    ELSE Before([k \in 1 .. InPage(va, n) |-> x.data[pa][(va % PGSIZE) + k - 1]],
                copyin(x, root, va + PGSIZE, n - InPage(va, n)))
CopyinFrom(x, root, va, n, pa) ==
    IF pa = NoPage THEN [ok |-> FALSE, bytes |-> <<>>]
    ELSE Before([k \in 1 .. InPage(va, n) |-> x.data[pa][(va % PGSIZE) + k - 1]],
                copyin(x, root, NextPage(va), n - InPage(va, n)))
copyin(x, root, va, n) == IF n = 0 THEN [ok |-> TRUE, bytes |-> <<>>]
                          ELSE CopyinFrom(x, root, va, n, walkaddr(x, root, va \div PGSIZE))

(* copyinstr: as copyin, but the "0" byte ends it, and it must come within  *)
(* max bytes.                                                               *)
RECURSIVE copyinstr(_, _, _, _)
CopystrFrom(x, root, va, max, pa) ==
    CASE pa = NoPage -> [ok |-> FALSE, bytes |-> <<>>]
      [] pa # NoPage /\ x.data[pa][va % PGSIZE] = "0" -> [ok |-> TRUE, bytes |-> <<>>]
      [] OTHER -> Before(<<x.data[pa][va % PGSIZE]>>, copyinstr(x, root, va + 1, max - 1))
copyinstr(x, root, va, max) == IF max = 0 THEN [ok |-> FALSE, bytes |-> <<>>]
                               ELSE CopystrFrom(x, root, va, max, walkaddr(x, root, va \div PGSIZE))

-----------------------------------------------------------------------------
(* proc_pagetable: nothing but the trampoline and the trapframe, neither    *)
(* for the user.                                                            *)
MapFrame(pt, b) ==
    IF b.ok THEN [m |-> b.m, pa |-> pt]
    ELSE [m |-> uvmfree(uvmunmap(b.m, pt, TRAMPOLINE, 1, FALSE), pt, 0), pa |-> NoPage]
MapTrampoline(pt, tf, a) ==
    IF a.ok THEN MapFrame(pt, mappages(a.m, pt, TRAPFRAME, tf, {"R", "W"}))
    ELSE [m |-> uvmfree(a.m, pt, 0), pa |-> NoPage]
InitTable(r, tf) ==
    IF r.pa = NoPage THEN r
    ELSE MapTrampoline(r.pa, tf, mappages(r.m, r.pa, TRAMPOLINE, TrampolineText, {"R", "X"}))
proc_pagetable(x, tf) == InitTable(kalloc(x), tf)

proc_freepagetable(x, root, sz) ==
    uvmfree(uvmunmap(uvmunmap(x, root, TRAMPOLINE, 1, FALSE), root, TRAPFRAME, 1, FALSE), root, sz)

Unused == [state |-> "unused", tf |-> NoPage, pt |-> NoPage, sz |-> 0]

(* freeproc: what has been allocated so far. *)
FreeTable(y, p) == IF p.pt # NoPage THEN proc_freepagetable(y, p.pt, p.sz) ELSE y
freeproc(x, p) == FreeTable(IF p.tf # NoPage THEN kfree(x, p.tf) ELSE x, p)

(* allocproc: a trapframe page and an empty page table. *)
WithTable(tf, r) ==
    IF r.pa = NoPage THEN [m |-> freeproc(r.m, [Unused EXCEPT !.tf = tf]), p |-> Unused]
    ELSE [m |-> r.m, p |-> [state |-> "used", tf |-> tf, pt |-> r.pa, sz |-> 0]]
WithFrame(t) == IF t.pa = NoPage THEN [m |-> t.m, p |-> Unused] ELSE WithTable(t.pa, proc_pagetable(t.m, t.pa))
allocproc(x) == WithFrame(kalloc(x))

-----------------------------------------------------------------------------
(* flags2perm is the set of the segment's flags W and X. *)

(* loadseg: the pages must be mapped; a short read fails.  s.avail is how   *)
(* many bytes of the segment the file really has.                           *)
LoadPage(y, pa, n) ==
    IF pa = NoPage THEN [y EXCEPT !.panic = TRUE] ELSE [y EXCEPT !.data[pa] = Overwrite(@, 0, n, "text")]
loadseg(x, root, s) ==
    [m |-> FoldLeft(LAMBDA y, k : LoadPage(y, walkaddr(y, root, s.vaddr \div PGSIZE + k - 1),
                                           InPage(0, s.filesz - (k - 1) * PGSIZE)),
                    x, [k \in 1 .. PGROUNDUP(s.filesz) |-> k]),
     ok |-> s.avail >= s.filesz]

(* One turn of exec's loop over the program headers. *)
Loaded(b, sz) == [m |-> b.m, sz |-> sz, ok |-> b.ok]
LoadInto(r, root, s, a) == IF a.sz = 0 THEN [r EXCEPT !.m = a.m, !.ok = FALSE]
                           ELSE Loaded(loadseg(a.m, root, s), a.sz)
LoadSegment(r, root, s) ==
    CASE ~r.ok \/ ~s.load -> r
      [] r.ok /\ s.load /\ (s.memsz < s.filesz \/ s.vaddr % PGSIZE # 0) -> [r EXCEPT !.ok = FALSE]
      [] OTHER -> LoadInto(r, root, s, uvmalloc(r.m, root, r.sz, s.vaddr + s.memsz, s.flags))

(* exec of prog by the process p, its arguments taking argsz bytes of the   *)
(* stack.  Nothing of p changes before everything has succeeded; bad frees  *)
(* the new page table pt of size sz.                                        *)
Bad(y, p, pt, sz) == [m |-> proc_freepagetable(y, pt, sz), p |-> p, ok |-> FALSE]
ExecArgs(b, p, pt, sz) ==
    IF ~b.ok THEN Bad(b.m, p, pt, sz)
    ELSE [m |-> proc_freepagetable(b.m, p.pt, p.sz), p |-> [p EXCEPT !.pt = pt, !.sz = sz], ok |-> TRUE]
ExecStack(a, p, pt, top, argsz) ==
    CASE a.sz = 0 -> Bad(a.m, p, pt, top * PGSIZE)
      [] a.sz > 0 /\ argsz > USERSTACK * PGSIZE -> Bad(uvmclear(a.m, pt, top), p, pt, a.sz)
      [] OTHER -> ExecArgs(copyout(uvmclear(a.m, pt, top), pt, a.sz - argsz, argsz, "arg"), p, pt, a.sz)
ExecLoaded(r, p, pt, argsz) ==
    IF ~r.ok THEN Bad(r.m, p, pt, r.sz)
    ELSE ExecStack(uvmalloc(r.m, pt, PGROUNDUP(r.sz) * PGSIZE, (PGROUNDUP(r.sz) + USERSTACK + 1) * PGSIZE, {"W"}),
                   p, pt, PGROUNDUP(r.sz), argsz)
ExecTable(t, p, prog, argsz) ==
    IF t.pa = NoPage THEN [m |-> t.m, p |-> p, ok |-> FALSE]
    ELSE ExecLoaded(FoldLeft(LAMBDA y, s : LoadSegment(y, t.pa, s), [m |-> t.m, sz |-> 0, ok |-> TRUE], prog.segs),
                    p, t.pa, argsz)
exec(x, p, prog, argsz) ==
    IF prog.elf THEN ExecTable(proc_pagetable(x, p.tf), p, prog, argsz) ELSE [m |-> x, p |-> p, ok |-> FALSE]

(* sys_exec: a page for each argument string, until one cannot be had or    *)
(* cannot be fetched; every page taken is given back, after exec or without *)
(* it.  args.n strings, of which the last is readable iff args.ok.          *)
GotPage(r, a) == IF a.pa = NoPage THEN [r EXCEPT !.ok = FALSE]
                 ELSE [m |-> a.m, ok |-> TRUE, got |-> Append(r.got, a.pa)]
ArgPage(r) == IF r.ok THEN GotPage(r, kalloc(r.m)) ELSE r
FreeArgs(e, got) == [e EXCEPT !.m = FoldLeft(LAMBDA z, pa : kfree(z, pa), e.m, got)]
WithArgs(r, p, prog, args) ==
    FreeArgs(IF r.ok /\ args.ok THEN exec(r.m, p, prog, args.size) ELSE [m |-> r.m, p |-> p, ok |-> FALSE], r.got)
sys_exec(x, p, prog, args) ==
    WithArgs(FoldLeft(LAMBDA y, k : ArgPage(y), [m |-> x, ok |-> TRUE, got |-> <<>>], [k \in 1 .. args.n |-> k]),
             p, prog, args)

-----------------------------------------------------------------------------
(* The memory a program should see, written without page tables: for each   *)
(* page below its size the permissions and the bytes.                       *)
Heap == [f |-> {"R", "W", "U"}, b |-> ZeroPage]
Resize(im, n) == [k \in 0 .. (n - 1) |-> IF k \in DOMAIN im THEN im[k] ELSE Heap]

(* After exec: the page belongs to the first loaded segment that reaches    *)
(* it, a byte to any segment whose file part has it; then an inaccessible   *)
(* page, then the stack with the arguments at its end.                      *)
ExecImage(prog, argsz) ==
    LET segs == {i \in DOMAIN prog.segs : prog.segs[i].load}
        End(i) == PGROUNDUP(prog.segs[i].vaddr + prog.segs[i].memsz)
        top == Max({0} \cup {End(i) : i \in segs})
        Text(a) == \E i \in segs : a \in prog.segs[i].vaddr .. (prog.segs[i].vaddr + prog.segs[i].filesz - 1)
        Page(k) == [f |-> {"R", "U"} \cup prog.segs[Min({i \in segs : End(i) > k})].flags,
                    b |-> [o \in 0 .. (PGSIZE - 1) |-> IF Text(k * PGSIZE + o) THEN "text" ELSE "0"]]
        end == (top + 1 + USERSTACK) * PGSIZE
        Stack(k) == [Heap EXCEPT !.b = [o \in 0 .. (PGSIZE - 1) |->
                                          IF k * PGSIZE + o >= end - argsz THEN "arg" ELSE "0"]]
    IN [k \in 0 .. (top + USERSTACK) |-> CASE k < top -> Page(k)
                                           [] k = top -> [Heap EXCEPT !.f = {"R", "W"}]
                                           [] OTHER -> Stack(k)]

(* What a program can reach: the bytes from va on, up to the first page     *)
(* without the flags need; and what writing there makes of the image.       *)
Reach(im, va, n, need) ==
    Max({0} \cup {k \in 1 .. n : \A a \in va .. (va + k - 1) :
                      a \div PGSIZE \in DOMAIN im /\ need \subseteq im[a \div PGSIZE].f})
Poke(im, va, n, v) ==
    LET len == Reach(im, va, n, {"U", "W"}) IN
    [k \in DOMAIN im |-> [im[k] EXCEPT !.b =
        [o \in 0 .. (PGSIZE - 1) |-> IF k * PGSIZE + o \in va .. (va + len - 1) THEN v ELSE @[o]]]]

-----------------------------------------------------------------------------
(* userinit: one page with initcode. *)
FirstPage == [ZeroPage EXCEPT ![0] = "text"]
BootPage(p, k) == [m |-> mappages([k.m EXCEPT !.data[k.pa] = FirstPage], p.pt, 0, k.pa, {"W", "R", "X", "U"}).m,
                   p |-> [p EXCEPT !.sz = PGSIZE]]
BootProc(a) == BootPage(a.p, kalloc(a.m))
Boot == BootProc(allocproc([free |-> Pages, pt |-> [pa \in Pages |-> EmptyTable],
                            data |-> [pa \in Pages |-> Junk], panic |-> FALSE]))

VmInit == /\ m = Boot.m
          /\ proc = [p \in Procs |-> IF p = Init_ THEN Boot.p ELSE Unused]
          /\ pipes = {}
          /\ image = [p \in Procs |-> IF p = Init_
                        THEN [k \in {0} |-> [f |-> {"W", "R", "X", "U"}, b |-> FirstPage]]
                        ELSE <<>>]

IsRunning(p) == proc[p].state = "used"

(* fork *)
ForkCopy(c, new, sz) == IF c.ok THEN [m |-> c.m, p |-> [new EXCEPT !.sz = sz]]
                        ELSE [m |-> freeproc(c.m, new), p |-> Unused]
ForkAlloc(a, p) == IF a.p.state = "unused" THEN a
                   ELSE ForkCopy(uvmcopy(a.m, p.pt, a.p.pt, p.sz), a.p, p.sz)
Forked(r, p, q) == /\ m' = r.m
                   /\ proc' = [proc EXCEPT ![q] = r.p]
                   /\ image' = [image EXCEPT ![q] = IF r.p.state = "unused" THEN @ ELSE image[p]]
fork(p, q) == /\ IsRunning(p) /\ proc[q].state = "unused"
              /\ Forked(ForkAlloc(allocproc(m), proc[p]), p, q)
              /\ UNCHANGED pipes

(* growproc: a negative n that would take the size below zero wraps around  *)
(* and leaves it alone.                                                     *)
Shrunk_trim(pt, sz, n) == \* mutant: shrinking to the middle of a page frees that page
    IF sz + n < 0 THEN [m |-> m, sz |-> sz]
    ELSE [m |-> uvmunmap(m, pt, (sz + n) \div PGSIZE, PGROUNDUP(sz) - ((sz + n) \div PGSIZE), TRUE), sz |-> sz + n]
Shrunk(pt, sz, n) == IF sz + n < 0 THEN [m |-> m, sz |-> sz] ELSE uvmdealloc(m, pt, sz, sz + n)
Resized(p, r, sz) == /\ m' = r.m
                     /\ proc' = [proc EXCEPT ![p].sz = sz]
                     /\ image' = [image EXCEPT ![p] = Resize(@, PGROUNDUP(sz))]
Enlarged(p, r) == Resized(p, r, IF r.sz = 0 THEN proc[p].sz ELSE r.sz)
Lessened(p, r) == Resized(p, r, r.sz)
growproc(p, n) ==
    /\ IsRunning(p)
    /\ IF n > 0 THEN Enlarged(p, uvmalloc(m, proc[p].pt, proc[p].sz, proc[p].sz + n, {"W"}))
                ELSE Lessened(p, Shrunk(proc[p].pt, proc[p].sz, n))
    /\ UNCHANGED pipes

Executed(p, prog, args, r) == /\ m' = r.m
                              /\ proc' = [proc EXCEPT ![p] = r.p]
                              /\ image' = IF r.ok THEN [image EXCEPT ![p] = ExecImage(prog, args.size)] ELSE image
execute(p, prog, args) ==
    /\ IsRunning(p)
    /\ Executed(p, prog, args, sys_exec(m, proc[p], prog, args))
    /\ UNCHANGED pipes

(* A system call returns bytes to the program. *)
answer(p, c) ==
    /\ IsRunning(p)
    /\ m' = copyout(m, proc[p].pt, c.va, c.n, "data").m
    /\ image' = [image EXCEPT ![p] = Poke(@, c.va, c.n, "data")]
    /\ UNCHANGED <<proc, pipes>>

(* exit leaves the memory to the parent's wait. *)
exit_memory(p) == /\ IsRunning(p) /\ p # Init_
                  /\ proc' = [proc EXCEPT ![p].state = "zombie"]
                  /\ UNCHANGED <<m, pipes, image>>
reap(p) == /\ proc[p].state = "zombie"
           /\ m' = freeproc(m, proc[p])
           /\ proc' = [proc EXCEPT ![p] = Unused]
           /\ image' = [image EXCEPT ![p] = <<>>]
           /\ UNCHANGED pipes

(* pipealloc and the last pipeclose. *)
PipePage(a) == m' = a.m /\ pipes' = IF a.pa = NoPage THEN pipes ELSE pipes \cup {a.pa}
pipealloc == PipePage(kalloc(m)) /\ UNCHANGED <<proc, image>>
pipeclose(pa) == /\ m' = kfree(m, pa)
                 /\ pipes' = pipes \ {pa}
                 /\ UNCHANGED <<proc, image>>

VmNext == \/ \E p, q \in Procs : fork(p, q)
          \/ \E p \in Procs, n \in Grow : growproc(p, n)
          \/ \E p \in Procs, prog \in Programs, args \in Argcs : execute(p, prog, args)
          \/ \E p \in Procs, c \in Copies : answer(p, c)
          \/ \E p \in Procs : exit_memory(p) \/ reap(p)
          \/ pipealloc
          \/ \E pa \in pipes : pipeclose(pa)

-----------------------------------------------------------------------------
Live == {p \in Procs : proc[p].state # "unused"}

(* The pages p owns, in a sequence: trapframe, page-table pages, leaves. *)
RECURSIVE Tree(_)
Tree(root) == FoldLeft(LAMBDA s, i : LET pte == m.pt[root][i - 1] IN
                                     CASE pte.to \in {NoPage, TrampolineText} -> s
                                       [] pte.to \in Pages /\ pte.f = {} -> s \o Tree(pte.to)
                                       [] OTHER -> Append(s, pte.to),
                       <<root>>, [i \in 1 .. FAN |-> i])
Owned(p) == Tree(proc[p].pt)

(* Every page of memory is on the free list, or a pipe, or belongs to one   *)
(* process (page table, trapframe or user page) in one place, whatever      *)
(* failed half way; and no function of vm.c or kalloc.c panics.  kernel/    *)
(* vm.c and kalloc.c, and the error paths of exec, fork and sys_exec.       *)
PagesExact ==
    /\ ~m.panic
    /\ \A p \in Live : IsInjective(Owned(p)) /\ proc[p].tf \in Range(Owned(p))
    /\ \A p, q \in Live : p # q => Range(Owned(p)) \cap Range(Owned(q)) = {}
    /\ LET used == UNION {Range(Owned(p)) : p \in Live} IN
       /\ used \cap pipes = {} /\ (used \cup pipes) \cap m.free = {}
       /\ used \cup pipes \cup m.free = Pages

(* What the page table of a process translates is what the program should   *)
(* see after the calls it made, byte for byte and with the permissions: a   *)
(* failed fork, sbrk or exec changes nothing, the page below the stack, the *)
(* trampoline and the trapframe are out of its reach.  kernel/vm.c, exec.c. *)
MemoryMatches ==
    \A p \in Live : \A k \in 0 .. (MAXPAGE - 1) :
        LET pte == Pte(m, proc[p].pt, k) IN
        CASE k \in DOMAIN image[p] -> /\ Valid(pte) /\ pte.f = image[p][k].f
                                      /\ m.data[pte.to] = image[p][k].b
          [] k = TRAPFRAME -> pte.to = proc[p].tf /\ "U" \notin pte.f
          [] k = TRAMPOLINE -> pte.to = TrampolineText /\ "U" \notin pte.f
          [] OTHER -> ~Valid(pte)

(* copyin succeeds exactly when every byte asked for can be read by the     *)
(* program, and returns those bytes; copyinstr exactly when a terminated    *)
(* string lies within reach and within max.  kernel/vm.c.                   *)
CopyMatches ==
    \A p \in {p \in Procs : IsRunning(p)}, c \in Fetches :
        LET im == image[p]
            reach == Reach(im, c.va, c.n, {"U"})
            bytes == [k \in 1 .. reach |-> im[(c.va + k - 1) \div PGSIZE].b[(c.va + k - 1) % PGSIZE]]
            zeros == {k \in 1 .. reach : bytes[k] = "0"}
            got == copyin(m, proc[p].pt, c.va, c.n)
            str == copyinstr(m, proc[p].pt, c.va, c.n) IN
        /\ got.ok = (reach = c.n)
        /\ got.ok => got.bytes = bytes
        /\ str.ok = (zeros # {})
        /\ str.ok => str.bytes = SubSeq(bytes, 1, Min(zeros) - 1)
=============================================================================
