------------------------------ MODULE Umalloc ------------------------------
(***************************************************************************)
(* user/umalloc.c: malloc and free of user programs.  Addresses count      *)
(* Headers; base is at 0, below the memory sbrk hands out.  hdr holds the  *)
(* headers of the blocks there are, those in use included, and of base; a  *)
(* header inside a block is memory like any other.                         *)
(***************************************************************************)
EXTENDS Integers, FiniteSets, FiniteSetsExt, Functions, TLC

CONSTANTS NALLOC,    \* 4096, the least number of units morecore asks for
          HEAP,      \* where sbrk starts
          LIMIT,     \* how far it goes
          Requests   \* values of nunits

VARIABLES hdr, freep, used, brk
uvars == <<hdr, freep, used, brk>>

base == 0
NULL == -1
(* malloc has run once: base is a ring of its own. *)
MallocInit == /\ hdr = [a \in {base} |-> [ptr |-> base, size |-> 0]]
              /\ freep = base /\ used = {} /\ brk = HEAP

(* The loop of free: the free block p after which bp belongs. *)
RECURSIVE Place(_, _, _)
Place(h, bp, p) == LET n == h[p].ptr IN
                   IF (bp > p /\ bp < n) \/ (p >= n /\ (bp > p \/ bp < n)) THEN p
                   ELSE Place(h, bp, n)

(* Joined with the block above, then with the one below. *)
JoinUp(h, bp, p) == LET n == h[p].ptr IN
    IF bp + h[bp].size = n
    THEN Restrict([h EXCEPT ![bp] = [ptr |-> h[n].ptr, size |-> @.size + h[n].size]], DOMAIN h \ {n})
    ELSE [h EXCEPT ![bp].ptr = n]
JoinDown_only(h, bp, p) == [h EXCEPT ![p].ptr = bp]   \* mutant: never joined with the block below
JoinDown(h, bp, p) ==
    IF p + h[p].size = bp
    THEN Restrict([h EXCEPT ![p] = [ptr |-> h[bp].ptr, size |-> @.size + h[bp].size]], DOMAIN h \ {bp})
    ELSE [h EXCEPT ![p].ptr = bp]

(* free: [hdr, freep] with the block at bp in the ring. *)
Freed(h, from, bp) == LET p == Place(h, bp, from) IN
                      [hdr |-> JoinDown(JoinUp(h, bp, p), bp, p), freep |-> p]

(* morecore: NULL in freep is a failure of sbrk. *)
morecore(h, from, b, nunits) ==
    LET nu == Max({nunits, NALLOC}) IN
    IF b + nu > LIMIT THEN [hdr |-> h, freep |-> NULL, brk |-> b]
    ELSE LET f == Freed(h @@ (b :> [ptr |-> NULL, size |-> nu]), from, b) IN
         [hdr |-> f.hdr, freep |-> f.freep, brk |-> b + nu]

(* The block at p, after prevp, is large enough: all of it, or its tail. *)
Take(h, prevp, p, nunits) ==
    IF h[p].size = nunits
    THEN [hdr |-> [h EXCEPT ![prevp].ptr = h[p].ptr], at |-> p]
    ELSE LET t == p + h[p].size - nunits IN
         [hdr |-> [h EXCEPT ![p].size = @ - nunits] @@ (t :> [ptr |-> NULL, size |-> nunits]), at |-> t]

(* The loop of malloc. *)
RECURSIVE Search(_, _, _, _, _, _)
Search(h, from, b, prevp, p, nunits) ==
    IF h[p].size >= nunits
    THEN LET t == Take(h, prevp, p, nunits) IN [hdr |-> t.hdr, freep |-> prevp, brk |-> b, at |-> t.at]
    ELSE IF p # from THEN Search(h, from, b, p, h[p].ptr, nunits)
    ELSE LET m == morecore(h, from, b, nunits) IN
         IF m.freep = NULL THEN [hdr |-> h, freep |-> from, brk |-> b, at |-> NULL]
         ELSE Search(m.hdr, m.freep, m.brk, m.freep, m.hdr[m.freep].ptr, nunits)

malloc(nunits) ==
    LET s == Search(hdr, freep, brk, freep, hdr[freep].ptr, nunits) IN
    /\ hdr' = [a \in DOMAIN s.hdr |-> IF a = s.at THEN [s.hdr[a] EXCEPT !.ptr = NULL] ELSE s.hdr[a]]
    /\ freep' = s.freep /\ brk' = s.brk
    /\ used' = used \cup ({s.at} \ {NULL})

free(bp) ==
    /\ LET f == Freed(hdr, freep, bp) IN hdr' = f.hdr /\ freep' = f.freep
    /\ used' = used \ {bp} /\ UNCHANGED brk

MallocNext == (\E n \in Requests : malloc(n)) \/ (\E bp \in used : free(bp))

-----------------------------------------------------------------------------
Spaces(a) == a .. a + hdr[a].size - 1

(* Every unit sbrk gave is in exactly one block, in use or free; the free   *)
(* blocks and base form one ring in the order of addresses, which freep is  *)
(* in; no two free blocks touch.  user/umalloc.c, malloc and free.          *)
HeapExact ==
    LET ring == DOMAIN hdr \ used IN
    /\ used \subseteq DOMAIN hdr /\ freep \in ring
    /\ UNION {Spaces(a) : a \in DOMAIN hdr} = HEAP .. brk - 1
    /\ \A a, b \in DOMAIN hdr : a # b => Spaces(a) \cap Spaces(b) = {}
    /\ \A a \in ring :
          LET above == {b \in ring : b > a} IN
          /\ hdr[a].ptr = IF above = {} THEN base ELSE Min(above)
          /\ a # base => hdr[a].size > 0 /\ a + hdr[a].size \notin ring
=============================================================================
