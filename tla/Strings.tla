------------------------------ MODULE Strings ------------------------------
(***************************************************************************)
(* The byte and number routines of kernel/string.c, user/ulib.c and        *)
(* user/printf.c.  Memory is a sequence of bytes, an address a place in    *)
(* it, and a routine returns the memory it leaves; 0 is the NUL byte.      *)
(***************************************************************************)
EXTENDS Integers, Sequences, SequencesExt

CONSTANTS INTBITS    \* bits of an int

(* The assignments mem[dst + k] = mem[src + k], one after the other. *)
CopyIn(mem, dst, src, order) == FoldLeft(LAMBDA m, k : [m EXCEPT ![dst + k] = m[src + k]], mem, order)
Upward(n) == [k \in 1 .. n |-> k - 1]
Downward(n) == [k \in 1 .. n |-> n - k]

memmove(mem, dst, src, n) == CopyIn(mem, dst, src, IF src < dst /\ src + n > dst THEN Downward(n) ELSE Upward(n))
(* user/ulib.c *)
umemmove(mem, dst, src, n) == CopyIn(mem, dst, src, IF src > dst THEN Upward(n) ELSE Downward(n))

(* strncmp *)
RECURSIVE strncmp(_, _, _, _)
strncmp(mem, p, q, n) ==
    IF n > 0 /\ mem[p] # 0 /\ mem[p] = mem[q] THEN strncmp(mem, p + 1, q + 1, n - 1)
    ELSE IF n = 0 THEN 0 ELSE mem[p] - mem[q]

RECURSIVE strncpy(_, _, _, _)
strncpy(mem, s, t, n) ==
    CASE n <= 0 -> mem
      [] n > 0 /\ mem[t] # 0 -> strncpy([mem EXCEPT ![s] = mem[t]], s + 1, t + 1, n - 1)
      [] OTHER -> [k \in DOMAIN mem |-> IF k \in s .. s + n - 1 THEN 0 ELSE mem[k]]

(* The loop copies the NUL too when it finds one in time, and the NUL that  *)
(* follows the loop then comes after it.                                    *)
RECURSIVE safestrcpy(_, _, _, _)
safestrcpy_past(mem, s, t, n) == \* mutant: n-- instead of --n
    CASE n > 0 /\ mem[t] # 0 -> safestrcpy([mem EXCEPT ![s] = mem[t]], s + 1, t + 1, n - 1)
      [] n > 0 /\ mem[t] = 0 -> [mem EXCEPT ![s] = 0, ![s + 1] = 0]
      [] OTHER -> [mem EXCEPT ![s] = 0]
safestrcpy(mem, s, t, n) ==
    CASE n <= 0 -> mem
      [] n = 1 -> [mem EXCEPT ![s] = 0]
      [] n > 1 /\ mem[t] # 0 -> safestrcpy([mem EXCEPT ![s] = mem[t]], s + 1, t + 1, n - 1)
      [] n > 1 /\ mem[t] = 0 -> [mem EXCEPT ![s] = 0, ![s + 1] = 0]

(* gets: input is what is left to read; the line and what is left after it. *)
RECURSIVE gets(_, _, _)
gets(input, max, i) ==
    IF i + 1 >= max \/ input = <<>> THEN [line |-> <<>>, rest |-> input]
    ELSE IF Head(input) \in {"nl", "cr"} THEN [line |-> <<Head(input)>>, rest |-> Tail(input)]
    ELSE LET more == gets(Tail(input), max, i + 1) IN [more EXCEPT !.line = <<Head(input)>> \o @]

(* printint: x is unsigned; digits come out last first. *)
Unsigned(xx) == xx % 2^INTBITS
RECURSIVE Digits(_, _)
Digits(x, base) == (IF x \div base # 0 THEN Digits(x \div base, base) ELSE <<>>) \o <<x % base>>
printint(xx, base, sgn) ==
    LET neg == sgn /\ xx < 0 IN
    (IF neg THEN <<"-">> ELSE <<>>) \o Digits(Unsigned(IF neg THEN -xx ELSE xx), base)

(* atoi, of the digits at the front of a text. *)
RECURSIVE atoi(_, _)
atoi(s, n) == IF s # <<>> /\ s[1] \in 0 .. 9 THEN atoi(Tail(s), Unsigned(n * 10 + s[1])) ELSE n

-----------------------------------------------------------------------------
Terminated(mem, t) == \E k \in DOMAIN mem : k >= t /\ mem[k] = 0
Strlen(mem, t) == (CHOOSE k \in DOMAIN mem : k >= t /\ mem[k] = 0 /\ \A j \in t .. k - 1 : mem[j] # 0) - t
(* mem with the bytes f(1) .. f(n) at s. *)
Put(mem, s, n, f(_)) == [k \in DOMAIN mem |-> IF k \in s .. s + n - 1 THEN f(k - s) ELSE mem[k]]

(* A move is as if the source were copied away first, however the two       *)
(* overlap.  kernel/string.c and user/ulib.c, memmove.                      *)
MovesRight(mem, dst, src, n) ==
    /\ memmove(mem, dst, src, n) = Put(mem, dst, n, LAMBDA k : mem[src + k])
    /\ umemmove(mem, dst, src, n) = memmove(mem, dst, src, n)

(* A name copied by strncpy fills all n bytes, padded with NULs;            *)
(* safestrcpy leaves the string, or its first n - 1 bytes and a NUL, and    *)
(* touches nothing beyond the n bytes, its second NUL included; two names   *)
(* written by strncpy compare equal only if they agree on the first n       *)
(* bytes.  kernel/string.c, as dirlink, namecmp, fork and exec use them.    *)
CopiesRight(mem, s, t, n) ==
    LET len == Strlen(mem, t)
        copy == safestrcpy(mem, s, t, n)
        kept == IF len < n THEN len ELSE n - 1 IN
    /\ strncpy(mem, s, t, n) = Put(mem, s, n, LAMBDA k : IF k < len THEN mem[t + k] ELSE 0)
    /\ n > 0 => Strlen(copy, s) = kept /\ SubSeq(copy, s, s + kept - 1) = SubSeq(mem, t, t + kept - 1)
    /\ \A k \in DOMAIN mem \ (s .. s + n - 1) : copy[k] = mem[k]
    /\ strncmp(strncpy(mem, s, t, n), s, t, n) = 0
    /\ (strncmp(mem, s, t, n) = 0) <=>
          \A k \in 0 .. n - 1 : (\A j \in 0 .. k - 1 : mem[s + j] # 0) => mem[s + k] = mem[t + k]

(* Reading a number back gives the number, the least int included.          *)
(* user/printf.c printint and user/ulib.c atoi.                             *)
Value(ds, base) == FoldLeft(LAMBDA v, d : v * base + d, 0, ds)
NumbersRight(xx) ==
    LET text == printint(xx, 10, TRUE) IN
    /\ xx < 0 => text[1] = "-" /\ Value(Tail(text), 10) = -xx
    /\ xx >= 0 => Value(text, 10) = xx /\ atoi(text, 0) = xx
    /\ Value(printint(xx, 16, FALSE), 16) = Unsigned(xx)

(* gets loses nothing between two lines and never runs past max.            *)
(* user/ulib.c, gets.                                                       *)
GetsRight(input, max) ==
    LET g == gets(input, max, 0) IN
    /\ g.line \o g.rest = input /\ Len(g.line) + 1 <= max
    /\ \A k \in 1 .. Len(g.line) - 1 : g.line[k] \notin {"nl", "cr"}
    /\ g.rest # <<>> => Len(g.line) + 1 = max \/ Last(g.line) \in {"nl", "cr"}
=============================================================================
