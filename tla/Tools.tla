------------------------------- MODULE Tools -------------------------------
(***************************************************************************)
(* The algorithms of user/xargs.c, user/find.c, user/grep.c and of         *)
(* skipelem in kernel/fs.c, each beside what it should compute.  Text is a *)
(* sequence of characters.                                                 *)
(***************************************************************************)
EXTENDS Integers, Sequences, FiniteSets, SequencesExt

CONSTANTS BUF_SIZE,   \* xargs: of buf
          LINE,       \* grep: of buf
          NOFILE,     \* find: descriptors of a process
          DIRSIZ      \* skipelem: bytes of a name

(* The pieces of a text between the separators, empty ones left out. *)
RECURSIVE Pieces(_, _)
Pieces(s, Sep) ==
    LET cuts == {k \in 1 .. Len(s) : s[k] \in Sep}
        k == IF cuts = {} THEN Len(s) + 1 ELSE CHOOSE c \in cuts : \A d \in cuts : c <= d IN
    IF s = <<>> THEN <<>>
    ELSE (IF k = 1 THEN <<>> ELSE <<SubSeq(s, 1, k - 1)>>) \o Pieces(SubSeq(s, k + 1, Len(s)), Sep)

-----------------------------------------------------------------------------
(* xargs: st is [arg (from arg_s to arg_e), has_arg, ran, stop]; the forks  *)
(* that succeed are counted down, and the first that fails ends it.         *)
Run(st) == IF Len(st.ran) < st.forks
           THEN [st EXCEPT !.ran = Append(@, st.arg), !.has_arg = FALSE, !.arg = <<>>]
           ELSE [st EXCEPT !.stop = TRUE]
xargs_step_late(st, ch) == \* mutant: > BUF_SIZE - 1
    CASE st.stop -> st
      [] ~st.stop /\ Len(st.arg) > BUF_SIZE - 1 -> [st EXCEPT !.arg = <<>>]
      [] ~st.stop /\ Len(st.arg) <= BUF_SIZE - 1 /\ ch \in {" ", "nl"} ->
            IF st.has_arg THEN Run(st) ELSE [st EXCEPT !.arg = <<>>]
      [] OTHER -> [st EXCEPT !.arg = Append(@, ch), !.has_arg = TRUE]
xargs_step(st, ch) ==
    CASE st.stop -> st
      [] ~st.stop /\ Len(st.arg) >= BUF_SIZE - 1 -> [st EXCEPT !.arg = <<>>]
      [] ~st.stop /\ Len(st.arg) < BUF_SIZE - 1 /\ ch \in {" ", "nl"} ->
            IF st.has_arg THEN Run(st) ELSE [st EXCEPT !.arg = <<>>]
      [] OTHER -> [st EXCEPT !.arg = Append(@, ch), !.has_arg = TRUE]
xargs(input, forks) ==
    LET st == FoldLeft(xargs_step, [arg |-> <<>>, has_arg |-> FALSE, ran |-> <<>>, stop |-> FALSE, forks |-> forks],
                       input) IN
    IF st.has_arg /\ ~st.stop THEN Run(st).ran ELSE st.ran

(* What is left of a word: characters are dropped BUF_SIZE at a time, and a *)
(* separator counts as one of them when it comes last.                      *)
Left(w, ended) == LET n == Len(w) % BUF_SIZE IN
                  IF n = BUF_SIZE - 1 /\ ended THEN <<>> ELSE SubSeq(w, Len(w) - n + 1, Len(w))

(* One command for each word, in order, until fork fails.  A word that fits *)
(* with its separator is run whole, whatever came before it; of a longer    *)
(* one the last part is run, or an empty argument, or nothing, and no more  *)
(* arguments are empty than words were too long.  user/xargs.c.             *)
XargsRight(input, forks) ==
    LET words == Pieces(input, {" ", "nl"})
        left == [k \in DOMAIN words |->
                    Left(words[k], k < Len(words) \/ Last(input) \in {" ", "nl"})]
        long == {k \in DOMAIN words : Len(words[k]) >= BUF_SIZE - 1}
        all == xargs(input, Len(input))
        NonEmpty(w) == w # <<>> IN
    /\ xargs(input, forks) = SubSeq(all, 1, IF Len(all) < forks THEN Len(all) ELSE forks)
    /\ SelectSeq(all, NonEmpty) = SelectSeq(left, NonEmpty)
    /\ Cardinality({k \in DOMAIN all : all[k] = <<>>}) <= Cardinality(long)

-----------------------------------------------------------------------------
(* find: a tree maps a directory to its entries [name, type, node]; nfd     *)
(* descriptors are open on entry.                                           *)
RECURSIVE find(_, _, _, _, _)
find(tree, dir, path, target, nfd) ==
    IF nfd >= NOFILE THEN <<>>                             \* open(path) fails
    ELSE FlattenSeq([k \in DOMAIN tree[dir] |->
            LET e == tree[dir][k]
                name == Append(path, e.name) IN
            CASE e.name \in {".", ".."} \/ nfd + 1 >= NOFILE -> <<>>
              [] e.name \notin {".", ".."} /\ nfd + 1 < NOFILE /\ e.type = "T_DIR" ->
                    find(tree, e.node, name, target, nfd + 2)
              [] e.name \notin {".", ".."} /\ nfd + 1 < NOFILE /\ e.type = "T_FILE" /\ e.name = target -> <<name>>
              [] OTHER -> <<>>])

(* The files under a directory, by the names on the way to them. *)
RECURSIVE Under(_, _, _)
Under(tree, dir, path) ==
    UNION {LET e == tree[dir][k]
               name == Append(path, e.name) IN
           CASE e.type = "T_FILE" -> {name}
             [] e.type = "T_DIR" /\ e.name \notin {".", ".."} -> Under(tree, e.node, name)
             [] OTHER -> {} : k \in DOMAIN tree[dir]}

(* find prints every file of that name once, and nothing else, down to the  *)
(* depth at which the two descriptors of each directory on the way, and two *)
(* more, are still to be had.  user/find.c.                                 *)
FindsAll(tree, target) ==
    LET out == find(tree, "/", <<>>, target, 3) IN
    /\ IsInjective(out)
    /\ {out[k] : k \in DOMAIN out}
         = {f \in Under(tree, "/", <<>>) : Last(f) = target /\ 3 + 2 * Len(f) <= NOFILE}

-----------------------------------------------------------------------------
(* grep: the matcher.  The text ends where the sequence does. *)
RECURSIVE matchhere(_, _), matchstar(_, _, _)
Fits(c, x) == c = "." \/ c = x
matchhere(re, text) ==
    CASE re = <<>> -> TRUE
      [] Len(re) > 1 /\ re[2] = "*" -> matchstar(re[1], SubSeq(re, 3, Len(re)), text)
      [] re = <<"$">> -> text = <<>>
      [] OTHER -> text # <<>> /\ Fits(re[1], text[1]) /\ matchhere(Tail(re), Tail(text))
matchstar_one(c, re, text) == \* mutant: a star needs one instance
    text # <<>> /\ Fits(c, text[1]) /\ (matchhere(re, Tail(text)) \/ matchstar(c, re, Tail(text)))
matchstar(c, re, text) ==
    \/ matchhere(re, text)
    \/ text # <<>> /\ Fits(c, text[1]) /\ matchstar(c, re, Tail(text))
match(re, text) ==
    IF re # <<>> /\ re[1] = "^" THEN matchhere(Tail(re), text)
    ELSE \E k \in 1 .. Len(text) + 1 : matchhere(re, SubSeq(text, k, Len(text)))

(* What a pattern means: items of one character, some of them repeated. *)
RECURSIVE Items(_)
Items(re) == IF re = <<>> THEN <<>>
             ELSE IF Len(re) > 1 /\ re[2] = "*" THEN <<[c |-> re[1], star |-> TRUE]>> \o Items(SubSeq(re, 3, Len(re)))
             ELSE <<[c |-> re[1], star |-> FALSE]>> \o Items(Tail(re))
Means(re, text) ==
    LET front == re # <<>> /\ re[1] = "^"
        body == Items(IF front THEN Tail(re) ELSE re)
        back == body # <<>> /\ Last(body) = [c |-> "$", star |-> FALSE]
        items == IF back THEN Front(body) ELSE body
        n == Len(items) IN
    \E at \in [0 .. n -> 0 .. Len(text)] :        \* where each item ends
        /\ front => at[0] = 0
        /\ back => at[n] = Len(text)
        /\ \A k \in 1 .. n :
              /\ at[k - 1] <= at[k]
              /\ ~items[k].star => at[k] = at[k - 1] + 1
              /\ \A x \in at[k - 1] + 1 .. at[k] : Fits(items[k].c, text[x])

(* user/grep.c, match. *)
MatchRight(re, text) == match(re, text) <=> Means(re, text)

(* grep: read after read, of chunks of any size, up to the space left. *)
RECURSIVE Scan(_, _)
Scan(re, buf) ==                                  \* the while over strchr: [out, rest]
    LET cuts == {k \in DOMAIN buf : buf[k] = "nl"}
        k == CHOOSE c \in cuts : \A d \in cuts : c <= d
        more == Scan(re, SubSeq(buf, k + 1, Len(buf))) IN
    IF cuts = {} THEN [out |-> <<>>, rest |-> buf]
    ELSE IF match(re, SubSeq(buf, 1, k - 1)) THEN [more EXCEPT !.out = SubSeq(buf, 1, k) \o @]
    ELSE more
RECURSIVE grep(_, _, _, _)
grep(re, input, buf, chunk) ==
    LET room == LINE - Len(buf) - 1
        n == IF chunk < room THEN chunk ELSE room
        got == IF n < Len(input) THEN n ELSE Len(input)
        s == Scan(re, buf \o SubSeq(input, 1, got)) IN
    IF got = 0 THEN <<>>
    ELSE s.out \o grep(re, SubSeq(input, got + 1, Len(input)), s.rest, chunk)

(* The lines that end in a newline and match, whole and in order, whatever  *)
(* pieces read returns, as long as a line fits in the buffer: grep stops at *)
(* the first that does not, and never looks at a last line without its      *)
(* newline.  user/grep.c, grep.                                             *)
GrepRight(re, input, chunk) ==
    LET ends == {k \in DOMAIN input : input[k] = "nl"}
        start(k) == 1 + (IF \E e \in ends : e < k
                         THEN CHOOSE e \in ends : e < k /\ \A f \in ends : f < k => f <= e ELSE 0)
        chosen == {k \in DOMAIN input : \E e \in ends : k <= e /\ start(e) <= k
                                                        /\ match(re, SubSeq(input, start(e), e - 1))}
        order == SetToSortSeq(chosen, LAMBDA x, y : x < y) IN
    (\A e \in ends \cup {Len(input)} : e + 1 - start(e) < LINE)
        => grep(re, input, <<>>, chunk) = [k \in DOMAIN order |-> input[order[k]]]

-----------------------------------------------------------------------------
(* skipelem: the name and what follows it, or none. *)
Slashes(p) == CHOOSE k \in 0 .. Len(p) : /\ \A x \in 1 .. k : p[x] = "/"
                                         /\ k < Len(p) => p[k + 1] # "/"
NonSlashes(p) == CHOOSE k \in 0 .. Len(p) : /\ \A x \in 1 .. k : p[x] # "/"
                                            /\ k < Len(p) => p[k + 1] = "/"
Drop(p, k) == SubSeq(p, k + 1, Len(p))
skipelem(path) ==
    LET p == Drop(path, Slashes(path))
        len == NonSlashes(p)
        rest == Drop(p, len) IN
    IF p = <<>> THEN [some |-> FALSE]
    ELSE [some |-> TRUE, name |-> SubSeq(p, 1, IF len >= DIRSIZ THEN DIRSIZ ELSE len), rest |-> Drop(rest, Slashes(rest))]

RECURSIVE Names(_)
Names(path) == LET e == skipelem(path) IN
               IF ~e.some THEN <<>> ELSE <<e.name>> \o Names(e.rest)

(* The names of a path, one after the other, each cut to DIRSIZ; nothing is *)
(* left of the path after the last one, which is what nameiparent asks.     *)
(* kernel/fs.c, skipelem.                                                   *)
SkipsRight(path) ==
    LET names == Pieces(path, {"/"}) IN
    /\ Names(path) = [k \in DOMAIN names |-> SubSeq(names[k], 1, IF Len(names[k]) < DIRSIZ THEN Len(names[k]) ELSE DIRSIZ)]
    /\ skipelem(path).some => (skipelem(path).rest = <<>> <=> Len(names) = 1)
=============================================================================
