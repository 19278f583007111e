---------------------------- MODULE ShellParser ----------------------------
(***************************************************************************)
(* The parser of user/sh.c, on lines of tokens: "w" is any word, "+" is    *)
(* >>, and a word is known by its place in the line, as argv and file are  *)
(* pointers into buf.  A parsing function takes the place it starts at and *)
(* returns the command and the place it stopped at; ok = FALSE is panic.   *)
(***************************************************************************)
EXTENDS Naturals, Sequences, FiniteSets, SequencesExt

CONSTANT MAXARGS

(* execcmd, redircmd, pipecmd, listcmd, backcmd *)
execcmd(argv) == [type |-> "EXEC", argv |-> argv]
redircmd(c, file, mode, fd) == [type |-> "REDIR", cmd |-> c, file |-> file, mode |-> mode, fd |-> fd]
pipecmd(l, r) == [type |-> "PIPE", left |-> l, right |-> r]
listcmd(l, r) == [type |-> "LIST", left |-> l, right |-> r]
backcmd(c) == [type |-> "BACK", cmd |-> c]

(* peek: the token at i is one of toks; gettoken is s[i] and a step to i+1. *)
peek(s, i, toks) == i <= Len(s) /\ s[i] \in toks
Stop(i) == [ok |-> FALSE, at |-> i, cmd |-> 0]

(* parseredirs: the redirections from i on, in the order they are read. *)
RECURSIVE parseredirs(_, _)
parseredirs(s, i) ==
    IF ~peek(s, i, {"<", ">", "+"}) THEN [ok |-> TRUE, at |-> i, redirs |-> <<>>]
    ELSE IF ~peek(s, i + 1, {"w"}) THEN [ok |-> FALSE, at |-> i, redirs |-> <<>>]
    ELSE LET rest == parseredirs(s, i + 2) IN
         [rest EXCEPT !.redirs = <<[file |-> i + 1, mode |-> s[i], fd |-> IF s[i] = "<" THEN 0 ELSE 1]>> \o @]

(* Each redirection is wrapped around the command so far. *)
Wrap(c, redirs) == FoldLeft(LAMBDA x, r : redircmd(x, r.file, r.mode, r.fd), c, redirs)

(* The loop of parseexec: words, each followed by redirections. *)
RECURSIVE parseargs(_, _, _, _)
WordThen(s, i, argv, redirs, more) ==
    IF Len(argv) + 1 >= MAXARGS \/ ~more.ok THEN Stop(i)
    ELSE parseargs(s, more.at, Append(argv, i), redirs \o more.redirs)
parseargs(s, i, argv, redirs) ==
    CASE peek(s, i, {"|", ")", "&", ";"}) \/ i > Len(s) ->
            [ok |-> TRUE, at |-> i, cmd |-> Wrap(execcmd(argv), redirs)]
      [] peek(s, i, {"(", "<", ">", "+"}) -> Stop(i)
      [] OTHER -> WordThen(s, i, argv, redirs, parseredirs(s, i + 1))

(* A parsing function hands what it has parsed so far to its ...Then. *)
RECURSIVE parseline(_, _)
BlockRedirs(line, more) == IF more.ok THEN [ok |-> TRUE, at |-> more.at, cmd |-> Wrap(line.cmd, more.redirs)]
                           ELSE Stop(line.at)
BlockThen(s, line) == IF ~line.ok THEN line
                      ELSE IF ~peek(s, line.at, {")"}) THEN Stop(line.at)
                      ELSE BlockRedirs(line, parseredirs(s, line.at + 1))
parseblock(s, i) == BlockThen(s, parseline(s, i + 1))

ArgsThen(s, i, first) == IF first.ok THEN parseargs(s, first.at, <<>>, first.redirs) ELSE Stop(i)
parseexec(s, i) == IF peek(s, i, {"("}) THEN parseblock(s, i) ELSE ArgsThen(s, i, parseredirs(s, i))

RECURSIVE parsepipe(_, _)
PipeWith(left, right) == [right EXCEPT !.cmd = pipecmd(left.cmd, @)]
PipeThen(s, left) == IF ~left.ok \/ ~peek(s, left.at, {"|"}) THEN left
                     ELSE PipeWith(left, parsepipe(s, left.at + 1))
parsepipe(s, i) == PipeThen(s, parseexec(s, i))

RECURSIVE backs(_, _, _)
backs(s, i, c) == IF peek(s, i, {"&"}) THEN backs(s, i + 1, backcmd(c))
                  ELSE [ok |-> TRUE, at |-> i, cmd |-> c]

ListWith(left, right) == [right EXCEPT !.cmd = listcmd(left.cmd, @)]
ListThen(s, left) == IF peek(s, left.at, {";"}) THEN ListWith(left, parseline(s, left.at + 1)) ELSE left
LineThen(s, left) == IF left.ok THEN ListThen(s, backs(s, left.at, left.cmd)) ELSE left
parseline(s, i) == LineThen(s, parsepipe(s, i))

(* parsecmd: nothing may be left over. *)
Whole(s, r) == IF r.ok /\ r.at <= Len(s) THEN Stop(r.at) ELSE r
parsecmd(s) == Whole(s, parseline(s, 1))

-----------------------------------------------------------------------------
(* The grammar, on the tokens from i up to but not including j.             *)
(*   line ::= pipe &* [ ; line ]      pipe ::= exec [ | pipe ]              *)
(*   exec ::= ( line ) redir*  |  (word | redir)*     with fewer than       *)
(*            MAXARGS words                                                 *)
(* Derives(s, i, j, X, c): the nonterminal X derives them, as command c.    *)
RECURSIVE Redirs(_, _, _)
Redirs(s, i, j) == \/ i = j
                   \/ i + 2 <= j /\ s[i] \in {"<", ">", "+"} /\ s[i + 1] = "w" /\ Redirs(s, i + 2, j)
RECURSIVE Simple(_, _, _)
Simple(s, i, j) == \/ i = j
                   \/ i < j /\ s[i] = "w" /\ Simple(s, i + 1, j)
                   \/ i + 2 <= j /\ s[i] \in {"<", ">", "+"} /\ s[i + 1] = "w" /\ Simple(s, i + 2, j)
IsFile(s, k) == k > 1 /\ s[k] = "w" /\ s[k - 1] \in {"<", ">", "+"}
Args(s, i, j) == SelectSeq([k \in 1 .. (j - i) |-> i + k - 1], LAMBDA k : s[k] = "w" /\ ~IsFile(s, k))
Files(s, i, j) == SelectSeq([k \in 1 .. (j - i) |-> i + k - 1], LAMBDA k : IsFile(s, k))

(* The commands a span can stand for: none if it is not of the language. *)
Redirected(s, i, j, c) ==
    FoldLeft(LAMBDA x, k : redircmd(x, k, s[k - 1], IF s[k - 1] = "<" THEN 0 ELSE 1), c, Files(s, i, j))
RECURSIVE LineOf(_, _, _), PipeOf(_, _, _)
ExecOf(s, i, j) ==
    (IF Simple(s, i, j) /\ Len(Args(s, i, j)) < MAXARGS
     THEN {Redirected(s, i, j, execcmd(Args(s, i, j)))} ELSE {})
    \cup UNION {{Redirected(s, k + 1, j, c) : c \in LineOf(s, i + 1, k)} :
                k \in {k \in (i + 1) .. (j - 1) : s[i] = "(" /\ s[k] = ")" /\ Redirs(s, k + 1, j)}}
PipeOf(s, i, j) ==
    ExecOf(s, i, j)
    \cup UNION {{pipecmd(l, r) : l \in ExecOf(s, i, k), r \in PipeOf(s, k + 1, j)} :
                k \in {k \in i .. (j - 1) : s[k] = "|"}}
RECURSIVE BackOf(_, _, _)
BackOf(s, i, j) == PipeOf(s, i, j) \cup
                   (IF i < j /\ s[j - 1] = "&" THEN {backcmd(c) : c \in BackOf(s, i, j - 1)} ELSE {})
LineOf(s, i, j) ==
    BackOf(s, i, j)
    \cup UNION {{listcmd(l, r) : l \in BackOf(s, i, k), r \in LineOf(s, k + 1, j)} :
                k \in {k \in i .. (j - 1) : s[k] = ";"}}

(* parsecmd accepts exactly the lines of the grammar and returns the one    *)
(* command the grammar gives them.                                          *)
ParsesAs(s) == LET r == parsecmd(s) IN
               LineOf(s, 1, Len(s) + 1) = IF r.ok THEN {r.cmd} ELSE {}
=============================================================================
