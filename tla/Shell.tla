------------------------------- MODULE Shell -------------------------------
(***************************************************************************)
(* user/sh.c at work: the shell runs a line it has parsed, in processes    *)
(* that fork, wait, share pipes and end.  A process knows which command of *)
(* the line it runs by the path to it from the top, whose name is also     *)
(* that of the pipe of a PIPE command.  The programs are external: one     *)
(* that reads a pipe reads to end of file, one that writes a pipe writes   *)
(* more than it holds, and each may also end before.                       *)
(***************************************************************************)
EXTENDS ShellParser, Integers, FiniteSetsExt

CONSTANTS NSLOT,   \* processes the shell can have, itself included
          Lines    \* lines that are run

VARIABLES line,    \* buf
          tree,    \* what parsecmd makes of it
          failed,  \* a fork or a pipe has failed
          sh       \* processes: [pc, at (path), fd, p (of pipe()), parent]

shvars == <<line, tree, failed, sh>>
Slots == 1 .. NSLOT
Fds == 0 .. 4
(* What a descriptor stands for: a kind, and which one. *)
Console == <<"console", <<>>>>
Closed == <<"closed", <<>>>>
Std == [f \in Fds |-> IF f < 3 THEN Console ELSE Closed]
Nobody == [pc |-> "unused", at |-> <<>>, fd |-> Std, p |-> <<>>, parent |-> 0]

ShellInit == /\ line \in Lines
             /\ tree = parsecmd(line)
             /\ failed = FALSE
             /\ sh = [q \in Slots |-> IF q = 1 THEN [Nobody EXCEPT !.pc = "main"] ELSE Nobody]

(* The command at the end of a path. *)
Sub(c, d) == CASE d = "l" -> c.left [] d = "r" -> c.right [] OTHER -> c.cmd
Cmd(path) == FoldLeft(Sub, tree.cmd, path)

At(q, l) == sh[q].pc = l
Alive(q) == ~(At(q, "unused") \/ At(q, "zombie"))
Holders(end) == {q \in Slots : Alive(q) /\ \E f \in Fds : sh[q].fd[f] = end}

Close(fd, fs) == [f \in Fds |-> IF f \in fs THEN Closed ELSE fd[f]]
Lowest(fd) == Min({f \in Fds : fd[f] = Closed})

(* exit: the children go to init, which reaps its own at once. *)
Exited(x, q) ==
    [k \in Slots |->
        CASE k = q -> IF x[k].parent = 0 THEN Nobody
                      ELSE [Nobody EXCEPT !.pc = "zombie", !.parent = x[k].parent]
          [] k # q /\ x[k].parent = q -> IF x[k].pc = "zombie" THEN Nobody ELSE [x[k] EXCEPT !.parent = 0]
          [] OTHER -> x[k]]
exit(q) == sh' = Exited(sh, q) /\ UNCHANGED failed
panic(q) == sh' = Exited(sh, q) /\ failed' = TRUE

To(q, then) == sh' = [sh EXCEPT ![q] = then] /\ UNCHANGED failed

(* fork1: the child starts as c; without a free process the caller panics. *)
Free == {k \in Slots : At(k, "unused")}
fork1(q, parent, child) ==
    IF Free = {} THEN panic(q)
    ELSE /\ sh' = [sh EXCEPT ![q] = parent, ![Min(Free)] = [child EXCEPT !.parent = q]]
         /\ UNCHANGED failed

(* wait(0): any child that has ended. *)
wait(q, then) == \E k \in Slots : /\ At(k, "zombie") /\ sh[k].parent = q
                                  /\ sh' = [sh EXCEPT ![k] = Nobody, ![q] = then]
                                  /\ UNCHANGED failed

-----------------------------------------------------------------------------
(* main, for one line: cd is done in the shell itself; else a child parses  *)
(* the line and runs it, and a syntax error ends it.                        *)
main(q) == /\ At(q, "main")
           /\ IF line # <<>> /\ line[1] = "cd" THEN To(q, [sh[q] EXCEPT !.pc = "done"])
              ELSE fork1(q, [sh[q] EXCEPT !.pc = "main_wait"], [Nobody EXCEPT !.pc = "parse"])
main_wait(q) == /\ At(q, "main_wait")
                /\ wait(q, [sh[q] EXCEPT !.pc = "done"])
parse(q) == /\ At(q, "parse")
            /\ IF tree.ok THEN To(q, [sh[q] EXCEPT !.pc = "cmd"]) ELSE exit(q)

(* runcmd *)
Runs(q, type) == At(q, "cmd") /\ Cmd(sh[q].at).type = type
Down(x, d) == [x EXCEPT !.pc = "cmd", !.at = Append(@, d)]

run_exec(q) == /\ Runs(q, "EXEC")
               /\ \/ Cmd(sh[q].at).argv # <<>> /\ To(q, [sh[q] EXCEPT !.pc = "prog"])
                  \/ exit(q)                     \* nothing to execute, or exec fails
run_redir(q) ==
    /\ Runs(q, "REDIR")
    /\ LET c == Cmd(sh[q].at)
           fd == Close(sh[q].fd, {c.fd}) IN
       \/ To(q, Down([sh[q] EXCEPT !.fd = [fd EXCEPT ![Lowest(fd)] = <<"file", <<c.file>>>>]], "c"))
       \/ exit(q)                                \* open fails
run_list_async(q) == \/ /\ Runs(q, "LIST")       \* mutant: wait(0) forgotten
                        /\ fork1(q, Down(sh[q], "r"), Down(sh[q], "l"))
                     \/ FALSE
run_list(q) == \/ /\ Runs(q, "LIST")
                  /\ fork1(q, [sh[q] EXCEPT !.pc = "list_wait"], Down(sh[q], "l"))
               \/ /\ At(q, "list_wait")
                  /\ wait(q, Down(sh[q], "r"))
run_back(q) == \/ /\ Runs(q, "BACK")
                  /\ fork1(q, [sh[q] EXCEPT !.pc = "backed"], Down(sh[q], "c"))
               \/ At(q, "backed") /\ exit(q)

(* PIPE: pipe(p), two children with an end of it each, close, wait, wait. *)
run_pipe(q) ==
    /\ Runs(q, "PIPE")
    /\ LET r == Lowest(sh[q].fd)
           w == Lowest([sh[q].fd EXCEPT ![r] = Console]) IN
       \/ panic(q)                               \* pipe fails
       \/ To(q, [sh[q] EXCEPT !.pc = "pipe_left", !.p = <<r, w>>,
                              !.fd[r] = <<"r", sh[q].at>>, !.fd[w] = <<"w", sh[q].at>>])

Ends(q) == {sh[q].p[1], sh[q].p[2]}
(* close(n); dup(p[i]); close(p[0]); close(p[1]); *)
Onto(q, n, i) == LET fd == Close(sh[q].fd, {n}) IN
                 [sh[q] EXCEPT !.fd = Close([fd EXCEPT ![Lowest(fd)] = fd[sh[q].p[i]]], Ends(q)), !.p = <<>>]

run_pipe_left(q) == /\ At(q, "pipe_left")
                    /\ fork1(q, [sh[q] EXCEPT !.pc = "pipe_right"], Down(Onto(q, 1, 2), "l"))
run_pipe_right(q) == /\ At(q, "pipe_right")
                     /\ fork1(q, [sh[q] EXCEPT !.pc = "pipe_close"], Down(Onto(q, 0, 1), "r"))
run_pipe_close_read(q) == /\ At(q, "pipe_close")  \* mutant: close(p[1]) forgotten
                          /\ To(q, [sh[q] EXCEPT !.fd = Close(@, {sh[q].p[1]}), !.p = <<>>, !.pc = "pipe_wait1"])
run_pipe_close(q) == /\ At(q, "pipe_close")
                     /\ To(q, [sh[q] EXCEPT !.fd = Close(@, Ends(q)), !.p = <<>>, !.pc = "pipe_wait1"])
run_pipe_wait(q) == \/ At(q, "pipe_wait1") /\ wait(q, [sh[q] EXCEPT !.pc = "pipe_wait2"])
                    \/ At(q, "pipe_wait2") /\ wait(q, [sh[q] EXCEPT !.pc = "piped"])
                    \/ At(q, "piped") /\ exit(q)

(* read has an answer for good when no writer is left; write, when someone  *)
(* reads what is written or no reader is left.                              *)
ReadsAll(q) == LET in == sh[q].fd[0] IN
               in[1] = "r" => Holders(<<"w", in[2]>>) = {}
WritesAll(q) == LET out == sh[q].fd[1]
                    end == <<"r", out[2]>> IN
                out[1] = "w" => \/ Holders(end) = {}
                                \/ \E k \in Slots : At(k, "prog") /\ sh[k].fd[0] = end
program(q) == At(q, "prog") /\ ReadsAll(q) /\ WritesAll(q) /\ exit(q)
program_early(q) == At(q, "prog") /\ ~(ReadsAll(q) /\ WritesAll(q)) /\ exit(q)

ShellStep(q) == \/ main(q) \/ main_wait(q) \/ parse(q)
                \/ run_exec(q) \/ run_redir(q) \/ run_list(q) \/ run_back(q)
                \/ run_pipe(q) \/ run_pipe_left(q) \/ run_pipe_right(q) \/ run_pipe_close(q) \/ run_pipe_wait(q)
                \/ program(q)

-----------------------------------------------------------------------------
(* The files of a program, read off the command: the innermost redirection  *)
(* or pipe on the way to it decides.                                        *)
Expected(path) ==
    FoldLeft(LAMBDA std, k :
                LET at == SubSeq(path, 1, k - 1)
                    c == Cmd(at) IN
                CASE c.type = "REDIR" -> [std EXCEPT ![c.fd] = <<"file", <<c.file>>>>]
                  [] c.type = "PIPE" -> IF path[k] = "l" THEN [std EXCEPT ![1] = <<"w", at>>]
                                        ELSE [std EXCEPT ![0] = <<"r", at>>]
                  [] OTHER -> std,
             Std, [k \in 1 .. Len(path) |-> k])

(* Foreground part of the left side of the LIST at path. *)
InLeft(path, at) == /\ IsPrefix(Append(path, "l"), at)
                    /\ \A k \in Len(path) + 1 .. Len(at) : Cmd(SubSeq(at, 1, k)).type # "BACK"

(* A program finds its redirections and pipes on 0, 1 and 2 and nothing     *)
(* else open, and starts only when the foreground commands before it in its *)
(* lists are over, unless a fork or a pipe has failed: sh then leaves       *)
(* behind what it had started.  user/sh.c, runcmd.                          *)
RunsRight ==
    \A q \in {q \in Slots : At(q, "prog")} :
        /\ sh[q].fd = Expected(sh[q].at)
        /\ \A k \in 1 .. Len(sh[q].at) :
              LET path == SubSeq(sh[q].at, 1, k - 1) IN
              (~failed /\ Cmd(path).type = "LIST" /\ sh[q].at[k] = "r")
                  => ~\E o \in Slots : Alive(o) /\ InLeft(path, sh[o].at)

(* The prompt comes back and no process of the line is left. *)
ShellOver == At(1, "done") /\ \A q \in Slots \ {1} : At(q, "unused")
=============================================================================
