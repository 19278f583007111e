------------------------------- MODULE Sieve -------------------------------
(***************************************************************************)
(* user/primes.c: process 0 is main, process k the k-th stage.  Pipe k     *)
(* goes from process k-1 to process k and holds whole integers: they are   *)
(* written and read four bytes at a time, and four divides PIPESIZE.  The  *)
(* other programs leave `room' processes to this one, main included, and   *)
(* `nfile' entries of ftable.  Neither pipe nor fork is looked at for      *)
(* errors.  When pipe fails, the two descriptors after it are what the     *)
(* stack holds: any descriptor of the process, or none.  Descriptors 0 to  *)
(* 2 are the console, at which nobody types.                               *)
(***************************************************************************)
EXTENDS Integers, Sequences, FiniteSets, FiniteSetsExt, SequencesExt

CONSTANTS Tops,     \* values of 280
          Rooms,    \* values of room
          NFiles,   \* values of nfile
          STAGES,   \* stages there are names for
          CAP       \* integers a pipe holds

VARIABLES top, room, nfile,
          pr,       \* processes: [pc, i (or num), prime, fds, pipefd, next (pipefd_next)]
          pipe,     \* contents of the pipes
          printed,  \* what the console shows
          broken    \* the processes whose pipe() has failed

svars == <<top, room, nfile, pr, pipe, printed, broken>>
Pids == 0 .. STAGES
R(k) == <<k, "r">>
W(k) == <<k, "w">>
Tty == <<0, "tty">>    \* 0, 1 or 2
NoFd == <<0, "none">>  \* not a descriptor
Raw == 0               \* four bytes that are not a line
None == [pc |-> "unused", i |-> 0, prime |-> 0, fds |-> {}, pipefd |-> <<NoFd, NoFd>>, next |-> <<NoFd, NoFd>>]

SieveInit == /\ top \in Tops /\ room \in Rooms /\ nfile \in NFiles
             /\ pr = [k \in Pids |-> IF k = 0 THEN [None EXCEPT !.pc = "main"] ELSE None]
             /\ pipe = [k \in 1 .. STAGES |-> <<>>]
             /\ printed = <<>> /\ broken = {}

On(k, l) == pr[k].pc = l
OpenEnds == UNION {pr[k].fds : k \in Pids}
Processes == {k \in Pids : ~On(k, "unused")}
Shut(k, end, l) == pr' = [pr EXCEPT ![k].fds = @ \ {end}, ![k].pc = l]

(* pipe of process k, to its child: main's pipefd, a stage's pipefd_next. *)
Pipe(k, l) ==
    IF Cardinality(OpenEnds) + 2 <= nfile
    THEN /\ pr' = [pr EXCEPT ![k].fds = @ \cup {R(k + 1), W(k + 1)},
                             ![k].next = <<R(k + 1), W(k + 1)>>, ![k].pc = l]
         /\ UNCHANGED broken
    ELSE /\ \E r, w \in pr[k].fds \cup {Tty, NoFd} : pr' = [pr EXCEPT ![k].next = <<r, w>>, ![k].pc = l]
         /\ broken' = broken \cup {k}

(* A fork that fails takes the parent's branch. *)
Fork(k, child, parent) ==
    pr' = IF Cardinality(Processes) < room
          THEN [pr EXCEPT ![k].pc = parent,
                          ![k + 1] = [None EXCEPT !.pc = child, !.fds = pr[k].fds, !.pipefd = pr[k].next]]
          ELSE [pr EXCEPT ![k].pc = parent]

(* write of x by process k to its child: waits for space in a pipe, fails   *)
(* without a reader and on what is not open for writing.  The console shows *)
(* the bytes, unless it was the descriptor closed before.                   *)
Write(k, x) ==
    CASE pr[k].next[2] = W(k + 1) /\ R(k + 1) \in OpenEnds ->
            Len(pipe[k + 1]) < CAP /\ pipe' = [pipe EXCEPT ![k + 1] = Append(@, x)] /\ UNCHANGED printed
      [] pr[k].next[2] = Tty ->
            /\ printed' = Append(printed, Raw) \/ (pr[k].next[1] = Tty /\ UNCHANGED printed)
            /\ UNCHANGED pipe
      [] OTHER -> UNCHANGED <<pipe, printed>>

(* read(pipefd[0]) of process k finds an integer, end of file, or fails.    *)
HasInt(k) == R(k) \in pr[k].fds /\ pipe[k] # <<>>
AtEnd(k) == R(k) \in pr[k].fds /\ pipe[k] = <<>> /\ W(k) \notin OpenEnds
ReadFails(k) == R(k) \notin pr[k].fds /\ (pr[k].pipefd[1] = Tty => pr[k].pipefd[2] = Tty)
(* wait(0): no child at all is an answer too. *)
Wait(k) == On(k + 1, "unused") \/ On(k + 1, "zombie")
(* exit: the parent still waits, or has yet to. *)
Exit(k) == [pr EXCEPT ![k] = [None EXCEPT !.pc = IF k = 0 THEN "done" ELSE "zombie"]]

feed_pipe == /\ On(0, "main")
             /\ Pipe(0, "feed_fork") /\ UNCHANGED <<pipe, printed>>
feed_fork == /\ On(0, "feed_fork")
             /\ Fork(0, "start", "feed_close") /\ UNCHANGED <<pipe, printed, broken>>
feed_close == /\ On(0, "feed_close")
              /\ pr' = [pr EXCEPT ![0].fds = @ \ {pr[0].next[1]}, ![0].pc = "feed", ![0].i = 2]
              /\ UNCHANGED <<pipe, printed, broken>>
feed_write == /\ On(0, "feed")
              /\ IF pr[0].i <= top
                 THEN Write(0, pr[0].i) /\ pr' = [pr EXCEPT ![0].i = @ + 1]
                 ELSE Shut(0, pr[0].next[2], "feed_wait") /\ UNCHANGED <<pipe, printed>>
              /\ UNCHANGED broken
feed_wait == /\ On(0, "feed_wait") /\ Wait(0)
             /\ pr' = [Exit(0) EXCEPT ![1] = None]
             /\ UNCHANGED <<pipe, printed, broken>>

(* primes(pipefd), first the close of the child that is about to call it. *)
primes_child == \E k \in 2 .. STAGES :
    /\ On(k, "child")
    /\ Shut(k, R(k - 1), "start") /\ UNCHANGED <<pipe, printed, broken>>
primes_start_open == \E k \in 1 .. STAGES :  \* mutant: the write end is not closed
    /\ On(k, "start")
    /\ pr' = [pr EXCEPT ![k].pc = "first"] /\ UNCHANGED <<pipe, printed, broken>>
primes_start == \E k \in 1 .. STAGES :
    /\ On(k, "start")
    /\ Shut(k, pr[k].pipefd[2], "first") /\ UNCHANGED <<pipe, printed, broken>>
(* A first read that returns no integer is repeated and returns the same:   *)
(* exit, with a message or without.  A read from the console waits for ever.*)
primes_first == \E k \in 1 .. STAGES :
    /\ On(k, "first")
    /\ \/ HasInt(k) /\ printed' = Append(printed, Head(pipe[k]))
          /\ pr' = [pr EXCEPT ![k].prime = Head(pipe[k]), ![k].pc = "pipe"]
          /\ pipe' = [pipe EXCEPT ![k] = Tail(@)]
       \/ /\ AtEnd(k) \/ ReadFails(k)
          /\ pr' = [pr EXCEPT ![k].pc = "end"] /\ UNCHANGED <<pipe, printed>>
       \/ /\ pr[k].pipefd[1] = Tty
          /\ pr' = [pr EXCEPT ![k].pc = "console"] /\ UNCHANGED <<pipe, printed>>
    /\ UNCHANGED broken
primes_pipe == \E k \in 1 .. STAGES - 1 :
    /\ On(k, "pipe")
    /\ Pipe(k, "fork") /\ UNCHANGED <<pipe, printed>>
primes_fork == \E k \in 1 .. STAGES - 1 :
    /\ On(k, "fork")
    /\ Fork(k, "child", "parent") /\ UNCHANGED <<pipe, printed, broken>>
primes_parent == \E k \in 1 .. STAGES - 1 :
    /\ On(k, "parent")
    /\ Shut(k, pr[k].next[1], "loop") /\ UNCHANGED <<pipe, printed, broken>>
primes_read_all(k) == \* mutant: multiples pass
    /\ On(k, "loop")
    /\ \/ HasInt(k) /\ pipe' = [pipe EXCEPT ![k] = Tail(@)]
          /\ pr' = [pr EXCEPT ![k].i = Head(pipe[k]), ![k].pc = "send"]
       \/ (AtEnd(k) \/ ReadFails(k)) /\ Shut(k, pr[k].next[2], "wait") /\ UNCHANGED pipe
    /\ UNCHANGED <<printed, broken>>
primes_read(k) ==
    /\ On(k, "loop")
    /\ \/ HasInt(k) /\ pipe' = [pipe EXCEPT ![k] = Tail(@)]
          /\ pr' = [pr EXCEPT ![k].i = Head(pipe[k]),
                              ![k].pc = IF Head(pipe[k]) % pr[k].prime # 0 THEN "send" ELSE @]
       \/ (AtEnd(k) \/ ReadFails(k)) /\ Shut(k, pr[k].next[2], "wait") /\ UNCHANGED pipe
    /\ UNCHANGED <<printed, broken>>
primes_write == \E k \in 1 .. STAGES - 1 :
    /\ On(k, "send")
    /\ Write(k, pr[k].i) /\ pr' = [pr EXCEPT ![k].pc = "loop", ![k].i = 0]
    /\ UNCHANGED broken
primes_wait == \E k \in 1 .. STAGES - 1 :
    /\ On(k, "wait") /\ Wait(k)
    /\ pr' = [pr EXCEPT ![k].pc = "end", ![k + 1] = None]
    /\ UNCHANGED <<pipe, printed, broken>>
primes_end == \E k \in 1 .. STAGES :
    /\ On(k, "end")
    /\ pr' = Exit(k) /\ UNCHANGED <<pipe, printed, broken>>

SieveStep == \/ feed_pipe \/ feed_fork \/ feed_close \/ feed_write \/ feed_wait
             \/ primes_child \/ primes_start \/ primes_first \/ primes_pipe \/ primes_fork \/ primes_parent
             \/ \E k \in 1 .. STAGES - 1 : primes_read(k)
             \/ primes_write \/ primes_wait \/ primes_end
SieveNext == SieveStep /\ UNCHANGED <<top, room, nfile>>

-----------------------------------------------------------------------------
Primes == SelectSeq([n \in 1 .. top |-> n], LAMBDA n : n > 1 /\ \A d \in 2 .. n - 1 : n % d # 0)

(* The primes come out in order and none is left out.  As long as no pipe() *)
(* fails nothing else comes out, and at the end there are all of them, or   *)
(* as many as there were processes for the stages.  A pipe() can only fail  *)
(* when nfile is less than two files for each pipe up to it; the prime of   *)
(* the stage that meets it is then the last, and raw bytes may follow.  The *)
(* stages are never more than the primes and one.  user/primes.c.           *)
SievesRight ==
    LET found == SelectSeq(printed, LAMBDA n : n # Raw) IN
    /\ IsPrefix(found, Primes)
    /\ broken = {} => found = printed
    /\ broken = {} /\ On(0, "done") => found = SubSeq(Primes, 1, Min({Len(Primes), room - 1}))
    /\ \A k \in broken : Len(found) = k /\ nfile < 2 * (k + 1)
    /\ Cardinality(Processes \ {0}) <= Len(found) + 1

(* A stage that got the console for its pipe waits for somebody to type. *)
SieveStuck == \E k \in Pids : On(k, "console")
SieveOver == Processes = {0} /\ On(0, "done")
=============================================================================
