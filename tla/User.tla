-------------------------------- MODULE User --------------------------------
(***************************************************************************)
(* The programs of user/, side by side: a behaviour is one of them at      *)
(* work.  A line run by the shell, the sieve of primes.c and calls of the  *)
(* allocator take steps; the others are functions, and `call' is one call  *)
(* of one of them with its arguments.                                      *)
(***************************************************************************)
EXTENDS Shell, Sieve, Umalloc, Tools, Strings

CONSTANTS Calls     \* <<function, arguments>>

VARIABLES job,      \* who is at work
          call

Nothing == <<"none">>
ShellIdle == line = <<>> /\ ShellInit
SieveIdle == top = Min(Tops) /\ room = Min(Rooms) /\ nfile = Min(NFiles) /\ SieveInit

Init == /\ job \in {"sh", "primes", "umalloc", "call"}
        /\ IF job = "sh" THEN ShellInit ELSE ShellIdle
        /\ IF job = "primes" THEN SieveInit ELSE SieveIdle
        /\ MallocInit
        /\ IF job = "call" THEN call \in Calls ELSE call = Nothing

ShellRuns(A) == job = "sh" /\ A /\ UNCHANGED <<job, call, line, tree, svars, uvars>>
SieveRuns == job = "primes" /\ SieveNext /\ UNCHANGED <<job, call, shvars, uvars>>
MallocRuns == job = "umalloc" /\ MallocNext /\ UNCHANGED <<job, call, shvars, svars>>

Next == \/ \E q \in Slots : ShellRuns(ShellStep(q)) \/ ShellRuns(program_early(q))
        \/ SieveRuns \/ MallocRuns

uservars == <<job, call, shvars, svars, uvars>>

(* The scheduler runs every process that can run, and init reaps. *)
Spec == /\ Init /\ [][Next]_uservars
        /\ \A q \in Slots : WF_uservars(ShellRuns(ShellStep(q)))
        /\ WF_uservars(SieveRuns)

-----------------------------------------------------------------------------
(* What is called returns what it should: parsecmd the command the grammar  *)
(* gives, xargs, find, grep and skipelem what Tools states, and the         *)
(* routines of string.c, ulib.c and printf.c what Strings states.           *)
CallsRight ==
    LET a(k) == call[k + 1] IN
    CASE call[1] = "parsecmd" -> ParsesAs(a(1))
      [] call[1] = "xargs" -> XargsRight(a(1), a(2))
      [] call[1] = "find" -> FindsAll(a(1), a(2))
      [] call[1] = "match" -> MatchRight(a(1), a(2))
      [] call[1] = "grep" -> GrepRight(a(1), a(2), a(3))
      [] call[1] = "skipelem" -> SkipsRight(a(1))
      [] call[1] = "memmove" -> MovesRight(a(1), a(2), a(3), a(4))
      [] call[1] = "strncpy" -> CopiesRight(a(1), a(2), a(3), a(4))
      [] call[1] = "printint" -> NumbersRight(a(1))
      [] call[1] = "gets" -> GetsRight(a(1), a(2))
      [] OTHER -> TRUE

(* A line the shell runs is over some day: the prompt comes back and no     *)
(* process of it is left, whichever programs stop early and whichever       *)
(* forks, opens and pipes fail; and primes ends, with all its stages,       *)
(* whichever fork or pipe fails, unless a pipe fails and the descriptor     *)
(* the next stage reads from is by accident the console.                    *)
(* user/sh.c runcmd, which must close both ends of a pipe, and              *)
(* user/primes.c, which must close the end it writes to.                    *)
ProgramsFinish == /\ job = "sh" ~> ShellOver
                  /\ job = "primes" ~> SieveOver \/ SieveStuck
=============================================================================
