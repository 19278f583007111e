------------------------------ MODULE Devices ------------------------------
(***************************************************************************)
(* The console, the UART and the clock, with the interrupts and spinlocks  *)
(* that tie them together: kernel/console.c, uart.c, spinlock.c, the timer *)
(* in trap.c and sysproc.c, devintr and the PLIC.  An actor is a process   *)
(* in a system call or the interrupt handler of a CPU; a handler runs on   *)
(* top of the process it interrupted.  A step is what an actor does        *)
(* between two accesses to shared state that others can get between.       *)
(* sleep and the switch to another process are one step: module Proc.      *)
(***************************************************************************)
EXTENDS Integers, Sequences, FiniteSets, FiniteSetsExt, SequencesExt

CONSTANTS CPUs, Boot,        \* Boot is cpuid 0, which counts the ticks
          Procs, NoProc, Calls, Killable,
          Typed,             \* characters of the keyboard
          SIZE, TXSIZE,      \* INPUT_BUF_SIZE, UART_TX_BUF_SIZE
          Wrap,              \* 2^32: cons.r, w, e and ticks are uint
          FIFO,              \* bytes the UART holds (uartinit enables its FIFO)
          MaxN,              \* bound on the n of read, write and sleep
          Since,             \* value of the uint counters when the behaviour starts
          MaxEvents          \* keystrokes, calls, ticks and kills

ASSUME DevicesAssumption ==
    /\ Boot \in CPUs /\ NoProc \notin Procs /\ CPUs \cap Procs = {}
    /\ Wrap % SIZE = 0 /\ Wrap > SIZE /\ Wrap > MaxN /\ Since \in 0 .. (Wrap - 1)
    /\ FIFO >= Cardinality(CPUs)

VARIABLES cpu,      \* struct cpu: intr (sstatus.SIE), noff, intena, run; irq in service
          lock,     \* holder of cons.lock, uart_tx_lock, tickslock
          pc,       \* of processes and of the CPUs' handlers
          left,     \* n, or what is left of it; the bytes a handler still has to echo
          start,    \* target of consoleread, ticks0 of sys_sleep
          killed,
          cons,     \* [buf, r, w, e]
          tx,       \* uart_tx_buf from uart_tx_r to uart_tx_w
          ticks,
          uart,     \* device: rx, fifo, thri (transmit interrupt), claimed (at the PLIC)
          reg,      \* the character uartgetc returned
          got, wire,  \* history: last character taken from cons.buf, last byte sent
          slept,    \* history: ticks since sys_sleep looked at ticks
          used      \* events so far

vars == <<cpu, lock, pc, left, start, killed, cons, tx, ticks, uart, reg, got, wire, slept, used>>

Actors == Procs \cup CPUs
Free == "free"
Echo == 0   \* stands for every byte of an echo

Init == /\ cpu = [c \in CPUs |-> [intr |-> TRUE, noff |-> 0, intena |-> TRUE, run |-> NoProc, irq |-> "none"]]
        /\ lock = [l \in {"cons", "tx", "ticks"} |-> Free]
        /\ pc = [a \in Actors |-> IF a \in Procs THEN "user" ELSE "none"]
        /\ left = [a \in Actors |-> 0]
        /\ start = [p \in Procs |-> 0]
        /\ killed = [p \in Procs |-> FALSE]
        /\ cons = [buf |-> [i \in 0 .. (SIZE - 1) |-> "nul"], r |-> Since, w |-> Since, e |-> Since]
        /\ tx = <<>>
        /\ ticks = Since
        /\ uart = [rx |-> <<>>, fifo |-> <<>>, thri |-> FALSE, claimed |-> FALSE]
        /\ reg = [c \in CPUs |-> "nul"]
        /\ got = "nul" /\ wire = 0
        /\ slept = [p \in Procs |-> 0]
        /\ used = 0

-----------------------------------------------------------------------------
(* Actor a is what CPU c is executing, at l. *)
At(c, a, l) == /\ pc[a] = l
               /\ IF a \in CPUs THEN a = c ELSE cpu[c].run = a /\ cpu[c].irq = "none"
Goto(a, l) == pc' = [pc EXCEPT ![a] = l]

(* push_off and pop_off on the state of a CPU.  intena has no meaning while *)
(* noff is 0, and is then left TRUE.                                        *)
push_off(x) == [x EXCEPT !.intena = IF x.noff = 0 THEN x.intr ELSE @, !.intr = FALSE, !.noff = @ + 1]
pop_off_on(x) == [x EXCEPT !.noff = @ - 1, !.intr = (x.noff = 1), !.intena = @ \/ x.noff = 1]  \* mutant: intena ignored
pop_off(x) == [x EXCEPT !.noff = @ - 1, !.intr = (x.noff = 1 /\ x.intena), !.intena = @ \/ x.noff = 1]

Pushed(c) == cpu' = [cpu EXCEPT ![c] = push_off(@)]
Popped(c) == cpu' = [cpu EXCEPT ![c] = pop_off(@)]

(* acquire: after push_off the actor spins at a label until it gets the lock. *)
acquire(c, a, l, from, to) == /\ At(c, a, from) /\ lock[l] = Free
                              /\ lock' = [lock EXCEPT ![l] = c]
                              /\ Goto(a, to)
release(c, l) == lock' = [lock EXCEPT ![l] = Free] /\ Popped(c)

(* A process that is not running and not asleep starts where CPU c is idle; *)
(* only calls are modelled, so a process in user space needs no CPU.        *)
Idle(c) == cpu[c].run = NoProc /\ cpu[c].irq = "none" /\ cpu[c].intr
Running(p) == \E c \in CPUs : cpu[c].run = p
Start(c, p, l, to) == /\ pc[p] = l /\ Idle(c) /\ ~Running(p)
                      /\ cpu' = [cpu EXCEPT ![c] = push_off([@ EXCEPT !.run = p])]
                      /\ Goto(p, to)
(* Back to user space, releasing l. *)
Return(c, p, l) == /\ lock' = [lock EXCEPT ![l] = Free]
                   /\ cpu' = [cpu EXCEPT ![c] = [pop_off(@) EXCEPT !.run = NoProc]]
                   /\ Goto(p, "user")
                   /\ left' = [left EXCEPT ![p] = 0]
                   /\ start' = [start EXCEPT ![p] = 0]
                   /\ slept' = [slept EXCEPT ![p] = 0]

(* sleep(chan, lk): off the CPU, which goes idle with interrupts on. *)
sleep(c, p, l, to) == /\ lock' = [lock EXCEPT ![l] = Free]
                      /\ cpu' = [cpu EXCEPT ![c] = [pop_off(@) EXCEPT !.run = NoProc]]
                      /\ Goto(p, to)
(* wakeup of the sleepers at label x, on f. *)
Rouse == [put_asleep |-> "put_woken", get_asleep |-> "get_woken", tick_asleep |-> "tick_woken"]
Woken(x, f) == [a \in Actors |-> IF f[a] = x THEN Rouse[x] ELSE f[a]]

device == <<uart, wire>>
input == <<cons, got>>
clock == <<ticks, slept>>

-----------------------------------------------------------------------------
(* uartstart, by a writer or a handler that holds uart_tx_lock. *)
uartstart(c, a) ==
    /\ At(c, a, "start")
    /\ Goto(a, IF tx # <<>> /\ uart.fifo = <<>> THEN "start_write" ELSE "start_done")
    /\ uart' = IF tx = <<>> THEN [uart EXCEPT !.thri = FALSE] ELSE uart   \* ReadReg(ISR)
    /\ UNCHANGED <<cpu, lock, left, start, killed, input, tx, clock, reg, wire, used>>

(* A write to THR; the FIFO drops what does not fit. *)
WriteTHR(b) == uart' = [uart EXCEPT !.fifo = IF Len(@) < FIFO THEN Append(@, b) ELSE @, !.thri = FALSE]

uartstart_write_quiet(c, a) == \* mutant: no wakeup(&uart_tx_r)
    /\ At(c, a, "start_write")
    /\ tx' = Tail(tx)
    /\ pc' = [pc EXCEPT ![a] = "start"]
    /\ WriteTHR(Head(tx))
    /\ UNCHANGED <<cpu, lock, left, start, killed, input, clock, reg, wire, used>>
uartstart_write(c, a) ==
    /\ At(c, a, "start_write")
    /\ tx' = Tail(tx)
    /\ pc' = [Woken("put_asleep", pc) EXCEPT ![a] = "start"]
    /\ WriteTHR(Head(tx))
    /\ UNCHANGED <<cpu, lock, left, start, killed, input, clock, reg, wire, used>>

uartstart_done(c, a) ==
    /\ At(c, a, "start_done")
    /\ IF a \in Procs /\ left[a] = 1 THEN Return(c, a, "tx")
       ELSE /\ release(c, "tx")
            /\ Goto(a, IF a \in CPUs THEN "complete" ELSE "put_next")
            /\ left' = [left EXCEPT ![a] = IF a \in Procs THEN @ - 1 ELSE @]
            /\ UNCHANGED <<start, slept>>
    /\ UNCHANGED <<killed, input, tx, ticks, device, reg, used>>

-----------------------------------------------------------------------------
(* System calls.  A call begins with push_off of its acquire. *)
Call(c, p, call, n, to) ==
    /\ Start(c, p, "user", to)
    /\ call \in Calls[p] /\ ~killed[p] /\ used < MaxEvents
    /\ used' = used + 1
    /\ left' = [left EXCEPT ![p] = n]
    /\ start' = [start EXCEPT ![p] = IF call = "read" THEN n ELSE 0]
    /\ UNCHANGED <<lock, killed, input, tx, clock, device, reg>>

(* What woke up takes the lock again. *)
again(c, p, x) == /\ Start(c, p, x \o "_woken", x \o "_spin")
                  /\ UNCHANGED <<lock, left, start, killed, input, tx, clock, device, reg, used>>

Lock(c, a, l, from, to) == /\ acquire(c, a, l, from, to)
                           /\ UNCHANGED <<cpu, left, start, killed, input, tx, clock, device, reg, used>>

(* consolewrite: uartputc of one byte after another; copyin may fail.  The  *)
(* bytes are numbered by what is left to write.                             *)
uartputc_full(c, p) == /\ At(c, p, "put_loop") /\ Len(tx) = TXSIZE
                       /\ sleep(c, p, "tx", "put_asleep")
                       /\ UNCHANGED <<left, start, killed, input, tx, clock, device, reg, used>>
uartputc(c, p) == /\ At(c, p, "put_loop") /\ Len(tx) # TXSIZE
                  /\ tx' = Append(tx, left[p])
                  /\ Goto(p, "start")
                  /\ UNCHANGED <<cpu, lock, left, start, killed, input, clock, device, reg, used>>
consolewrite_next(c, p) ==
    /\ pc[p] = "put_next" /\ cpu[c].irq = "none"
    /\ cpu[c].run = p \/ (Idle(c) /\ ~Running(p))
    /\ \/ /\ Goto(p, "put_spin")
          /\ cpu' = [cpu EXCEPT ![c] = push_off([@ EXCEPT !.run = p])]
          /\ UNCHANGED left
       \/ /\ Goto(p, "user")
          /\ cpu' = [cpu EXCEPT ![c].run = NoProc]
          /\ left' = [left EXCEPT ![p] = 0]
    /\ UNCHANGED <<lock, start, killed, input, tx, clock, device, reg, used>>

(* consoleread: a turn of its loop, with cons.lock held. *)
consoleread_wait(c, p) ==
    /\ At(c, p, "get_loop") /\ left[p] > 0 /\ cons.r = cons.w
    /\ IF killed[p] THEN Return(c, p, "cons")
       ELSE sleep(c, p, "cons", "get_asleep") /\ UNCHANGED <<left, start, slept>>
    /\ UNCHANGED <<killed, input, tx, ticks, device, reg, used>>

consoleread(c, p) ==
    /\ At(c, p, "get_loop") /\ left[p] > 0 /\ cons.r # cons.w
    /\ LET ch == cons.buf[cons.r % SIZE]
           keep == ch = "^D" /\ left[p] < start[p]     \* for the next call, which returns 0
       IN /\ cons' = [cons EXCEPT !.r = IF keep THEN @ ELSE (@ + 1) % Wrap]
          /\ got' = IF keep THEN got ELSE ch
          /\ \/ /\ ch # "^D"                            \* copyout succeeds
                /\ left' = [left EXCEPT ![p] = @ - 1]
                /\ Goto(p, IF ch = "nl" THEN "get_done" ELSE "get_loop")
             \/ /\ UNCHANGED left                       \* ^D, or copyout fails
                /\ Goto(p, "get_done")
    /\ UNCHANGED <<cpu, lock, start, killed, tx, clock, device, reg, used>>

consoleread_done(c, p) ==
    /\ At(c, p, "get_done") \/ (At(c, p, "get_loop") /\ left[p] = 0)
    /\ Return(c, p, "cons")
    /\ UNCHANGED <<killed, input, tx, ticks, device, reg, used>>

(* sys_sleep *)
sys_sleep(c, p) == /\ acquire(c, p, "ticks", "tick_begin", "tick_loop")
                   /\ start' = [start EXCEPT ![p] = ticks]
                   /\ slept' = [slept EXCEPT ![p] = 0]
                   /\ UNCHANGED <<cpu, left, killed, input, tx, ticks, device, reg, used>>

TimeUp_sum(p) == ticks >= (start[p] + left[p]) % Wrap  \* mutant: ticks < ticks0 + n, which wraps
TimeUp(p) == (ticks - start[p]) % Wrap >= left[p]

sys_sleep_loop(c, p) ==
    /\ At(c, p, "tick_loop")
    /\ \/ TimeUp(p) /\ Goto(p, "slept") /\ UNCHANGED <<cpu, lock, left, start, slept>>
       \/ ~TimeUp(p) /\ killed[p] /\ Return(c, p, "ticks")
       \/ ~TimeUp(p) /\ ~killed[p] /\ sleep(c, p, "ticks", "tick_asleep") /\ UNCHANGED <<left, start, slept>>
    /\ UNCHANGED <<killed, input, tx, ticks, device, reg, used>>
sys_sleep_done(c, p) == /\ At(c, p, "slept")
                        /\ Return(c, p, "ticks")
                        /\ UNCHANGED <<killed, input, tx, ticks, device, reg, used>>

kill(p) == /\ p \in Killable /\ ~killed[p] /\ pc[p] # "user" /\ used < MaxEvents
           /\ used' = used + 1
           /\ killed' = [killed EXCEPT ![p] = TRUE]
           /\ pc' = [pc EXCEPT ![p] = IF @ \in DOMAIN Rouse THEN Rouse[@] ELSE @]
           /\ UNCHANGED <<cpu, lock, left, start, input, tx, clock, device, reg>>

SystemCall(c, p) ==
    \/ \E n \in 1 .. MaxN : Call(c, p, "write", n, "put_spin") \/ Call(c, p, "read", n, "get_spin")
    \/ \E n \in 0 .. MaxN : Call(c, p, "sleep", n, "tick_begin")
    \/ \E x \in {"put", "get", "tick"} : again(c, p, x)
    \/ Lock(c, p, "tx", "put_spin", "put_loop")
    \/ uartputc_full(c, p) \/ uartputc(c, p) \/ consolewrite_next(c, p)
    \/ Lock(c, p, "cons", "get_spin", "get_loop")
    \/ consoleread_wait(c, p) \/ consoleread(c, p) \/ consoleread_done(c, p)
    \/ Lock(c, p, "ticks", "tick_spin", "tick_loop")
    \/ sys_sleep(c, p) \/ sys_sleep_loop(c, p) \/ sys_sleep_done(c, p)

-----------------------------------------------------------------------------
(* Interrupts.  The trap turns interrupts off; sret restores them. *)

(* devintr, with the PLIC's claim: the UART's line is up while there is     *)
(* input or the transmitter has run empty.                                  *)
Line == uart.rx # <<>> \/ uart.thri
devintr(c) == /\ cpu[c].intr /\ cpu[c].irq = "none" /\ Line /\ ~uart.claimed
              /\ cpu' = [cpu EXCEPT ![c].irq = "uart", ![c].intr = FALSE]
              /\ uart' = [uart EXCEPT !.claimed = TRUE]
              /\ Goto(c, "getc")
              /\ UNCHANGED <<lock, left, start, killed, input, tx, clock, reg, wire, used>>

(* uartintr: uartgetc until there is no more input, then uartstart. *)
uartintr(c) == /\ At(c, c, "getc")
               /\ IF uart.rx # <<>>
                  THEN /\ reg' = [reg EXCEPT ![c] = Head(uart.rx)]
                       /\ uart' = [uart EXCEPT !.rx = Tail(@)]
                       /\ Goto(c, "cons_spin")
                  ELSE UNCHANGED <<reg, uart>> /\ Goto(c, "send_spin")
               /\ Pushed(c)
               /\ UNCHANGED <<lock, left, start, killed, input, tx, clock, wire, used>>

(* consoleintr: all under cons.lock, so the changes to cons are one step    *)
(* and the echo, a wait for the transmitter for every byte, comes after it. *)
Room_late == (cons.e - cons.r) % Wrap <= SIZE  \* mutant: one too many
Room == (cons.e - cons.r) % Wrap < SIZE

Typing(ch) == LET e1 == (cons.e + 1) % Wrap IN
              [cons EXCEPT !.buf[cons.e % SIZE] = ch, !.e = e1,
                           !.w = IF ch \in {"nl", "^D"} \/ (e1 - cons.r) % Wrap = SIZE THEN e1 ELSE @]

(* ^U: the index it stops at. *)
Killed == LET n == (cons.e - cons.w) % Wrap
              stops == {k \in 0 .. n : k = n \/ cons.buf[((cons.e - k - 1) % Wrap) % SIZE] = "nl"} IN
          (cons.e - Min(stops)) % Wrap

consoleintr(c) ==
    /\ At(c, c, "edit")
    /\ LET ch == IF reg[c] = "cr" THEN "nl" ELSE reg[c]
           next == CASE ch = "^U" -> [cons EXCEPT !.e = Killed]
                     [] ch = "^H" -> [cons EXCEPT !.e = IF @ # cons.w THEN (@ - 1) % Wrap ELSE @]
                     [] ch \notin {"^U", "^H", "nul"} /\ Room -> Typing(ch)
                     [] OTHER -> cons
           echo == IF ch \in {"^U", "^H"} THEN 3 * ((cons.e - next.e) % Wrap)
                   ELSE IF next # cons THEN 1 ELSE 0
       IN /\ cons' = next
          /\ left' = [left EXCEPT ![c] = echo]
          /\ pc' = [(IF next.w # cons.w THEN Woken("get_asleep", pc) ELSE pc)
                        EXCEPT ![c] = IF echo > 0 THEN "echo" ELSE "edited"]
    /\ UNCHANGED <<cpu, lock, start, killed, tx, clock, device, reg, got, used>>

(* uartputc_sync: waits for the transmitter, takes no lock. *)
uartputc_sync(c) == /\ At(c, c, "echo")
                    /\ Pushed(c)
                    /\ Goto(c, "sync")
                    /\ UNCHANGED <<lock, left, start, killed, input, tx, clock, device, reg, used>>
uartputc_sync_idle(c) == /\ At(c, c, "sync") /\ uart.fifo = <<>>
                         /\ Goto(c, "sync_write")
                         /\ UNCHANGED <<cpu, lock, left, start, killed, input, tx, clock, device, reg, used>>
uartputc_sync_write(c) == /\ At(c, c, "sync_write")
                          /\ WriteTHR(Echo)
                          /\ left' = [left EXCEPT ![c] = @ - 1]
                          /\ Popped(c)
                          /\ Goto(c, IF left[c] > 1 THEN "echo" ELSE "edited")
                          /\ UNCHANGED <<lock, start, killed, input, tx, clock, wire, reg, used>>
consoleintr_done(c) == /\ At(c, c, "edited")
                       /\ release(c, "cons") /\ Goto(c, "getc")
                       /\ reg' = [reg EXCEPT ![c] = "nul"]
                       /\ UNCHANGED <<left, start, killed, input, tx, clock, device, used>>

(* plic_complete, and the return from the trap. *)
plic_complete(c) == /\ At(c, c, "complete")
                    /\ uart' = [uart EXCEPT !.claimed = FALSE]
                    /\ cpu' = [cpu EXCEPT ![c].irq = "none", ![c].intr = TRUE]
                    /\ Goto(c, "none")
                    /\ UNCHANGED <<lock, left, start, killed, input, tx, clock, reg, wire, used>>

(* The timer: clockintr on the boot CPU, then the process yields. *)
timer(c) == /\ cpu[c].intr /\ cpu[c].irq = "none"
            /\ IF c = Boot THEN /\ used < MaxEvents
                                /\ used' = used + 1
                                /\ cpu' = [cpu EXCEPT ![c] = push_off([@ EXCEPT !.irq = "timer", !.intr = FALSE])]
                                /\ Goto(c, "clock_spin")
               ELSE /\ cpu[c].run # NoProc
                    /\ cpu' = [cpu EXCEPT ![c].run = NoProc]
                    /\ UNCHANGED <<pc, used>>
            /\ UNCHANGED <<lock, left, start, killed, input, tx, clock, device, reg>>
clockintr(c) == /\ At(c, c, "clock")
                /\ ticks' = (ticks + 1) % Wrap
                /\ slept' = [p \in Procs |-> IF pc[p] \in {"tick_asleep", "tick_woken", "tick_spin"}
                                            THEN slept[p] + 1 ELSE slept[p]]
                /\ pc' = [Woken("tick_asleep", pc) EXCEPT ![c] = "ticked"]
                /\ UNCHANGED <<cpu, lock, left, start, killed, input, tx, device, reg, used>>
yield(c) == /\ At(c, c, "ticked")
            /\ lock' = [lock EXCEPT !["ticks"] = Free]
            /\ cpu' = [cpu EXCEPT ![c] = [pop_off(@) EXCEPT !.irq = "none", !.run = NoProc, !.intr = TRUE]]
            /\ Goto(c, "none")
            /\ UNCHANGED <<left, start, killed, input, tx, clock, device, reg, used>>

Handler(c) ==
    \/ uartintr(c)
    \/ Lock(c, c, "cons", "cons_spin", "edit") \/ consoleintr(c)
    \/ uartputc_sync(c) \/ uartputc_sync_idle(c) \/ uartputc_sync_write(c) \/ consoleintr_done(c)
    \/ Lock(c, c, "tx", "send_spin", "start") \/ plic_complete(c)
    \/ Lock(c, c, "ticks", "clock_spin", "clock") \/ clockintr(c) \/ yield(c)

-----------------------------------------------------------------------------
(* The device: it sends a byte, and receives one. *)
transmit == /\ uart.fifo # <<>>
            /\ uart' = [uart EXCEPT !.fifo = Tail(@), !.thri = (Len(uart.fifo) = 1)]
            /\ wire' = IF Head(uart.fifo) = Echo THEN wire ELSE Head(uart.fifo)
            /\ UNCHANGED <<cpu, lock, pc, left, start, killed, input, tx, clock, reg, used>>
receive(ch) == /\ used < MaxEvents /\ uart.rx = <<>>
               /\ uart' = [uart EXCEPT !.rx = <<ch>>]
               /\ used' = used + 1
               /\ UNCHANGED <<cpu, lock, pc, left, start, killed, input, tx, clock, reg, wire>>

Uartstart(c, a) == uartstart(c, a) \/ uartstart_write(c, a) \/ uartstart_done(c, a)
Step(c) == \/ \E p \in Procs : SystemCall(c, p) \/ Uartstart(c, p)
           \/ Handler(c) \/ Uartstart(c, c)

Next == \/ \E c \in CPUs : \/ Step(c) \/ devintr(c) \/ timer(c)
        \/ transmit
        \/ \E ch \in Typed : receive(ch)
        \/ \E p \in Procs : kill(p)

Spec == Init /\ [][Next]_vars

(* A CPU goes on executing, the device sends, a pending interrupt is taken  *)
(* by a CPU that keeps turning interrupts on, and the scheduler passes over *)
(* no process for ever.  Nobody has to type, call or be killed.             *)
Continue(c) == \/ \E p \in Procs : cpu[c].run = p /\ (SystemCall(c, p) \/ Uartstart(c, p))
               \/ Handler(c) \/ Uartstart(c, c)
Resume(p) == \E c \in CPUs : consolewrite_next(c, p) \/ \E x \in {"put", "get", "tick"} : again(c, p, x)
FairSpec == /\ Spec
            /\ \A c \in CPUs : WF_vars(Continue(c))
            /\ WF_vars(transmit)
            /\ SF_vars(\E c \in CPUs : devintr(c))
            /\ \A p \in Procs : SF_vars(Resume(p))

-----------------------------------------------------------------------------
Held(c) == {l \in DOMAIN lock : lock[l] = c}
Wants(a) == CASE pc[a] \in {"put_spin", "send_spin"} -> {"tx"}
              [] pc[a] \in {"get_spin", "cons_spin"} -> {"cons"}
              [] pc[a] \in {"tick_spin", "tick_begin", "clock_spin"} -> {"ticks"}
              [] OTHER -> {}
Executing(c) == IF cpu[c].irq # "none" THEN {c} ELSE {cpu[c].run} \ {NoProc}

(* A CPU that holds a spinlock or serves an interrupt has interrupts off,   *)
(* so no handler ever spins for a lock of the code it interrupted (acquire  *)
(* would panic), noff counts the locks held and wanted, and a CPU that      *)
(* holds and wants nothing outside a handler has interrupts on again.       *)
(* kernel/spinlock.c.                                                       *)
InterruptSafe ==
    \A c \in CPUs :
        LET spinning == UNION {Wants(a) : a \in Executing(c)}
            sync == IF pc[c] \in {"sync", "sync_write"} THEN 1 ELSE 0 IN
        /\ spinning \cap Held(c) = {}
        /\ cpu[c].noff = Cardinality(Held(c)) + Cardinality(spinning) + sync
        /\ cpu[c].intr = (cpu[c].noff = 0 /\ cpu[c].irq = "none")

(* sys_sleep(n) returns 0 only after n ticks, also when ticks wraps, and    *)
(* nobody is asleep whose time is up.  kernel/sysproc.c, clockintr.         *)
SleepExact == \A p \in Procs : /\ pc[p] = "slept" => slept[p] >= left[p]
                               /\ pc[p] = "tick_asleep" => slept[p] < left[p]

(* The rings are the terminal of module Terminal: reads return the edited   *)
(* lines in order and written bytes leave in order, each once, although     *)
(* echo and output race for the transmitter.  kernel/console.c, uart.c.     *)
Ring(from, to) == [k \in 1 .. ((to - from) % Wrap) |-> cons.buf[((from + k - 1) % Wrap) % SIZE]]
T == INSTANCE Terminal WITH Typed <- Typed \cup {"nl"}, Bytes <- 1 .. MaxN, edit <- Ring(cons.w, cons.e), ready <- Ring(cons.r, cons.w),
                            due <- SelectSeq(uart.fifo, LAMBDA b : b # Echo) \o tx
IsTerminal == T!TermSpec

(* Again and again nobody waits in uartputc and all that was written is out *)
(* (there are finitely many calls): the transmit interrupt that drives      *)
(* uartstart, and its wakeup, are never lost.  kernel/uart.c.               *)
Writing(p) == pc[p] \in {"put_spin", "put_loop", "put_asleep", "put_woken", "put_next"}
OutputDrains == []<>(tx = <<>> /\ uart.fifo = <<>> /\ \A p \in Procs : ~Writing(p))
=============================================================================
