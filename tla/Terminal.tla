------------------------------ MODULE Terminal ------------------------------
(***************************************************************************)
(* What the console promises its users: typed characters are collected in  *)
(* an edit line that erase and kill can still change, a finished line is   *)
(* ready to be read in order, and written bytes leave in order, each once. *)
(***************************************************************************)
EXTENDS Naturals, Sequences, SequencesExt

CONSTANTS Typed, Bytes, SIZE

VARIABLES edit,    \* characters typed, not yet readable
          ready,   \* characters that reads will return
          got,     \* the character taken last
          due,     \* bytes written, not yet on the wire
          wire     \* the byte sent last

tvars == <<edit, ready, got, due, wire>>

TermInit == /\ edit = <<>> /\ ready = <<>> /\ got = "nul"
            /\ due = <<>> /\ wire = 0

Store(c) == /\ Len(ready) + Len(edit) < SIZE
            /\ LET line == Append(edit, c) IN
               IF c \in {"nl", "^D"} \/ Len(ready) + Len(line) = SIZE
               THEN ready' = ready \o line /\ edit' = <<>>
               ELSE edit' = line /\ UNCHANGED ready
            /\ UNCHANGED <<got, due, wire>>
Erase == /\ edit # <<>>
         /\ edit' \in {Front(edit), <<>>}
         /\ UNCHANGED <<ready, got, due, wire>>
Take == /\ ready # <<>>
        /\ got' = Head(ready) /\ ready' = Tail(ready)
        /\ UNCHANGED <<edit, due, wire>>
Put(b) == due' = Append(due, b) /\ UNCHANGED <<edit, ready, got, wire>>
Send == /\ due # <<>>
        /\ wire' = Head(due) /\ due' = Tail(due)
        /\ UNCHANGED <<edit, ready, got>>

TermNext == \/ \E c \in Typed : Store(c)
            \/ Erase \/ Take \/ Send
            \/ \E b \in Bytes : Put(b)

TermSpec == TermInit /\ [][TermNext]_tvars
=============================================================================
