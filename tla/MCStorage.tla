----------------------------- MODULE MCStorage ------------------------------
(* An instance of Storage: memory for two small processes and the exec of   *)
(* one, and a disk that one file can fill.                                  *)
EXTENDS Storage, TLC

(* Programs for exec: not an ELF file, one with two segments, one whose     *)
(* file is shorter than its header says.                                    *)
Seg(vaddr, memsz, filesz, flags, avail) ==
    [load |-> TRUE, vaddr |-> vaddr, memsz |-> memsz, filesz |-> filesz, flags |-> flags, avail |-> avail]
Note == [load |-> FALSE, vaddr |-> 1, memsz |-> 0, filesz |-> 0, flags |-> {}, avail |-> 0]

MCPrograms ==
    { [elf |-> FALSE, segs |-> <<>>],
      [elf |-> TRUE, segs |-> <<Seg(0, 2, 1, {"X"}, 1), Note, Seg(2, 1, 1, {"W"}, 1)>>],
      [elf |-> TRUE, segs |-> <<Seg(0, 3, 3, {"X"}, 2)>>] }

MCArgcs == { [n |-> 1, ok |-> TRUE, size |-> 3], [n |-> 2, ok |-> FALSE, size |-> 1],
             [n |-> 1, ok |-> TRUE, size |-> 5] }
MCGrow == {-3, 3}
MCCopies == { [va |-> 3, n |-> 3] }
MCFetches == { [va |-> 1, n |-> 3], [va |-> 3, n |-> 4], [va |-> 4, n |-> 5] }

MCInodeOf == 10 :> 2 @@ 12 :> 3
MCUserFiles == <<1, 0, 0>>

(* Which page is which does not matter: states with the same free count,    *)
(* pipes, sizes, page tables and contents behave alike.  LEVELS is 2.       *)
Table(root, i) ==
    LET e == m.pt[root][i] IN
    IF ~Valid(e) THEN <<>>
    ELSE [j \in 0 .. (FAN - 1) |->
            LET pte == m.pt[e.to][j] IN <<pte.f, IF pte.to \in Pages THEN m.data[pte.to] ELSE Junk>>]
MemoryView ==
    <<Cardinality(m.free), m.panic, Cardinality(pipes), image,
      [p \in Procs |-> <<proc[p].state, proc[p].sz,
         IF proc[p].pt = NoPage THEN <<>>
         ELSE [i \in 0 .. (FAN - 1) |-> Table(proc[p].pt, i)]>>]>>
View == <<side, datavars, IF side = "memory" THEN MemoryView ELSE <<>>>>
=============================================================================
