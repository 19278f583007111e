------------------------------ MODULE Storage -------------------------------
(***************************************************************************)
(* The two things the kernel hands out: pages of memory (Vm) and blocks of *)
(* the disk (InodeData).  The file system takes no page and the memory     *)
(* side of a process no block, so a behaviour is one of them at work.      *)
(***************************************************************************)
EXTENDS Vm, InodeData

VARIABLE side      \* "memory" or "files"

storagevars == <<side, vmvars, datavars>>

Init == side \in {"memory", "files"} /\ VmInit /\ DataInit

MemoryStep == side = "memory" /\ VmNext /\ UNCHANGED <<side, datavars>>
FileStep == side = "files" /\ DataNext /\ UNCHANGED <<side, vmvars>>

Next == MemoryStep \/ FileStep

Spec == Init /\ [][Next]_storagevars

-----------------------------------------------------------------------------
(* Whatever processes fork, exec, grow, exit and open, and whatever of it   *)
(* fails half way, no page of memory is lost or owned twice (PagesExact)    *)
(* and a program finds in its memory what its own calls put there           *)
(* (MemoryMatches).  kernel/vm.c, kalloc.c, exec.c and proc.c.              *)
MemoryRight == side = "memory" => PagesExact /\ MemoryMatches

(* copyin and copyinstr of kernel/vm.c give the bytes the program would     *)
(* read itself, and refuse exactly what it could not read.                  *)
UserCopiesRight == side = "memory" => CopyMatches

(* Reading returns what was written (ReadsBack), and no block of the disk   *)
(* is lost, shared or freed twice (BlocksExact), also when the disk or the  *)
(* program's memory ends in the middle of a write.  kernel/fs.c, file.c.    *)
FilesRight == side = "files" => ReadsBack /\ BlocksExact
=============================================================================
