-------------------------------- MODULE MCFs --------------------------------
(* Fs for TLC: two processes and the calls they make. *)
EXTENDS Fs
CONSTANTS p1, p2

Abs(path) == <<"/">> \o path
Call(op, type, path) == [op |-> op, type |-> type, path |-> path, new |-> <<>>]
Link(path, new) == [op |-> "link", type |-> "none", path |-> path, new |-> new]

(* A directory d of the root, files in it and in the root, paths through    *)
(* "." and "..".                                                            *)
CallsTree ==
    { Call("mkdir", "DIR", Abs(<<"d">>)), Call("unlink", "none", Abs(<<"d">>)),
      Call("chdir", "none", <<"d">>), Call("open", "READ", <<"d", "..">>),
      Call("creat", "FILE", <<"f">>), Call("unlink", "none", <<"f">>),
      Link(<<"f">>, Abs(<<"d", "f">>)) }

(* Directories two levels deep, and ".." from the lower one. *)
CallsDeep ==
    { Call("mkdir", "DIR", Abs(<<"d">>)), Call("mkdir", "DIR", Abs(<<"d", "e">>)),
      Call("chdir", "none", Abs(<<"d", "e">>)), Call("chdir", "none", <<"..">>),
      Call("unlink", "none", Abs(<<"d", "e">>)), Call("unlink", "none", Abs(<<"d">>)),
      Call("mknod", "DEV", Abs(<<"e">>)), Call("open", "WRITE", Abs(<<"e">>)) }
=============================================================================
