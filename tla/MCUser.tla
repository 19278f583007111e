------------------------------- MODULE MCUser -------------------------------
(* An instance of User: lines that meet every kind of command and every     *)
(* fork that can fail, and calls with all arguments of a few characters.    *)
EXTENDS User

Upto(X, n) == UNION {[1 .. k -> X] : k \in 0 .. n}

MCLines == Upto({"w", "|", ";", "&"}, 4)
           \cup { <<"cd", "w">>,
                  <<"w", "<", "w", "|", "w", "+", "w">>,
                  <<"w", "|", "w", "|", "w", "|", "w">>,
                  <<"(", "w", ";", "w", ")", "|", "w", "&">>,
                  <<"w", "|", "(", "w", "<", "w", ";", "w", ")", ">", "w">>,
                  <<"(", "w", "|", "w", "&", ")", ";", "w">> }

(* Trees of directories for find: x is a file, a device or a directory. *)
File(n) == [name |-> n, type |-> "T_FILE", node |-> "none"]
Device(n) == [name |-> n, type |-> "T_DEVICE", node |-> "none"]
Dir(n, d) == [name |-> n, type |-> "T_DIR", node |-> d]
Some == {<<>>, <<File("x")>>, <<File("y"), File("x")>>, <<Device("x")>>}
MCTrees == {[d \in {"/", "d", "e", "f"} |->
                <<Dir(".", d), Dir("..", "/")>> \o
                CASE d = "/" -> a \o <<Dir("x", "d"), Dir("n", "e")>>
                  [] d = "d" -> b \o <<Dir("x", "f")>>
                  [] d = "e" -> c
                  [] d = "f" -> a] : a \in Some, b \in Some, c \in Some}

MCCalls ==
    {<<"parsecmd", s>> : s \in Upto({"w", "|", ";", "&", "(", ")", ">"}, 4)}
    \cup {<<"xargs", s, n>> : s \in Upto({"a", " ", "nl"}, 6) \cup Upto({"a", "b", " "}, 6), n \in 0 .. 2}
    \cup {<<"find", t, n>> : t \in MCTrees, n \in {"x", "y"}}
    \cup {<<"match", re, s>> : re \in Upto({"a", "^", ".", "*", "$"}, 4), s \in Upto({"a", "b"}, 3)}
    \cup {<<"grep", <<"a", "b">>, s, n>> : s \in Upto({"a", "b", "nl"}, 6), n \in 1 .. 3}
    \cup {<<"skipelem", s>> : s \in Upto({"a", "/", "b"}, 6)}
    \cup {c \in {<<"memmove", [k \in 1 .. 8 |-> k], d, s, n>> : d \in 1 .. 7, s \in 1 .. 7, n \in 0 .. 4} :
             c[3] + c[5] <= 8 /\ c[4] + c[5] <= 8}
    \cup {<<"strncpy", str \o <<0>>, 1, 4, n>> : str \in [1 .. 5 -> 0 .. 2], n \in 0 .. 3}
    \cup {<<"printint", x>> : x \in -128 .. 127}
    \cup {<<"gets", s, n>> : s \in Upto({"a", "nl"}, 4), n \in 1 .. 4}
=============================================================================
