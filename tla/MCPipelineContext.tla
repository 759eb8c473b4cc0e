-------------------------- MODULE MCPipelineContext ---------------------------
(***************************************************************************)
(* Documents with containers for TLC: records of several sizes, and what   *)
(* their containers declare.                                               *)
(***************************************************************************)
EXTENDS PipelineContext

\* Small records, one larger than a byte cap of 4 among them.
MixedSizes == [i \in 0 .. 4 |-> <<0, 1, 2, 8, 9>>[i + 1]]

\* Container 1 holds 2, with two records, and 3, with one; 4 holds 5, with one, and
\* 6, which is empty.
TwoLevels == [i \in 0 .. 4 |-> <<2, 2, 3, 5, 6>>[i + 1]]

OnThePath == [i \in 0 .. 3 |-> <<{0, 1, 2}, {0, 1, 2}, {0, 1, 3}, {0, 4, 5}>>[i + 1]]

Declaring(decls) == [x \in Prefixes |-> IF x \in DOMAIN decls THEN decls[x] ELSE Undeclared]

Nothing == [x \in {} |-> "u"]

\* The root declares p; 3 declares it again, and 1 and 5 declare q.
Redeclared ==
    [c \in 0 .. 6 |->
        Declaring(<<[x \in {"p"} |-> "u"], [x \in {"q"} |-> "u"], Nothing, [x \in {"p"} |-> "v"],
                    Nothing, [x \in {"q"} |-> "v"], [x \in {"p", "q"} |-> "u"]>>[c + 1])]
===============================================================================
