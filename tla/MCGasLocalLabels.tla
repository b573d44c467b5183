------------------------- MODULE MCGasLocalLabels -------------------------
(***************************************************************************)
(* Files of up to three statements over labels 1 and 11, and files of ten *)
(* definitions of label 1 followed by up to two more definitions, so that *)
(* label 1's count reaches 11 next to label 11's count 1.                  *)
(***************************************************************************)
EXTENDS GasLocalLabels

MCLabelNums == {1, 11}

Stmts ==
    {[k |-> "def", n |-> n, s |-> ":"] : n \in MCLabelNums}
    \cup {[k |-> "ref", n |-> n, s |-> s] : n \in MCLabelNums, s \in {"b", "f"}}

Short == UNION {[1..m -> Stmts] : m \in 0..3}

TenDefs == [i \in 1..10 |-> [k |-> "def", n |-> 1, s |-> ":"]]

DefStmts == {st \in Stmts : st.k = "def"}

MCPrograms == Short \cup {TenDefs \o p : p \in UNION {[1..m -> DefStmts] : m \in 0..2}}
=============================================================================
