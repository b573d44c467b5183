------------------------------ MODULE ExprRpn ------------------------------
(***************************************************************************)
(* The term vector of an Expr (src/libyasmx/Expr.h): a post-order list of  *)
(* terms, each with a depth, operators with their number of children.      *)
(* The builders the parsers use (the single-term constructors, operator=,  *)
(* calc, append) are the inline code of the header; append_op, whose body  *)
(* is not in the repository, follows its header comment and spec 4.2:      *)
(* every current term is pushed down one level and the operator is added   *)
(* at depth 0.                                                             *)
(*                                                                         *)
(* A leaf is a pair <<tag, value>> as the parser models see it: "num" for  *)
(* an IntNum term (ExprTerm::INT), "sym" for a SymbolRef term (SYM).  An   *)
(* operator tree is <<op, child_1, ..., child_n>>.                         *)
(***************************************************************************)
EXTENDS Integers, Sequences, SequencesExt

LeafType == "num" :> "INT" @@ "sym" :> "SYM"

\* ExprTerm(IntNum) / ExprTerm(SymbolRef), and ExprTerm(op, nchild, depth).
LeafTerm(x, d) == [type |-> LeafType[x[1]], val |-> x[2], nchild |-> 0, depth |-> d]
OpTerm(op, n, d) == [type |-> "OP", val |-> op, nchild |-> n, depth |-> d]

\* Expr(IntNum), Expr(SymbolRef), and operator=(term): one term, depth 0.
ExprOf(x) == << LeafTerm(x, 0) >>

\* append_op(op, nchild): push every term down, add the operator last.
AppendOp(ts, op, n) ==
    [i \in 1..Len(ts) |-> [ts[i] EXCEPT !.depth = @ + 1]] \o << OpTerm(op, n, 0) >>

\* calc(op): a unary operator over a non-empty expression.
Calc1(ts, op) == IF ts = << >> THEN ts ELSE AppendOp(ts, op, 1)

\* Faulty variant: calc(op, rhs) passing one child to append_op.
Calc2OneChild(ts, op, rhs) == IF ts = << >> THEN rhs ELSE AppendOp(ts \o rhs, op, 1)
\* calc(op, rhs): rhs is appended (append(const Expr&) inserts its terms
\* as they are); the operator only joins them when the expression was not
\* empty before.
Calc2(ts, op, rhs) == IF ts = << >> THEN rhs ELSE AppendOp(ts \o rhs, op, 2)

-----------------------------------------------------------------------------
(* Reading the vector back, by the depth walk of the class comment: the    *)
(* subtree rooted at term j is the run of deeper terms just before it, and *)
(* its children are the terms of that run one level below j.              *)

MaxOf(S) == CHOOSE m \in S : \A k \in S : k <= m

SubtreeStart(ts, j) ==
    LET above == {i \in 1..j - 1 : ts[i].depth <= ts[j].depth}
    IN  IF above = {} THEN 1 ELSE MaxOf(above) + 1

Children(ts, j) ==
    LET s == SubtreeStart(ts, j)
    IN  SelectSeq([k \in 1..j - s |-> s + k - 1],
                  LAMBDA i : ts[i].depth = ts[j].depth + 1)

TagOf == [t \in {"INT", "SYM"} |-> IF t = "INT" THEN "num" ELSE "sym"]

RECURSIVE Decode(_, _)
Decode(ts, j) ==
    IF ts[j].type = "OP"
    THEN LET c == Children(ts, j)
         IN  << ts[j].val >> \o [k \in 1..Len(c) |-> Decode(ts, c[k])]
    ELSE << TagOf[ts[j].type], ts[j].val >>

\* The tree an expression's terms stand for.
TreeOf(ts) == Decode(ts, Len(ts))

\* Spec section 6, invariant 1: the last term is at depth 0, nothing else
\* is, every other term lies in the last term's subtree, and the depth walk
\* finds exactly nchild children of each operator (none of a leaf).
RpnWellFormed(ts) ==
    /\ Len(ts) > 0
    /\ ts[Len(ts)].depth = 0
    /\ SubtreeStart(ts, Len(ts)) = 1
    /\ \A j \in 1..Len(ts) :
         /\ j < Len(ts) => ts[j].depth > 0
         /\ Len(Children(ts, j)) = ts[j].nchild
=============================================================================
