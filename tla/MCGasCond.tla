----------------------------- MODULE MCGasCond -----------------------------
(***************************************************************************)
(* Every file of up to MaxLines lines over the conditional alphabet, and  *)
(* every file of up to MaxReptLines lines over an alphabet that adds      *)
(* .rept (counts 0, 2 and -1) and .endr.  Every directive is at the     *)
(* start of its line.                                                      *)
(***************************************************************************)
EXTENDS GasCond

MaxLines == 6
MaxReptLines == 5

L(k, c) == [k |-> k, c |-> c, sol |-> TRUE]

CondAlphabet ==
    {L("body", "-"), L("else", "-"), L("endif", "-")}
    \cup {L(d, c) : d \in {"if", "elseif"}, c \in {"t", "f", "bad"}}

ReptAlphabet ==
    {L("body", "-"), L("else", "-"), L("endif", "-"), L("if", "t"), L("if", "f"),
     L("rept", 0), L("rept", 2), L("rept", -1), L("endr", "-")}

Files(A, n) == UNION {[1..m -> A] : m \in 0..n}

MCPrograms == Files(CondAlphabet, MaxLines) \cup Files(ReptAlphabet, MaxReptLines)
=============================================================================
