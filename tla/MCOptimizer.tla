---------------------------- MODULE MCOptimizer ----------------------------
(***************************************************************************)
(* Sections of three bytecodes drawn from a menu chosen so that jumps sit  *)
(* at and just past both 8-bit thresholds, one expansion pushes another    *)
(* jump out of range, an org pads up to a fixed start, and a jump is       *)
(* repeated 0 or 2 times.                                                  *)
(***************************************************************************)
EXTENDS Optimizer

MCN == 3

\* An instruction as the matcher passes it to append_jmp.
Insn(t, req, s, n, os) ==
    [target |-> t, req |-> req, shortLen |-> s, nearLen |-> n,
     opersize |-> os, common |-> 0]

\* A bytecode of k fixed data bytes (no contents).
Data(k) == [kind |-> "data", fixed |-> k, req |-> "none", target |-> Ext,
            shortLen |-> 0, nearLen |-> 0, opersize |-> 32, common |-> 0,
            start |-> 0, mult |-> 1]

\* .org s: an offset bytecode.
Org(s) == [Data(0) EXCEPT !.kind = "org", !.start = s]

Labels == 1..MCN + 1

Menu ==
    {Data(125), Data(128), Org(130)}
    \cup {AppendJmp(Insn(t, "none", 1, 1, 32)) : t \in {Ext} \cup Labels}
    \cup {AppendJmp(Insn(t, "none", 1, 2, 16)) : t \in {1, MCN + 1}}
    \cup {AppendJmp(Insn(t, "short", 1, 1, 32)) : t \in {1, MCN + 1}}
    \cup {AppendJmp(Insn(MCN + 1, "near", 1, 1, 32)),
          AppendJmp(Insn(MCN + 1, "none", 1, 0, 32))}
    \cup {MultiplyMultiple(AppendJmp(Insn(t, "none", 1, 1, 32)), k) :
            t \in {1, MCN + 1}, k \in {0, 2}}

MCPrograms == [1..MCN -> Menu]
=============================================================================
