------------------------------- MODULE MCInsn -------------------------------
(***************************************************************************)
(* Statements for Insn: up to two prefixes or segment registers before    *)
(* "mov", then up to two operands separated by a comma, or next to each    *)
(* other (a missing comma), or followed by junk; and the statements where *)
(* a prefix or segment register stands before no instruction.             *)
(***************************************************************************)
EXTENDS Insn

MCPre == {<<>>} \cup {<<p>> : p \in PrefixNames \cup SegRegNames}
         \cup {<<"ds", "es">>, <<"rep", "ds">>}

MCOperands ==
    {<<>>} \cup {<<o>> : o \in OperandToks}
    \cup {<<o1, ",", o2>> : o1, o2 \in {"%ds:m", "$1", "1:2", "1:eax", "%eax"}}
    \cup {<<"$1", "m">>, <<"m", "mov">>}

MCLines ==
    {p \o <<"mov">> \o o : p \in MCPre, o \in MCOperands}
    \cup {<<"rep">>, <<"ds", "%eax">>, <<"foo">>}
====
