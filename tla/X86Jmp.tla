------------------------------- MODULE X86Jmp -------------------------------
(***************************************************************************)
(* The x86 relative jump bytecode (src/modules/arch/x86/X86Jmp.cpp).       *)
(*                                                                         *)
(* A jump instruction is described by the record the instruction matcher   *)
(* hands to append_jmp: its target (a label index of the same section, or  *)
(* Ext for a symbol the section cannot measure), the operand size, the     *)
(* prefix length and the lengths of its short and near opcodes (0 when the *)
(* form does not exist, as for jcxz), and the size the source forced.      *)
(*                                                                         *)
(* append_jmp turns it into one bytecode: either an X86Jmp contents whose  *)
(* size the optimizer chooses (kind "jmp"), or, when the size is fixed,    *)
(* plain fixed bytes with one IP-relative fixup (kind "fjmp").  The        *)
(* operators below are the contents' methods over that record and the      *)
(* current opcode selection.  mult is the bytecode's multiple: 1 while     *)
(* m_multiple is null, as the Bytecode constructors leave it.              *)
(***************************************************************************)
EXTENDS Integers

Ext == 0             \* target outside this section (extern, other section);
                     \* labels of the section are 1..N+1

Sel == {"none", "short", "near"}   \* JmpOpcodeSel: JMP_NONE, JMP_SHORT, JMP_NEAR

\* Size of the near displacement: (m_common.m_opersize == 16) ? 2 : 4.
NearDispLen(b) == IF b.opersize = 16 THEN 2 ELSE 4

\* append_jmp: a missing short form forces near, a missing near form forces
\* short (checked second, so it wins), otherwise the source's choice stands.
AppendSel(insn) ==
    IF insn.nearLen = 0 THEN "short"
    ELSE IF insn.shortLen = 0 THEN "near"
    ELSE insn.req

\* append_jmp: the bytecode it creates.  With JMP_NONE the bytecode gets an
\* X86Jmp contents and no fixed bytes; otherwise prefix, opcode and a zero
\* displacement are written as fixed bytes with the displacement as fixup.
AppendJmp(insn) ==
    LET sel == AppendSel(insn)
        op  == IF sel = "short" THEN insn.shortLen ELSE insn.nearLen
        dsz == IF sel = "short" THEN 1 ELSE NearDispLen(insn)
    IN  [kind     |-> IF sel = "none" THEN "jmp" ELSE "fjmp",
         fixed    |-> IF sel = "none" THEN 0 ELSE insn.common + op + dsz,
         req      |-> sel,
         target   |-> insn.target,
         shortLen |-> insn.shortLen,
         nearLen  |-> insn.nearLen,
         opersize |-> insn.opersize,
         common   |-> insn.common,
         start    |-> 0,
         mult     |-> 1]

\* X86Jmp::finalize: a target that is not a label of this section cannot be
\* measured, so the jump defaults to near; otherwise it starts short.
JmpFinalize(b) == IF b.target = Ext THEN "near" ELSE "short"

\* X86Jmp::calc_len: prefix plus the chosen form.
JmpCalcLen(b, sel) ==
    b.common + IF sel = "near" THEN b.nearLen + NearDispLen(b)
                               ELSE b.shortLen + 1

\* The span calc_len registers for a short jump: the distance from the
\* start of the bytecode to the target must stay in [-128+len, 127+len] so
\* that the 8-bit displacement, taken from the end of the instruction, fits.
\* Faulty variant: the positive threshold one byte too far.
JmpSpanThresPosOffByOne(len) == <<-128 + len, 128 + len>>
JmpSpanThres(len) == <<-128 + len, 127 + len>>

\* X86Jmp::expand: upgrade to near, adjusting len by the difference of the
\* two forms.  Returns FALSE: the span needs no further watching.
\* Faulty variants: the near opcode's length, or the wider displacement,
\* left out of the adjustment.
JmpExpandLenNoOpcode(b, len) == len - (b.shortLen + 1) + NearDispLen(b)
JmpExpandLenNoDisp(b, len) == len - (b.shortLen + 1) + b.nearLen
JmpExpandLen(b, len) == len - (b.shortLen + 1) + b.nearLen + NearDispLen(b)
\* Faulty variant: expand reporting that the span must still be watched.
JmpExpandKeep == FALSE

\* X86Jmp::output: the number of tail bytes written (prefix, opcode and a
\* displacement of 1 or 2/4 bytes) and the displacement's size.
JmpDispLen(b, sel) == IF sel = "short" THEN 1 ELSE NearDispLen(b)
JmpOutLen(b, sel) ==
    b.common + (IF sel = "short" THEN b.shortLen ELSE b.nearLen)
             + JmpDispLen(b, sel)
=============================================================================
