----------------------------- MODULE GasSymbols -----------------------------
(***************************************************************************)
(* The GAS parser's symbol statements applied, in any order, to one symbol *)
(* (src/modules/parsers/gas/GasParser_parse.cpp): labels, "=" / .equ /    *)
(* .set, .local, .comm, .lcomm, and the object-level .globl and .extern   *)
(* directives, each through the Symbol methods it calls.  Symbols do not   *)
(* interact in these statements, so one symbol shows every sequence.  The  *)
(* expressions, sizes and alignments of the statements are assumed to      *)
(* parse; their values are not modelled.                                   *)
(***************************************************************************)
EXTENDS Symbol

Stmts == {"label", "equ", "local", "comm", "lcomm", "globl", "extern"}

VARIABLES
  sym,    \* the symbol's [type, status, vis]
  errs    \* diagnostics reported, as <<diagnostic, statement>>

vars == <<sym, errs>>

\* Apply one method result r, reported against statement st.
Apply(r, st) ==
    /\ sym' = r.sym
    /\ errs' = errs \cup {<<d, st>> : d \in r.diags}

Init ==
    /\ sym = NewSymbol
    /\ errs = {}

\* ParseLine, "name:" (and GasParser::DefineLabel): CheckedDefineLabel.
Label == Apply(CheckedDefineLabel(sym), "label")

\* ParseLine "name = expr" and ParseDirEqu (.equ, .set): CheckedDefineEqu.
Equ == Apply(CheckedDefineEqu(sym), "equ")

\* ParseDirLocal: CheckedDeclare(DLOCAL).
Local == Apply(CheckedDeclare(sym, "DLOCAL"), "local")

\* ParseDirComm(is_lcomm): .lcomm, or .comm of a symbol whose visibility is
\* exactly DLOCAL, goes to DefineLcomm, which defines a label in .bss;
\* any other .comm declares the symbol COMMON.
Comm(isLcomm) ==
    IF isLcomm \/ sym.vis = {"DLOCAL"}
    THEN Apply(CheckedDefineLabel(sym), IF isLcomm THEN "lcomm" ELSE "comm")
    ELSE Apply(CheckedDeclare(sym, "COMMON"), "comm")

\* The object format's .globl / .extern directives: CheckedDeclare.
Globl == Apply(CheckedDeclare(sym, "GLOBAL"), "globl")
Extern == Apply(CheckedDeclare(sym, "EXTERN"), "extern")

Next ==
    \/ Label
    \/ Equ
    \/ Local
    \/ \E isLcomm \in BOOLEAN : Comm(isLcomm)
    \/ Globl
    \/ Extern

Spec == Init /\ [][Next]_vars

-----------------------------------------------------------------------------
(* Types, and the type agreeing with the status bits the define methods   *)
(* set: a symbol has a type exactly when it is DEFINED, and is VALUED      *)
(* exactly when that type is EQU or SPECIAL.                               *)
TypeOK ==
    /\ sym \in [type : Types, status : SUBSET StatusFlags, vis : SUBSET VisFlags]
    /\ errs \subseteq Diags \X Stmts
    /\ isDefined(sym) <=> sym.type # "UNKNOWN"
    /\ "VALUED" \in sym.status <=> sym.type \in {"EQU", "SPECIAL"}

(* The okToDeclare table's forbidden state COMMON+EXTERN is unreachable:   *)
(* no order of .comm, .extern and the other statements makes a symbol both *)
(* common and extern.                                                      *)
NoCommonExtern ==
    ~({"COMMON", "EXTERN"} \subseteq sym.vis)

(* Spec 8.10, "Defined is entered exactly once": once a label or EQU has   *)
(* given the symbol a type, no later statement changes it, and the         *)
(* DEFINED bit is never cleared.                                           *)
DefinedOnce ==
    [][/\ sym.type # "UNKNOWN" => sym'.type = sym.type
       /\ isDefined(sym) => isDefined(sym')]_vars

(* The okToDeclare comment table: DEFINED together with COMMON is a        *)
(* forbidden state, and DefineCheck's comment counts COMMON as "defined    *)
(* before".  A defined symbol is never common.                             *)
DefinedNeverCommon ==
    isDefined(sym) => "COMMON" \notin sym.vis
=============================================================================
