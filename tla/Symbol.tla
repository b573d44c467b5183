------------------------------- MODULE Symbol -------------------------------
(***************************************************************************)
(* One symbol of the symbol table (src/lib/yasmx/Symbol.cpp): its type,    *)
(* status flags and visibility flags, and the methods that define and      *)
(* declare it.  Each method is an operator from the symbol's state to its  *)
(* new state and the diagnostics it reports.  The values a symbol carries  *)
(* (EQU expression, label location, source locations) are left out: no    *)
(* check reads them.                                                       *)
(***************************************************************************)

Types == {"UNKNOWN", "EQU", "LABEL", "SPECIAL"}      \* Symbol::Type
StatusFlags == {"DEFINED", "VALUED", "USED"}         \* Symbol::Status bits
VisFlags == {"GLOBAL", "COMMON", "EXTERN", "DLOCAL"} \* Symbol::Visibility bits;
                                                     \* LOCAL is no bit set
Diags == {"err_symbol_redefined", "warn_extern_defined"}

\* Symbol::Symbol: UNKNOWN, NOSTATUS, LOCAL.
NewSymbol == [type |-> "UNKNOWN", status |-> {}, vis |-> {}]

\* Symbol::isDefined (Symbol.h): the DEFINED status bit.
isDefined(s) == "DEFINED" \in s.status

\* Faulty variant: the redefinition test left out.
DefineCheckNoRedefTest(s) ==
    [ok |-> TRUE,
     diags |-> IF "EXTERN" \in s.vis THEN {"warn_extern_defined"} ELSE {}]

\* Symbol::DefineCheck: a defined symbol is an error; an extern one only
\* draws a warning and may still be defined.
DefineCheck(s) ==
    IF isDefined(s)
    THEN [ok |-> FALSE, diags |-> {"err_symbol_redefined"}]
    ELSE [ok |-> TRUE,
          diags |-> IF "EXTERN" \in s.vis THEN {"warn_extern_defined"} ELSE {}]

\* Faulty variant: a label marked VALUED as an EQU is.
DefineLabelValued(s) == [s EXCEPT !.type = "LABEL", !.status = @ \cup {"DEFINED", "VALUED"}]

\* Symbol::DefineEqu and Symbol::DefineLabel (their asserts hold: the
\* checked variants call them only after DefineCheck passed).
DefineEqu(s) == [s EXCEPT !.type = "EQU", !.status = @ \cup {"DEFINED", "VALUED"}]
DefineLabel(s) == [s EXCEPT !.type = "LABEL", !.status = @ \cup {"DEFINED"}]

\* Symbol::CheckedDefineEqu / CheckedDefineLabel: the new state and the
\* diagnostics reported.
CheckedDefineEqu(s) ==
    [sym |-> IF DefineCheck(s).ok THEN DefineEqu(s) ELSE s,
     diags |-> DefineCheck(s).diags]
CheckedDefineLabel(s) ==
    [sym |-> IF DefineCheck(s).ok THEN DefineLabel(s) ELSE s,
     diags |-> DefineCheck(s).diags]

\* Faulty variant: the redundant-common rule left out.
okToDeclareNoCommonTest(s, v) ==
    CASE v = "GLOBAL"         -> TRUE
      [] isDefined(s)         -> FALSE
      [] "EXTERN" \in s.vis   -> v = "EXTERN"
      [] OTHER                -> TRUE

\* Symbol::okToDeclare: global always; nothing else once defined; a common
\* symbol only again common, an extern one only again extern.
okToDeclare(s, v) ==
    CASE v = "GLOBAL"         -> TRUE
      [] isDefined(s)         -> FALSE
      [] "COMMON" \in s.vis   -> v = "COMMON"
      [] "EXTERN" \in s.vis   -> v = "EXTERN"
      [] OTHER                -> TRUE

\* Symbol::CheckedDeclare: add the visibility bit, or report a redefinition.
CheckedDeclare(s, v) ==
    IF okToDeclare(s, v)
    THEN [sym |-> [s EXCEPT !.vis = @ \cup {v}], diags |-> {}]
    ELSE [sym |-> s, diags |-> {"err_symbol_redefined"}]
=============================================================================
