--------------------------- MODULE GasLocalLabels ---------------------------
(***************************************************************************)
(* GAS numeric local labels (src/modules/parsers/gas/GasParser_parse.cpp):  *)
(* a definition "N:" (ParseLine) and the references "Nb" and "Nf"          *)
(* (ParseExpr0) are renamed by getLocalLabel to ordinary symbols           *)
(* "L" N "\001" k, where k counts the definitions of N so far (m_local).   *)
(* The renamed symbols go through the symbol table: a definition through   *)
(* CheckedDefineLabel, a reference through getSymbol and Use.              *)
(*                                                                         *)
(* Names are modelled as the character sequences getLocalLabel builds,     *)
(* digits by IntNum::getStr's decimal conversion, so that two labels get   *)
(* the same symbol exactly when the code gives them the same name.         *)
(***************************************************************************)
EXTENDS Integers, SequencesExt, Symbol

CONSTANTS
  Programs,      \* source files: sequences of [k : {"def", "ref"}, n, s]
  LabelNums      \* the label numbers the files use

VARIABLES
  prog,     \* the source file
  pos,      \* the statement being parsed
  m_local,  \* GasParser::m_local: definitions of each number so far
  syms,     \* the object's symbol table: name -> symbol state
  names,    \* the name each statement's label was renamed to
  errs      \* diagnostics, as <<diagnostic, statement>>

vars == <<prog, pos, m_local, syms, names, errs>>

DigitChar == <<"0", "1", "2", "3", "4", "5", "6", "7", "8", "9">>

\* IntNum::getStr: the decimal digits of n, most significant first.
RECURSIVE Decimal(_)
Decimal(n) ==
    IF n < 10 THEN <<DigitChar[n + 1]>>
    ELSE Decimal(n \div 10) \o <<DigitChar[(n % 10) + 1]>>

\* Faulty variant: the separator between the number and the count left out.
LocalLabelNameNoSep(n, k) == <<"L">> \o Decimal(n) \o Decimal(k)

\* getLocalLabel's name: 'L', the number, the separator '\001' (SOH), the count.
LocalLabelName(n, k) == <<"L">> \o Decimal(n) \o <<"SOH">> \o Decimal(k)

\* Faulty variant: the suffixes' roles swapped.
LocalLabelCountSwapped(n, suffix) == m_local[n] + (IF suffix = "f" THEN 0 ELSE 1)

\* getLocalLabel's count: a backward reference names the latest definition,
\* anything else (a definition, a forward reference) the next one.
LocalLabelCount(n, suffix) == m_local[n] + (IF suffix = "b" THEN 0 ELSE 1)

\* Faulty variant: getLocalLabel called without inc for a definition.
LocalLabelNoInc(n) == m_local

\* getLocalLabel with inc: ++m_local[ndx] (the vector was resized, so
\* every number starts at 0).
LocalLabelInc(n) == [m_local EXCEPT ![n] = @ + 1]

\* Object::getSymbol: the existing symbol, or a new one.
GetSymbol(nm) == IF nm \in DOMAIN syms THEN syms[nm] ELSE NewSymbol

\* Symbol::Use: marks the symbol used.
Use(s) == [s EXCEPT !.status = @ \cup {"USED"}]

Init ==
    /\ prog \in Programs
    /\ pos = 1
    /\ m_local = [n \in LabelNums |-> 0]
    /\ syms = <<>>
    /\ names = <<>>
    /\ errs = {}

Stmt == prog[pos]

\* ParseLine, numeric label "N:": getLocalLabel(':', inc) then DefineLabel.
LocalLabelDef ==
    /\ pos <= Len(prog) /\ Stmt.k = "def"
    /\ LET nm == LocalLabelName(Stmt.n, LocalLabelCount(Stmt.n, ":"))
           r  == CheckedDefineLabel(GetSymbol(nm))
       IN  /\ syms' = nm :> r.sym @@ syms
           /\ names' = names @@ (pos :> nm)
           /\ errs' = errs \cup {<<d, pos>> : d \in r.diags}
    /\ m_local' = LocalLabelInc(Stmt.n)
    /\ pos' = pos + 1
    /\ UNCHANGED prog

\* ParseExpr0, "Nb" / "Nf": getLocalLabel(suffix) without inc, then
\* getSymbol and Use.
LocalLabelRef ==
    /\ pos <= Len(prog) /\ Stmt.k = "ref"
    /\ LET nm == LocalLabelName(Stmt.n, LocalLabelCount(Stmt.n, Stmt.s))
       IN  /\ syms' = nm :> Use(GetSymbol(nm)) @@ syms
           /\ names' = names @@ (pos :> nm)
    /\ pos' = pos + 1
    /\ UNCHANGED <<prog, m_local, errs>>

Next == LocalLabelDef \/ LocalLabelRef

Spec == Init /\ [][Next]_vars

-----------------------------------------------------------------------------
Defs(n) == {i \in 1..Len(prog) : prog[i].k = "def" /\ prog[i].n = n}

\* The definition a reference at line r denotes in GAS: the latest "N:"
\* before it for Nb, the first after it for Nf; 0 when there is none.
Denotes(r) ==
    LET n == prog[r].n
        before == {d \in Defs(n) : d < r}
        after  == {d \in Defs(n) : d > r}
    IN  IF prog[r].s = "b"
        THEN IF before = {} THEN 0 ELSE Max(before)
        ELSE IF after = {} THEN 0 ELSE Min(after)

(* Types, and m_local holding, for each number, the definitions of it     *)
(* parsed so far.                                                          *)
TypeOK ==
    /\ pos \in 1..Len(prog) + 1
    /\ m_local \in [LabelNums -> Nat]
    /\ errs \subseteq Diags \X (1..Len(prog))
    /\ \A n \in LabelNums : m_local[n] = Cardinality({d \in Defs(n) : d < pos})

(* Every local label definition gets a name of its own, so no "N:" is     *)
(* ever reported as a redefinition, however many labels and numbers the    *)
(* file defines (the '\001' separator keeps the eleventh "1:" apart from   *)
(* the first "11:").                                                       *)
LocalDefsNeverClash ==
    /\ errs = {}
    /\ \A i, j \in DOMAIN names :
          i # j /\ prog[i].k = "def" /\ prog[j].k = "def" => names[i] # names[j]

(* At the end of the file every Nb and Nf names the symbol of the          *)
(* definition GAS gives it, and one with no such definition names a       *)
(* symbol that is never defined.                                           *)
LocalRefsResolve ==
    pos = Len(prog) + 1 =>
        \A r \in 1..Len(prog) :
            prog[r].k = "ref" =>
                IF Denotes(r) = 0 THEN ~isDefined(syms[names[r]])
                ELSE names[r] = names[Denotes(r)]
=============================================================================
