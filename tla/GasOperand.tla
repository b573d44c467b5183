--------------------------- MODULE GasOperand ---------------------------------
(***************************************************************************)
(* Instruction operands in the GAS parser: GasParser::ParseOperand, which *)
(* dispatches on m_intel.  Intel syntax (.intel_syntax): getSizeOverride, *)
(* ParseOperandIntel and ParseMemoryAddressIntel.  AT&T syntax:           *)
(* ParseRegOperand and ParseMemoryAddress.                                *)
(*                                                                         *)
(* A token is a record: its kind ("ident", "num", "[", "]", ":", "%",     *)
(* "$", "*", "(", ")", ",") and its text, for an identifier its name as   *)
(* a sequence of one-character strings, so that the character tests of    *)
(* getSizeOverride are modelled as written.  An expression is abstracted  *)
(* to a number or an identifier that is not a register (in AT&T syntax,   *)
(* also a parenthesised one): the expression grammar is GasExpr's         *)
(* subject.  The architecture's register tables (DoRegLookup) are         *)
(* constants.                                                              *)
(***************************************************************************)
EXTENDS Integers, Sequences, SequencesExt

CONSTANTS Inputs,      \* operand token sequences
          WordSize,    \* m_arch->getModule().getWordSize()
          RegSize,     \* register name -> size in bits
          SegRegs,     \* segment register names
          TargetMods,  \* target modifier names (near, short, far ...)
          AttInputs,   \* AT&T operand token sequences
          RegGroups,   \* register group name -> its valid index texts
          AttDisps,    \* displacement tokens of the documented AT&T form
          AttScales    \* scale tokens of the documented AT&T form

VARIABLES toks,        \* the operand's tokens
          intel,       \* m_intel: .intel_syntax is in force
          result,      \* what ParseOperand returned, and where it stopped
          stage
vars == <<toks, intel, result, stage>>

Eol == [k |-> "eol", n |-> << >>]
Tok(t, i) == IF i <= Len(t) THEN t[i] ELSE Eol

\* Case-insensitive character test: name[i] == 'x' || name[i] == 'X'.
Upper == ("a" :> "A") @@ ("b" :> "B") @@ ("d" :> "D") @@ ("e" :> "E")
         @@ ("h" :> "H") @@ ("o" :> "O") @@ ("p" :> "P") @@ ("q" :> "Q")
         @@ ("r" :> "R") @@ ("t" :> "T") @@ ("w" :> "W") @@ ("x" :> "X")
         @@ ("y" :> "Y")
Is(c, l) == c = l \/ c = Upper[l]

\* The common "WORD" suffix test, from name[i].
WordAt(n, i) == Is(n[i], "w") /\ Is(n[i+1], "o") /\ Is(n[i+2], "r") /\ Is(n[i+3], "d")

\* getSizeOverride: 0 for anything but a size keyword.  The switch on the
\* first letter either returns at once or leaves size and the offset of
\* the "WORD" suffix to the common test.  Note the 't' case: a 5-letter
\* word whose second letter is not 'w' returns true, that is 1.
SizeSwitch(n) ==
    LET len == Len(n) IN
    CASE Is(n[1], "b") ->
           IF len = 4 /\ Is(n[2], "y") /\ Is(n[3], "t") /\ Is(n[4], "e")
           THEN [ret |-> 8] ELSE [ret |-> 0]
      [] Is(n[1], "d") ->
           IF len = 5 THEN [size |-> WordSize * 2, at |-> 2]
           ELSE IF len = 6 /\ Is(n[2], "q") THEN [size |-> WordSize * 8, at |-> 3]
           ELSE [ret |-> 0]
      [] Is(n[1], "h") ->
           IF len = 5 THEN [size |-> WordSize \div 2, at |-> 2] ELSE [ret |-> 0]
      [] Is(n[1], "o") ->
           IF len = 5 THEN [size |-> WordSize * 8, at |-> 2] ELSE [ret |-> 0]
      [] Is(n[1], "q") ->
           IF len = 5 THEN [size |-> WordSize * 4, at |-> 2] ELSE [ret |-> 0]
      [] Is(n[1], "t") ->
           IF len # 5 THEN [ret |-> 0]
           ELSE IF Is(n[2], "w") THEN [size |-> 80, at |-> 2] ELSE [ret |-> 1]
      [] Is(n[1], "w") ->
           IF len = 4 THEN [size |-> WordSize, at |-> 1] ELSE [ret |-> 0]
      [] Is(n[1], "y") ->
           IF len = 5 THEN [size |-> 256, at |-> 2] ELSE [ret |-> 0]
      [] OTHER -> [ret |-> 0]

GetSizeOverride(tok) ==
    IF tok.k # "ident" \/ tok.n = << >> THEN 0
    ELSE LET s == SizeSwitch(tok.n) IN
         IF "ret" \in DOMAIN s THEN s.ret
         ELSE IF WordAt(tok.n, s.at) THEN s.size ELSE 0

\* ii->getName().equals_lower("ptr")
IsPtr(tok) ==
    tok.k = "ident" /\ Len(tok.n) = 3
    /\ Is(tok.n[1], "p") /\ Is(tok.n[2], "t") /\ Is(tok.n[3], "r")

IsReg(tok) == tok.k = "ident" /\ tok.n \in DOMAIN RegSize
IsSegReg(tok) == tok.k = "ident" /\ tok.n \in SegRegs
IsTargetMod(tok) == tok.k = "ident" /\ tok.n \in TargetMods

\* An operand: register, segment register, memory or immediate; its
\* size (0 when none was given); for a register its name; whether an
\* effective address carries a segment register, whether a segment
\* expression (seg:off) was set, whether a target modifier was set.
\* An AT&T memory operand also carries its EffAddr's expression (ea, a
\* tree as in GasExpr), m_strong, and the operand's deref flag.
NoReg == << >>
Opnd(kind, reg) == [kind |-> kind, size |-> 0, reg |-> reg, segreg |-> FALSE,
                    seg |-> FALSE, tmod |-> FALSE, ea |-> << >>,
                    strong |-> FALSE, deref |-> FALSE]
Res(op, p, es) == [op |-> op, pos |-> p, errs |-> es]

\* ParseExpr on the abstracted expression: one number or identifier.
\* Registers count as expression terms only inside a memory address
\* (IntelParseMemoryExprTerm).
ExprTok(tok, inMem) ==
    tok.k = "num" \/ (tok.k = "ident" /\ (inMem \/ ~IsReg(tok)))

\* The tail shared by the two expression paths: e, or e ':' off, in which
\* case the operand is off with e as its segment; a missing off returns
\* Operand(e), a plain expression operand.
SegOff(t, p, kind, inMem, failErr) ==
    IF ~ExprTok(Tok(t, p), inMem)
    THEN Res(Opnd("imm", NoReg), p, {failErr})
    ELSE IF Tok(t, p + 1).k # ":" THEN Res(Opnd(kind, NoReg), p + 1, {})
    ELSE IF ~ExprTok(Tok(t, p + 2), inMem)
         THEN Res(Opnd("imm", NoReg), p + 2, {"err_expected_expression_after"})
    ELSE Res([Opnd(kind, NoReg) EXCEPT !.seg = TRUE], p + 3, {})

\* ParseMemoryAddressIntel: a leading segment register must be followed
\* by ':' (ExpectAndConsume: diagnose and go on if it is not), and is put
\* on the effective address that follows, with a warning if it already
\* has one.
RECURSIVE MemAddr(_, _)
MemAddr(t, p) ==
    IF IsSegReg(Tok(t, p))
    THEN LET q == IF Tok(t, p + 1).k = ":" THEN p + 2 ELSE p + 1
             e1 == IF Tok(t, p + 1).k = ":" THEN {} ELSE {"err_colon_required_after_segreg"}
             r == MemAddr(t, q)
         IN  IF r.op.kind # "mem" THEN [r EXCEPT !.errs = @ \cup e1]
             ELSE [r EXCEPT !.op.segreg = TRUE,
                            !.errs = @ \cup e1 \cup
                               (IF r.op.segreg THEN {"warn_multiple_seg_override"} ELSE {})]
    ELSE SegOff(t, p, "mem", TRUE, "err_expected_memory_address")

\* Faulty variant: the ']' consumed whatever the token is.
CloseSquareAlwaysConsume(t, r) == [r EXCEPT !.pos = @ + 1]
\* MatchRHSPunctuation for ']'.
CloseSquare(t, r) ==
    IF Tok(t, r.pos).k = "]" THEN [r EXCEPT !.pos = @ + 1]
    ELSE [r EXCEPT !.errs = @ \cup {"err_expected_rsquare"}]

\* Faulty variant: the register size check left out.
OverrideSizeNoRegCheck(r, size) ==
    [r EXCEPT !.op.size = size,
              !.errs = @ \cup (IF r.op.size = 0 THEN {}
                               ELSE IF r.op.size # size
                                    THEN {"warn_operand_size_override"}
                                    ELSE {"warn_operand_size_duplicate"})]
\* The size override applied to the operand after it: a register of
\* another size is an error (the operand keeps its own size); any other
\* operand takes the override, with a warning if it already had a size.
OverrideSize(r, size) ==
    IF r.op.kind = "reg" /\ RegSize[r.op.reg] # size
    THEN [r EXCEPT !.errs = @ \cup {"err_register_size_override"}]
    ELSE [r EXCEPT !.op.size = size,
                   !.errs = @ \cup (IF r.op.size = 0 THEN {}
                                    ELSE IF r.op.size # size
                                         THEN {"warn_operand_size_override"}
                                         ELSE {"warn_operand_size_duplicate"})]

\* After a size keyword, an optional "ptr".
PtrSkip(t, p) == IF IsPtr(Tok(t, p + 1)) THEN p + 2 ELSE p + 1

RECURSIVE ParseOperandIntel(_, _)
ParseOperandIntel(t, p) ==
    LET tok == Tok(t, p)
        size == GetSizeOverride(tok)
    IN
    IF size # 0 THEN OverrideSize(ParseOperandIntel(t, PtrSkip(t, p)), size)
    ELSE IF tok.k = "[" THEN CloseSquare(t, MemAddr(t, p + 1))
    ELSE IF IsReg(tok) THEN Res(Opnd("reg", tok.n), p + 1, {})
    ELSE IF IsSegReg(tok) THEN Res(Opnd("segreg", NoReg), p + 1, {})
    ELSE IF IsTargetMod(tok)
         THEN LET r == ParseOperandIntel(t, p + 1) IN [r EXCEPT !.op.tmod = TRUE]
    ELSE SegOff(t, p, "imm", FALSE, "err_expected_operand")

-----------------------------------------------------------------------------
(* AT&T syntax.                                                            *)

IsRegGroup(tok) == tok.k = "ident" /\ tok.n \in DOMAIN RegGroups

\* ParseExpr on the abstracted expression: a number, a symbol (without
\* '%' an identifier is a symbol), or a parenthesised expression, whose
\* missing ')' is diagnosed by MatchRHSPunctuation.  A failure consumes
\* nothing more and leaves the expression empty.
RECURSIVE AttExpr(_, _)
AttExpr(t, p) ==
    LET k == Tok(t, p) IN
    CASE k.k = "num"   -> [ok |-> TRUE, e |-> <<"num", k.n>>, pos |-> p + 1, errs |-> {}]
      [] k.k = "ident" -> [ok |-> TRUE, e |-> <<"sym", k.n>>, pos |-> p + 1, errs |-> {}]
      [] k.k = "("     ->
           LET r == AttExpr(t, p + 1) IN
           IF ~r.ok \/ Tok(t, r.pos).k = ")" THEN [r EXCEPT !.pos = IF r.ok THEN @ + 1 ELSE @]
           ELSE [r EXCEPT !.errs = @ \cup {"err_expected_rparen"}]
      [] OTHER         -> [ok |-> FALSE, e |-> << >>, pos |-> p, errs |-> {}]

Zero == <<"num", <<"0">>>>

\* The early returns of ParseMemoryAddress: an EffAddr of 0, not strong,
\* the offending token left unconsumed.
EaOf(e, strong) == [Opnd("mem", NoReg) EXCEPT !.ea = e, !.strong = strong]
BadEa(p, es, err) == Res(EaOf(Zero, FALSE), p, es \cup {err})

\* The "index register" part after the comma at c-1: '%' reg, then either
\* a comma (the scale follows) or not (scale = 1, straight to done).
\* Faulty variant: no default scale for an index without one.
AttIndexNoDefault(t, c) ==
    IF Tok(t, c).k # "%" THEN [bad |-> FALSE, reg |-> << >>, scale |-> << >>, more |-> TRUE, pos |-> c]
    ELSE IF ~IsReg(Tok(t, c + 1)) THEN [bad |-> TRUE, pos |-> c + 1]
    ELSE [bad |-> FALSE, reg |-> <<"reg", Tok(t, c + 1).n>>, scale |-> << >>,
          more |-> Tok(t, c + 2).k = ",",
          pos |-> IF Tok(t, c + 2).k = "," THEN c + 3 ELSE c + 2]
AttIndex(t, c) ==
    IF Tok(t, c).k # "%" THEN [bad |-> FALSE, reg |-> << >>, scale |-> << >>, more |-> TRUE, pos |-> c]
    ELSE IF ~IsReg(Tok(t, c + 1)) THEN [bad |-> TRUE, pos |-> c + 1]
    ELSE [bad |-> FALSE, reg |-> <<"reg", Tok(t, c + 1).n>>,
          scale |-> IF Tok(t, c + 2).k = "," THEN << >> ELSE <<"num", <<"1">>>>,
          more |-> Tok(t, c + 2).k = ",",
          pos |-> IF Tok(t, c + 2).k = "," THEN c + 3 ELSE c + 2]

\* done: the ')' matched, the scale applied to the index register (or,
\* with no index, a constant scale other than 1 warned about), and the
\* displacement e1 added after the base: ADD(e2, e1).
AttDone(t, p, e1, e2, reg, scale, es) ==
    LET q   == IF Tok(t, p).k = ")" THEN p + 1 ELSE p
        es1 == es \cup (IF Tok(t, p).k = ")" THEN {} ELSE {"err_expected_rparen"})
        e2s == IF scale # << >> /\ reg # << >> THEN <<"ADD", e2, <<"MUL", reg, scale>>>> ELSE e2
        es2 == es1 \cup (IF scale # << >> /\ reg = << >> /\ scale[1] = "num" /\ scale[2] # <<"1">>
                         THEN {"warn_scale_without_index"} ELSE {})
    IN  Res(EaOf(IF e1 # << >> THEN <<"ADD", e2s, e1>> ELSE e2s, TRUE), q, es2)

\* ParseMemoryAddress: an optional leading expression (not parsed when
\* '(' is followed by '%' or ','; its result is not checked), then, at
\* '(', base, index and scale, each part optional and ')' ending it early.
MemAddrAtt(t, p) ==
    LET lead == Tok(t, p).k # "(" \/ Tok(t, p + 1).k \notin {"%", ","}
        r1   == IF lead THEN AttExpr(t, p) ELSE [ok |-> FALSE, e |-> << >>, pos |-> p, errs |-> {}]
        q    == r1.pos
        es   == r1.errs
        hasB == Tok(t, q + 1).k = "%"
        e2   == IF hasB THEN <<"reg", Tok(t, q + 2).n>> ELSE Zero
        b    == IF hasB THEN q + 3 ELSE q + 1
        ix   == AttIndex(t, b + 1)
        sc   == AttExpr(t, ix.pos)
    IN
    IF Tok(t, q).k # "(" THEN Res(EaOf(r1.e, FALSE), q, es)
    ELSE IF hasB /\ ~IsReg(Tok(t, q + 2)) THEN BadEa(q + 2, es, "err_bad_register_name")
    ELSE IF Tok(t, b).k = ")" THEN AttDone(t, b, r1.e, e2, << >>, << >>, es)
    ELSE IF Tok(t, b).k # "," THEN BadEa(b, es, "err_expected_comma")
    ELSE IF Tok(t, b + 1).k = ")" THEN AttDone(t, b + 1, r1.e, e2, << >>, << >>, es)
    ELSE IF ix.bad THEN BadEa(ix.pos, es, "err_bad_register_name")
    ELSE IF ~ix.more \/ Tok(t, ix.pos).k = ")"
         THEN AttDone(t, ix.pos, r1.e, e2, ix.reg, ix.scale, es)
    ELSE IF ~sc.ok THEN BadEa(sc.pos, es \cup sc.errs, "err_expected_integer")
    ELSE AttDone(t, sc.pos, r1.e, e2, ix.reg, sc.e, es \cup sc.errs)

\* SkipUntil(comma, true, true): to the next ',' or the end, not consumed.
SkipToComma(t, p) ==
    LET cs == {i \in p..Len(t) : t[i].k = ","}
    IN  IF cs = {} THEN Len(t) + 1 ELSE CHOOSE i \in cs : \A j \in cs : i <= j

\* ParseRegOperand, after '%': a segment register (a memory address when
\* ':' follows, which must then end the operand), a register, a register
\* group with an optional (index), or an error.
RegOperand(t, p) ==
    LET tok == Tok(t, p) IN
    IF tok.k # "ident" THEN Res(Opnd("imm", NoReg), p, {"err_bad_register_name"})
    ELSE IF IsSegReg(tok)
         THEN IF Tok(t, p + 1).k # ":" THEN Res(Opnd("segreg", NoReg), p + 1, {})
              ELSE LET m  == MemAddrAtt(t, p + 2)
                       ok == Tok(t, m.pos).k \in {",", "eol"}
                   IN  [m EXCEPT !.op.segreg = TRUE,
                                 !.errs = @ \cup (IF m.op.segreg THEN {"warn_multiple_seg_override"} ELSE {})
                                            \cup (IF ok THEN {} ELSE {"err_bad_memory_operand"}),
                                 !.pos = IF ok THEN @ ELSE SkipToComma(t, @)]
    ELSE IF IsReg(tok) THEN Res(Opnd("reg", tok.n), p + 1, {})
    ELSE IF IsRegGroup(tok)
         THEN LET g0 == Res(Opnd("reg", tok.n \o <<"0">>), p + 1, {}) IN
              IF Tok(t, p + 1).k # "(" THEN g0
              ELSE IF Tok(t, p + 2).k # "num"
                   THEN [g0 EXCEPT !.pos = p + 2, !.errs = {"err_expected_integer"}]
              ELSE LET i  == Tok(t, p + 2).n
                       q  == IF Tok(t, p + 3).k = ")" THEN p + 4 ELSE p + 3
                       es == IF Tok(t, p + 3).k = ")" THEN {} ELSE {"err_expected_rparen"}
                   IN  IF i \in RegGroups[tok.n] THEN Res(Opnd("reg", tok.n \o i), q, es)
                       ELSE [g0 EXCEPT !.pos = q, !.errs = es \cup {"err_bad_register_index"}]
    ELSE Res(Opnd("imm", NoReg), p + 1, {"err_bad_register_name"})

\* ParseOperand in AT&T syntax: '%' register, '$' immediate, '*' an
\* indirect register or memory operand, else a memory address.
ParseOperandAtt(t, p) ==
    LET k == Tok(t, p).k IN
    CASE k = "%" -> RegOperand(t, p + 1)
      [] k = "$" -> LET r == AttExpr(t, p + 1) IN
                    Res([Opnd("imm", NoReg) EXCEPT !.ea = r.e], r.pos,
                        r.errs \cup (IF r.ok THEN {} ELSE {"err_missing_or_invalid_immediate"}))
      [] k = "*" -> LET r == IF Tok(t, p + 1).k = "%" THEN RegOperand(t, p + 2)
                             ELSE MemAddrAtt(t, p + 1)
                    IN  [r EXCEPT !.op.deref = TRUE]
      [] OTHER   -> MemAddrAtt(t, p)

Init ==
    /\ intel \in BOOLEAN
    /\ toks \in IF intel THEN Inputs ELSE AttInputs
    /\ result = Res(Opnd("imm", NoReg), 1, {})
    /\ stage = "parse"

\* ParseOperand: one operand of an instruction, in the syntax in force.
Parse ==
    /\ stage = "parse"
    /\ result' = IF intel THEN ParseOperandIntel(toks, 1) ELSE ParseOperandAtt(toks, 1)
    /\ stage' = "done"
    /\ UNCHANGED <<toks, intel>>

Next == Parse

Spec == Init /\ [][Next]_vars

-----------------------------------------------------------------------------
Diags == {"err_expected_operand", "err_expected_memory_address",
          "err_expected_expression_after", "err_colon_required_after_segreg",
          "warn_multiple_seg_override", "err_expected_rsquare",
          "err_register_size_override", "warn_operand_size_override",
          "warn_operand_size_duplicate", "err_bad_register_name",
          "err_expected_comma", "err_expected_integer", "err_expected_rparen",
          "warn_scale_without_index", "err_bad_memory_operand",
          "err_bad_register_index", "err_missing_or_invalid_immediate"}

TypeOK ==
    /\ intel \in BOOLEAN
    /\ \A i \in 1..Len(toks) : toks[i].k \in {"ident", "num", "[", "]", ":", "%",
                                             "$", "*", "(", ")", ","}
    /\ result.op.kind \in {"reg", "segreg", "mem", "imm"}
    /\ result.op.size \in Nat
    /\ result.pos \in 1..Len(toks) + 1
    /\ result.errs \subseteq Diags
    /\ stage \in {"parse", "done"}

\* Nested size overrides (ParseOperandIntel recursing after each keyword):
\* the outermost keyword decides the operand's size unless the operand is
\* a register, and a register never ends up with a size other than its
\* own, however many overrides precede it.
OutermostOverrideWins ==
    stage = "done" /\ intel /\ toks # << >> =>
      LET s == GetSizeOverride(toks[1]) IN
      /\ (result.op.kind = "reg" /\ result.op.size # 0) =>
            result.op.size = RegSize[result.op.reg]
      /\ (s # 0 /\ result.op.kind # "reg") => result.op.size = s

-----------------------------------------------------------------------------
(* AT&T memory operands, against the documented form                       *)
(* disp(base, index, scale): the address is base + index * scale + disp,   *)
(* every part optional, scale 1 when omitted.                              *)

\* The address an EA expression denotes: its register terms with their
\* scales, and its displacement terms (the 0 of an absent base dropped).
RECURSIVE AddrTerms(_)
AddrTerms(e) ==
    CASE e = << >>           -> {}
      [] e[1] = "ADD"        -> AddrTerms(e[2]) \cup AddrTerms(e[3])
      [] e[1] = "MUL"        -> {<<"reg", e[2][2], e[3]>>}
      [] e[1] = "reg"        -> {<<"reg", e[2], <<"num", <<"1">>>>>>}
      [] e = Zero            -> {}
      [] OTHER               -> {<<"disp", e>>}

\* An AT&T operand of the documented form: the token sequence and the
\* address it must denote.  d is the displacement token or none, b and i
\* the base and index register names or none, s the scale token or none.
AttForm(d, b, i, s) ==
    LET pct(r)  == << [k |-> "%", n |-> << >>], [k |-> "ident", n |-> r] >>
        comma   == << [k |-> ",", n |-> << >>] >>
        base    == IF b = << >> THEN << >> ELSE pct(b)
        index   == IF i = << >> THEN << >> ELSE comma \o pct(i)
                   \o (IF s = << >> THEN << >> ELSE comma \o << s >>)
        paren   == b # << >> \/ i # << >>
        inner   == << [k |-> "(", n |-> << >>] >> \o base \o index \o << [k |-> ")", n |-> << >>] >>
        sc      == IF s = << >> THEN <<"num", <<"1">>>> ELSE <<s.k, s.n>>
    IN  [toks   |-> (IF d = << >> THEN << >> ELSE << d >>) \o (IF paren THEN inner ELSE << >>),
         terms  |-> (IF b = << >> THEN {} ELSE {<<"reg", b, <<"num", <<"1">>>>>>})
                    \cup (IF i = << >> THEN {} ELSE {<<"reg", i, sc>>})
                    \cup (IF d = << >> THEN {} ELSE {<<"disp", <<IF d.k = "num" THEN "num" ELSE "sym", d.n>>>>}),
         strong |-> paren]

AttForms ==
    {AttForm(d, b, i, s) : d \in {<< >>} \cup AttDisps, b \in {<< >>} \cup DOMAIN RegSize,
                          i \in {<< >>} \cup DOMAIN RegSize, s \in {<< >>} \cup AttScales}
    \ {AttForm(<< >>, << >>, << >>, << >>)}

\* ParseOperand (AT&T) parses every operand of the documented form whole,
\* without a diagnostic, to a memory operand whose address is base +
\* index * scale + disp, strong exactly when it has the parenthesised part.
AttMemoryIsBaseIndexScaleDisp ==
    stage = "done" /\ ~intel =>
      \A f \in AttForms :
        toks = f.toks =>
          /\ result.op.kind = "mem"
          /\ result.errs = {}
          /\ result.pos = Len(toks) + 1
          /\ AddrTerms(result.op.ea) = f.terms
          /\ result.op.strong = f.strong

\* Every register an AT&T memory operand names with '%' inside its
\* parentheses is part of the address ParseMemoryAddress builds, unless
\* a diagnostic was given: none is parsed and then left out.
IndexNeverDropped ==
    stage = "done" /\ ~intel /\ result.op.kind = "mem" /\ result.errs = {} =>
      \A j \in 1..Len(toks) - 1 :
        toks[j].k = "%" /\ IsReg(toks[j + 1]) =>
          \E t \in AddrTerms(result.op.ea) : t[1] = "reg" /\ t[2] = toks[j + 1].n
=============================================================================
