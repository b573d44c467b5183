------------------------------ MODULE GasExpr ------------------------------
(***************************************************************************)
(* The GAS expression parser (GasParser::ParseExpr .. ParseExpr3) and the *)
(* data directives that use it (ParseDirData: .byte, .word, .long, ...),  *)
(* ending in DoParse's end-of-statement check.                             *)
(*                                                                         *)
(* A statement is the sequence of tokens after the directive.  Numbers    *)
(* and identifiers stand for themselves; an expression is built as a tree *)
(* <<op, lhs, rhs>> or <<op, operand>>, as Expr::Calc builds it.  The     *)
(* parse_term hook, the bracketed '[' expr ']' term, local label          *)
(* references, character and float constants and the "." symbol are not  *)
(* modelled: they are ParseExpr3 leaves like a number or a symbol.        *)
(***************************************************************************)
EXTENDS Integers, Sequences, SequencesExt, ExprRpn

CONSTANTS Inputs,        \* the token sequences of the statements checked
          Nums,          \* numeric constant tokens
          Idents,        \* identifier tokens
          SpecialSyms,   \* identifiers FindSpecialSymbol knows (wrt names)
          DirInputs,     \* operand lists of generic directives
          FillInputs,    \* operand lists of .fill, .skip and .zero
          Regs,          \* identifiers DoRegLookup finds as a register
          RegGroups,     \* identifiers it finds as a register group
          RegGroupSize,  \* registers in a group (getReg(n) is null past it)
          NumVal         \* the value ParseInteger reads from a number token

VARIABLES toks,          \* the statement's tokens
          pos,           \* index of m_token; Len(toks)+1 is end of statement
          data,          \* the expressions AppendData received
          errs,          \* diagnostics
          stage,         \* "start", "items", "eos", "done"
          rpn,           \* the term vectors of the Exprs AppendData received
          dir,           \* "data" (ParseDirData), or a generic directive
                         \* that m_dirs knows ("known") or not ("unknown")
          nvs,           \* the NameValues ParseDirective built
          dres,          \* ParseDirective's result ("none" until it returns)
          args,          \* the expressions a fill directive has read
          fill           \* what AppendFill / AppendSkip received, or "none"

vars == <<toks, pos, data, errs, stage, rpn, dir, nvs, dres, args, fill>>

Tok(t, i) == IF i <= Len(t) THEN t[i] ELSE "eol"

\* The operator tokens of each level of the grammar and the Op they make.
OpsE == ("&&" :> "LAND") @@ ("||" :> "LOR")
Ops0 == ("+" :> "ADD") @@ ("-" :> "SUB") @@ ("==" :> "EQ") @@ ("<>" :> "NE")
        @@ ("<" :> "LT") @@ (">" :> "GT") @@ ("<=" :> "LE") @@ (">=" :> "GE")
Ops1 == ("|" :> "OR") @@ ("^" :> "XOR") @@ ("&" :> "AND") @@ ("!" :> "NOR")
Ops2 == ("*" :> "MUL") @@ ("/" :> "DIV") @@ ("%" :> "MOD")
        @@ ("<<" :> "SHL") @@ (">>" :> "SHR")

\* A parse result: success, the expression as a tree and as the Expr's
\* terms, the token reached, diagnostics.
Fail(p, es) == [ok |-> FALSE, tree |-> <<>>, terms |-> <<>>, pos |-> p, errs |-> es]
\* e = Expr(val) or e = Expr(sym): the expression is replaced by one term.
Leaf(x, p) == [ok |-> TRUE, tree |-> x, terms |-> ExprOf(x), pos |-> p, errs |-> {}]

\* One turn of a level's loop: e.Calc(op, f) once the right operand f
\* parsed; a failed right operand fails the whole expression.
Combine(r, op, f) ==
    IF f.ok THEN [f EXCEPT !.tree = <<op, r.tree, f.tree>>,
                           !.terms = Calc2(r.terms, op, f.terms),
                           !.errs = r.errs \cup f.errs]
    ELSE Fail(f.pos, r.errs \cup f.errs)

\* e.Calc(NEG/NOT) after the operand parsed.
Unary(op, r) ==
    IF r.ok THEN [r EXCEPT !.tree = <<op, @>>, !.terms = Calc1(@, op)] ELSE r

\* Faulty variant: the closing parenthesis consumed whatever it is.
CloseAlwaysConsume(t, r) == IF r.ok THEN [r EXCEPT !.pos = @ + 1] ELSE r
\* MatchRHSPunctuation after a parenthesised expression: the ')' is
\* consumed, or a diagnostic is given and parsing goes on (its body is in
\* the parser base, outside the repository; this is its documented use).
Close(t, r) ==
    IF ~r.ok THEN r
    ELSE IF Tok(t, r.pos) = ")" THEN [r EXCEPT !.pos = @ + 1]
    ELSE [r EXCEPT !.errs = @ \cup {"err_expected_rparen"}]

\* The sym@wrt suffix after an identifier (shared-object references such
\* as foo@PLT): '@' must be followed by an identifier; a known special
\* symbol gives a WRT node, an unknown one only a warning.  Either way the
\* identifier is consumed.
WrtSuffix(t, r) ==
    LET w == Tok(t, r.pos + 1) IN
    IF Tok(t, r.pos) # "@" THEN r
    ELSE IF w \notin Idents
         THEN Fail(r.pos + 1, r.errs \cup {"err_expected_ident"})
    ELSE IF w \in SpecialSyms
         THEN [r EXCEPT !.tree = <<"WRT", @, <<"sym", w>>>>,
                        !.terms = Calc2(@, "WRT", ExprOf(<<"sym", w>>)),
                        !.pos = @ + 2]
    ELSE [r EXCEPT !.errs = @ \cup {"warn_unrecognized_ident"}, !.pos = @ + 2]

RECURSIVE ParseExpr(_, _), LoopE(_, _), ParseExpr0(_, _), Loop0(_, _),
          ParseExpr1(_, _), Loop1(_, _), ParseExpr2(_, _), Loop2(_, _),
          ParseExpr3(_, _), Loop0RightAssoc(_, _)

\* expr : expr0 [ {&&, ||} expr0 ... ]
ParseExpr(t, p) == LoopE(t, ParseExpr0(t, p))
LoopE(t, r) ==
    IF ~r.ok \/ Tok(t, r.pos) \notin DOMAIN OpsE THEN r
    ELSE LET c == Combine(r, OpsE[Tok(t, r.pos)], ParseExpr0(t, r.pos + 1))
         IN  IF c.ok THEN LoopE(t, c) ELSE c

\* Faulty variant: the right operand parsed at the same level, which makes
\* the level right-associative.
Loop0RightAssoc(t, r) ==
    IF ~r.ok \/ Tok(t, r.pos) \notin DOMAIN Ops0 THEN r
    ELSE Combine(r, Ops0[Tok(t, r.pos)], ParseExpr0(t, r.pos + 1))
\* expr0 : expr1 [ {+, -, ==, <>, <, >, <=, >=} expr1 ... ]
ParseExpr0(t, p) == Loop0(t, ParseExpr1(t, p))
Loop0(t, r) ==
    IF ~r.ok \/ Tok(t, r.pos) \notin DOMAIN Ops0 THEN r
    ELSE LET c == Combine(r, Ops0[Tok(t, r.pos)], ParseExpr1(t, r.pos + 1))
         IN  IF c.ok THEN Loop0(t, c) ELSE c

\* expr1 : expr2 [ {|, ^, &, !} expr2 ... ]
ParseExpr1(t, p) == Loop1(t, ParseExpr2(t, p))
Loop1(t, r) ==
    IF ~r.ok \/ Tok(t, r.pos) \notin DOMAIN Ops1 THEN r
    ELSE LET c == Combine(r, Ops1[Tok(t, r.pos)], ParseExpr2(t, r.pos + 1))
         IN  IF c.ok THEN Loop1(t, c) ELSE c

\* expr2 : expr3 [ {*, /, %, <<, >>} expr3 ... ]
ParseExpr2(t, p) == Loop2(t, ParseExpr3(t, p))
Loop2(t, r) ==
    IF ~r.ok \/ Tok(t, r.pos) \notin DOMAIN Ops2 THEN r
    ELSE LET c == Combine(r, Ops2[Tok(t, r.pos)], ParseExpr3(t, r.pos + 1))
         IN  IF c.ok THEN Loop2(t, c) ELSE c

\* expr3 : {~, +, -} expr3 | (expr) | symbol[@wrt] | number; any other
\* token fails without being consumed.
ParseExpr3(t, p) ==
    LET k == Tok(t, p) IN
    CASE k = "+"          -> ParseExpr3(t, p + 1)
      [] k = "-"          -> Unary("NEG", ParseExpr3(t, p + 1))
      [] k = "~"          -> Unary("NOT", ParseExpr3(t, p + 1))
      [] k = "("          -> Close(t, ParseExpr(t, p + 1))
      [] k \in Nums       -> Leaf(<<"num", k>>, p + 1)
      [] k \in Idents     -> WrtSuffix(t, Leaf(<<"sym", k>>, p + 1))
      [] OTHER            -> Fail(p, {})

Zero == <<"num", "0">>

\* What ParseExpr reads from m_token on: the one call both directive
\* loops make.
ExprAt == ParseExpr(toks, pos)

\* ParseLine has consumed the directive name: either .byte and its kin,
\* or a name not in m_gas_dirs, whose operands ParseDirective reads.
Init ==
    /\ \/ toks \in Inputs /\ dir = "data" /\ stage = "start"
       \/ toks \in DirInputs /\ dir \in {"known", "unknown"} /\ stage = "dir"
       \/ toks \in FillInputs /\ dir \in {"fill", "skip", "zero"} /\ stage = "args"
    /\ pos = 1
    /\ data = << >>
    /\ errs = {}
    /\ rpn = << >>
    /\ nvs = << >>
    /\ dres = "none"
    /\ args = << >>
    /\ fill = << >>

\* ParseDirData: an empty operand list is accepted as it is.
DirDataStart ==
    /\ stage = "start"
    /\ stage' = IF Tok(toks, pos) = "eol" THEN "eos" ELSE "items"
    /\ UNCHANGED <<toks, pos, data, errs, rpn, dir, nvs, dres, args, fill>>

\* One turn of ParseDirData's loop, r being ParseExpr's result at m_token:
\* an expression that fails to parse is replaced by 0 with a warning; the
\* loop goes on only over a comma.
DataItem(r) ==
    /\ stage = "items"
    /\ data' = Append(data, IF r.ok THEN r.tree ELSE Zero)
    /\ rpn' = Append(rpn, IF r.ok THEN r.terms ELSE ExprOf(Zero))
    /\ errs' = errs \cup r.errs \cup
               (IF r.ok THEN {} ELSE {"warn_zero_assumed_for_missing_expression"})
    /\ IF Tok(toks, r.pos) = ","
       THEN pos' = r.pos + 1 /\ UNCHANGED stage
       ELSE pos' = r.pos /\ stage' = "eos"
    /\ UNCHANGED <<toks, dir, nvs, dres, args, fill>>

\* Faulty variant: DoParse without the end-of-statement check.
EndStatementNoJunk ==
    /\ stage = "eos"
    /\ stage' = "done"
    /\ UNCHANGED <<toks, pos, data, errs, rpn, dir, nvs, dres, args, fill>>
\* DoParse after ParseLine returned true: tokens left before the end of
\* the statement are junk.
EndStatement ==
    /\ stage = "eos"
    /\ errs' = IF Tok(toks, pos) = "eol" THEN errs ELSE errs \cup {"err_eol_junk"}
    /\ stage' = "done"
    /\ UNCHANGED <<toks, pos, data, rpn, dir, nvs, dres, args, fill>>

(***************************************************************************)
(* GasParser::ParseDirective, the operand list of a directive that        *)
(* m_gas_dirs does not handle.  Each turn of its loop reads one value     *)
(* from m_token: a Turn records whether the loop goes on, the value (with *)
(* the tokens it spans, from..to-1), the token reached and diagnostics.   *)
(***************************************************************************)
NoValue == [kind |-> "none", val |-> "none", from |-> 0, to |-> 0]
Value(k, v, p, q) == [kind |-> k, val |-> v, from |-> p, to |-> q]
Turn(ok, v, q, es) == [ok |-> ok, val |-> v, pos |-> q, errs |-> es]

\* The operators after an identifier that make it the start of an
\* expression rather than a bare name (the peek_token switch).
PeekOps == {"+", "-", "|", "^", "&", "!", "*", "/", "%", "<<", ">>"}

\* An expression value, r being ParseExpr's result from p; a failed
\* ParseExpr ends the directive.
DirExpr(r, p) ==
    IF r.ok THEN Turn(TRUE, Value("expr", r.tree, p, r.pos), r.pos, r.errs)
    ELSE Turn(FALSE, NoValue, r.pos, r.errs)

\* Faulty variant: a rejected string left unconsumed.
DirStringNoConsume(t, p) ==
    IF Tok(t, p) = "str" THEN Turn(TRUE, Value("str", "str", p, p + 1), p + 1, {})
    ELSE Turn(TRUE, NoValue, p, {"err_bad_string"})
\* A string literal is consumed; GasStringParser's value is kept only if
\* it had no error (its diagnostic is its own).
DirString(t, p) ==
    IF Tok(t, p) = "str" THEN Turn(TRUE, Value("str", "str", p, p + 1), p + 1, {})
    ELSE Turn(TRUE, NoValue, p + 1, {"err_bad_string"})

\* Faulty variant: an unrecognized register name skipped, not an error.
DirRegUnknownSkip(t, p) == Turn(TRUE, NoValue, p + 1, {"err_bad_register_name"})
\* '%' was consumed at p - 1, and the identifier at p is neither a
\* register nor a group: it is diagnosed, consumed, and the directive ends.
DirRegUnknown(t, p) == Turn(FALSE, NoValue, p + 1, {"err_bad_register_name"})

\* '%' then a register, a register group (alone it means register 0, or
\* an index in parentheses whose ')' MatchRHSPunctuation expects), or a
\* name DoRegLookup does not know.
DirReg(t, p) ==
    LET k == Tok(t, p)
        n == Tok(t, p + 2)
        closed == Tok(t, p + 3) = ")"
        q == IF closed THEN p + 4 ELSE p + 3
        es == IF closed THEN {} ELSE {"err_expected_rparen"}
    IN
    CASE k \notin Idents -> Turn(FALSE, NoValue, p, {"err_bad_register_name"})
      [] k \in Regs -> Turn(TRUE, Value("reg", <<k, 0>>, p - 1, p + 1), p + 1, {})
      [] k \in RegGroups /\ Tok(t, p + 1) # "(" ->
             Turn(TRUE, Value("reg", <<k, 0>>, p - 1, p + 1), p + 1, {})
      [] k \in RegGroups /\ n \notin Nums ->
             Turn(FALSE, NoValue, p + 2, {"err_expected_integer"})
      [] k \in RegGroups /\ NumVal[n] >= RegGroupSize ->
             Turn(FALSE, NoValue, q, es \cup {"err_bad_register_index"})
      [] k \in RegGroups -> Turn(TRUE, Value("reg", <<k, NumVal[n]>>, p - 1, q), q, es)
      [] OTHER -> DirRegUnknown(t, p)

\* One turn of the loop at a token that does not end the statement; e is
\* what ParseExpr would read from p.
DirTurn(t, p, e) ==
    LET k == Tok(t, p) IN
    CASE k \in Idents /\ Tok(t, p + 1) \in PeekOps -> DirExpr(e, p)
      [] k \in Idents -> Turn(TRUE, Value("id", k, p, p + 1), p + 1, {})
      [] k \in {"str", "badstr"} -> DirString(t, p)
      [] k = "%" -> DirReg(t, p + 1)
      [] k = "@" -> Turn(TRUE, Value("at", "@", p, p + 1), p + 1, {})
      [] OTHER -> DirExpr(e, p)

\* A turn: the value is appended and a following comma consumed (the '@'
\* case continues before the comma test); a failed turn returns false.
DirValue(e) ==
    /\ stage = "dir"
    /\ Tok(toks, pos) # "eol"
    /\ LET r == DirTurn(toks, pos, e)
           comma == Tok(toks, pos) # "@" /\ Tok(toks, r.pos) = ","
       IN  /\ errs' = errs \cup r.errs
           /\ nvs' = IF r.val.kind = "none" THEN nvs ELSE Append(nvs, r.val)
           /\ pos' = IF r.ok /\ comma THEN r.pos + 1 ELSE r.pos
           /\ IF r.ok THEN UNCHANGED <<stage, dres>>
              ELSE stage' = "dispatch" /\ dres' = "false"
    /\ UNCHANGED <<toks, data, rpn, dir, args, fill>>

\* The loop ends at the end of the statement and returns true.
DirEnd ==
    /\ stage = "dir"
    /\ Tok(toks, pos) = "eol"
    /\ stage' = "dispatch"
    /\ dres' = "true"
    /\ UNCHANGED <<toks, pos, data, errs, rpn, dir, nvs, args, fill>>

\* ParseLine ignores ParseDirective's result: a directive m_dirs knows is
\* called with the values read so far, any other draws a warning; either
\* way ParseLine breaks out and returns true.
DirDispatch ==
    /\ stage = "dispatch"
    /\ errs' = IF dir = "known" THEN errs ELSE errs \cup {"warn_unrecognized_directive"}
    /\ stage' = "eos"
    /\ UNCHANGED <<toks, pos, data, rpn, dir, nvs, dres, args, fill>>

(***************************************************************************)
(* The fill directives: ParseDirFill (.fill repeat[, size[, value]]),     *)
(* ParseDirSkip (.skip count[, value]) and ParseDirZero (.zero count).   *)
(* .skip's size comes from the directive table, which is not in the      *)
(* repository; it is 1 here.  Each reads its operands with ParseExpr,   *)
(* separated by commas, up to its own number of them; a missing operand  *)
(* is an error and the directive returns false.                          *)
(***************************************************************************)
One == <<"num", "1">>

MaxArgs == ("fill" :> 3) @@ ("skip" :> 2) @@ ("zero" :> 1)

\* The diagnostic for a missing operand: after the directive's name for
\* the first one, after the comma for the others.
ArgErr(n) == IF n = 0 THEN "err_expected_expression_after_id"
             ELSE "err_expected_expression_after"

\* Expr::Simplify then isIntNum (neither in the repository): an expression
\* over numbers only folds to an integer; one with a symbol does not.
RECURSIVE Absolute(_)
Absolute(t) == CASE t[1] = "num" -> TRUE
                 [] t[1] = "sym" -> FALSE
                 [] OTHER        -> \A i \in 2..Len(t) : Absolute(t[i])

\* Faulty variant: .skip's value handed over as the size.
FillOfSkipSwapped(d, a) ==
    CASE d = "zero" -> [kind |-> "fill", repeat |-> a[1], size |-> One, value |-> Zero]
      [] d = "skip" /\ Len(a) = 1 ->
             [kind |-> "skip", repeat |-> a[1], size |-> One, value |-> "none"]
      [] d = "skip" -> [kind |-> "fill", repeat |-> a[1], size |-> a[2], value |-> One]
      [] OTHER -> [kind |-> "fill", repeat |-> a[1],
                   size |-> IF Len(a) >= 2 THEN a[2] ELSE One,
                   value |-> IF Len(a) = 3 THEN a[3] ELSE Zero]
\* What the directive appends from its operands a: .zero n is a fill of
\* n bytes of 0; .skip n alone a skip (AppendSkip), with a value a fill of
\* size 1; .fill takes size 1 and value 0 by default.
FillOf(d, a) ==
    CASE d = "zero" -> [kind |-> "fill", repeat |-> a[1], size |-> One, value |-> Zero]
      [] d = "skip" /\ Len(a) = 1 ->
             [kind |-> "skip", repeat |-> a[1], size |-> One, value |-> "none"]
      [] d = "skip" -> [kind |-> "fill", repeat |-> a[1], size |-> One, value |-> a[2]]
      [] OTHER -> [kind |-> "fill", repeat |-> a[1],
                   size |-> IF Len(a) >= 2 THEN a[2] ELSE One,
                   value |-> IF Len(a) = 3 THEN a[3] ELSE Zero]

\* One operand, e being ParseExpr's result at m_token: a comma goes on to
\* the next operand while the directive takes more; a failed operand is
\* diagnosed and the directive returns false, so DoParse skips the line
\* without its junk check.
FillArg(e) ==
    /\ stage = "args"
    /\ IF e.ok
       THEN /\ args' = Append(args, e.tree)
            /\ errs' = errs \cup e.errs
            /\ IF Tok(toks, e.pos) = "," /\ Len(args) + 1 < MaxArgs[dir]
               THEN pos' = e.pos + 1 /\ UNCHANGED stage
               ELSE pos' = e.pos /\ stage' = "append"
       ELSE /\ errs' = errs \cup e.errs \cup {ArgErr(Len(args))}
            /\ pos' = e.pos
            /\ stage' = "done"
            /\ UNCHANGED args
    /\ UNCHANGED <<toks, data, rpn, dir, nvs, dres, fill>>

\* Faulty variant: a size that is not absolute refused without a word.
FillAppendNoSizeDiag ==
    /\ stage = "append"
    /\ IF dir = "fill" /\ Len(args) >= 2 /\ ~Absolute(args[2])
       THEN errs' = errs /\ stage' = "done" /\ UNCHANGED fill
       ELSE fill' = <<FillOf(dir, args)>> /\ stage' = "eos" /\ UNCHANGED errs
    /\ UNCHANGED <<toks, pos, data, rpn, dir, nvs, dres, args>>
\* .fill's size must simplify to an integer, or the directive returns
\* false; then the fill or skip is appended and the directive returns true.
FillAppend ==
    /\ stage = "append"
    /\ IF dir = "fill" /\ Len(args) >= 2 /\ ~Absolute(args[2])
       THEN errs' = errs \cup {"err_fill_size_not_absolute"} /\ stage' = "done"
            /\ UNCHANGED fill
       ELSE fill' = <<FillOf(dir, args)>> /\ stage' = "eos" /\ UNCHANGED errs
    /\ UNCHANGED <<toks, pos, data, rpn, dir, nvs, dres, args>>

\* A turn of an operand loop, with what ParseExpr reads at m_token.
OperandTurn == LET e == ExprAt IN DataItem(e) \/ DirValue(e) \/ FillArg(e)

Next == DirDataStart \/ OperandTurn \/ DirEnd \/ DirDispatch \/ FillAppend
        \/ EndStatement

Spec == Init /\ [][Next]_vars

-----------------------------------------------------------------------------
(* Reference: the grammar at the head of ParseExpr read as operator        *)
(* precedence with every binary operator left-associative, parsed by       *)
(* precedence climbing.                                                    *)

BinOps == OpsE @@ Ops0 @@ Ops1 @@ Ops2
Prec(k) == CASE k \in DOMAIN OpsE -> 1
             [] k \in DOMAIN Ops0 -> 2
             [] k \in DOMAIN Ops1 -> 3
             [] k \in DOMAIN Ops2 -> 4
             [] OTHER             -> 0

RECURSIVE RefExpr(_, _, _), RefClimb(_, _, _), RefPrimary(_, _)
RefExpr(t, p, minp) == RefClimb(t, RefPrimary(t, p), minp)
RefClimb(t, r, minp) ==
    LET k == Tok(t, r.pos) IN
    IF ~r.ok \/ Prec(k) = 0 \/ Prec(k) < minp THEN r
    ELSE LET c == Combine(r, BinOps[k], RefExpr(t, r.pos + 1, Prec(k) + 1))
         IN  IF c.ok THEN RefClimb(t, c, minp) ELSE c
RefPrimary(t, p) ==
    LET k == Tok(t, p) IN
    IF k = "+" THEN RefPrimary(t, p + 1)
    ELSE IF k \in {"-", "~"}
         THEN Unary(IF k = "-" THEN "NEG" ELSE "NOT", RefPrimary(t, p + 1))
    ELSE IF k = "(" THEN Close(t, RefExpr(t, p + 1, 1))
    ELSE IF k \in Nums THEN Leaf(<<"num", k>>, p + 1)
    ELSE IF k \in Idents THEN WrtSuffix(t, Leaf(<<"sym", k>>, p + 1))
    ELSE Fail(p, {})

\* The statement cut at its commas.
Segments(t) ==
    FoldLeft(LAMBDA acc, k : IF k = ","
                             THEN Append(acc, << >>)
                             ELSE [acc EXCEPT ![Len(acc)] = Append(@, k)],
             << << >> >>, t)

-----------------------------------------------------------------------------
Diags == {"err_expected_rparen", "err_expected_ident", "warn_unrecognized_ident",
          "warn_zero_assumed_for_missing_expression", "err_eol_junk",
          "err_bad_string", "err_bad_register_name", "err_expected_integer",
          "err_bad_register_index", "warn_unrecognized_directive",
          "err_expected_expression_after_id", "err_expected_expression_after",
          "err_fill_size_not_absolute"}
FillErrs == {"err_expected_expression_after_id", "err_expected_expression_after",
             "err_fill_size_not_absolute"}

TypeOK ==
    /\ toks \in Seq(STRING)
    /\ pos \in 1..Len(toks) + 1
    /\ errs \subseteq Diags
    /\ stage \in {"start", "items", "dir", "dispatch", "args", "append", "eos", "done"}
    /\ dir \in {"data", "known", "unknown", "fill", "skip", "zero"}
    /\ Len(args) <= 3
    /\ Len(fill) <= 1 /\ \A i \in DOMAIN fill : fill[i].kind \in {"fill", "skip"}
    /\ \A i \in 1..Len(nvs) :
         /\ nvs[i].kind \in {"expr", "id", "str", "reg", "at"}
         /\ nvs[i].from \in 1..Len(toks)
         /\ nvs[i].to \in nvs[i].from + 1..Len(toks) + 1
    /\ dres \in {"none", "true", "false"}

\* The four mutually recursive levels of ParseExpr (each a loop that
\* calls the next level for its right operand) parse every expression
\* exactly as the precedence grammar in the comment above ParseExpr says:
\* same tree, same diagnostics, same token reached, same failure.
ParseExprMatchesGrammar ==
    stage = "items" => ParseExpr(toks, pos) = RefExpr(toks, pos, 1)

\* A data directive that draws no diagnostic at all (no junk, no missing
\* expression, no missing parenthesis) appends one expression per
\* comma-separated operand, each the grammar's parse of that whole operand.
CleanStatementIsItsOperands ==
    stage = "done" /\ dir = "data" /\ errs = {} /\ toks # << >> =>
      LET segs == Segments(toks) IN
      /\ Len(data) = Len(segs)
      /\ \A i \in 1..Len(segs) :
           LET r == RefExpr(segs[i], 1, 1) IN
           r.ok /\ r.pos = Len(segs[i]) + 1 /\ data[i] = r.tree

\* Every Expr handed to AppendData, built by the Calc calls of the four
\* expression levels with right operands that are whole Exprs of their
\* own (and by the 0 that replaces a failed one), is a well-formed term
\* vector (spec section 6, invariant 1) whose depth walk gives back the
\* tree the grammar parsed.
DataTermsEncodeTrees ==
    /\ Len(rpn) = Len(data)
    /\ \A i \in 1..Len(rpn) : RpnWellFormed(rpn[i]) /\ TreeOf(rpn[i]) = data[i]

\* When ParseDirective returns true, the values it handed over read the
\* whole operand list, whichever of its six cases (name, expression after
\* a name and an operator, string, register, '@', expression) read each:
\* in order and without overlap, every token but the commas between
\* values and the strings GasStringParser rejected lies in exactly one
\* value, a name or '@' is one token, and an expression is the grammar's
\* parse of exactly its own tokens.
NameValuesCoverOperands ==
    stage = "done" /\ dres = "true" =>
      /\ \A i \in 1..Len(nvs) - 1 : nvs[i].to <= nvs[i + 1].from
      /\ \A j \in 1..Len(toks) :
           \/ \E i \in 1..Len(nvs) : nvs[i].from <= j /\ j < nvs[i].to
           \/ toks[j] \in {",", "badstr"}
      /\ \A i \in 1..Len(nvs) :
           /\ nvs[i].kind \in {"id", "at"} => nvs[i].to = nvs[i].from + 1
           /\ nvs[i].kind = "expr" =>
                LET r == RefExpr(SubSeq(toks, nvs[i].from, nvs[i].to - 1), 1, 1)
                IN  r.ok /\ r.pos = nvs[i].to - nvs[i].from + 1 /\ r.tree = nvs[i].val

\* A fill directive that appends nothing has said why: every early return
\* of ParseDirFill, ParseDirSkip and ParseDirZero, at the first, second
\* or third operand or at .fill's size, comes with its own error.
FillFailureDiagnosed ==
    stage = "done" /\ dir \in DOMAIN MaxArgs /\ fill = << >> => errs \cap FillErrs # {}

\* A fill directive that draws no diagnostic read every comma-separated
\* operand, each as the grammar parses it, no more operands than it takes,
\* and appended the fill or skip those operands mean: count, size and value
\* in their places, size 1 and value 0 where they are left out.
CleanFillIsItsOperands ==
    stage = "done" /\ dir \in DOMAIN MaxArgs /\ errs = {} =>
      LET segs == Segments(toks)
          a == [i \in 1..Len(segs) |-> RefExpr(segs[i], 1, 1)]
          n == Len(segs)
      IN  /\ n <= MaxArgs[dir]
          /\ \A i \in 1..n : a[i].ok /\ a[i].pos = Len(segs[i]) + 1
          /\ Len(fill) = 1
          /\ fill[1].repeat = a[1].tree
          /\ fill[1].kind = IF dir = "skip" /\ n = 1 THEN "skip" ELSE "fill"
          /\ fill[1].size = IF dir = "fill" /\ n >= 2 THEN a[2].tree ELSE One
          /\ fill[1].value = CASE dir = "skip" /\ n = 1 -> "none"
                             [] dir = "skip"          -> a[2].tree
                             [] dir = "fill" /\ n = 3 -> a[3].tree
                             [] OTHER                 -> Zero

\* ParseDirective's loop cannot spin: every turn after which the loop goes
\* on has consumed at least one token, whichever case read it (a failed
\* ParseExpr may stop without consuming, but then the loop returns), so
\* the loop ends within the length of the statement.
DirTurnsConsume == [][stage = "dir" /\ stage' = "dir" => pos' > pos]_vars
=============================================================================
