------------------------------ MODULE GasCond ------------------------------
(***************************************************************************)
(* The GAS parser's conditional-assembly directives                        *)
(* (src/modules/parsers/gas/GasParser_parse.cpp): the .if family           *)
(* (ParseDirIf and the .ifb/.ifdef/.ifeqs forms, all ending in HandleIf),  *)
(* .elseif, .else and .endif, over the parser's m_cond_stack, with         *)
(* SkipConditional consuming the lines of a false branch; and the repeat   *)
(* directives .rept and .endr, whose body ParseDirRept saves and re-enters *)
(* into the token stream count times.                                      *)
(*                                                                         *)
(* A source file is a sequence of lines.  A condition is "t" or "f", or    *)
(* "bad" when ParseDirIf cannot evaluate it (no expression, a circular     *)
(* EQU, or a value that is not constant).  A .rept count is an integer    *)
(* (the value of its absolute expression).  "body" stands for any other    *)
(* statement; it is assembled when the parser reaches it.  sol is FALSE    *)
(* for a directive written after a label on its line: its first token is   *)
(* then not at the start of the line.  The token stream prog is the file   *)
(* with every line tagged by its line number, id, and grows where a .rept  *)
(* is expanded.                                                            *)
(***************************************************************************)
EXTENDS Integers, SequencesExt

CONSTANTS
  Programs          \* the source files to parse

VARIABLES
  src,        \* the source file
  prog,       \* the token stream, one entry per line
  pos,        \* the line of the current token; Len(prog) + 1 is eof
  stack,      \* m_cond_stack: a sequence of [done, saw_else]
  emitted,    \* the ids of the body lines assembled, in order
  errs        \* diagnostics, as <<diagnostic, line id>>

vars == <<src, prog, pos, stack, emitted, errs>>

Eof == Len(prog) + 1
Line == prog[pos]

\* Faulty variant: nested .if lines not counted while skipping.
SkipConditionalFlat(i, depth) ==
    LET RECURSIVE Go(_)
        Go(j) == IF j > Len(prog) THEN [pos |-> j, eof |-> TRUE]
                 ELSE IF prog[j].sol /\ prog[j].k \in {"else", "elseif", "endif"}
                      THEN [pos |-> j, eof |-> FALSE]
                 ELSE Go(j + 1)
    IN  Go(i)

(***************************************************************************)
(* SkipConditional: from line i at nesting depth 1, consume lines until an *)
(* .else, .elseif or .endif at depth 1, which is left as the current token *)
(* (re-entered into the preprocessor); a nested .if deepens, an .endif     *)
(* inside it returns to the outer depth.  Only a directive at the start of *)
(* its line is looked at.  Eof ends the skip with an error.                *)
(***************************************************************************)
RECURSIVE SkipConditional(_, _)
SkipConditional(i, depth) ==
    IF i > Len(prog) THEN [pos |-> i, eof |-> TRUE]
    ELSE CASE ~prog[i].sol        -> SkipConditional(i + 1, depth)
           [] prog[i].k = "if"    -> SkipConditional(i + 1, depth + 1)
           [] prog[i].k = "endif" -> IF depth = 1 THEN [pos |-> i, eof |-> FALSE]
                                     ELSE SkipConditional(i + 1, depth - 1)
           [] prog[i].k \in {"else", "elseif"} /\ depth = 1
                                  -> [pos |-> i, eof |-> FALSE]
           [] OTHER               -> SkipConditional(i + 1, depth)

\* Skip from the line after the directive at line at, reporting eof.
Skip(at) ==
    /\ pos' = SkipConditional(at + 1, 1).pos
    /\ errs' = IF SkipConditional(at + 1, 1).eof
               THEN errs \cup {<<"err_pp_if_without_endif", prog[at].id>>} ELSE errs

\* HandleIf: a false condition skips first; then the new entry is pushed
\* onto the stack st the directive started from.
HandleIf(isTrue, at, st) ==
    /\ IF isTrue THEN pos' = at + 1 /\ errs' = errs ELSE Skip(at)
    /\ stack' = Append(st, [done |-> isTrue, saw_else |-> FALSE])

\* ParseDirIf: an unevaluable condition reports and returns without a push.
ParseDirIf(c, at, st) ==
    IF c = "bad"
    THEN /\ errs' = errs \cup {<<"err_pp_cond_not_constant", prog[at].id>>}
         /\ pos' = at + 1
         /\ stack' = st
    ELSE HandleIf(c = "t", at, st)

\* The file's lines, each tagged with its line number.
Tagged(f) == [i \in 1..Len(f) |-> f[i] @@ [id |-> i]]

Init ==
    /\ src \in Programs
    /\ prog = Tagged(src)
    /\ pos = 1
    /\ stack = <<>>
    /\ emitted = <<>>
    /\ errs = {}

\* A statement the parser reaches is assembled.
Body ==
    /\ pos <= Len(prog) /\ Line.k = "body"
    /\ emitted' = Append(emitted, Line.id)
    /\ pos' = pos + 1
    /\ UNCHANGED <<src, prog, stack, errs>>

\* The .if family.
If ==
    /\ pos <= Len(prog) /\ Line.k = "if"
    /\ ParseDirIf(Line.c, pos, stack)
    /\ UNCHANGED <<src, prog, emitted>>

\* Report diagnostic d against the current line and move past it.
Reject(d) ==
    /\ errs' = errs \cup {<<d, Line.id>>}
    /\ pos' = pos + 1
    /\ UNCHANGED <<src, prog, stack, emitted>>

Top == stack[Len(stack)]

\* Faulty variant: the else branch is output without marking the chain done.
ElseOutputKeepDone(st) == [st EXCEPT ![Len(st)].saw_else = TRUE]

\* ParseDirElse's output path: the chain has now output a branch.
ElseOutput(st) == [st EXCEPT ![Len(st)] = [done |-> TRUE, saw_else |-> TRUE]]

\* ParseDirElse.
Else ==
    /\ pos <= Len(prog) /\ Line.k = "else"
    /\ \/ stack = <<>> /\ Reject("err_pp_else_without_if")
       \/ stack # <<>> /\ Top.saw_else /\ Reject("err_pp_else_after_else")
       \/ /\ stack # <<>> /\ ~Top.saw_else /\ Top.done
          /\ stack' = [stack EXCEPT ![Len(stack)].saw_else = TRUE]
          /\ Skip(pos)
          /\ UNCHANGED <<src, prog, emitted>>
       \/ /\ stack # <<>> /\ ~Top.saw_else /\ ~Top.done
          /\ stack' = ElseOutput(stack)
          /\ pos' = pos + 1
          /\ UNCHANGED <<src, prog, emitted, errs>>

\* Faulty variant: .elseif evaluates its condition even after a branch
\* was output.
ParseDirElseifNoDoneTest ==
    /\ pos <= Len(prog) /\ Line.k = "elseif"
    /\ \/ stack = <<>> /\ Reject("err_pp_elseif_without_if")
       \/ stack # <<>> /\ Top.saw_else /\ Reject("err_pp_elseif_after_else")
       \/ /\ stack # <<>> /\ ~Top.saw_else
          /\ ParseDirIf(Line.c, pos, Front(stack))
          /\ UNCHANGED <<src, prog, emitted>>

\* ParseDirElseif: once a branch was output the rest of the chain is
\* skipped; otherwise the entry is popped and the line handled as an .if.
Elseif ==
    /\ pos <= Len(prog) /\ Line.k = "elseif"
    /\ \/ stack = <<>> /\ Reject("err_pp_elseif_without_if")
       \/ stack # <<>> /\ Top.saw_else /\ Reject("err_pp_elseif_after_else")
       \/ /\ stack # <<>> /\ ~Top.saw_else /\ Top.done
          /\ Skip(pos)
          /\ UNCHANGED <<src, prog, stack, emitted>>
       \/ /\ stack # <<>> /\ ~Top.saw_else /\ ~Top.done
          /\ ParseDirIf(Line.c, pos, Front(stack))
          /\ UNCHANGED <<src, prog, emitted>>

\* ParseDirEndif.
Endif ==
    /\ pos <= Len(prog) /\ Line.k = "endif"
    /\ \/ stack = <<>> /\ Reject("err_pp_endif_without_if")
       \/ /\ stack # <<>>
          /\ stack' = Front(stack)
          /\ pos' = pos + 1
          /\ UNCHANGED <<src, prog, emitted, errs>>

\* Faulty variant: the body scan not counting nested .rept lines.
ReptScanFlat(i, depth) ==
    LET RECURSIVE Go(_)
        Go(j) == IF j > Len(prog) THEN [end |-> j, eof |-> TRUE]
                 ELSE IF prog[j].sol /\ prog[j].k = "endr" THEN [end |-> j, eof |-> FALSE]
                 ELSE Go(j + 1)
    IN  Go(i)

(***************************************************************************)
(* ParseDirRept's scan: from line i at depth 1, save lines until an .endr  *)
(* at depth 1; an .endr at a greater depth closes a nested .rept, a .rept  *)
(* deepens.  Only a directive at the start of its line is looked at.  Eof  *)
(* ends the scan with every line up to it consumed.                        *)
(***************************************************************************)
RECURSIVE ReptScan(_, _)
ReptScan(i, depth) ==
    IF i > Len(prog) THEN [end |-> i, eof |-> TRUE]
    ELSE CASE ~prog[i].sol                       -> ReptScan(i + 1, depth)
           [] prog[i].k = "endr" /\ depth = 1    -> [end |-> i, eof |-> FALSE]
           [] prog[i].k = "endr"                 -> ReptScan(i + 1, depth - 1)
           [] prog[i].k = "rept"                 -> ReptScan(i + 1, depth + 1)
           [] OTHER                              -> ReptScan(i + 1, depth)

\* count copies of the saved lines, as one token stream.
Repeat(body, count) == FlattenSeq([k \in 1..count |-> body])

\* ParseDirRept: a negative count is an error and nothing is
\* saved; an unclosed body is an error with the rest of the file consumed;
\* otherwise the body and its .endr are replaced by count copies of the
\* body (EnterTokenStream), and parsing continues with the first copy.
Rept ==
    /\ pos <= Len(prog) /\ Line.k = "rept"
    /\ LET r == ReptScan(pos + 1, 1) IN
       \/ /\ Line.c < 0
          /\ errs' = errs \cup {<<"err_multiple_negative", Line.id>>}
          /\ pos' = pos + 1
          /\ UNCHANGED prog
       \/ /\ Line.c >= 0 /\ r.eof
          /\ errs' = errs \cup {<<"err_rept_without_endr", Line.id>>}
          /\ pos' = r.end
          /\ UNCHANGED prog
       \/ /\ Line.c >= 0 /\ ~r.eof
          /\ prog' = SubSeq(prog, 1, pos)
                     \o Repeat(SubSeq(prog, pos + 1, r.end - 1), Line.c)
                     \o SubSeq(prog, r.end + 1, Len(prog))
          /\ pos' = pos + 1
          /\ UNCHANGED errs
    /\ UNCHANGED <<src, stack, emitted>>

\* ParseDirEndr: reached only by an .endr no .rept scan consumed.
Endr ==
    /\ pos <= Len(prog) /\ Line.k = "endr"
    /\ Reject("err_endr_without_rept")

Next == Body \/ If \/ Else \/ Elseif \/ Endif \/ Rept \/ Endr

\* DoParse reads lines until eof.
Spec == Init /\ [][Next]_vars

-----------------------------------------------------------------------------
(***************************************************************************)
(* Reference semantics, independent of the parser's scans: first every    *)
(* .rept body is expanded, matching .rept and .endr by nesting whatever    *)
(* precedes them on their line; then every line of the result is walked   *)
(* with a stack of [outer, taken, cur] (enclosing chain active, some       *)
(* branch of this chain taken, this branch active), and a statement is    *)
(* assembled when the innermost branch is active.                          *)
(***************************************************************************)
RECURSIVE MatchEndr(_, _, _)
MatchEndr(s, i, depth) ==
    IF i > Len(s) THEN i
    ELSE CASE s[i].k = "endr" /\ depth = 1 -> i
           [] s[i].k = "endr"              -> MatchEndr(s, i + 1, depth - 1)
           [] s[i].k = "rept"              -> MatchEndr(s, i + 1, depth + 1)
           [] OTHER                        -> MatchEndr(s, i + 1, depth)

RECURSIVE Expand(_)
Expand(s) ==
    IF s = << >> THEN s
    ELSE IF s[1].k # "rept" THEN << s[1] >> \o Expand(Tail(s))
    ELSE LET e == MatchEndr(s, 2, 1) IN
         Expand(Repeat(SubSeq(s, 2, e - 1), s[1].c)) \o Expand(SubSeq(s, e + 1, Len(s)))

Active(st) == st = <<>> \/ st[Len(st)].cur

RECURSIVE RefAssembled(_, _, _)
RefAssembled(s, i, st) ==
    IF i > Len(s) THEN << >>
    ELSE LET l == s[i]
             t == st[Len(st)]
         IN CASE l.k = "body" ->
                   (IF Active(st) THEN << l.id >> ELSE << >>) \o RefAssembled(s, i + 1, st)
              [] l.k = "if" ->
                   RefAssembled(s, i + 1, Append(st, [outer |-> Active(st),
                       taken |-> l.c = "t", cur |-> Active(st) /\ l.c = "t"]))
              [] l.k = "elseif" ->
                   RefAssembled(s, i + 1, [st EXCEPT ![Len(st)] =
                       [outer |-> t.outer, taken |-> t.taken \/ l.c = "t",
                        cur |-> t.outer /\ ~t.taken /\ l.c = "t"]])
              [] l.k = "else" ->
                   RefAssembled(s, i + 1, [st EXCEPT ![Len(st)] =
                       [outer |-> t.outer, taken |-> TRUE,
                        cur |-> t.outer /\ ~t.taken]])
              [] l.k = "endif" -> RefAssembled(s, i + 1, Front(st))

\* A well-formed file: .rept/.endr and .if/.endif properly nested in each
\* other, at most one .else per chain and last in it, every condition
\* evaluable and every count non-negative.  A frame is "rept", "if", or
\* "else" for a chain past its .else.
RECURSIVE WellFormedFrom(_, _)
WellFormedFrom(i, st) ==
    IF i > Len(src) THEN st = <<>>
    ELSE LET l == src[i]
             top == IF st = <<>> THEN "none" ELSE st[Len(st)]
         IN
         CASE l.k = "body"   -> WellFormedFrom(i + 1, st)
           [] l.k = "if"     -> l.c # "bad" /\ WellFormedFrom(i + 1, Append(st, "if"))
           [] l.k = "elseif" -> top = "if" /\ l.c # "bad" /\ WellFormedFrom(i + 1, st)
           [] l.k = "else"   -> top = "if" /\ WellFormedFrom(i + 1, [st EXCEPT ![Len(st)] = "else"])
           [] l.k = "endif"  -> top \in {"if", "else"} /\ WellFormedFrom(i + 1, Front(st))
           [] l.k = "rept"   -> l.c >= 0 /\ WellFormedFrom(i + 1, Append(st, "rept"))
           [] l.k = "endr"   -> top = "rept" /\ WellFormedFrom(i + 1, Front(st))

WellFormed == WellFormedFrom(1, <<>>)

(* Types, and: a chain past its .else is always marked done, so a later   *)
(* .elseif or .else of the same chain can never output a second branch.    *)
TypeOK ==
    /\ pos \in 1..Eof
    /\ stack \in Seq([done : BOOLEAN, saw_else : BOOLEAN])
    /\ emitted \in Seq(1..Len(src))
    /\ \A i \in 1..Len(stack) : stack[i].saw_else => stack[i].done

(* For a well-formed file, once the parser reaches eof it has assembled    *)
(* exactly the statements of the reference, in its order and as many      *)
(* times (ParseDirRept's nesting count and re-entered copies,             *)
(* SkipConditional's nesting count, the done flag that .else and .elseif  *)
(* test, and HandleIf's skip-then-push order all agree with it), and      *)
(* reported nothing.                                                       *)
AssemblesReference ==
    pos = Eof /\ WellFormed =>
        /\ emitted = RefAssembled(Expand(Tagged(src)), 1, <<>>)
        /\ errs = {}
=============================================================================
