------------------------------ MODULE Optimizer ------------------------------
(***************************************************************************)
(* Span-dependent layout of one section: the Bytecode passes of            *)
(* src/libyasm/bytecode.cpp (finalize, calc_len, expand, update_offset,    *)
(* to_bytes) driven by the optimizer loop of spec section 4.6, over        *)
(* bytecodes whose contents are x86 jumps (X86Jmp), fixed data, or an org  *)
(* (SPECIAL_OFFSET contents).  A bytecode may carry a constant multiple    *)
(* (field mult), the repeat count a frontend sets through                  *)
(* multiply_multiple.                                                      *)
(*                                                                         *)
(* The optimizer itself and the org contents are not under src/: they are  *)
(* modelled from the spec.  Everything a Bytecode method does is one       *)
(* action on the bytecode the pass visits.                                 *)
(***************************************************************************)
EXTENDS Integers, Sequences, FiniteSets, X86Jmp

CONSTANTS
  Programs        \* the sections to lay out: sequences of bytecode records

ASSUME Programs # {} /\ \A p \in Programs : Len(p) > 0

VARIABLES
  prog,     \* the section's bytecodes in order, as the parser appended them
  phase,    \* the pass running
  cur,      \* the bytecode the pass visits
  acc,      \* update_offsets' running offset (argument of update_offset)
  sel,      \* X86Jmp::m_op_sel of each jump contents ("none" elsewhere)
  len,      \* Bytecode::m_len, the length of the contents (tail) part
  multInt,  \* Bytecode::m_mult_int, the number of copies of the tail
  offset,   \* Bytecode::m_offset; index N+1 is the section end label
  spans,    \* bytecodes whose span (id 1) is still watched
  thres,    \* each span's <<neg_thres, pos_thres>>
  errs,     \* errors reported, as <<kind, bytecode>>
  out       \* what to_bytes wrote for each bytecode

vars == <<prog, phase, cur, acc, sel, len, multInt, offset, spans, thres, errs, out>>

Phases == {"finalize", "calclen", "place", "optimize", "offsets", "output",
           "done"}

Invalid == -1      \* m_offset(~0UL): "obviously incorrect / uninitialized"

NoOut == [written |-> FALSE, copies |-> 0, tail |-> 0, hasDisp |-> FALSE,
          disps |-> << >>, bits |-> 0]

N == Len(prog)
Bcs == 1..N
Kind(i) == prog[i].kind

\* Bytecode::multiply_multiple: a second multiple multiplies the first one
\* (an absent multiple counts as 1).
MultiplyMultiple(b, e) == [b EXCEPT !.mult = @ * e]

(***************************************************************************)
(* Org contents (SPECIAL_OFFSET), modelled from spec section 3: calc_len   *)
(* gives 0; expand at offset off pads up to the requested start, and       *)
(* reports an overlap when the bytecode already lies past it.              *)
(***************************************************************************)
OrgCalcLen == 0
\* Faulty variant: an org reached exactly at its start counted as overlapped.
OrgOverlapAtStart(b, off) == off >= b.start
OrgOverlap(b, off) == off > b.start
\* Faulty variant: padding computed without the overlap test.
OrgExpandLenNoCheck(b, l, off) == b.start - off
OrgExpandLen(b, l, off) == IF OrgOverlap(b, off) THEN l ELSE b.start - off

(***************************************************************************)
(* Spec 4.6 offset propagation: the section laid out from tail lengths l,  *)
(* every offset bytecode on the way re-evaluated by its expand.  Returns   *)
(* the offsets (N+1 is the end of the section) and the resulting lengths.  *)
(* A bytecode occupies its fixed bytes and m * its tail (spec 3:           *)
(* fixed.size() + tail_len * multiple_int).                                *)
(***************************************************************************)
Layout(l, m) ==
    LET RECURSIVE Off(_), TailLen(_)
        Off(i)  == IF i = 1 THEN 0
                   ELSE Off(i - 1) + prog[i - 1].fixed + TailLen(i - 1) * m[i - 1]
        TailLen(i) == IF Kind(i) = "org"
                   THEN OrgExpandLen(prog[i], l[i], Off(i)) ELSE l[i]
    IN  [off |-> [i \in 1..N + 1 |-> Off(i)], len |-> [i \in Bcs |-> TailLen(i)]]

\* The span's measured value: target label minus the jump's own start
\* (X86Jmp::finalize subtracts the location {bc, fixed_len}, fixed_len = 0).
SpanVal(i) == offset[prog[i].target] - offset[i]

OutOfRange(i) == SpanVal(i) < thres[i][1] \/ SpanVal(i) > thres[i][2]

\* Move the pass to the next bytecode, or to phase nxt after the last one.
Advance(nxt) ==
    IF cur < N THEN cur' = cur + 1 /\ phase' = phase
               ELSE cur' = 1 /\ phase' = nxt

Init ==
    /\ prog \in Programs
    /\ phase = "finalize"
    /\ cur = 1
    /\ acc = 0
    /\ sel = [i \in 1..Len(prog) |-> "none"]
    /\ len = [i \in 1..Len(prog) |-> 0]
    /\ multInt = [i \in 1..Len(prog) |-> 1]
    /\ offset = [i \in 1..Len(prog) + 1 |-> Invalid]
    /\ spans = {}
    /\ thres = [i \in 1..Len(prog) |-> <<0, 0>>]
    /\ errs = {}
    /\ out = [i \in 1..Len(prog) |-> NoOut]

(***************************************************************************)
(* Bytecode::finalize.  The fixups of a fixed-size jump are finalized      *)
(* (a label target passes the jump-target checks); bytecodes without       *)
(* contents stop there; an X86Jmp contents picks its starting form.        *)
(***************************************************************************)
FinalizeBc ==
    /\ phase = "finalize"
    /\ sel' = IF Kind(cur) = "jmp"
              THEN [sel EXCEPT ![cur] = JmpFinalize(prog[cur])] ELSE sel
    /\ Advance("calclen")
    /\ UNCHANGED <<prog, acc, len, multInt, offset, spans, thres, errs, out>>

(***************************************************************************)
(* Bytecode::calc_len(add_span).  No contents: length 0.  A jump that is   *)
(* not near registers span 1 with its thresholds.  Then m_mult_int is the  *)
(* constant multiple (1 without one); contents-less bytecodes return       *)
(* before it.  The span measures the first copy only.                      *)
(***************************************************************************)
\* The m_mult_int calc_len stores for a constant, non-negative multiple.
\* Faulty variant: the multiple never stored, m_mult_int left at 1.
CalcMultIntKeep(b) == 1
CalcMultInt(b) == b.mult

CalcLenBc ==
    /\ phase = "calclen"
    /\ LET b == prog[cur]
           l == CASE Kind(cur) = "jmp" -> JmpCalcLen(b, sel[cur])
                  [] Kind(cur) = "org" -> OrgCalcLen
                  [] OTHER             -> 0
           addSpan == Kind(cur) = "jmp" /\ sel[cur] # "near"
       IN  /\ len' = [len EXCEPT ![cur] = l]
           /\ multInt' = IF Kind(cur) \in {"jmp", "org"}
                         THEN [multInt EXCEPT ![cur] = CalcMultInt(b)]
                         ELSE multInt
           /\ spans' = IF addSpan THEN spans \cup {cur} ELSE spans
           /\ thres' = IF addSpan THEN [thres EXCEPT ![cur] = JmpSpanThres(l)]
                                  ELSE thres
    /\ Advance("place")
    /\ UNCHANGED <<prog, acc, sel, offset, errs, out>>

\* Spec 4.6: provisional offsets once every length is known.
Place ==
    /\ phase = "place"
    /\ offset' = Layout(len, multInt).off
    /\ len' = Layout(len, multInt).len
    /\ phase' = "optimize"
    /\ UNCHANGED <<prog, cur, acc, sel, multInt, spans, thres, errs, out>>

(***************************************************************************)
(* One iteration of the optimizer loop: a span outside its thresholds has  *)
(* its owner expanded (Bytecode::expand, span id 1, into X86Jmp::expand),  *)
(* and the offsets after it are propagated.  Which crossing span goes      *)
(* first is left open: the heap order of the spec is one of these orders.  *)
(***************************************************************************)
\* Faulty variant: a watched span expanded without the threshold test.
ExpandInRange(i) ==
    /\ phase = "optimize"
    /\ i \in spans
    /\ sel' = [sel EXCEPT ![i] = "near"]
    /\ spans' = IF JmpExpandKeep THEN spans ELSE spans \ {i}
    /\ LET lay == Layout([len EXCEPT ![i] = JmpExpandLen(prog[i], len[i])],
                         multInt)
       IN  /\ len' = lay.len
           /\ offset' = lay.off
    /\ UNCHANGED <<prog, phase, cur, acc, multInt, thres, errs, out>>

Expand(i) ==
    /\ phase = "optimize"
    /\ i \in spans
    /\ OutOfRange(i)
    /\ sel' = [sel EXCEPT ![i] = "near"]
    /\ spans' = IF JmpExpandKeep THEN spans ELSE spans \ {i}
    /\ LET lay == Layout([len EXCEPT ![i] = JmpExpandLen(prog[i], len[i])],
                         multInt)
       IN  /\ len' = lay.len
           /\ offset' = lay.off
    /\ UNCHANGED <<prog, phase, cur, acc, multInt, thres, errs, out>>

\* Faulty variant: the loop waits until every span has been expanded away.
OptimizeDoneNoSpans ==
    /\ phase = "optimize"
    /\ spans = {}
    /\ phase' = "offsets"
    /\ cur' = 1
    /\ acc' = 0
    /\ UNCHANGED <<prog, sel, len, multInt, offset, spans, thres, errs, out>>

\* The loop ends when no watched span is outside its thresholds.
OptimizeDone ==
    /\ phase = "optimize"
    /\ \A i \in spans : ~OutOfRange(i)
    /\ phase' = "offsets"
    /\ cur' = 1
    /\ acc' = 0
    /\ UNCHANGED <<prog, sel, len, multInt, offset, spans, thres, errs, out>>

(***************************************************************************)
(* Bytecode::update_offset(acc), called by the section for each bytecode   *)
(* in order with the running offset.  An offset bytecode is re-expanded    *)
(* first; an overlap is thrown, so the errwarns wrapper reports it, skips  *)
(* the m_offset store and returns offset + m_len * m_mult_int.             *)
(***************************************************************************)
UpdateOffsetBc ==
    /\ phase = "offsets"
    /\ LET b   == prog[cur]
           bad == Kind(cur) = "org" /\ OrgOverlap(b, acc)
           l   == IF Kind(cur) = "org" THEN OrgExpandLen(b, len[cur], acc)
                                       ELSE len[cur]
           nxt == IF bad THEN acc + l * multInt[cur]
                  ELSE acc + b.fixed + l * multInt[cur]
       IN  /\ len' = [len EXCEPT ![cur] = l]
           /\ errs' = IF bad THEN errs \cup {<<"org_overlap", cur>>} ELSE errs
           /\ offset' = [offset EXCEPT ![cur] = IF bad THEN @ ELSE acc,
                                       ![N + 1] = IF cur = N THEN nxt ELSE @]
           /\ acc' = nxt
    /\ Advance("output")
    /\ UNCHANGED <<prog, sel, multInt, spans, thres, out>>

(***************************************************************************)
(* Bytecode::to_bytes.  The fixed bytes go out with each fixup's value: a  *)
(* fixed-size jump's displacement is its target minus the end of the       *)
(* bytecode.  m_mult_int is reread from the multiple; with 0, or without   *)
(* contents, nothing more is written.  Otherwise the contents write their  *)
(* tail once per copy, and each copy's size is compared with m_len: a      *)
(* jump writes prefix, opcode and displacement, an org its padding.        *)
(* X86Jmp::output subtracts the tail length from m_target on every call,   *)
(* so copy j's displacement is measured from the end of copy j.  An        *)
(* external target leaves a relocation, not a number.                      *)
(***************************************************************************)
OutputBc ==
    /\ phase = "output"
    /\ LET b    == prog[cur]
           tail == CASE Kind(cur) = "jmp" -> JmpOutLen(b, sel[cur])
                     [] Kind(cur) = "org" -> len[cur]
                     [] OTHER             -> 0
           m    == IF Kind(cur) \in {"jmp", "org"} THEN b.mult ELSE 0
           CopyEnd(j) == offset[cur] + b.fixed + j * tail
           bits == CASE Kind(cur) = "jmp"  -> 8 * JmpDispLen(b, sel[cur])
                     [] Kind(cur) = "fjmp" -> 8 * JmpDispLen(b, b.req)
                     [] OTHER              -> 0
           has  == Kind(cur) \in {"jmp", "fjmp"} /\ b.target # Ext
           disps == CASE ~has             -> << >>
                      [] Kind(cur) = "fjmp" -> << offset[b.target] - CopyEnd(0) >>
                      [] OTHER              -> [j \in 1..m |-> offset[b.target] - CopyEnd(j)]
       IN  /\ out' = [out EXCEPT ![cur] =
                        [written |-> TRUE, copies |-> m, tail |-> tail,
                         hasDisp |-> has, disps |-> disps, bits |-> bits]]
           /\ multInt' = [multInt EXCEPT ![cur] = b.mult]
    /\ Advance("done")
    /\ UNCHANGED <<prog, acc, sel, len, offset, spans, thres, errs>>

Next ==
    \/ FinalizeBc
    \/ CalcLenBc
    \/ Place
    \/ \E i \in Bcs : Expand(i)
    \/ OptimizeDone
    \/ UpdateOffsetBc
    \/ OutputBc

\* The assembler is one thread running the passes to completion.
Spec == Init /\ [][Next]_vars /\ WF_vars(Next)

-----------------------------------------------------------------------------
TypeOK ==
    /\ phase \in Phases
    /\ cur \in Bcs
    /\ acc \in Nat
    /\ sel \in [Bcs -> Sel]
    /\ len \in [Bcs -> Nat]
    /\ offset \in [1..N + 1 -> Nat \cup {Invalid}]
    /\ spans \subseteq Bcs
    /\ thres \in [Bcs -> Int \X Int]
    /\ multInt \in [Bcs -> Nat]
    /\ out \in [Bcs -> [written : BOOLEAN, copies : Nat, tail : Nat,
                        hasDisp : BOOLEAN, disps : Seq(Int),
                        bits : {0, 8, 16, 32}]]

\* A displacement of b bits written by to_bytes holds its signed value:
\* -2^(b-1) <= d < 2^(b-1), stated on d \div 2 so that 2^31 is never formed.
FitsIn(d, bits) == (d \div 2) \in -(2^(bits - 2))..(2^(bits - 2) - 1)
Fits(o) == o.disps # << >> => FitsIn(Head(o.disps), o.bits)

(* Every jump whose size the optimizer chose (X86Jmp contents) is written  *)
(* with a displacement that fits its field: the spans calc_len registered, *)
(* checked against offsets that later expansions moved, kept every short   *)
(* jump in range of its target in the final layout.  Stated for the first  *)
(* copy of a repeated jump, the one its span measures: a later copy of a   *)
(* backward jump can still overflow (README, "Findings").                  *)
OptimizedJumpsFit ==
    \A i \in Bcs : out[i].written /\ Kind(i) = "jmp" => Fits(out[i])

(* to_bytes never throws "written length does not match optimized length": *)
(* what X86Jmp::output writes is the m_len that calc_len and expand set.   *)
OutputMatchesLen ==
    \A i \in Bcs : out[i].written /\ out[i].copies > 0 => out[i].tail = len[i]

(* The section is written without gaps or overlaps: after a layout with    *)
(* no error, each bytecode starts where the bytes to_bytes wrote for the   *)
(* one before it end, its fixed bytes plus one tail per copy.  The offsets *)
(* come from m_mult_int as calc_len stored it; the copies from the         *)
(* multiple to_bytes evaluates again.                                      *)
OutputContiguous ==
    phase = "done" /\ errs = {} =>
        \A i \in Bcs :
            offset[i + 1] = offset[i] + prog[i].fixed + out[i].copies * out[i].tail

(* No expansion is wasted in a section without an org: every jump the     *)
(* optimizer made near would, with every other bytecode as finally laid    *)
(* out, be out of its short range again if it alone went back to short.    *)
(* Spans are expanded in whatever order they cross and never shrink back,  *)
(* so this holds only because, without an org, a growth never shortens a  *)
(* distance.  With an org it fails (README, "Findings").                   *)
ShortAgain(i) ==
    LET l   == JmpCalcLen(prog[i], "short")
        lay == Layout([len EXCEPT ![i] = l], multInt)
        d   == lay.off[prog[i].target] - lay.off[i]
    IN  FitsIn(d - l, 8)

NoOrg == \A i \in Bcs : Kind(i) # "org"

ExpansionsNeeded ==
    phase = "done" /\ NoOrg =>
        \A i \in Bcs : Kind(i) = "jmp" /\ prog[i].target # Ext /\ sel[i] = "near"
                        => ~ShortAgain(i)

(* No step shortens a bytecode that is not an offset bytecode: calc_len    *)
(* and expand only ever grow m_len (spec 8.6 restricted to span-dependent  *)
(* contents).                                                              *)
NonOrgLenMonotone ==
    [][\A i \in Bcs : Kind(i) # "org" => len'[i] >= len[i]]_vars

(* The optimizer terminates: every section reaches the end of output.      *)
Terminates == <>(phase = "done")

\* The layout as SectionLayout sees it: published when update_offset has
\* run over the whole section, failed when it reported an error.
LaidOut == IF phase \in {"output", "done"}
           THEN IF errs = {} THEN [st |-> "laid", off |-> offset]
                             ELSE [st |-> "error", off |-> << >>]
           ELSE [st |-> "none", off |-> << >>]

Abstract == INSTANCE SectionLayout WITH sect <- prog, result <- LaidOut

(* The passes implement SectionLayout: finalize, calc_len, the optimizer   *)
(* loop and update_offset publish, once and for good, offsets that some    *)
(* choice of jump forms lays out contiguously (multiples and org padding   *)
(* included) with every short jump in reach, or fail exactly when that     *)
(* choice overlaps an org; and they do eventually publish.                 *)
ImplementsSectionLayout == Abstract!Spec
=============================================================================
