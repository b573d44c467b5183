-------------------------------- MODULE Insn --------------------------------
(***************************************************************************)
(* An instruction statement and the heap objects its operands own.        *)
(* GasParser::ParseInsn (src/modules/parsers/gas/GasParser_parse.cpp)      *)
(* reads prefixes, segment-register prefixes, the mnemonic and the         *)
(* comma-separated operands, building each operand through ParseOperand;   *)
(* ParseLine then calls Insn::Append and drops the instruction.  The       *)
(* Insn and Operand classes (src/lib/yasmx/Insn.cpp; the older copy in    *)
(* src/libyasmx/Insn.cpp has the same control under the older method      *)
(* names) keep raw pointers: a                                             *)
(* memory operand owns its EffAddr, an immediate its Expr, and any operand *)
(* may own a segment Expr.  The operations the class offers its users     *)
(* (copying the instruction, releasing or replacing an operand's parts)   *)
(* are actions that may happen while the instruction lives.               *)
(*                                                                         *)
(* Heap objects are numbered in allocation order; heap is the set alive,  *)
(* freed the set deleted.  Deleting an object that is not alive, or        *)
(* reading one that was freed, is recorded in ub.                          *)
(***************************************************************************)
EXTENDS Integers, Sequences, FiniteSets, TLC

CONSTANTS
  Lines,     \* statements: sequences of tokens
  MaxObjs    \* bound on the heap objects a behaviour allocates

Null == 0
Objs == 1..MaxObjs

InsnNames   == {"mov"}            \* identifiers whose InsnInfo lookup succeeds
PrefixNames == {"rep", "lock"}    \* identifiers that are prefixes
SegRegNames == {"ds", "es"}       \* identifiers that are segment registers

\* ParseOperand's paths, one token standing for a whole operand: the
\* Operand constructor the path ends in, for Operand(Expr) whether the
\* expression is a bare register, whether setSeg gives it a segment Expr,
\* and the diagnostic on the way.
Path(ctor, isReg, seg, diag) == [ctor |-> ctor, isReg |-> isReg, seg |-> seg, diag |-> diag]
OperandPaths ==
       ("%eax"  :> Path("reg", FALSE, FALSE, "none"))      \* ParseRegOperand: Operand(reg)
    @@ ("%ds"   :> Path("segreg", FALSE, FALSE, "none"))   \* Operand(segreg)
    @@ ("%ds:m" :> Path("ea", FALSE, FALSE, "none"))       \* %segreg:memory
    @@ ("%bad"  :> Path("expr", FALSE, FALSE, "err_bad_register_name"))
    @@ ("$1"    :> Path("expr", FALSE, FALSE, "none"))     \* $ immediate
    @@ ("m"     :> Path("ea", FALSE, FALSE, "none"))       \* ParseMemoryAddress
    @@ ("1"     :> Path("expr", FALSE, FALSE, "none"))     \* Intel expression
    @@ ("1:2"   :> Path("expr", FALSE, TRUE, "none"))      \* Intel seg:off
    @@ ("1:eax" :> Path("expr", TRUE, TRUE, "none"))       \* Intel seg:register
OperandToks == DOMAIN OperandPaths

VARIABLES
  toks,    \* the statement
  pos,     \* the token ParseInsn stopped at
  stage,   \* "parse", "insn" (the parsed instruction lives), "done"
  insn,    \* live instructions: "parsed" and, once copied, "copy"
  heap,    \* heap objects alive
  freed,   \* heap objects deleted
  next,    \* the next object number the allocator hands out
  held,    \* objects released to the instruction's user, who owns them
  ub,      \* undefined behaviour met: "double_free", "use_after_free"
  errs     \* diagnostics

vars == <<toks, pos, stage, insn, heap, freed, next, held, ub, errs>>

Opnd(type, ptr) == [type |-> type, ptr |-> ptr, seg |-> Null]
NewInsn == [ops |-> <<>>, prefixes |-> <<>>, segpfx |-> "none"]

\* The parse state threaded through ParseInsn: [heap, next, errs].
Alloc(st) == [st EXCEPT !.heap = @ \cup {st.next}, !.next = @ + 1]

\* Faulty variant: the union's m_val written even for a register.
OperandExprAlwaysVal(isReg, st) ==
    [op |-> Opnd(IF isReg THEN "REG" ELSE "IMM", st.next), st |-> Alloc(st)]

\* Operand::Operand(std::auto_ptr<Expr>): a register expression gives a
\* REG operand and the auto_ptr deletes the Expr; any other keeps it.
OperandExpr(isReg, st) ==
    IF isReg
    THEN [op |-> Opnd("REG", Null),
          st |-> [st EXCEPT !.next = @ + 1]]      \* allocated and deleted
    ELSE [op |-> Opnd("IMM", st.next), st |-> Alloc(st)]

\* ParseOperand (AT&T), ParseRegOperand and ParseOperandIntel for one
\* operand token: Intel seg:off parses the segment Expr first, then the
\* offset, builds Operand(off) and calls setSeg on the fresh operand.
ParseOperand(tok, st0) ==
    LET p   == OperandPaths[tok]
        st  == IF p.diag = "none" THEN st0
               ELSE [st0 EXCEPT !.errs = @ \cup {p.diag}]
        s1  == IF p.seg THEN Alloc(st) ELSE st
        r   == CASE p.ctor = "reg"    -> [op |-> Opnd("REG", Null), st |-> s1]
                 [] p.ctor = "segreg" -> [op |-> Opnd("SEGREG", Null), st |-> s1]
                 [] p.ctor = "ea"     -> [op |-> Opnd("MEMORY", s1.next), st |-> Alloc(s1)]
                 [] OTHER             -> OperandExpr(p.isReg, s1)
    IN  [r EXCEPT !.op.seg = IF p.seg THEN st.next ELSE Null]

Tok(p) == IF p <= Len(toks) THEN toks[p] ELSE "EOS"

\* ParseInsn's operand loop: parse, AddOperand, then stop at the end of
\* the statement or on a missing comma (err_expected_comma).
RECURSIVE OperandLoop(_, _, _)
OperandLoop(p, i, st) ==
    LET r  == ParseOperand(Tok(p), st)
        i2 == [i EXCEPT !.ops = Append(@, r.op)]
    IN  CASE Tok(p + 1) = "EOS" -> [insn |-> i2, ok |-> TRUE, pos |-> p + 1, st |-> r.st]
          [] Tok(p + 1) = ","   -> OperandLoop(p + 2, i2, r.st)
          [] OTHER -> [insn |-> i2, ok |-> TRUE, pos |-> p + 1,
                       st |-> [r.st EXCEPT !.errs = @ \cup {"err_expected_comma"}]]

\* GasParser::ParseInsn at token p: an instruction with its operands; a
\* prefix or segment register followed by the instruction the rest parses
\* to (an empty one when there is none), the prefix added after it; or
\* nothing (ok FALSE).
RECURSIVE ParseInsn(_, _)
ParseInsn(p, st) ==
    LET t == Tok(p) IN
    CASE t \in InsnNames ->
           IF Tok(p + 1) = "EOS"
           THEN [insn |-> NewInsn, ok |-> TRUE, pos |-> p + 1, st |-> st]
           ELSE OperandLoop(p + 1, NewInsn, st)
      [] t \in PrefixNames ->
           LET r == ParseInsn(p + 1, st)
               i == IF r.ok THEN r.insn ELSE NewInsn
           IN  [r EXCEPT !.ok = TRUE, !.insn = [i EXCEPT !.prefixes = Append(@, t)]]
      [] t \in SegRegNames ->
           LET r == ParseInsn(p + 1, st)
               i == IF r.ok THEN r.insn ELSE NewInsn
               w == IF r.ok /\ r.insn.segpfx # "none"
                    THEN {"warn_multiple_seg_override"} ELSE {}
           IN  [r EXCEPT !.ok = TRUE, !.insn = [i EXCEPT !.segpfx = t],
                         !.st.errs = @ \cup w]
      [] OTHER -> [insn |-> NewInsn, ok |-> FALSE, pos |-> p, st |-> st]
-----------------------------------------------------------------------------
(* The heap.                                                               *)

\* delete of each object of the sequence ds in turn: a null pointer is
\* ignored; deleting an object twice, or one not alive, is a double free.
DoubleFree(ds) ==
    \/ \E i \in DOMAIN ds : ds[i] # Null /\ ds[i] \notin heap
    \/ \E i, j \in DOMAIN ds : i < j /\ ds[i] = ds[j] /\ ds[i] # Null
\* ... while the objects in fresh are allocated; more adds other UB met.
DeleteAlloc(ds, fresh, more) ==
    LET nn == {ds[i] : i \in DOMAIN ds} \ {Null} IN
    /\ heap' = (heap \ nn) \cup fresh
    /\ freed' = freed \cup nn
    /\ ub' = ub \cup more \cup (IF DoubleFree(ds) THEN {"double_free"} ELSE {})
Delete(ds, more) == DeleteAlloc(ds, {}, more)

\* Reading (cloning, simplifying) an object already deleted.
Touch(os) == IF (os \ {Null}) \cap freed = {} THEN {} ELSE {"use_after_free"}

\* Operand::destroy: deletes m_ea or m_val by type, then m_seg.
Destroy(op) ==
    << IF op.type \in {"MEMORY", "IMM"} THEN op.ptr ELSE Null, op.seg >>

\* Insn::~Insn: destroy of every operand in order.
RECURSIVE DestroyOps(_)
DestroyOps(ops) == IF ops = <<>> THEN <<>> ELSE Destroy(Head(ops)) \o DestroyOps(Tail(ops))

\* The objects the live instructions' operands point to.
Owned == UNION {{Destroy(insn[s].ops[i])[j] : i \in DOMAIN insn[s].ops, j \in 1..2}
                : s \in DOMAIN insn} \ {Null}

-----------------------------------------------------------------------------
Init ==
    /\ toks \in Lines
    /\ pos = 1
    /\ stage = "parse"
    /\ insn = <<>>
    /\ heap = {} /\ freed = {} /\ next = 1 /\ held = {}
    /\ ub = {} /\ errs = {}

\* ParseLine, identifier case (x86 has no ParseInsn of its own): ParseInsn,
\* or err_unrecognized_instruction when there is no instruction.
Parse ==
    /\ stage = "parse"
    /\ LET r == ParseInsn(1, [heap |-> heap, next |-> next, errs |-> errs]) IN
       /\ r.st.next <= MaxObjs + 1
       /\ heap' = r.st.heap /\ next' = r.st.next /\ pos' = r.pos
       /\ IF r.ok
          THEN /\ insn' = "parsed" :> r.insn
               /\ errs' = r.st.errs
               /\ stage' = "insn"
          ELSE /\ insn' = insn
               /\ errs' = r.st.errs \cup {"err_unrecognized_instruction"}
               /\ stage' = "done"
    /\ UNCHANGED <<toks, freed, held, ub>>

\* The operands Operand::finalize reaches in order before operand k throws
\* (k = 0: none throws): expand_equ and simplify of a memory operand's
\* displacement or an immediate's value.
MayThrow(op) == op.type \in {"MEMORY", "IMM"} /\ op.ptr # Null
FinalizeError(op) ==
    IF op.type = "MEMORY" THEN "in memory expression" ELSE "in immediate expression"

\* ParseLine's tail: Insn::Append finalizes the operands (for_each stops at
\* the first that throws, whose message gets " in ... expression"); the
\* auto_ptr then destroys the instruction, whether Append returned or
\* threw; if it returned, DoParse reports junk after the instruction.
AppendAndDrop ==
    /\ stage = "insn"
    /\ LET ops == insn["parsed"].ops IN
       \E k \in {0} \cup {i \in DOMAIN ops : MayThrow(ops[i])} :
          LET reached == IF k = 0 THEN DOMAIN ops ELSE 1..k
          IN  /\ Delete(DestroyOps(ops), Touch({ops[i].ptr : i \in reached}))
              /\ errs' = errs \cup
                   IF k # 0 THEN {FinalizeError(ops[k])}
                   ELSE IF pos <= Len(toks) THEN {"err_eol_junk"} ELSE {}
    /\ insn' = [s \in DOMAIN insn \ {"parsed"} |-> insn[s]]
    /\ stage' = "done"
    /\ UNCHANGED <<toks, pos, next, held>>
-----------------------------------------------------------------------------
(* What the instruction's users may do while it lives.                    *)

Slots == {"parsed", "copy"}

OperandAt(s, i) == s \in DOMAIN insn /\ i \in DOMAIN insn[s].ops
SetOperand(s, i, op) == insn' = [insn EXCEPT ![s].ops[i] = op]

\* Faulty variant: the pointer handed out and kept.
ReleaseKeep(op) == op
\* Operand::release (declared in Insn.h, its body not in the repository;
\* spec 9, the "release and reseat" idiom): the operand gives up the
\* pointer it owns and becomes NONE.
Release(op) == [op EXCEPT !.type = "NONE", !.ptr = Null]

\* Operand::release_memory / release_imm: for an operand of that type the
\* EffAddr or Expr goes to the caller; any other type returns null.
ReleaseOwned(s, i, t) ==
    /\ OperandAt(s, i) /\ insn[s].ops[i].type = t
    /\ held' = held \cup {insn[s].ops[i].ptr}
    /\ SetOperand(s, i, Release(insn[s].ops[i]))
    /\ UNCHANGED <<toks, pos, stage, heap, freed, next, ub, errs>>

\* Faulty variant: m_seg not reset.
ClearSegKeep(op) == op
ClearSeg(op) == [op EXCEPT !.seg = Null]

\* Operand::release_seg: m_seg goes to the caller and is reset (a null
\* m_seg hands out nothing).
ReleaseSeg(s, i) ==
    /\ OperandAt(s, i) /\ insn[s].ops[i].seg # Null
    /\ held' = held \cup {insn[s].ops[i].seg}
    /\ SetOperand(s, i, ClearSeg(insn[s].ops[i]))
    /\ UNCHANGED <<toks, pos, stage, heap, freed, next, ub, errs>>

\* Operand::set_seg with a new Expr from the caller: the old one deleted.
SetSeg(s, i) ==
    /\ OperandAt(s, i) /\ next <= MaxObjs
    /\ DeleteAlloc(<<insn[s].ops[i].seg>>, {next}, {})
    /\ next' = next + 1
    /\ SetOperand(s, i, [insn[s].ops[i] EXCEPT !.seg = next])
    /\ UNCHANGED <<toks, pos, stage, held, errs>>

\* The caller deletes an object it was handed (its auto_ptr goes out of
\* scope).
CallerDelete(o) ==
    /\ o \in held
    /\ Delete(<<o>>, {})
    /\ held' = held \ {o}
    /\ UNCHANGED <<toks, pos, stage, insn, next, errs>>

\* The objects Operand::clone deep-copies: m_ea or m_val, and m_seg.
CloneObjs(op) == {Destroy(op)[j] : j \in 1..2} \ {Null}

\* Insn::Insn(const Insn&): prefixes and segment prefixes are copied; the
\* operands are cloned, but into m_operands.begin() of a vector that was
\* only reserved.  The clones are written past the end of an empty vector:
\* in a release build the copy has no operands and the clones are never
\* freed; a build with checked iterators aborts.
InsnCopy ==
    /\ "parsed" \in DOMAIN insn /\ "copy" \notin DOMAIN insn
    /\ LET ops == insn["parsed"].ops
           src == UNION {CloneObjs(ops[i]) : i \in DOMAIN ops}
           n   == Cardinality(src)
       IN  /\ next + n <= MaxObjs + 1
           /\ \/ /\ insn' = insn @@ ("copy" :> [insn["parsed"] EXCEPT !.ops = <<>>])
                 /\ heap' = heap \cup (next..(next + n - 1))
                 /\ next' = next + n
                 /\ ub' = ub \cup Touch(src)
                 /\ UNCHANGED stage
              \/ /\ stage' = "aborted"
                 /\ UNCHANGED <<insn, heap, next, ub>>
    /\ UNCHANGED <<toks, pos, freed, held, errs>>

\* The copy's owner drops it: Insn::~Insn destroys its operands.
DestroyCopy ==
    /\ "copy" \in DOMAIN insn /\ stage # "aborted"
    /\ Delete(DestroyOps(insn["copy"].ops), {})
    /\ insn' = [s \in DOMAIN insn \ {"copy"} |-> insn[s]]
    /\ UNCHANGED <<toks, pos, stage, next, held, errs>>

Next ==
    \/ Parse
    \/ AppendAndDrop
    \/ InsnCopy
    \/ DestroyCopy
    \/ \E s \in Slots, i \in 1..MaxObjs :
          \/ \E t \in {"MEMORY", "IMM"} : ReleaseOwned(s, i, t)
          \/ ReleaseSeg(s, i)
          \/ SetSeg(s, i)
    \/ \E o \in Objs : CallerDelete(o)

Spec == Init /\ [][Next]_vars

-----------------------------------------------------------------------------
(* Properties.                                                             *)

OperandRecs == [type : {"NONE", "REG", "SEGREG", "MEMORY", "IMM"},
                ptr : {Null} \cup Objs, seg : {Null} \cup Objs]

(* Types, and the operand union: an operand holds an EffAddr or Expr      *)
(* pointer exactly when its type is MEMORY or IMM.                         *)
TypeOK ==
    /\ stage \in {"parse", "insn", "done", "aborted"}
    /\ DOMAIN insn \subseteq Slots
    /\ \A s \in DOMAIN insn :
         /\ insn[s].prefixes \in Seq(PrefixNames)
         /\ insn[s].segpfx \in SegRegNames \cup {"none"}
         /\ \A i \in DOMAIN insn[s].ops :
              /\ insn[s].ops[i] \in OperandRecs
              /\ (insn[s].ops[i].type \in {"MEMORY", "IMM"} <=> insn[s].ops[i].ptr # Null)
    /\ heap \cup freed \subseteq 1..(next - 1) /\ heap \cap freed = {}
    /\ held \subseteq Objs /\ ub \subseteq {"double_free", "use_after_free"}

\* Every pointer the live operands hold, with repetitions.
Refs == UNION {{<<s, i, j>> : i \in DOMAIN insn[s].ops, j \in 1..2} : s \in DOMAIN insn}
Ref(r) == Destroy(insn[r[1]].ops[r[2]])[r[3]]

(* Spec 5 and 9: ownership is tree-shaped.  No object is pointed to by    *)
(* two operand fields or by an operand and the caller it was released to, *)
(* and every object an operand or the caller owns is alive.               *)
ExclusiveOwnership ==
    /\ \A r1, r2 \in Refs : r1 # r2 /\ Ref(r1) # Null => Ref(r1) # Ref(r2)
    /\ Owned \cap held = {}
    /\ Owned \cup held \subseteq heap

(* No object is deleted twice or read after it was deleted, whatever the *)
(* instruction's users release, replace, delete or copy before ParseLine  *)
(* appends and drops the instruction.                                      *)
NoUndefinedBehaviour == ub = {}

(* Spec 5: every heap object is exclusively owned by its container.  Each *)
(* object alive is owned by a live operand or by the caller it was        *)
(* released to.                                                            *)
NoLeak == heap \subseteq Owned \cup held
====
