# TLA+ models of the path64 assembler core

These modules model the parts of the assembler (a yasm derivative; sources
under `src/`) whose behaviour depends on the order of steps: the
span-dependent layout of a section, the symbol state machine, the GAS
parser's stateful directives, its expression and operand parsers (Intel and AT&T) and
its instruction statement, the expression term vector, the ownership of
instruction operands, and the x86-64 ELF relocation mapping. Each module is translated from the source.
The few pieces whose code is not in the repository are modelled from
`spec.md`, and `PROJECT.json` marks those definitions `spec_modelled`:
the optimizer driver, org contents, `Symbol::isDefined`, `Expr::append_op`
and `Insn::Operand::release`.

## The system and how its parts interact

- **Parser (GAS, `GasParser_parse.cpp`).** Turns statements into symbol
  definitions and declarations (`Symbol` methods) and into bytecodes appended
  to the current section. Instructions go through the architecture;
  `append_jmp` builds jump bytecodes. The parser also holds its own state:
  the conditional-assembly stack, the section stack with the "previous"
  section, and the numeric local-label counters.
- **Bytecode (`bytecode.cpp`).** Fixed bytes with fixups, an optional
  contents object and an optional multiple. Its passes are:
  - finalize;
  - calc_len, which can register spans;
  - expand;
  - update_offset;
  - to_bytes.
- **x86 jump contents (`X86Jmp.cpp`).** A jump whose size is not forced
  starts short, registers span 1 with thresholds, and is expanded to near
  once.
- **Optimizer (spec 4.6, code not in src).** Calls finalize and calc_len on
  every bytecode. Then, while a span crosses its thresholds, it expands the
  span's owner and propagates offsets, re-evaluating org bytecodes. Last it
  runs update_offset section by section.
- **Symbol (`Symbol.cpp`).** Holds a type (UNKNOWN, EQU, LABEL, SPECIAL),
  status bits (DEFINED, VALUED, USED) and visibility bits (GLOBAL, COMMON,
  EXTERN, DLOCAL).
  - Define paths go through `DefineCheck`.
  - Declare paths go through `okToDeclare`.
- **Object writers, relocation mapping, expressions, instructions.**
  - ELF `setRel` maps a value to a relocation type.
  - `Expr` and `Op` hold and simplify expressions.
  - `Insn` holds operands and prefixes.

Everything runs on one thread. Passes visit bytecodes in order, so the hard
behaviour is not thread interleaving. It comes from three sources:
- the order in which spans are expanded, and how one expansion moves other
  spans' values (cascades);
- lengths that must agree between calc_len, expand and output;
- the long sequences of directives a source file may contain, in any
  order.

## Modules

| Module | Models | State / actions |
|---|---|---|
| `X86Jmp` | `X86Jmp.cpp` | Operators over a jump record: `AppendJmp` (`append_jmp`, including the fixed-size path), `JmpFinalize`, `JmpCalcLen`, `JmpSpanThres`, `JmpExpandLen`/`JmpExpandKeep` (expand), `JmpOutLen`/`JmpDispLen` (output). |
| `Optimizer` | `bytecode.cpp` passes and the spec 4.6 loop | Variables: `len` (m_len), `multInt` (m_mult_int), `offset` (m_offset; index N+1 is the end label), `sel` (m_op_sel), `spans`/`thres` (registered spans), `errs`, `out` (what to_bytes wrote). Actions: `FinalizeBc`, `CalcLenBc`, `Place`, `Expand(i)`, `OptimizeDone`, `UpdateOffsetBc`, `OutputBc`. |
| `SectionLayout` | spec 3 and 4.6: what a section's layout promises | Variables: `sect` (the bytecodes), `result` (`none`, `error`, or the laid-out offsets). One action, `Lay`: the result is chosen once among `Outcomes(sect)`, the layouts `Placed` gives under some choice of short or near for each span-sized jump (multiples and org padding included) in which every short jump reaches its target in 8 bits, or `error` when that choice puts an org past its start. `Optimizer` maps onto it with `sect <- prog` and `result <- LaidOut` (the offsets once update_offset has run). |
| `MCOptimizer` | model | Three-bytecode sections from a menu (below). |
| `Symbol` | `Symbol.cpp` | Operators from a symbol's `[type, status, vis]` to the new state and diagnostics: `DefineCheck`, `CheckedDefineEqu`, `CheckedDefineLabel`, `okToDeclare`, `CheckedDeclare`. |
| `GasSymbols` | GAS symbol statements | One symbol. Actions: `Label`, `Equ`, `Local`, `Comm(isLcomm)` (`ParseDirComm`, including the exact-DLOCAL test that routes to `DefineLcomm`), `Globl`, `Extern`. |
| `GasCond` | GAS conditional assembly and repeat blocks | Variables: `src` (the file), `prog` (the token stream, one entry per line, each tagged with its line number), `pos` (current line; the entry after the last is eof), `stack` (`m_cond_stack` of `[done, saw_else]`), `emitted` (the line numbers of the statements assembled, in order), `errs`. Actions: `Body`, `If` (`ParseDirIf` and the other `.if` forms, into `HandleIf`), `Else`, `Elseif`, `Endif`, `Rept` (`ParseDirRept`: the body scan, then `count` copies spliced into `prog` in place of the body and its `.endr`, as `EnterTokenStream` does), `Endr`. `SkipConditional` and `ReptScan` are RECURSIVE operators that consume lines inside the handler that calls them; both look only at directives at the start of their line (`sol`). A `.rept` count is the value of its expression; only the negative-count error is modelled, the other two (no expression, not absolute) take the same path. |
| `MCGasCond` | model | Every file of up to 6 lines over `body`, `.else`, `.endif` and `.if`/`.elseif` with a true, false or unevaluable condition, and every file of up to 5 lines over `body`, `.else`, `.endif`, a true and a false `.if`, `.rept` 0, 2 and -1, and `.endr`. Every directive is at the start of its line. |
| `GasLocalLabels` | GAS numeric local labels | Variables: `m_local` (definition counts), `syms` (symbol table, through the `Symbol` operators), `names` (the symbol each statement was renamed to). Actions: `LocalLabelDef` ("N:"), `LocalLabelRef` ("Nb"/"Nf"). Names are the character sequences `getLocalLabel` builds: `L`, decimal digits, `\001`, decimal digits. |
| `MCGasLocalLabels` | model | Files of up to 3 statements over labels 1 and 11, and files of ten "1:" followed by up to two definitions, so that label 1 reaches count 11. |
| `GasSections` | GAS section directives | Variables: `cur` (the object's current section), `prev` (`m_previous_section`, `NoSect` while null), `stack` (`m_section_stack` of `[cur_sect, prev_sect]`), `hasDir` (whether the object format has a `.section` handler), `errs`. Actions: `BuiltinSection(s)` (`.text`/`.data`/`.bss`), `DirSection(push, s, args)` (`.section`/`.pushsection`, with every argument error), `PopSection`, `Previous`, `GetSection` (the switch-and-restore `.lcomm` makes). |
| `SectionStack` | what the section directives promise | One variable, `frames`: the saved contexts with the context in force last. Steps: `SwitchTo`, `Back` (`.previous`), `Push`, `Save` (a rejected push), `Restore` (`.popsection`). `GasSections` is shown to implement it through `INSTANCE SectionStack WITH frames <- stack \o <<[cur, prev]>>`. |
| `GasExpr` | `ParseExpr`..`ParseExpr3`, `ParseDirData`, `ParseDirective`, `ParseLine`'s dispatch of generic directives, `ParseDirFill`, `ParseDirSkip`, `ParseDirZero`, `DoParse`'s junk check | The four precedence levels are RECURSIVE operators over a token sequence, one loop each as in the code, building `Expr::Calc` trees (and, through `ExprRpn`, their term vectors), with `sym@wrt`, unary operators and parentheses. Variables: `toks`, `pos` (`m_token`), `data` (what `AppendData` received), `rpn` (the same Exprs as term vectors), `errs`, `stage`. Actions: `DirDataStart`, `DataItem(r)` (one turn of the operand loop, given what `ParseExpr` reads at `m_token`), `EndStatement`. A precedence-climbing parser (`RefExpr`) is the reference. A statement may instead be the operands of a directive `m_gas_dirs` does not handle (`dir` is `known` or `unknown` to `m_dirs`): `DirValue(e)` is one turn of `ParseDirective`'s loop (`DirTurn` picks its case: a name, or an expression when the name is followed by one of `PeekOps`; a string; `%` and a register or a group with an optional index (`DirReg`); `@`; otherwise an expression), appending to `nvs` with the tokens each value spans (`OperandTurn` takes either loop's turn with the one `ParseExpr` result `ExprAt`); `DirEnd` returns true at the end of the statement; `DirDispatch` is `ParseLine` calling the handler, or warning, whatever `ParseDirective` returned (`dres`). A statement may also be the operands of `.fill`, `.skip` or `.zero` (`dir`): `FillArg(e)` reads one operand into `args` and goes on past a comma while the directive takes more (`MaxArgs`), or diagnoses a missing operand (`ArgErr`) and returns false; `FillAppend` refuses a `.fill` size that is not `Absolute` and records in `fill` what `AppendFill`/`AppendSkip` receive (`FillOf`). `.skip`'s size comes from a directive table that is not in the repository and is 1 here. |
| `MCGasExpr` | model | Every statement of up to four tokens over one operator of each level, unary minus and complement, parentheses, a number, an identifier, a wrt name, `@` and `,`; and every five-token chain of operands and binary operators. Directive operand lists: every list of up to three tokens over a register, a register group of eight, a name, an index in and one out of range, `-`, `==`, `@`, `%`, parentheses, a rejected string and `,`; the indexed group forms; and four-token lists of names, `-`, `@`, rejected strings and commas. Fill operands: every list of up to five tokens over `1`, `x`, `-`, `(` and `,`, for each of `.fill`, `.skip` and `.zero`. |
| `GasOperand` | `ParseOperand`; Intel `getSizeOverride`, `ParseOperandIntel`, `ParseMemoryAddressIntel`; AT&T `ParseRegOperand`, `ParseMemoryAddress`, the `ParseExpr3` leaves | `intel` is `m_intel`. Identifiers are character sequences, so the case-insensitive character tests are kept. An operand is `[kind, size, reg, segreg, seg, tmod, ea, strong, deref]`; `ea` is the AT&T address as an `ADD`/`MUL` tree over registers, numbers and symbols. Each early return of `ParseMemoryAddress` is a branch of `MemAddrAtt` that yields the EffAddr of 0 with its diagnostic. One action, `Parse`, parses one operand in the syntax in force. |
| `MCGasOperand` | model | Intel: operands of up to four tokens over `DWORD`, `byte`, `ptr`, `eax`, `al`, `ds`, `near`, `[`, `]`, `:` and two expression tokens. AT&T: every operand of the form `disp(base, index, scale)` over `eax`/`al`, displacements `4`/`x` and scales `1`/`4`, each with and without `%ds:` and `*`, cut short by one token, with a `,` before its `)` and with `$` for its scale; `%st(i)` variants; and every sequence of up to three tokens over `% $ * ( ) , :`, `eax`, `ds`, the register group `st`, `4` and `x`. |
| `ExprRpn` | `libyasmx/Expr.h` | Operators over an Expr's term vector (post-order terms `[type, val, nchild, depth]`): `ExprOf` (single-term constructors and `operator=`), `AppendOp` (`append_op`, from its header comment: every term pushed down, the operator added at depth 0), `Calc1`/`Calc2` (`calc`, with `append(const Expr&)`). `Decode`/`TreeOf` read the vector back by the depth walk of the class comment; `RpnWellFormed` is spec invariant 1. `GasExpr` builds every operand's terms through these. |
| `Insn` | `lib/yasmx/Insn.cpp` (and its older copy `libyasmx/Insn.cpp`, the same control under older names), GAS `ParseInsn`/`ParseOperand` | Ownership of the objects an instruction statement allocates. Variables: `toks`/`pos` (the statement), `stage`, `insn` (the instruction and its copy, each operand `[type, ptr, seg]`), `heap` (live objects), `freed`, `held` (objects released to the caller), `next` (allocation counter), `ub` (double frees, uses after free), `errs`. Actions: `Parse` (`ParseInsn`, RECURSIVE over prefixes and the operand loop), `AppendAndDrop` (`Append` and the auto_ptr's destructor, with a throwing `do_append`), `ReleaseOwned`, `ReleaseSeg`, `SetSeg`, `CallerDelete`, `InsnCopy` (the copy constructor), `DestroyCopy`. |
| `MCInsn` | model | Statements `mov` with up to two prefixes and up to two operands over register, segment-override, immediate, memory, far and malformed operands; a lone prefix, a prefix before a register, and an unknown mnemonic. |
| `ElfReloc` | `Elf_x86_amd64.cpp`, `Elf_x86_x32.cpp` | Machine matching, `Configure`'s class, the special-symbol tables, and both `setRel` methods as operators. Variables: `machine`, `reloc` (symbol, type from its wrt modifier, relativity, size, sign), `result`, `phase`. Actions: `MakeReloc`, `SetRelStep`. |

How state and actions correspond to the code:
- One action is a whole method call on the bytecode the pass is visiting
  (`cur`).
- `CalcLenBc` sets `len` and registers the span in the same step.
- `Expand(i)` upgrades the jump and propagates offsets (`Layout`, a
  RECURSIVE operator) in one step. Propagation re-evaluates every org on
  the way, as spec 4.6.3 says.
- `UpdateOffsetBc` re-expands an org. It models the errwarns wrapper: an
  overlap is reported, the `m_offset` store is skipped, and the wrapper
  returns `offset + m_len`.
- `OutputBc` computes what `X86Jmp::output` writes. For a jump that is
  displacement = target − end of the instruction. For a fixed-size jump it
  is target − end of its fixed bytes.
- Which crossing span is expanded first is nondeterministic. The spec's
  address-ordered heap is one of the orders covered.

## Runs

| Run | cfg | Expect | What it shows |
|---|---|---|---|
| optimizer | `MCOptimizer.cfg` | pass | Seven properties hold in every section of the menu: `OptimizedJumpsFit` (every optimizer-sized jump's displacement fits its field, in the first copy of a repeated jump, which its span measures), `OutputMatchesLen` (to_bytes never hits its length-mismatch error), `OutputContiguous` (after an error-free layout each bytecode starts where the fixed bytes and tail copies to_bytes wrote for the one before end, so the m_mult_int calc_len stored and update_offset used agrees with the multiple to_bytes evaluates again), `ExpansionsNeeded` (in a section without an org, every jump made near would be out of short range again if it alone went back to short, in whatever order the spans were expanded), `NonOrgLenMonotone` (calc_len and expand never shrink a bytecode), `Terminates`, and `ImplementsSectionLayout`: the passes refine `SectionLayout`, so the offsets update_offset publishes are, as a whole, a contiguous layout under one legal choice of jump forms, never revised, or the run reports an org overlap exactly when that choice overlaps an org. |
| gas_symbols | `GasSymbols.cfg` | pass | No statement order makes a symbol both COMMON and EXTERN. A defined symbol's type never changes. Type and status always agree. |
| gas_cond | `MCGasCond.cfg` | pass | `AssemblesReference`: a well-formed file (`.rept`/`.endr` and `.if`/`.endif` properly nested in each other) ends with exactly the statements of a reference, in its order and as many times, and no diagnostics. The reference first expands every `.rept` body by nesting, then walks the result with a stack of `[outer, taken, cur]` and never skips. So the `.rept` scan's nesting count, the re-parsing of copies (an inner `.rept` is expanded once per outer copy), `SkipConditional`'s count and a `.rept` inside a skipped branch all agree with it. `TypeOK` adds that a chain past its `.else` is always marked done. |
| gas_local_labels | `MCGasLocalLabels.cfg` | pass | `LocalDefsNeverClash`: no two definitions share a name, so none is a redefinition, even at count 11 next to label 11. `LocalRefsResolve`: every `Nb`/`Nf` names the latest earlier or first later definition, or a symbol never defined. `TypeOK`: `m_local` counts the definitions parsed. |
| gas_symbols_defined_common | `GasSymbols_DefinedNeverCommon.cfg` | violation | `.comm x,4` then `x:` reaches DEFINED+COMMON with no diagnostic. The okToDeclare table forbids that state. |
| gas_sections | `MCGasSections.cfg` | pass | `ImplementsSectionStack`: every sequence of section directives refines `SectionStack`. So a `.popsection` brings back both the section and the previous section of its `.pushsection`, whatever happened in between, and `.lcomm`'s excursion to `.bss` leaves no trace. |
| gas_expr | `MCGasExpr.cfg` | pass | `ParseExprMatchesGrammar`: the four mutually recursive loops give the same tree, diagnostics, end position and failures as precedence climbing over the grammar in the comment above `ParseExpr`, with every binary operator left-associative. `CleanStatementIsItsOperands`: a data statement with no diagnostic yields exactly the parses of its comma-separated operands. `DataTermsEncodeTrees`: the term vector the `calc` calls build for each operand (right operands inserted with their own depths, `x@plt` as a WRT over a symbol term, a failed operand replaced by 0) is well formed by spec invariant 1 and decodes to the parsed tree. `NameValuesCoverOperands`: when `ParseDirective` returns true, its values are in order, do not overlap, leave out only commas and rejected strings, a name or `@` is one token, and an expression value is the grammar's parse of exactly its tokens. `DirTurnsConsume` (action property): every turn after which the loop goes on has consumed a token, so the unbounded `for (;;)` ends within the statement. `FillFailureDiagnosed`: a fill directive that appends nothing has reported why, at whichever operand or size it stopped. `CleanFillIsItsOperands`: a fill directive with no diagnostic read at most as many operands as it takes, each parsed as the grammar parses it, and appended the fill or skip they mean, with count, size and value in their places and the defaults 1 and 0. |
| gas_operand | `MCGasOperand.cfg` | pass | `OutermostOverrideWins`: the outermost size keyword decides an Intel operand's size, and a register never gets a size other than its own. `AttMemoryIsBaseIndexScaleDisp`: every AT&T operand of the documented `disp(base, index, scale)` form, every part optional, parses whole without a diagnostic to a memory operand whose address has exactly the base, the index times its scale (1 when omitted) and the displacement, strong exactly when it has parentheses. |
| gas_att_index_dropped | `MCGasOperand_IndexDropped.cfg` | violation | `IndexNeverDropped` fails: `(,%al,)`, and likewise `(%eax,%ebx,)`, parses without a diagnostic to an address without its index register. After the index and its `,`, a `)` jumps to `done` with the scale empty (`GasParser_parse.cpp:1811`), and `if (!scale.isEmpty())` then skips `e2 += MUL(*reg, scale)`, although `havereg` is set. The same function gives an index with no `,` after it the scale 1 (line 1805). |
| insn | `MCInsn.cfg` | pass | `ExclusiveOwnership`: whatever order the caller releases, replaces and deletes operand objects in, and also in a copied instruction, no object has two owners, nothing owned or released is freed, and operand type and pointer agree (`TypeOK`). `NoUndefinedBehaviour`: no path, including `do_append` throwing halfway, frees an object twice or reads one after it is freed. |
| insn_copy_leak | `MCInsn_NoLeak.cfg` | violation | `NoLeak` fails: copying a parsed `mov 1` reserves and then `std::transform`s into `begin()` of an empty vector (`lib/yasmx/Insn.cpp:283`; the older copy has the same constructor at `libyasmx/Insn.cpp:284`). The copy is left with no operands, so the operand clones are owned by nobody. Spec 5 says clones are deep and exclusively owned. A checked-iterator build aborts instead; the model has both outcomes. |
| elf_reloc | `MCElfReloc.cfg` | pass | `MachineSelectionConsistent`: no ELF class selects both machines, and the selected machine writes the class asked for. `AcceptedTypeFitsValue`: a relocation without a wrt modifier gets a type as wide as its value, PC-relative exactly when the value is relative or is a 32/64-bit reference to `_GLOBAL_OFFSET_TABLE_`. `X32RestrictsAmd64`: x32 gives amd64's type wherever it accepts, and refuses exactly amd64's 64-bit PC-relative types. |

A repeated jump can overflow in a later copy. `X86Jmp::output` subtracts
the tail length from `m_target` on every call (`X86Jmp.cpp:261`), so
copy j of a bytecode with a multiple is measured from the end of copy j.
This is correct for the bytes, but the span that `calc_len` registered
(line 206) measures only the first copy. TLC finds `Data(125)` followed
by two copies of a short jump back to offset 0: the span sees -125, which
is in range, and the copies write -127 and -129. So the second copy does
not fit its 8-bit field. No frontend under `src/` sets a multiple, and no
run slot is left, so `OptimizedJumpsFit` is stated for the first copy and
the overflow is recorded here and as a hazard.

An expansion can be wasted when an org lies between a backward jump and
its target. `X86Jmp::expand` is one-way (line 229), and the order in which
crossing spans are expanded is not fixed by the code here. TLC finds
`[jmp to bytecode 3, .org 130, jmp back to the org]`. There, expanding the
backward jump first leaves it near. The first jump's growth then moves the
org's label to 5, and the backward jump finally sits at -125 from its
target, within short range. So `ExpansionsNeeded` is checked for sections
without an org. This wastes bytes rather than producing wrong ones, and
the address order of spec 4.6.4 avoids this instance.

A directive written after a label on its line is executed by `ParseLine`
but invisible to both scans, which look only at start-of-line tokens. With
such lines in the files, TLC finds `x: .if 0` / `y: .endif` skipped to eof
with `err_pp_if_without_endif` (`GasParser_parse.cpp:1292`), while the same
`.endif` closes the chain when the condition is true; `x: .rept 2` inside a
`.rept` body is likewise not counted (line 522), so the inner `.endr` ends
the outer body. No run slot is left for this violation, so it is recorded
here and as a hazard; `AssemblesReference` is checked for start-of-line
directives.

Four disagreements are kept as hazards rather than runs, because the
project keeps to 12 runs and the violation runs above were judged the
stronger findings:
- `getSizeOverride("ttord")` is 1: the `'t'` case returns `true` for any
  5-letter word whose second letter is not `w` (`GasParser_parse.cpp:2064`),
  while its comment says it matches size keywords only.
- A jump forced short over 128 bytes of data gets displacement 128. The
  FIXME at `X86Jmp.cpp:308` already records it.
- `.ident x -` (any directive `m_gas_dirs` does not handle) runs the
  directive with no values and no diagnostic. `ParseDirective` fails when
  `ParseExpr` finds nothing after `-`; `ParseExpr3` gives no diagnostic
  of its own, the failure stops at the end of the statement so `DoParse`
  sees no junk, and `ParseLine` ignores the result
  (`GasParser_parse.cpp:158`). `.byte x -` warns that 0 was assumed.
- `x:` then `.local x` is rejected (`Symbol.cpp:142`), while the spec 4.3
  matrix accepts DLOCAL in any state. The spec's own text on okToDeclare
  describes the code's rule.

Two places where the spec contradicts itself are listed as hazards rather
than runs:
- Spec 8.6 says no length decreases during span resolution. Spec 4.6.3
  requires the org re-evaluation that shrinks an org's padding when an
  earlier jump grows. `NonOrgLenMonotone` checks the part that holds.
- Scenario S6 calls `.extern x` then `x:` a redefinition error. Spec 4.3
  describes the warning the code gives.

Each property of a passing run has a mutant in `PROJECT.json`. The mutant
is a faulty variant of one mapped definition, written next to it, that
breaks the property: thresholds one byte too far, expand forgetting part of
the length change, the optimizer loop
waiting for every span to expand, calc_len never storing the multiple, a span expanded without its
threshold test, org padding without its overlap test, an org reached
exactly at its start taken as overlapped,
`okToDeclare` without its common rule, `DefineCheck` without its
redefinition test, and a label marked VALUED. The later modules have their
own:
- `.previous` without its null check, and `.popsection` that keeps the
  previous section;
- a `.rept` scan without its nesting count;
- a right-associative additive level, a `)` consumed unconditionally, and
  `DoParse` without its junk check; an unknown register name skipped instead
  of ending `ParseDirective`, and a rejected string left unconsumed; a symbolic `.fill` size
  refused without its diagnostic, and `.skip`'s value passed as the size;
- a size override without its register check, and a
  `]` consumed unconditionally; an AT&T index without the default scale 1;
- `calc` passing one child for a binary operator;
- an `Operand` constructor that always stores an Expr, `release` that keeps
  its pointer, and `release_seg` that keeps the segment;
- a switch default that does not return false, x32 matching the
  unspecified class, 64-bit PC values typed PC32, and x32's GOT test
  without its size check.

## Bounds and why they are enough

**MCOptimizer.** Sections have 3 bytecodes (`MCN`), each drawn from a menu
of 18 bytecodes. All 5832 sections are explored, each with every expansion
order. The menu:
- **Data of 125 and 128 bytes.** With 128, a short jump over the data sits
  one byte past the positive threshold. With 125, a backward jump sits one
  byte past the negative threshold. Growth of another jump then pushes a
  forward jump over the edge, which is the cascade.
- **Unsized jumps.** These have 32-bit operands and 1-byte opcodes and go
  to every label and to an external target (`Ext`, which finalize makes
  near).
- **16-bit conditional jumps.** These have a 2-byte near opcode and a
  2-byte displacement.
- **Jumps forced short and forced near**, which take append_jmp's
  fixed-bytes path.
- **A jump with no near form** (jcxz-like), which append_jmp makes short.
- **An org to offset 130.** Depending on the bytes before it, it is
  reached either before or after offset 130, so both padding and overlap
  occur.
- **Repeated unsized jumps** to the first and the last label, with
  multiple 0 (no copy written, the span still registered) and 2 (two
  copies, each measured from its own end). A multiple of 2 is the
  smallest with a copy the span does not measure.

Three bytecodes are the fewest for which a jump, the data it jumps over,
and a second jump whose growth moves the first all fit in one section.

**MCGasCond.** Six lines allow two nested chains with an `.else`, a
false `.if` whose skip must step over a nested `.if`/`.endif`, and chains
of `.elseif` after a taken branch. Five lines allow two nested `.rept 2`
around a statement (four copies), a `.rept` inside a false branch or a
branch inside a `.rept`, an empty `.rept 0`, an unclosed `.rept` and a
stray `.endr`. Every file of those lengths is explored (3.85 million
states).

**MCGasLocalLabels.** Labels 1 and 11, with label 1 defined eleven times,
are the smallest pair whose names would collide without the separator.
Files of three statements cover every order of a definition and `b`/`f`
references around it.

**MCGasSections.** Four sections (the three builtins and one named
`s1`) with a stack of depth 2 (`MaxDepth`, which bounds `.pushsection`).
That is enough for a push inside a push, a `.previous` between them, and
a `.popsection` on an empty stack. `hasDir` is chosen at Init, so both
object-format cases are explored (149380 states).

**MCGasExpr.** The statements are every sequence of up to four tokens over
one operator of each precedence level, and every five-token chain of
operands and binary operators. Two operators of the same level need
five tokens (`1-1-1`), which is where associativity shows. The
directive operand lists reach every case of `ParseDirective`'s loop and
every early return: a name before and not before an operator, `%eax`,
`%st`, `%st(1)`, `%st(9)` (index out of range), `%st(1` (missing `)`),
`%st((` (no index), `%x` (unknown register), `%(`, `@`, a rejected
string, a failing expression (`==`, `x -`), and values with and without a
comma between them. The fill operand lists reach every operand count of
each directive, a missing operand at each place (`.fill 1,`, `.fill 1,1,`),
a symbolic size (`.fill 1,x`), and an operand too many (`.zero 1,1`), which
the junk check reports.

**MCInsn.** `MaxObjs` is 5, the most objects a statement of the menu
allocates plus a copy: an operand with a segment override and its clone,
and one `set_seg`. Parses that would need more are cut by the guard on
`next`. Two prefixes show the order in which prefixes are added after the
inner instruction. A throwing `do_append` can be chosen at any operand.

**MCGasOperand.** Intel: every operand of up to four tokens over the menu
of twelve. That covers a size keyword before and after a register, two
keywords, `ptr`, a segment override and a memory operand, with `WordSize`
16. AT&T: all 62 documented forms over two registers (so base and index
may be the same register), two displacements (a number and a symbol) and
two scales (1 and the non-trivial 4). Each is also tried behind a segment
override (alone, and followed by a stray `)`), behind a `*`, with its last
token cut off, with a `,` before the `)`, and with its scale replaced by
`$`. Those variants reach every early return of `ParseMemoryAddress` and
`err_bad_memory_operand`. `%st(4)`, `%st(1)`, `%st(x)` and `%st(4` reach
the register-group paths. The three-token sequences over the AT&T menu
reach the rest of `ParseRegOperand` and `ParseOperand` (a bad register
name, a segment register alone, `$` without an expression). Every AT&T
diagnostic the code can give occurs in some state. 49780 states.

**MCElfReloc.** There is no bound. It explores every class, machine,
symbol, wrt modifier, relativity, size and sign (2001 states).

**GasSymbols.** There is no bound. The symbol's state and the set of
diagnostics are finite, so TLC explores every statement sequence of any
length.

## Fairness

`Optimizer` assumes weak fairness of `Next`. The core is single-threaded
and runs its passes to completion (spec 5). Nothing else can take the
step, so every enabled pass step is eventually taken. The system really
stops after output, so the optimizer cfgs say `CHECK_DEADLOCK FALSE`.
`SectionLayout` asks weak fairness of `Lay`, that the layout is
eventually published; `ImplementsSectionLayout` checks that the weak
fairness of the passes delivers it.
`GasSymbols` has no liveness property. Its deadlock check is on, since
another statement can always follow. The same holds for `GasSections`.
`GasExpr`, `GasOperand`, `Insn` and `ElfReloc` model one statement, operand
or relocation per behaviour. They have no fairness and no liveness
property (`ParseDirective`'s loop is shown to end by the action property
`DirTurnsConsume` over a finite statement instead), and their cfgs say `CHECK_DEADLOCK FALSE` because the
behaviour really ends.

## What is not modelled, and why

- **Non-constant and negative multiples.** Constant multiples are
  modelled: `multiply_multiple`, calc_len's `m_mult_int`, update_offset's
  use of it, and `get_multiple` in to_bytes. Not modelled: span 0 in
  `expand`, negative multiples and reserve gaps. A multiple that depends on
  a span registers span 0 with thresholds (0, 0). How the optimizer treats
  those thresholds, and orders span 0 among the other spans, is said
  neither by the code here nor by spec 4.6. A negative multiple makes
  calc_len throw after the contents registered their span, and what the
  optimizer does after a calc_len error is unspecified. No contents under
  `src/` is a reserve.
- **Bytecode copies.** Not modelled: the copy constructor and
  `operator=`. A copy is one call, with no sequence to explore.
- **Symbol methods.** Not modelled: `DefineSpecial`, which object formats
  call on fresh symbols, and `Write`, which is output only.
- **Symbol values.** EQU expressions, label locations and source
  locations are left out. No property reads them.
- **Expression details in operands and `parse_term`.** In `GasOperand` an
  expression is a number, a symbol or a parenthesised one; the operator
  grammar is `GasExpr`'s subject. The register tables (`DoRegLookup`) are
  constants, and `ParseInteger` of a register index is its text.
- **`Expr` simplification and `Op`.** Not modelled: `simplify`,
  `level_op`, `substitute` and the `extract_*` splitters. Their bodies are
  not in the repository. The `Op.cpp` classification (`isUnary`,
  `isCommutative`, `isAssociative`) is read only by `level_op`, so no
  modelled behaviour depends on it. Checking it against operator
  semantics would check the spec's wording, not the code.
- **`Insn` internals.** Not modelled: `Insn::put` (output),
  `do_append` (architecture code), and the memory-operand internals
  (`EffAddr`). An EffAddr is one owned object.
- **ELF output.** Not modelled: `ElfObject`'s writer, `getTypeName`,
  and reading relocations back. These are output and naming, and no
  property reads them.
- **Declaration-only headers.** These are the NASM lexer, RDF, DWARF,
  MD5, phash, EndianState, X86Insn and X86JmpFar headers. Their bodies
  are not in the repository.

## Plan for the remaining modules

Done: `GasCond`, `GasLocalLabels`, `GasSections` (with its refinement),
`Optimizer` (with its `SectionLayout` refinement), `GasExpr` (with the `ExprRpn` term vector and `ParseDirective`), `GasOperand` (Intel and AT&T), `Insn` and
`ElfReloc`. The project keeps to 12 runs. Further questions must replace
a weaker run or be added to an existing cfg. Still open:
- **`GasCond` hazards.** Three remain: the `.elseif` pop before its
  condition is evaluated, an unclosed true `.if` at eof, and an unclosed
  `.rept`, which consumes the rest of the file (the TODO at line 528). The
  model reaches all three, but no property claims an answer for them.
- **Multiples in `Optimizer`.** Span 0 and negative multiples, if the
  optimizer's source or a fuller spec becomes available.
- **ELF hazards that depend on the caller.** For example, a wrt type
  that setRel overwrites when the caller passes a relative value.
