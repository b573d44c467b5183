----------------------------- MODULE GasSections -----------------------------
(***************************************************************************)
(* The GAS section directives (GasParser_parse.cpp, "Section directives",  *)
(* and getSection): .text, .data, .bss, .section, .pushsection,           *)
(* .popsection, .previous, and the temporary switch to .bss that .lcomm   *)
(* makes.  The parser's state is the object's current section, the        *)
(* previous section (null until the first switch) and the section stack  *)
(* of saved [cur_sect, prev_sect] pairs.                                   *)
(*                                                                         *)
(* Switching is done by the object format's ".section" directive handler, *)
(* looked up in m_dirs; it makes the named section current.  A format     *)
(* without that handler leaves the section alone and an error is given.   *)
(***************************************************************************)
EXTENDS Integers, Sequences, SequencesExt

CONSTANTS Sects,      \* section names a directive may name
          NoSect,     \* the null m_previous_section
          Start,      \* the object's current section when parsing starts
          MaxDepth    \* bound on the section stack's length

ASSUME Start \in Sects /\ NoSect \notin Sects /\ MaxDepth \in Nat

VARIABLES cur,        \* m_object->getCurSection()
          prev,       \* m_previous_section
          stack,      \* m_section_stack
          hasDir,     \* m_dirs->get(&handler, ".section") succeeds
          errs        \* diagnostics given so far

vars == <<cur, prev, stack, hasDir, errs>>

Builtins == {".text", ".data", ".bss"}

\* The ".section" handler run by SwitchSection and ParseDirSection: the
\* named section becomes current, or, with no handler, an error.
Switch(s) == IF hasDir THEN s ELSE cur
SwitchErrs == IF hasDir THEN errs ELSE errs \cup {"err_unrecognized_directive"}

Init ==
    /\ cur = Start
    /\ prev = NoSect
    /\ stack = << >>
    /\ hasDir \in BOOLEAN
    /\ errs = {}

\* ParseDirBssSection, ParseDirDataSection, ParseDirTextSection.
BuiltinSection(s) ==
    /\ prev' = cur
    /\ cur' = Switch(s)
    /\ errs' = SwitchErrs
    /\ UNCHANGED <<stack, hasDir>>

\* ParseDirSection (param = 1 for .pushsection).  The push comes first;
\* then a missing name (err_directive_no_args), or a name followed by
\* something other than a comma or by attributes ParseDirective rejects,
\* returns false with the section unchanged.  Otherwise the section in
\* force becomes the previous one and the handler switches to the name.
PushOf(push) == IF push THEN Append(stack, [cur_sect |-> cur, prev_sect |-> prev])
                ELSE stack
SectionArgs == {"ok", "err_directive_no_args", "err_expected_comma", "bad_attrs"}
DirSection(push, s, args) ==
    /\ push => Len(stack) < MaxDepth
    /\ stack' = PushOf(push)
    /\ IF args = "ok"
       THEN /\ prev' = cur
            /\ cur' = Switch(s)
            /\ errs' = SwitchErrs
       ELSE /\ errs' = errs \cup {args}
            /\ UNCHANGED <<cur, prev>>
    /\ UNCHANGED hasDir

\* Faulty variant: the saved previous section not restored.
PopSectionKeepPrev ==
    /\ stack # << >>
    /\ cur' = Last(stack).cur_sect
    /\ stack' = Front(stack)
    /\ UNCHANGED <<prev, hasDir, errs>>
\* ParseDirPopSection: an empty stack only warns.
PopSection ==
    \/ /\ stack = << >>
       /\ errs' = errs \cup {"warn_popsection_without_pushsection"}
       /\ UNCHANGED <<cur, prev, stack, hasDir>>
    \/ /\ stack # << >>
       /\ cur' = Last(stack).cur_sect
       /\ prev' = Last(stack).prev_sect
       /\ stack' = Front(stack)
       /\ UNCHANGED <<hasDir, errs>>

\* Faulty variant: the null check of m_previous_section left out.
PreviousNoNullCheck ==
    /\ prev' = cur
    /\ cur' = prev
    /\ UNCHANGED <<stack, hasDir, errs>>
\* ParseDirPrevious: with no previous section only a warning; otherwise
\* the current and previous sections exchange places.
Previous ==
    \/ /\ prev = NoSect
       /\ errs' = errs \cup {"warn_previous_without_section"}
       /\ UNCHANGED <<cur, prev, stack, hasDir>>
    \/ /\ prev # NoSect
       /\ prev' = cur
       /\ cur' = prev
       /\ UNCHANGED <<stack, hasDir, errs>>

\* getSection, as DefineLcomm uses it for .bss: switch to find the section,
\* then make the saved current section current again.
GetSection(s) ==
    /\ errs' = SwitchErrs
    /\ UNCHANGED <<cur, prev, stack, hasDir>>

Next ==
    \/ \E s \in Builtins : BuiltinSection(s)
    \/ \E push \in BOOLEAN, s \in Sects, a \in SectionArgs : DirSection(push, s, a)
    \/ PopSection
    \/ Previous
    \/ GetSection(".bss")

Spec == Init /\ [][Next]_vars

-----------------------------------------------------------------------------
TypeOK ==
    /\ cur \in Sects
    /\ prev \in Sects \cup {NoSect}
    /\ stack \in Seq([cur_sect : Sects, prev_sect : Sects \cup {NoSect}])
    /\ Len(stack) <= MaxDepth
    /\ hasDir \in BOOLEAN

\* The section directives implement the context stack of SectionStack:
\* the saved pairs below the pair in force.  In particular a .popsection
\* brings back both the section and the previous section in force at the
\* matching .pushsection, whatever switches happened in between, and
\* .lcomm's excursion to .bss leaves no trace.
Abstract == INSTANCE SectionStack
    WITH frames <- [i \in 1..Len(stack) |->
                      [cur |-> stack[i].cur_sect, prev |-> stack[i].prev_sect]]
                   \o << [cur |-> cur, prev |-> prev] >>
ImplementsSectionStack == Abstract!Spec
=============================================================================
