---------------------------- MODULE SectionLayout ----------------------------
(***************************************************************************)
(* What the layout of one section promises (spec sections 3 and 4.6): the  *)
(* section is laid out once, with a choice of form for every jump whose    *)
(* size the optimizer picks, and the result is published and kept.  Given  *)
(* that choice, every bytecode starts where the one before it ends (its    *)
(* fixed bytes and multiple * its tail), an org pads up to its start, and  *)
(* every jump left short reaches its target from the end of its first     *)
(* copy in 8 bits.  An org that finds itself past its start makes the      *)
(* layout fail instead.  Nothing is promised about which legal choice is  *)
(* made.                                                                   *)
(***************************************************************************)
EXTENDS Integers, Sequences, X86Jmp

CONSTANT Programs     \* the sections, as in Optimizer

VARIABLES sect,       \* the section's bytecodes
          result      \* [st: "none", "error" or "laid", off: the offsets,
                      \*  N+1 being the end]

Unplaced   == [st |-> "none", off |-> << >>]
Failed     == [st |-> "error", off |-> << >>]
LaidAt(o)  == [st |-> "laid", off |-> o]

\* The jumps whose form is chosen: X86Jmp contents with a measurable target.
Chosen(p) == {i \in DOMAIN p : p[i].kind = "jmp" /\ JmpFinalize(p[i]) = "short"}

\* The form of bytecode i under choice c: a target outside the section is
\* near from the start.
FormOf(p, c, i) == IF i \in Chosen(p) THEN c[i] ELSE JmpFinalize(p[i])

\* The offsets of p under choice c, and whether an org is overlapped.
Placed(p, c) ==
    LET n == Len(p)
        RECURSIVE Off(_)
        TailOf(i) == CASE p[i].kind = "jmp" -> JmpCalcLen(p[i], FormOf(p, c, i))
                       [] p[i].kind = "org" -> p[i].start - Off(i)
                       [] OTHER             -> 0
        Copies(i) == IF p[i].kind \in {"jmp", "org"} THEN p[i].mult ELSE 1
        Off(i) == IF i = 1 THEN 0
                  ELSE Off(i - 1) + p[i - 1].fixed + TailOf(i - 1) * Copies(i - 1)
    IN  [off     |-> [i \in 1..n + 1 |-> Off(i)],
         overlap |-> \E i \in 1..n : p[i].kind = "org" /\ Off(i) > p[i].start]

\* The 8-bit displacement of a short jump i, taken from the end of its
\* first copy, fits.
ShortFits(p, c, off, i) ==
    LET d == off[p[i].target] - off[i] - JmpCalcLen(p[i], "short")
    IN  (d \div 2) \in -64..63

\* The results the section may end with.
Outcomes(p) ==
    UNION {IF Placed(p, c).overlap THEN {Failed}
           ELSE IF \A i \in Chosen(p) : c[i] = "short" =>
                      ShortFits(p, c, Placed(p, c).off, i)
                THEN {LaidAt(Placed(p, c).off)} ELSE {}
           : c \in [Chosen(p) -> {"short", "near"}]}

Init == sect \in Programs /\ result = Unplaced

\* The layout is decided and published, once.
Lay == /\ result = Unplaced
       /\ result' \in Outcomes(sect)
       /\ UNCHANGED sect

Spec == Init /\ [][Lay]_<<sect, result>> /\ WF_<<sect, result>>(Lay)
=============================================================================
