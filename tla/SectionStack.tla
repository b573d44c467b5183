---------------------------- MODULE SectionStack ----------------------------
(***************************************************************************)
(* What the GAS section directives promise, as a stack of contexts.  A     *)
(* context is the current section and the one .previous returns to; the   *)
(* top context is the one in force.  .pushsection saves the context in    *)
(* force and opens a new one; .popsection drops the top context, so the   *)
(* one saved by the matching push is back in force, previous section      *)
(* included.  A push whose arguments are rejected still saves a copy of   *)
(* the context (GasParser::ParseDirSection pushes before it parses).      *)
(***************************************************************************)
EXTENDS Sequences, SequencesExt

CONSTANTS Sects,      \* the section names
          NoSect,     \* no previous section yet
          Start       \* the section in force when parsing starts

VARIABLE frames       \* sequence of [cur, prev]; the last one is in force

InForce == Last(frames)
ReplaceTop(f) == [frames EXCEPT ![Len(frames)] = f]

Init == frames = << [cur |-> Start, prev |-> NoSect] >>

\* A switch to s: s is in force and the section left becomes the previous.
SwitchTo(s) == frames' = ReplaceTop([cur |-> s, prev |-> InForce.cur])

\* .previous: the two sections of the context exchange roles.
Back == /\ InForce.prev # NoSect
        /\ frames' = ReplaceTop([cur |-> InForce.prev, prev |-> InForce.cur])

\* .pushsection s: the context is saved and s opens a new one.
Push(s) == frames' = Append(frames, [cur |-> s, prev |-> InForce.cur])

\* A rejected .pushsection: the context is saved unchanged.
Save == frames' = Append(frames, InForce)

\* .popsection with a saved context.
Restore == /\ Len(frames) > 1
           /\ frames' = Front(frames)

Next == \/ \E s \in Sects : SwitchTo(s) \/ Push(s)
        \/ Back \/ Save \/ Restore

Spec == Init /\ [][Next]_frames
=============================================================================
