------------------------- MODULE MCGasOperand ------------------------------
(* Intel: operands of up to four tokens over two size keywords (one in    *)
(* upper case), "ptr", a 32-bit and an 8-bit register, a segment          *)
(* register, a target modifier, brackets, ':' and two expression tokens.  *)
(* x86's word size is 16.                                                 *)
(* AT&T: every operand of the documented disp(base, index, scale) form    *)
(* over the two registers, with and without a segment override, each     *)
(* form with one token cut off its end, with a trailing ',' before its    *)
(* ')' and with its scale replaced by '$', and every sequence of up to    *)
(* three tokens of the AT&T menu.                                         *)
EXTENDS GasOperand

Id(w) == [k |-> "ident", n |-> w]
P(k) == [k |-> k, n |-> << >>]
Num(v) == [k |-> "num", n |-> <<v>>]

MCRegSize == (<<"e","a","x">> :> 32) @@ (<<"a","l">> :> 8)
MCSegRegs == {<<"d","s">>}
MCTargetMods == {<<"n","e","a","r">>}
MCTokens == {Id(<<"D","W","O","R","D">>), Id(<<"b","y","t","e">>),
             Id(<<"p","t","r">>), Id(<<"e","a","x">>), Id(<<"a","l">>),
             Id(<<"d","s">>), Id(<<"n","e","a","r">>), Id(<<"x">>),
             [k |-> "num", n |-> << >>], P("["), P("]"), P(":")}
MCInputs == BoundedSeq(MCTokens, 4) \ {<< >>}

\* The st register group: st, st(0) .. st(7); "4" is a valid index.
MCRegGroups == <<"s","t">> :> {<<"0">>, <<"4">>}
MCAttDisps == {Num("4"), Id(<<"x">>)}
MCAttScales == {Num("1"), Num("4")}
MCForms == {f.toks : f \in AttForms}
MCSegOverride == <<P("%"), Id(<<"d","s">>), P(":")>>
MCSegPrefix == {<< >>, MCSegOverride}
MCTrailing(t) ==
    IF t # << >> /\ Last(t).k = ")"
    THEN {SubSeq(t, 1, Len(t) - 1) \o <<P(","), P(")")>>} ELSE {}
MCBadScale(t) ==
    IF Len(t) >= 3 /\ t[Len(t) - 1].k = "num" /\ t[Len(t) - 2].k = ","
    THEN {[t EXCEPT ![Len(t) - 1] = P("$")]} ELSE {}
MCAttMenu == {P("%"), P("$"), P("*"), P("("), P(")"), P(","), P(":"),
              Id(<<"e","a","x">>), Id(<<"d","s">>), Id(<<"s","t">>),
              Num("4"), Id(<<"x">>)}
\* %st(i) for a valid, an invalid and a missing index, and unclosed.
MCGroupInputs ==
    {<<P("%"), Id(<<"s","t">>), P("(")>> \o r :
       r \in {<<Num("4"), P(")")>>, <<Num("1"), P(")")>>, <<Id(<<"x">>), P(")")>>, <<Num("4")>>}}
MCAttInputs ==
    {s \o f : s \in MCSegPrefix, f \in MCForms}
    \cup {MCSegOverride \o f \o <<P(")")>> : f \in MCForms}
    \cup MCGroupInputs
    \cup UNION {{Front(f)} \cup MCTrailing(f) \cup MCBadScale(f) : f \in MCForms}
    \cup {<<P("*")>> \o f : f \in MCForms}
    \cup (BoundedSeq(MCAttMenu, 3) \ {<< >>})
=============================================================================
