----------------------------- MODULE MCGasExpr -----------------------------
(* Statements of up to four tokens over one operator of each precedence   *)
(* level (two at the additive level), unary minus and complement, parentheses, a number, *)
(* two identifiers of which one is a wrt name, '@' and the operand        *)
(* separator; and statements of five tokens over operands and binary      *)
(* operators only, where a op b op c shows associativity and mixed levels.*)
EXTENDS GasExpr

MCNums == {"1", "9"}
MCIdents == {"x", "plt", "eax", "st"}
MCSpecialSyms == {"plt"}
MCTokens == {"1", "x", "plt", "@", "(", ")", "-", "+", "*", "|",
             "~", "&&", ","}
MCBinTokens == {"1", "x", "-", "+", "*", "|", "&&"}
MCInputs == BoundedSeq(MCTokens, 4) \cup [1..5 -> MCBinTokens]
\* Generic directive operands: every list of up to three tokens over a
\* register, a group of eight, a name, two indexes of which one is out of
\* range, a bad string and the tokens that choose the loop's cases; the
\* indexed group forms, which need four and five tokens; and four-token
\* lists of names, expressions, '@', rejected strings and commas.
MCRegs == {"eax"}
MCRegGroups == {"st"}
MCNumVal == [k \in MCNums |-> IF k = "1" THEN 1 ELSE 9]
MCDirTokens == {"eax", "st", "x", "1", "9", "-", "==", "@", "%", "(", ")",
                "badstr", ","}
MCDirInputs == BoundedSeq(MCDirTokens, 3)
               \cup {<<"%", "st", "(", n, ")">> : n \in {"1", "9"}}
               \cup {<<"%", "st", "(", "1">>, <<"%", "st", "(", "(">>}
               \cup [1..4 -> {"eax", "x", "-", "@", ",", "badstr"}]
\* Fill operands: up to five tokens over a number, a symbol, a sign, a
\* parenthesis and the comma, which reach every operand count, a missing
\* operand at each place, a symbolic size and a trailing operand too many.
MCFillInputs == BoundedSeq({"1", "x", "-", "(", ","}, 5)
=============================================================================
