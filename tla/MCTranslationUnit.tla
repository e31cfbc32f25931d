--------------------------- MODULE MCTranslationUnit ---------------------------
(* Instances of TranslationUnit for TLC: what may be above the first line  *)
(* that is no comment, what that line is, and what follows it.             *)
EXTENDS TranslationUnit

Unit(lines, guess) == [lines |-> lines, guess |-> guess]

Above == {<<>>, <<"empty", "slashes">>}
Below == {<<>>, <<"open", "inner", "end", "code">>}

MCUnits ==
    {Unit(a \o <<l>> \o b, g) : a \in Above, l \in {"v2", "v3", "code", "unended", "bad"},
                                b \in Below, g \in {2, 3}}
        \cup {Unit(a, 3) : a \in Above}
=============================================================================
