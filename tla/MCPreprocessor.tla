---------------------------- MODULE MCPreprocessor ----------------------------
(* Instances of Preprocessor for TLC: units made of a version line and a   *)
(* few pieces.                                                             *)
EXTENDS Preprocessor

V == Line("version")
B == Line("blank")

Plain(f) == <<Include(f, "none")>>
Commented(f) == <<Include(f, "open"), Line("star"), Line("starend"), B>>

(* Pieces the preprocessor is meant for: no directive in a comment, or on  *)
(* the line below the end of one, and no other line with the word include. *)
Pieces == {<<>>, <<Text(Main)>>, <<Line("slashes"), Text(Main)>>,
           <<Line("open"), Line("star"), Line("end"), Text(Main)>>}
    \cup {Plain(f) : f \in Files} \cup {Commented(f) : f \in Files}

Heads == {<<Line("open"), Line("star"), Line("end")>>, <<Line("slashes"), B>>}

(* Units without a version line name no file: what comes before that line  *)
(* is copied as it is.                                                     *)
Unversioned == Heads \cup {<<Text(Main)>>} \cup {h \o <<Text(Main)>> : h \in Heads}

MCUnits == {<<V>> \o p \o q : p, q \in Pieces}
               \cup {h \o <<V>> \o p : h \in Heads, p \in Pieces}
               \cup Unversioned

(* What a file may have: text of its own, a directive for another file, or *)
(* for itself.                                                             *)
MCTextsOf(f) ==
    {Missing, <<Text(f)>>} \cup {<<Include(g, "none"), Text(f)>> : g \in Files}
        \cup {<<Text(f), Include(g, "closed")>> : g \in Files}

MCTexts == [f \in Files |-> MCTextsOf(f)]

ASSUME MCDirectivesApart == DirectivesApart

(* What a file reads as has the text of a file at most once, if no two     *)
(* directives name the same file.                                          *)
MCReadings ==
    LET Own == {Text(f) : f \in Files}
    IN  [Files -> {s \in SeqOf(Own, Cardinality(Files)) : IsInjective(s)}]
=============================================================================
