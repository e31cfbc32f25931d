------------------------------ MODULE VersionScan ------------------------------
(***************************************************************************)
(* Which version of OpenQASM a unit is parsed as.  yyparse looks through   *)
(* the unit for its version line with ParseOpenQASMLine, which tells       *)
(* comments by two static flags; then the preprocessor looks for the same  *)
(* line with a notion of comment of its own, and where it finds another    *)
(* line first writes a version line it guessed.  The version decides which *)
(* types, keywords and gates there are while the unit is parsed.           *)
(***************************************************************************)
EXTENDS Integers, Sequences

CONSTANTS
    Units       \* records: the lines of a unit, and the version guessed from
                \* the registers it declares

VARIABLES
    Version, SCCL, SCCR,    \* static: the version, in and past a C comment
    stated,                 \* OQ and OV are set
    unit, at,               \* the unit, the next line in it
    stage                   \* none, scan, guess, known

versionVars == <<Version, SCCL, SCCR, stated, unit, at, stage>>

(* A line is empty; a comment of two slashes; opens a C comment, ends one, *)
(* or does both; is within one; or has a version, well or badly formed, or *)
(* something else.                                                         *)
LineKinds == {"empty", "slashes", "open", "end", "both", "inner",
              "v2", "v3", "unended", "bad", "code"}

ASSUME UnitsAssumption == Units \subseteq [lines: Seq(LineKinds), guess: {2, 3}]

VersionOf(l) == IF l = "v2" THEN 2 ELSE 3

VersionInit ==
    /\ Version = 0 /\ SCCL = FALSE /\ SCCR = FALSE /\ stated = FALSE
    /\ unit = [lines |-> <<>>, guess |-> 3] /\ at = 1 /\ stage = "none"

BeginScan ==
    /\ unit' \in Units /\ at' = 1 /\ stated' = FALSE /\ stage' = "scan"
    /\ UNCHANGED <<Version, SCCL, SCCR>>

-----------------------------------------------------------------------------
(* ParseOpenQASMLine, called for each line until it finds a version.       *)

Line == unit.lines[at]

Skipped ==
    \/ Line \in {"empty", "slashes"}
    \/ Line \in {"open", "both"} /\ ~SCCL
    \/ SCCL /\ ~SCCR

SkipLine ==
    /\ stage = "scan" /\ at <= Len(unit.lines) /\ Skipped
    /\ at' = at + 1
    /\ SCCL' = (SCCL \/ Line \in {"open", "both"})
    /\ SCCR' = (SCCR \/ (SCCL /\ Line \in {"end", "both"}))
    /\ UNCHANGED <<Version, stated, unit, stage>>

Found == stage = "scan" /\ at <= Len(unit.lines) /\ ~Skipped

(* No version here: the default is set, and the search goes on.            *)
OtherLine ==
    /\ Found /\ Line \in LineKinds \ {"v2", "v3", "unended", "bad"}
    /\ stated' = TRUE /\ Version' = 3 /\ at' = at + 1
    /\ UNCHANGED <<SCCL, SCCR, unit, stage>>

VersionLine ==
    /\ Found /\ Line \in {"v2", "v3"}
    /\ stated' = TRUE /\ Version' = VersionOf(Line) /\ stage' = "guess"
    /\ UNCHANGED <<SCCL, SCCR, unit, at>>

(* An error; without a semicolon the search goes on.                       *)
MalformedLine ==
    /\ Found /\ Line \in {"unended", "bad"}
    /\ stated' = TRUE
    /\ stage' = IF Line = "bad" THEN "guess" ELSE stage
    /\ at' = IF Line = "unended" THEN at + 1 ELSE at
    /\ UNCHANGED <<Version, SCCL, SCCR, unit>>

ScanEndsUnset ==                \* mutant: no default
    /\ stage = "scan" /\ at > Len(unit.lines)
    /\ stage' = "guess"
    /\ UNCHANGED <<Version, SCCL, SCCR, stated, unit, at>>

ScanEnds ==
    /\ stage = "scan" /\ at > Len(unit.lines)
    /\ Version' = IF stated THEN Version ELSE 3
    /\ stage' = "guess"
    /\ UNCHANGED <<SCCL, SCCR, stated, unit, at>>

-----------------------------------------------------------------------------
(* The preprocessor: a version is guessed unless the first line it takes   *)
(* for more than a comment has one.                                        *)

First(S) == CHOOSE i \in S : \A j \in S : i <= j

NoComment == {i \in 1..Len(unit.lines) : unit.lines[i] \notin {"empty", "slashes"}}

GuessedAlways == TRUE           \* mutant: whatever line comes first
GuessedNever == FALSE           \* mutant: the version of the scan is kept
Guessed ==
    /\ NoComment # {}
    /\ unit.lines[First(NoComment)] \notin {"v2", "v3", "unended", "bad"}

Guess ==
    /\ stage = "guess" /\ stage' = "known"
    /\ Version' = IF Guessed THEN unit.guess ELSE Version
    /\ UNCHANGED <<SCCL, SCCR, stated, unit, at>>

-----------------------------------------------------------------------------
(* Properties.                                                             *)

(* The lines that are not in comments, by the language's notion of them.   *)
InC(i) ==
    \E j \in 1..i : /\ unit.lines[j] = "open"
                   /\ \A k \in (j + 1)..i : unit.lines[k] \notin {"end", "both"}

Outside ==
    {i \in 1..Len(unit.lines) :
        /\ unit.lines[i] \notin {"empty", "slashes", "open", "both"}
        /\ ~InC(i - 1)}

(* "The OPENQASM directive must be the first non-comment line in a         *)
(* program": if it is, the unit is parsed as the version it gives.         *)
DeclaredVersionTaken ==
    stage = "known" /\ Outside # {} /\ unit.lines[First(Outside)] \in {"v2", "v3"} =>
        Version = VersionOf(unit.lines[First(Outside)])

(* A unit without a version is parsed as what its registers tell, whatever *)
(* the unit before it was.                                                 *)
GuessedVersionTaken ==
    stage = "known" /\ Outside # {}
      /\ (\A i \in 1..Len(unit.lines) : unit.lines[i] \notin {"v2", "v3", "unended", "bad"})
        => Version = unit.guess

VersionTypeOK ==
    /\ Version \in {0, 2, 3} /\ {SCCL, SCCR, stated} \subseteq BOOLEAN
    /\ unit \in Units \cup {[lines |-> <<>>, guess |-> 3]}
    /\ at \in 1..(Len(unit.lines) + 1)
    /\ stage \in {"none", "scan", "guess", "known"}
    /\ SCCR => SCCL
=============================================================================
