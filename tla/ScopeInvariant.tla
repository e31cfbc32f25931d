--------------------------- MODULE ScopeInvariant ---------------------------
(***************************************************************************)
(* The inductive invariant behind the properties of ScopeProtocol: why the *)
(* scope that a production pops is the one its keyword opened.  The stack  *)
(* of scopes is measured against the parser's stack, construct by          *)
(* construct, and the right braces counted in do scopes are tied to where  *)
(* the parser is.  It holds as long as no error has been reported and the  *)
(* program is free of the exceptional forms other than NestedPulse.        *)
(***************************************************************************)
EXTENDS ScopeProtocol

FormsAssumption == Forms \subseteq {"NestedPulse"}

(* The height of the scopes once the first k open constructs have been     *)
(* started.                                                                *)
Height(k) == IF k = 0 THEN 1 ELSE open[k].depth

(* Every construct lies one scope above the one it is in if its keyword    *)
(* opened a scope, and at the same scope if not; that scope is still where *)
(* it was, with the type it was opened with.                               *)
Stacked(k) ==
    /\ open[k].depth = Height(k-1) + (IF open[k].opened THEN 1 ELSE 0)
    /\ open[k].depth \in 1..Len(CCV)
    /\ CCV[open[k].depth] = open[k].scope
    /\ open[k].opened => DC[open[k].scope].CTy = ScopeType(open[k].kind)
    /\ open[k].opened /\ open[k].scope = CalibrationIX
          => open[k].kind = "OpenPulseCalibration"

(* Which constructs open a scope: all but labels and plain braces, and     *)
(* externs that are about to turn out to be ports or frames.               *)
Opened(k) ==
    /\ open[k].kind \in LabelKinds \cup {"Braces"} => ~open[k].opened
    /\ open[k].kind = "Extern" => open[k].opened \/ open[k].part = "head"
    /\ open[k].kind \notin LabelKinds \cup {"Braces", "Extern"} => open[k].opened

(* Where braces are counted: those of a label in its switch, and no stray  *)
(* braces in a do.                                                         *)
Counted(k) ==
    /\ open[k].kind \in LabelKinds => k > 1 /\ open[k-1].kind = "SwitchStatement"
    /\ open[k].kind = "Braces" => DC[open[k].scope].CTy # "DoWhileStatement"

(* Only the innermost construct may be past its body, and a do has a body  *)
(* in braces.                                                              *)
Placed(k) ==
    /\ k < Len(open) => open[k].part \in {"head", "body", "single", "list"}
    /\ open[k].kind = "DoWhileStatement" =>
          open[k].part \in {"head", "body", "after", "tail", "reduce"}
    /\ open[k].kind = "Braces" => open[k].part = "body"

PastDo == InnerIs({"DoWhileStatement"}, {"after", "tail", "reduce"})

InStep ==
    /\ status # "aborted"
    /\ Len(CCV) = Height(Len(open))
    /\ \A j, k \in 1..Len(open) : j <= k => open[j].depth <= open[k].depth
    /\ \A k \in 1..Len(open) : Stacked(k) /\ Opened(k) /\ Counted(k) /\ Placed(k)
    /\ DC[CalibrationIX].CTy = "OpenPulseCalibration"
    /\ matcher["DoWhileStatement"].R = IF PastDo THEN 1 ELSE 0

(* As long as no error is reported, scopes and parser are in step.         *)
ScopesInStep == ~failed => InStep
=============================================================================
