--------------------------- MODULE MCPulseContexts ---------------------------
(* Instances of PulseContexts for TLC: pulse constructs between others.    *)
EXTENDS PulseContexts

MCContextTypes == AllKinds \cup {"Global"}

MCKinds == {"Gate", "Opaque", "Function", "Defcal", "Extern",
            "OpenPulseCalibration", "IfStatement", "ElseStatement"}
=============================================================================
