--------------------------- MODULE MCScopeProtocol ---------------------------
(* Instances of ScopeProtocol for TLC: which constructs a program may use. *)
EXTENDS ScopeInvariant

MCContextTypes == AllKinds \cup {"Global"}

LoopKinds == {"DoWhileStatement", "WhileStatement", "ForStatement",
              "SwitchStatement", "CaseStatement", "Braces"}

LoopAndPulseKinds == LoopKinds \cup PulseKinds
=============================================================================
