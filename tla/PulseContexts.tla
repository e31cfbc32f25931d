---------------------------- MODULE PulseContexts ----------------------------
(***************************************************************************)
(* Where OpenPulse statements are accepted.  Beside the scopes, three      *)
(* singletons remember with one Boolean each that the parser is inside a   *)
(* cal block or a defcal: the keyword sets it, the production of the whole *)
(* construct clears it.  The productions of play, frame, port, waveform... *)
(* ask these flags (ValidateContext), not the scopes, and so do the look   *)
(* up of symbols and the check that a name may be used where it stands.    *)
(*                                                                         *)
(* The module runs the flags along the scopes and the parser's stack of    *)
(* ScopeProtocol, under the default diagnostic handler, which exits, and   *)
(* in a release build.  Loops and switch touch no flag and are left out.   *)
(***************************************************************************)
EXTENDS ScopeProtocol

ASSUME PulseAssumption ==
    /\ ExitOnError /\ ~AssertionsEnabled
    /\ PulseKinds \subseteq Kinds
    /\ Kinds \subseteq DeclarationKinds \cup
          {"OpenPulseCalibration", "Extern", "Braces", "IfStatement",
           "ElseIfStatement", "ElseStatement", "ForStatement"}

VARIABLES
    flag,           \* CX  ASTOpenPulseCalibrationBuilder, CCS ASTCalContextBuilder
                    \* DCS ASTDefcalContextBuilder,        DBS ASTDefcalBuilder
    nestedClosed,   \* history: a construct inside an open one was closed
    called          \* history: a defcal was called since one was last begun

pulseHistory == <<nestedClosed, called>>
pulseVars == <<vars, flag, nestedClosed, called>>

Closed == [CX |-> FALSE, CCS |-> FALSE, DCS |-> FALSE, DBS |-> FALSE]

PulseInit == Init /\ flag = Closed /\ nestedClosed = FALSE /\ called = FALSE

-----------------------------------------------------------------------------
(* The flags after the keywords and the productions.                       *)

CalOpened == [flag EXCEPT !.CX = TRUE, !.CCS = TRUE]
CalClosedNot == [flag EXCEPT !.CX = FALSE]      \* mutant: CCS stays set
CalClosed == [flag EXCEPT !.CX = FALSE, !.CCS = FALSE]

DefcalOpenedNot == [flag EXCEPT !.DCS = TRUE, !.DBS = TRUE] \* mutant: CX is not
DefcalUnmarked == [flag EXCEPT !.DBS = TRUE, !.CX = TRUE]   \* mutant: DCS is not
DefcalOpened == [flag EXCEPT !.DCS = TRUE, !.DBS = TRUE, !.CX = TRUE]
DefcalClosed == [flag EXCEPT !.DCS = FALSE, !.DBS = FALSE, !.CX = FALSE]

(* ASTOpenPulseCalibrationBuilder::ValidateContext.                        *)
PulseAllowed == flag.CX \/ flag.CCS

(* A name declared in a cal block, and so in the shared calibration scope, *)
(* may be used: else "Not in Calibration or Defcal Context." is reported.  *)
NamesVisible == flag.CCS \/ flag.DCS

InCal == \E i \in 1..Len(open) : open[i].kind = "OpenPulseCalibration"
InDefcal == \E i \in 1..Len(open) : open[i].kind = "Defcal"
InPulse == \E i \in 1..Len(open) : open[i].kind \in PulseKinds

OpenCal == CalKeyword /\ flag' = CalOpened /\ UNCHANGED pulseHistory

OpenDefcal ==
    /\ OpenScope("Defcal") /\ flag' = DefcalOpened
    /\ called' = FALSE /\ UNCHANGED nestedClosed

(* The production of cal validates the flags it then clears.               *)
CloseCal ==
    /\ InnerIs({"OpenPulseCalibration"}, {"reduce"}) /\ PulseAllowed
    /\ Reduce /\ flag' = CalClosed /\ nestedClosed' = InPulse'
    /\ UNCHANGED called

CloseDefcal ==
    /\ InnerIs({"Defcal"}, {"reduce"}) /\ flag.DBS
    /\ Reduce /\ flag' = DefcalClosed /\ nestedClosed' = InPulse'
    /\ UNCHANGED called

(* ValidateContext fails for a pulse statement, or for a whole cal block,  *)
(* or ValidateDefcalContext for a defcal.                                  *)
RejectStatement == AtPulseStatement /\ ~PulseAllowed /\ OtherError

RejectConstruct ==
    /\ \/ InnerIs({"OpenPulseCalibration"}, {"reduce"}) /\ ~PulseAllowed
       \/ InnerIs({"Defcal"}, {"reduce"}) /\ ~flag.DBS
    /\ ReduceError

(* A call whose name resolves to a defcal clears the flag of defcal once   *)
(* it is built, wherever it is, in the body of another defcal too.         *)
DefcalCall ==
    /\ AtStatement
    /\ \E i \in DOMAIN DC : DC[i].CTy = "Defcal" /\ DC[i].SCS = "Dead"
    /\ flag' = [flag EXCEPT !.DCS = FALSE] /\ called' = TRUE
    /\ open' = StatementDone(open)
    /\ UNCHANGED <<ctxVars, matcher, failed, status, nestedClosed>>

OtherKeyword ==
    \/ \E k \in (Kinds \cap OpenedByKeyword) \ {"Defcal"} : OpenScope(k)
    \/ "Extern" \in Kinds /\ ExternKeyword
    \/ Break

OtherReduction ==
    \/ open # <<>> /\ Inner.kind \notin PulseKinds /\ Reduce
    \/ ReduceError
    \/ OtherError

PulseNext ==
    \/ /\ status = "parsing"
       /\ \/ OpenCal \/ OpenDefcal \/ CloseCal \/ CloseDefcal
          \/ DefcalCall
          \/ /\ \/ RejectStatement \/ RejectConstruct
                \/ OtherKeyword \/ Punctuation \/ OtherReduction \/ EndOfInput
             /\ UNCHANGED <<flag, pulseHistory>>
    \/ Terminated /\ UNCHANGED <<flag, pulseHistory>>

PulseSpec == PulseInit /\ [][PulseNext]_pulseVars

-----------------------------------------------------------------------------
(* Properties.                                                             *)

PulseTypeOK ==
    /\ TypeOK
    /\ flag \in [CX : BOOLEAN, CCS : BOOLEAN, DCS : BOOLEAN, DBS : BOOLEAN]
    /\ nestedClosed \in BOOLEAN /\ called \in BOOLEAN

(* "OpenPulse semantics are only allowed within an OpenPulse Calibration   *)
(* context" - and they are allowed throughout it: in the body of a cal or  *)
(* of a defcal a pulse statement is never rejected for its place, nor the  *)
(* construct at its end, whatever came before and whatever it contains,    *)
(* until a construct nested in it is closed.                               *)
PulseAccepted ==
    ~failed /\ ~nestedClosed =>
        /\ InnerIs(PulseKinds, {"body", "reduce"}) => PulseAllowed
        /\ InnerIs({"Defcal"}, {"reduce"}) => flag.DBS

(* Conversely the flags never outlive their construct: outside every cal   *)
(* and defcal a pulse statement is rejected, and symbols are not looked up *)
(* as those of a defcal.                                                   *)
FlagsOnlyInside ==
    ~failed => /\ PulseAllowed => InPulse
               /\ flag.DCS \/ flag.DBS => InDefcal

(* Names declared in cal blocks may be used in every cal block and in      *)
(* every defcal, whatever was parsed before and wherever they stand in it, *)
(* calls of defcals from other places included - in a defcal only until it *)
(* calls a defcal, and again until a nested construct is closed.           *)
CalibrationNamesUsable ==
    ~failed /\ ~nestedClosed /\ (InCal \/ (InDefcal /\ ~called)) => NamesVisible

(* What a program may expect: these names may be used from the beginning   *)
(* to the end of a cal or a defcal, where none is nested in another.  The  *)
(* call of a defcal from a defcal refutes it.                              *)
CalibrationNamesKept == ~failed /\ InPulse => NamesVisible
=============================================================================
