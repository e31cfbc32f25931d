-------------------------------- MODULE Driver --------------------------------
(***************************************************************************)
(* From a translation unit to a result: ParseAST, yyparse and ExecParse,   *)
(* and the diagnostic emitter they report to.  The emitter's counters are  *)
(* static and count for the whole process; a handler decides what a        *)
(* diagnostic does.  The default one ends the process at the error that    *)
(* reaches the limit; the handler of an embedding program returns, and     *)
(* further translation units follow with the counters as they are.         *)
(***************************************************************************)
EXTENDS Naturals

CONSTANTS
    Limits,         \* values of MaxErrors set before the first unit
    Handlers,       \* "default", and "returns" for an embedding program's
    MaxUnits,       \* bound: units given to the process
    MaxDiagnostics  \* bound: diagnostics the parser issues in a unit

ASSUME DriverAssumption ==
    /\ Limits \subseteq Nat \ {0} /\ Handlers \subseteq {"default", "returns"}
    /\ MaxUnits \in Nat /\ MaxDiagnostics \in Nat

VARIABLES
    MaxErrors, Handler,
    ErrCounter, ICECounter,
    pc,         \* idle, prepare, parsing, ended, returning, exited
    R,          \* the result of the Bison parser
    outcome,    \* of the last unit: none, root, null
    InFileOpen, \* the global stream of the translation unit is open
    shown,      \* history: errors and internal errors handed to the handler
    erred,      \* history: an error was issued for this unit
    failures,   \* history: units that returned no root
    diagnosed,  \* diagnostics issued by the parser in this unit
    units

counters == <<ErrCounter, ICECounter, shown>>
driverVars == <<MaxErrors, Handler, counters, pc, R, outcome, InFileOpen, erred,
                failures, diagnosed, units>>

DriverInit ==
    /\ MaxErrors \in Limits /\ Handler \in Handlers
    /\ ErrCounter = 0 /\ ICECounter = 0 /\ shown = [Error |-> 0, ICE |-> 0]
    /\ pc = "idle" /\ R = 0 /\ outcome = "none" /\ InFileOpen = FALSE
    /\ erred = FALSE /\ failures = 0 /\ diagnosed = 0 /\ units = 0

-----------------------------------------------------------------------------
(* EmitDiagnostic and DefaultHandler.                                      *)

ErrorsAfter(level) == ErrCounter + (IF level = "Error" THEN 1 ELSE 0)
ICEsAfter(level) == ICECounter + (IF level = "ICE" THEN 1 ELSE 0)

SuppressedEarly(level) ==       \* mutant: the limit itself is past the limit
    ErrorsAfter(level) >= MaxErrors \/ ICEsAfter(level) > 1
Suppressed(level) == ErrorsAfter(level) > MaxErrors \/ ICEsAfter(level) > 1

ExitsPastLimit(level) == ErrorsAfter(level) > MaxErrors     \* mutant
Exits(level) == ICEsAfter(level) > 0 \/ ErrorsAfter(level) = MaxErrors

(* A diagnostic, after which control goes to "next" - if it comes back.    *)
EmitDiagnostic(level, next) ==
    /\ ErrCounter' = ErrorsAfter(level) /\ ICECounter' = ICEsAfter(level)
    /\ shown' = IF Suppressed(level) \/ level \notin DOMAIN shown THEN shown
                ELSE [shown EXCEPT ![level] = @ + 1]
    /\ pc' = IF Handler = "default" /\ ~Suppressed(level) /\ Exits(level)
             THEN "exited" ELSE next

-----------------------------------------------------------------------------
(* ParseAST, yyparse.                                                      *)

NewUnit ==
    /\ pc = "idle" /\ units < MaxUnits
    /\ units' = units + 1 /\ diagnosed' = 0 /\ R' = 0
    /\ UNCHANGED <<MaxErrors, Handler>>

(* A stream, or a file that can be opened.  A global stream that is still  *)
(* open cannot be opened again.                                            *)
OpenUnit ==
    /\ NewUnit
    /\ \E file \in BOOLEAN :
         /\ file => ~InFileOpen
         /\ InFileOpen' = (file \/ InFileOpen)
    /\ pc' = "prepare" /\ outcome' = "none" /\ erred' = FALSE
    /\ UNCHANGED <<counters, failures>>

OpenUnitFails ==
    /\ NewUnit
    /\ EmitDiagnostic("Error", "idle")
    /\ erred' = TRUE /\ outcome' = "null" /\ failures' = failures + 1
    /\ UNCHANGED InFileOpen

(* The version line and the preprocessor.                                  *)
Prepare ==
    /\ pc = "prepare" /\ pc' = "parsing"
    /\ UNCHANGED <<MaxErrors, Handler, counters, R, outcome, InFileOpen, erred,
                   failures, diagnosed, units>>

PrepareFails ==
    /\ pc = "prepare" /\ R' = 1 /\ erred' = TRUE
    /\ EmitDiagnostic("Error", "returning")
    /\ UNCHANGED <<MaxErrors, Handler, outcome, InFileOpen, failures, diagnosed, units>>

(* A version line that is malformed: an error after which, should it come  *)
(* back, the unit is parsed all the same.                                  *)
DiagnoseVersion ==
    /\ pc = "prepare" /\ erred' = TRUE
    /\ EmitDiagnostic("Error", "prepare")
    /\ UNCHANGED <<MaxErrors, Handler, R, outcome, InFileOpen, failures, diagnosed, units>>

-----------------------------------------------------------------------------
(* ExecParse.                                                              *)

(* A diagnostic of a semantic check, which does not stop the parser.       *)
Diagnose ==
    /\ pc = "parsing" /\ diagnosed < MaxDiagnostics
    /\ \E level \in {"Status", "Warning", "Error", "ICE"} :
         /\ EmitDiagnostic(level, "parsing")
         /\ erred' = (erred \/ level \in {"Error", "ICE"})
    /\ diagnosed' = diagnosed + 1
    /\ UNCHANGED <<MaxErrors, Handler, R, outcome, InFileOpen, failures, units>>

(* Parser::error, after which the parser gives up.                         *)
SyntaxError ==
    /\ pc = "parsing" /\ R' = 1 /\ erred' = TRUE
    /\ EmitDiagnostic("Error", "ended")
    /\ UNCHANGED <<MaxErrors, Handler, outcome, InFileOpen, failures, diagnosed, units>>

Parsed ==
    /\ pc = "parsing" /\ pc' = "ended"
    /\ UNCHANGED <<MaxErrors, Handler, counters, R, outcome, InFileOpen, erred,
                   failures, diagnosed, units>>

HasErrorsNever == FALSE         \* mutant: only the parser's result counts
HasErrors == ErrCounter > 0

ConcludeErrors ==           \* mutant: no way on without an error
    /\ pc = "ended" /\ (R # 0 \/ HasErrors)
    /\ EmitDiagnostic("Error", "returning")
    /\ UNCHANGED <<MaxErrors, Handler, R, outcome, InFileOpen, erred, failures,
                   diagnosed, units>>

Conclude ==
    /\ pc = "ended"
    /\ IF R # 0 \/ HasErrors
       THEN EmitDiagnostic("Error", "returning")
       ELSE pc' = "returning" /\ UNCHANGED counters
    /\ UNCHANGED <<MaxErrors, Handler, R, outcome, InFileOpen, erred, failures,
                   diagnosed, units>>

ReturnRoot ==
    /\ pc = "returning" /\ R = 0
    /\ pc' = "idle" /\ outcome' = "root" /\ InFileOpen' = FALSE
    /\ UNCHANGED <<MaxErrors, Handler, counters, R, erred, failures, diagnosed, units>>

(* The stream of the unit is not closed.                                   *)
ReturnNull ==
    /\ pc = "returning" /\ R # 0
    /\ EmitDiagnostic("Error", "idle")
    /\ outcome' = "null" /\ failures' = failures + 1
    /\ UNCHANGED <<MaxErrors, Handler, R, InFileOpen, erred, diagnosed, units>>

-----------------------------------------------------------------------------
(* Properties.                                                             *)

DriverTypeOK ==
    /\ MaxErrors \in Limits /\ Handler \in Handlers
    /\ ErrCounter \in Nat /\ ICECounter \in Nat
    /\ shown \in [{"Error", "ICE"} -> Nat]
    /\ pc \in {"idle", "prepare", "parsing", "ended", "returning", "exited"}
    /\ R \in {0, 1} /\ outcome \in {"none", "root", "null"}
    /\ InFileOpen \in BOOLEAN /\ erred \in BOOLEAN /\ failures \in Nat
    /\ diagnosed \in Nat /\ units \in Nat

(* No error passes in silence: if any was issued, the handler was called   *)
(* for an error or an internal error at least once.                        *)
FirstErrorShown ==
    ErrCounter + ICECounter > 0 => shown.Error + shown.ICE > 0

(* Errors are withheld only beyond the limit: up to it each one is shown,  *)
(* unless an internal error was withheld before it.                        *)
WithheldBeyondLimit ==
    ICECounter <= 1 =>
        shown.Error = IF ErrCounter <= MaxErrors THEN ErrCounter ELSE MaxErrors

(* With the default handler the process does not outlive the error that    *)
(* reaches the limit, nor an internal error; and it is not ended without.  *)
DefaultHandlerStops ==
    Handler = "default" =>
        (pc = "exited" <=> ErrCounter >= MaxErrors \/ ICECounter > 0)

(* With the default handler and a limit of one or two errors, a root is    *)
(* returned only when no error was ever issued: even an error the parser   *)
(* got over is followed by the one that counts them.                       *)
RootMeansNoError ==
    Handler = "default" /\ MaxErrors <= 2 /\ outcome = "root" => ErrCounter = 0
=============================================================================
