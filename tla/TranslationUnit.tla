---------------------------- MODULE TranslationUnit ----------------------------
(***************************************************************************)
(* A process that parses units of OpenQASM one after another: the driver   *)
(* (Driver) and, between the opening of a unit and its parsing, the search *)
(* for the version it is parsed as (VersionScan).  The counters of the     *)
(* diagnostic emitter and the version are static: each unit begins with    *)
(* what the units before it left there.                                    *)
(***************************************************************************)
EXTENDS Driver, VersionScan

unitVars == <<driverVars, versionVars>>

UnitInit == DriverInit /\ VersionInit

Open == OpenUnit /\ BeginScan

(* The files of a unit that cannot be opened are never scanned.            *)
OpenFails == OpenUnitFails /\ UNCHANGED versionVars

(* Lines are looked through for the version line; a malformed one is an    *)
(* error at which the process may end.                                     *)
Scan ==
    /\ pc = "prepare"
    /\ SkipLine \/ OtherLine \/ VersionLine \/ ScanEnds
    /\ UNCHANGED driverVars

ScanMalformed == MalformedLine /\ DiagnoseVersion

(* The preprocessor writes the version it guessed and its passes go well,  *)
(* or they fail.                                                           *)
Preprocess == Guess /\ Prepare

PreprocessFails == stage = "guess" /\ PrepareFails /\ UNCHANGED versionVars

Parse ==
    /\ Diagnose \/ SyntaxError \/ Parsed \/ Conclude \/ ReturnRoot \/ ReturnNull
    /\ UNCHANGED versionVars

Within == Scan \/ ScanMalformed \/ Preprocess \/ PreprocessFails \/ Parse

UnitNext == Open \/ OpenFails \/ Within

(* Nothing in a unit waits for another party, and its text is finite: the  *)
(* one thread goes on until the unit is answered.                          *)
UnitSpec == UnitInit /\ [][UnitNext]_unitVars /\ WF_unitVars(Within)

-----------------------------------------------------------------------------
(* Properties.                                                             *)

(* The parts are typed and in step: lines are looked through while the     *)
(* unit is prepared, and a unit parsed without an error has a version.     *)
UnitTypeOK ==
    /\ DriverTypeOK /\ VersionTypeOK
    /\ pc = "prepare" => stage \in {"scan", "guess"}
    /\ pc = "parsing" => stage = "known"
    /\ pc = "parsing" /\ ~erred => Version # 0

(* Every unit is answered, or the process has ended: neither the search    *)
(* for a version nor an error that the handler returns from keeps it.      *)
EveryUnitReturns == pc # "idle" ~> pc \in {"idle", "exited"}
=============================================================================
