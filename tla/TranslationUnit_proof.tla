------------------------- MODULE TranslationUnit_proof -------------------------
(***************************************************************************)
(* A process that parses units: types, the diagnostics it shows, when it   *)
(* ends, what a returned root means and which version is guessed, for any  *)
(* number of units and of diagnostics, any limit and any text.             *)
(***************************************************************************)
EXTENDS TranslationUnit, WellFoundedInduction, TLAPS

(* Until the version is known an error-free unit has one as soon as the    *)
(* scan has set its default.                                               *)
VersionOnTheWay ==
    pc = "prepare" /\ ~erred /\ (stated \/ stage = "guess") => Version # 0

(* A root is the answer to the last unit until the next is opened, and the *)
(* parser's own result can only let a unit pass whose errors were counted. *)
RootIsAnswer ==
    /\ outcome = "root" => pc = "idle"
    /\ Handler = "default" /\ MaxErrors <= 2 /\ pc = "returning" /\ R = 0 =>
           ErrCounter = 0

-----------------------------------------------------------------------------
(* What a call of the emitter leaves, be it shown, suppressed or the last  *)
(* thing the process does.                                                 *)
Levels == {"Status", "Warning", "Error", "ICE"}
Resumed == {"idle", "prepare", "parsing", "ended", "returning"}

EmitterTypes ==
    /\ MaxErrors \in Nat \ {0} /\ Handler \in {"default", "returns"}
    /\ ErrCounter \in Nat /\ ICECounter \in Nat
    /\ shown \in [{"Error", "ICE"} -> Nat]

EmitterOK ==
    EmitterTypes /\ FirstErrorShown /\ WithheldBeyondLimit /\ DefaultHandlerStops

LEMMA Emitted ==
    ASSUME EmitterOK, pc # "exited", MaxErrors' = MaxErrors, Handler' = Handler,
           NEW level \in Levels, NEW next \in Resumed, EmitDiagnostic(level, next)
    PROVE  /\ EmitterOK'
           /\ pc' \in {"exited", next}
           /\ level = "Error" => ErrCounter' = ErrCounter + 1
           /\ level # "Error" => ErrCounter' = ErrCounter
  <1>1. /\ MaxErrors \in Nat \ {0} /\ Handler \in {"default", "returns"}
        /\ ErrCounter \in Nat /\ ICECounter \in Nat
        /\ shown \in [{"Error", "ICE"} -> Nat] /\ DOMAIN shown = {"Error", "ICE"}
    BY DEF EmitterOK, EmitterTypes
  <1>2. /\ ErrCounter' = IF level = "Error" THEN ErrCounter + 1 ELSE ErrCounter
        /\ ICECounter' = IF level = "ICE" THEN ICECounter + 1 ELSE ICECounter
        /\ shown' = IF ErrCounter' > MaxErrors \/ ICECounter' > 1
                         \/ level \notin {"Error", "ICE"} THEN shown
                    ELSE [shown EXCEPT ![level] = @ + 1]
        /\ pc' = IF /\ Handler = "default"
                    /\ ~(ErrCounter' > MaxErrors \/ ICECounter' > 1)
                    /\ ICECounter' > 0 \/ ErrCounter' = MaxErrors
                 THEN "exited" ELSE next
    BY <1>1 DEF EmitDiagnostic, ErrorsAfter, ICEsAfter, Suppressed, Exits
  <1>3. /\ ErrCounter' \in Nat /\ ICECounter' \in Nat
        /\ shown' \in [{"Error", "ICE"} -> Nat]
        /\ shown'.Error = IF level = "Error" /\ ErrCounter' <= MaxErrors /\ ICECounter' <= 1
                          THEN shown.Error + 1 ELSE shown.Error
        /\ shown'.ICE = IF level = "ICE" /\ ErrCounter' <= MaxErrors /\ ICECounter' <= 1
                        THEN shown.ICE + 1 ELSE shown.ICE
    <2>1. ErrCounter' \in Nat /\ ICECounter' \in Nat
      BY <1>1, <1>2
    <2>2. CASE ErrCounter' > MaxErrors \/ ICECounter' > 1 \/ level \notin {"Error", "ICE"}
      BY <2>1, <2>2, <1>1, <1>2
    <2>3. CASE ~(ErrCounter' > MaxErrors \/ ICECounter' > 1) /\ level = "Error"
      BY <2>1, <2>3, <1>1, <1>2
    <2>4. CASE ~(ErrCounter' > MaxErrors \/ ICECounter' > 1) /\ level = "ICE"
      BY <2>1, <2>4, <1>1, <1>2
    <2> QED BY <2>2, <2>3, <2>4
  <1> DEFINE e == shown.Error
             i == shown.ICE
             e1 == shown'.Error
             i1 == shown'.ICE
  <1>4. e \in Nat /\ i \in Nat /\ e1 \in Nat /\ i1 \in Nat
    BY <1>1, <1>3
  <1>5. /\ ErrCounter + ICECounter > 0 => e + i > 0
        /\ ICECounter <= 1 => e = IF ErrCounter <= MaxErrors THEN ErrCounter ELSE MaxErrors
        /\ Handler = "default" => ErrCounter < MaxErrors /\ ICECounter = 0
    BY <1>1 DEF EmitterOK, FirstErrorShown, WithheldBeyondLimit, DefaultHandlerStops
  <1>6. /\ e1 = IF level = "Error" /\ ErrCounter' <= MaxErrors /\ ICECounter' <= 1
                THEN e + 1 ELSE e
        /\ i1 = IF level = "ICE" /\ ErrCounter' <= MaxErrors /\ ICECounter' <= 1
                THEN i + 1 ELSE i
    BY <1>3
  <1>7. FirstErrorShown'
    <2> SUFFICES ASSUME ErrCounter' + ICECounter' > 0 PROVE e1 + i1 > 0
      BY DEF FirstErrorShown
    <2> HIDE DEF e, i, e1, i1
    <2>1. CASE ErrCounter + ICECounter > 0
      BY <2>1, <1>4, <1>5, <1>6
    <2>2. CASE ~(ErrCounter + ICECounter > 0)
      BY <2>2, <1>1, <1>2, <1>4, <1>6
    <2> QED BY <2>1, <2>2
  <1>8. WithheldBeyondLimit'
    <2> SUFFICES ASSUME ICECounter' <= 1
                 PROVE  e1 = IF ErrCounter' <= MaxErrors THEN ErrCounter' ELSE MaxErrors
      BY DEF WithheldBeyondLimit
    <2> HIDE DEF e, i, e1, i1
    <2> QED BY <1>1, <1>2, <1>3, <1>4, <1>5, <1>6
  <1>9. DefaultHandlerStops'
    BY <1>1, <1>2, <1>3, <1>5 DEF DefaultHandlerStops, Resumed
  <1>10. EmitterTypes'
    BY <1>1, <1>3 DEF EmitterTypes
  <1>11. pc' \in {"exited", next}
    BY <1>2, Zenon
  <1> QED BY <1>1, <1>2, <1>7, <1>8, <1>9, <1>10, <1>11 DEF EmitterOK

(* Nothing of the emitter's changes with a step that does not call it and  *)
(* does not end the process.                                               *)
LEMMA NotEmitted ==
    ASSUME EmitterOK, UNCHANGED <<MaxErrors, Handler, counters>>,
           pc = "exited" <=> pc' = "exited"
    PROVE  EmitterOK'
  BY DEF EmitterOK, EmitterTypes, FirstErrorShown, WithheldBeyondLimit,
         DefaultHandlerStops, counters

-----------------------------------------------------------------------------
(* The driver.                                                             *)
DriverInv ==
    /\ DriverTypeOK
    /\ FirstErrorShown /\ WithheldBeyondLimit /\ DefaultHandlerStops
    /\ RootMeansNoError /\ RootIsAnswer

LEMMA DriverTypes ==
    ASSUME DriverInv
    PROVE  /\ EmitterOK
           /\ MaxErrors \in Nat \ {0} /\ ErrCounter \in Nat /\ units \in Nat
           /\ R \in {0, 1} /\ outcome \in {"none", "root", "null"}
           /\ InFileOpen \in BOOLEAN /\ erred \in BOOLEAN
           /\ failures \in Nat /\ diagnosed \in Nat
  BY DriverAssumption DEF DriverInv, DriverTypeOK, EmitterOK, EmitterTypes

(* The invariant from its parts. *)
LEMMA DriverInvFrom ==
    ASSUME DriverInv, EmitterOK', MaxErrors' = MaxErrors, Handler' = Handler,
           pc' \in Resumed \cup {"exited"}, R' \in {0, 1},
           outcome' \in {"none", "root", "null"}, InFileOpen' \in BOOLEAN,
           erred' \in BOOLEAN, failures' \in Nat, diagnosed' \in Nat, units' \in Nat,
           RootMeansNoError', RootIsAnswer'
    PROVE  DriverInv'
  <1>1. /\ MaxErrors \in Limits /\ Handler \in Handlers
    BY DEF DriverInv, DriverTypeOK
  <1>2. DriverTypeOK'
    BY <1>1 DEF DriverTypeOK, EmitterOK, EmitterTypes, Resumed
  <1> QED BY <1>2 DEF DriverInv, EmitterOK

LEMMA DriverInitInv == DriverInit => DriverInv
  <1> SUFFICES ASSUME DriverInit PROVE DriverInv
    OBVIOUS
  <1>1. MaxErrors \in Nat \ {0} /\ shown.Error = 0 /\ shown.ICE = 0
    BY DriverAssumption DEF DriverInit
  <1>a. shown \in [{"Error", "ICE"} -> Nat]
    <2>1. shown = [Error |-> 0, ICE |-> 0]
      BY DEF DriverInit
    <2> QED BY <2>1
  <1>2. DriverTypeOK
    BY <1>a DEF DriverInit, DriverTypeOK
  <1> QED
    BY <1>1, <1>2 DEF DriverInit, DriverInv, FirstErrorShown,
       WithheldBeyondLimit, DefaultHandlerStops, RootMeansNoError, RootIsAnswer

(* The steps that report nothing. *)
LEMMA QuietSteps ==
    ASSUME DriverInv, OpenUnit \/ Prepare \/ Parsed \/ ReturnRoot \/ UNCHANGED driverVars
    PROVE  DriverInv'
  <1>0. DriverInv /\ EmitterOK
    BY DriverTypes
  <1>a. /\ R \in {0, 1} /\ outcome \in {"none", "root", "null"}
        /\ InFileOpen \in BOOLEAN /\ erred \in BOOLEAN
        /\ failures \in Nat /\ diagnosed \in Nat /\ units \in Nat
        /\ pc \in Resumed \cup {"exited"}
    BY DEF DriverInv, DriverTypeOK, Resumed
  <1>1. CASE OpenUnit
    <2>1. /\ UNCHANGED <<MaxErrors, Handler, counters>> /\ pc = "idle"
          /\ pc' = "prepare" /\ outcome' = "none" /\ erred' = FALSE /\ R' = 0
          /\ InFileOpen' \in BOOLEAN /\ failures' = failures
          /\ diagnosed' \in Nat /\ units' \in Nat
      BY <1>1, <1>a DEF OpenUnit, NewUnit
    <2>2. EmitterOK'
      BY <2>1, <1>0, NotEmitted
    <2>3. RootMeansNoError' /\ RootIsAnswer'
      BY <2>1 DEF RootMeansNoError, RootIsAnswer
    <2> QED BY <2>1, <2>2, <2>3, <1>a, DriverInvFrom DEF Resumed
  <1>2. CASE Prepare \/ Parsed
    <2>1. /\ UNCHANGED <<MaxErrors, Handler, counters>>
          /\ pc \in {"prepare", "parsing"} /\ pc' \in {"parsing", "ended"}
          /\ outcome' = outcome /\ erred' = erred /\ R' = R
          /\ InFileOpen' = InFileOpen /\ failures' = failures
          /\ diagnosed' = diagnosed /\ units' = units
      BY <1>2 DEF Prepare, Parsed
    <2>2. EmitterOK'
      BY <2>1, <1>0, NotEmitted
    <2>3. RootMeansNoError' /\ RootIsAnswer'
      BY <2>1, <1>0 DEF DriverInv, RootMeansNoError, RootIsAnswer
    <2> QED BY <2>1, <2>2, <2>3, <1>a, DriverInvFrom DEF Resumed
  <1>3. CASE ReturnRoot
    <2>1. /\ UNCHANGED <<MaxErrors, Handler, counters>>
          /\ pc = "returning" /\ R = 0 /\ pc' = "idle"
          /\ outcome' = "root" /\ erred' = erred /\ R' = R
          /\ InFileOpen' = FALSE /\ failures' = failures
          /\ diagnosed' = diagnosed /\ units' = units
      BY <1>3 DEF ReturnRoot
    <2>2. EmitterOK'
      BY <2>1, <1>0, NotEmitted
    <2>3. RootMeansNoError' /\ RootIsAnswer'
      BY <2>1, <1>0 DEF DriverInv, RootMeansNoError, RootIsAnswer, counters
    <2> QED BY <2>1, <2>2, <2>3, <1>a, DriverInvFrom DEF Resumed
  <1>4. CASE UNCHANGED driverVars
    BY <1>0, <1>4 DEF driverVars, counters, DriverInv, DriverTypeOK, FirstErrorShown,
       WithheldBeyondLimit, DefaultHandlerStops, RootMeansNoError, RootIsAnswer
  <1> QED BY <1>1, <1>2, <1>3, <1>4

(* The steps that report a diagnostic. *)
LEMMA ReportingSteps ==
    ASSUME DriverInv,
           \/ OpenUnitFails \/ PrepareFails \/ DiagnoseVersion \/ Diagnose
           \/ SyntaxError \/ Conclude \/ ReturnNull
    PROVE  DriverInv'
  <1>0. DriverInv /\ EmitterOK /\ MaxErrors \in Nat \ {0} /\ ErrCounter \in Nat
    BY DriverTypes
  <1>a. /\ R \in {0, 1} /\ outcome \in {"none", "root", "null"}
        /\ InFileOpen \in BOOLEAN /\ erred \in BOOLEAN
        /\ failures \in Nat /\ diagnosed \in Nat /\ units \in Nat
    BY DriverTypes
  <1>b. MaxErrors' = MaxErrors /\ Handler' = Handler
    BY DEF OpenUnitFails, NewUnit, PrepareFails, DiagnoseVersion, Diagnose,
           SyntaxError, Conclude, ReturnNull
  <1>c. \A level \in Levels, next \in Resumed :
           EmitDiagnostic(level, next) /\ pc # "exited" =>
              /\ EmitterOK' /\ pc' \in {"exited", next}
              /\ level = "Error" => ErrCounter' = ErrCounter + 1
              /\ level # "Error" => ErrCounter' = ErrCounter
    BY <1>0, <1>b, Emitted
  <1>d. "Error" \in Levels /\ Resumed \subseteq Resumed \cup {"exited"}
    BY DEF Levels
  <1>1. CASE OpenUnitFails
    <2>1. /\ EmitDiagnostic("Error", "idle") /\ pc = "idle"
          /\ outcome' = "null" /\ erred' = TRUE /\ R' = 0 /\ diagnosed' = 0
          /\ units' = units + 1 /\ failures' = failures + 1
          /\ InFileOpen' = InFileOpen
      BY <1>1 DEF OpenUnitFails, NewUnit
    <2>2. EmitterOK' /\ pc' \in {"exited", "idle"}
      BY <2>1, <1>c, <1>d DEF Resumed
    <2>3. RootMeansNoError' /\ RootIsAnswer'
      BY <2>1, <2>2 DEF RootMeansNoError, RootIsAnswer
    <2> QED BY <2>1, <2>2, <2>3, <1>a, <1>b, DriverInvFrom DEF Resumed
  <1>2. CASE PrepareFails \/ SyntaxError
    <2>1. /\ \E next \in {"returning", "ended"} : EmitDiagnostic("Error", next)
          /\ pc \in {"prepare", "parsing"} /\ R' = 1 /\ erred' = TRUE
          /\ outcome' = outcome /\ InFileOpen' = InFileOpen
          /\ failures' = failures /\ diagnosed' = diagnosed /\ units' = units
      BY <1>2 DEF PrepareFails, SyntaxError
    <2>2. EmitterOK' /\ pc' \in {"exited", "returning", "ended"}
      BY <2>1, <1>c, <1>d DEF Resumed
    <2>3. RootMeansNoError' /\ RootIsAnswer'
      BY <2>1, <1>0 DEF DriverInv, RootMeansNoError, RootIsAnswer
    <2> QED BY <2>1, <2>2, <2>3, <1>a, <1>b, DriverInvFrom DEF Resumed
  <1>3. CASE DiagnoseVersion \/ Diagnose
    <2>1. /\ \E level \in Levels, next \in {"prepare", "parsing"} :
                EmitDiagnostic(level, next)
          /\ pc \in {"prepare", "parsing"} /\ R' = R /\ erred' \in BOOLEAN
          /\ outcome' = outcome /\ InFileOpen' = InFileOpen
          /\ failures' = failures /\ diagnosed' \in Nat /\ units' = units
      <3>1. CASE DiagnoseVersion
        <4>1. EmitDiagnostic("Error", "prepare")
          BY <3>1 DEF DiagnoseVersion
        <4> QED BY <3>1, <4>1, <1>a, <1>d DEF DiagnoseVersion
      <3>2. CASE Diagnose
        <4>1. \E level \in Levels : EmitDiagnostic(level, "parsing")
          BY <3>2, Zenon DEF Diagnose, Levels
        <4>2. /\ pc \in {"prepare", "parsing"} /\ R' = R /\ erred' \in BOOLEAN
              /\ outcome' = outcome /\ InFileOpen' = InFileOpen
              /\ failures' = failures /\ diagnosed' \in Nat /\ units' = units
          BY <3>2, <1>a DEF Diagnose
        <4> QED BY <4>1, <4>2
      <3> QED BY <3>1, <3>2, <1>3
    <2>2. EmitterOK' /\ pc' \in {"exited", "prepare", "parsing"}
      BY <2>1, <1>c DEF Resumed
    <2>3. RootMeansNoError' /\ RootIsAnswer'
      BY <2>1, <2>2, <1>0 DEF DriverInv, RootMeansNoError, RootIsAnswer
    <2> QED BY <2>1, <2>2, <2>3, <1>a, <1>b, DriverInvFrom DEF Resumed
  <1>4. CASE Conclude
    <2>1. /\ pc = "ended" /\ R' = R /\ erred' = erred /\ outcome' = outcome
          /\ InFileOpen' = InFileOpen /\ failures' = failures
          /\ diagnosed' = diagnosed /\ units' = units
          /\ \/ (R # 0 \/ ErrCounter > 0) /\ EmitDiagnostic("Error", "returning")
             \/ R = 0 /\ ErrCounter = 0 /\ pc' = "returning" /\ UNCHANGED counters
      BY <1>4, <1>0 DEF Conclude, HasErrors
    <2>2. outcome # "root"
      BY <2>1, <1>0 DEF DriverInv, RootIsAnswer
    <2>3. CASE (R # 0 \/ ErrCounter > 0) /\ EmitDiagnostic("Error", "returning")
      <3>1. /\ EmitterOK' /\ pc' \in {"exited", "returning"}
            /\ ErrCounter' = ErrCounter + 1
        BY <2>1, <2>3, <1>c, <1>d DEF Resumed
      <3>2. /\ Handler = "default" /\ MaxErrors <= 2 /\ pc' = "returning" /\ R = 0 =>
                  ErrCounter' = 0
        BY <3>1, <2>3, <1>0, <1>b DEF EmitterOK, DefaultHandlerStops
      <3>3. RootMeansNoError' /\ RootIsAnswer'
        BY <3>1, <3>2, <2>1, <2>2, <1>b DEF RootMeansNoError, RootIsAnswer
      <3> QED BY <3>1, <3>3, <2>1, <1>a, <1>b, DriverInvFrom DEF Resumed
    <2>4. CASE R = 0 /\ ErrCounter = 0 /\ pc' = "returning" /\ UNCHANGED counters
      <3>1. EmitterOK'
        BY <2>1, <2>4, <1>0, <1>b, NotEmitted
      <3>2. RootMeansNoError' /\ RootIsAnswer'
        BY <2>1, <2>2, <2>4 DEF RootMeansNoError, RootIsAnswer, counters
      <3> QED BY <3>1, <3>2, <2>1, <2>4, <1>a, <1>b, DriverInvFrom DEF Resumed
    <2> QED BY <2>1, <2>3, <2>4
  <1>5. CASE ReturnNull
    <2>1. /\ EmitDiagnostic("Error", "idle") /\ pc = "returning"
          /\ outcome' = "null" /\ erred' = erred /\ R' = R
          /\ diagnosed' = diagnosed /\ units' = units /\ failures' = failures + 1
          /\ InFileOpen' = InFileOpen
      BY <1>5 DEF ReturnNull
    <2>2. EmitterOK' /\ pc' \in {"exited", "idle"}
      BY <2>1, <1>c, <1>d DEF Resumed
    <2>3. RootMeansNoError' /\ RootIsAnswer'
      BY <2>1, <2>2 DEF RootMeansNoError, RootIsAnswer
    <2> QED BY <2>1, <2>2, <2>3, <1>a, <1>b, DriverInvFrom DEF Resumed
  <1> QED BY <1>1, <1>2, <1>3, <1>4, <1>5

LEMMA DriverStep ==
    ASSUME DriverInv, [UnitNext]_unitVars
    PROVE  DriverInv'
  <1>1. \/ OpenUnit \/ Prepare \/ Parsed \/ ReturnRoot \/ UNCHANGED driverVars
        \/ OpenUnitFails \/ PrepareFails \/ DiagnoseVersion \/ Diagnose
        \/ SyntaxError \/ Conclude \/ ReturnNull
    BY Zenon DEF UnitNext, Open, OpenFails, Within, Scan, ScanMalformed, Preprocess,
       PreprocessFails, Parse, unitVars
  <1> QED BY <1>1, QuietSteps, ReportingSteps

-----------------------------------------------------------------------------
(* The version.                                                            *)
VersionInStep ==
    /\ pc = "prepare" => stage \in {"scan", "guess"}
    /\ pc = "parsing" => stage = "known"
    /\ pc = "parsing" /\ ~erred => Version # 0

VersionInv ==
    VersionTypeOK /\ VersionInStep /\ VersionOnTheWay /\ GuessedVersionTaken

LEMMA FirstIsLeast ==
    ASSUME NEW S \in SUBSET Nat, S # {}
    PROVE  First(S) \in S /\ \A j \in S : First(S) <= j
  <1>1. \E x \in S : \A y \in S : ~ (<<y, x>> \in OpToRel(<, Nat))
    BY NatLessThanWellFounded, WFMin
  <1>2. PICK x \in S : \A y \in S : ~ (<<y, x>> \in OpToRel(<, Nat))
    BY <1>1
  <1>3. ASSUME NEW y \in S PROVE x <= y
    <2>1. ~ (y < x)
      BY <1>2 DEF OpToRel
    <2> QED BY <2>1
  <1>4. \E i \in S : \A j \in S : i <= j
    BY <1>3
  <1> QED BY <1>4, Zenon DEF First

LEMMA UnitTyped ==
    ASSUME VersionTypeOK
    PROVE  /\ unit.lines \in Seq(LineKinds) /\ unit.guess \in {2, 3}
           /\ Len(unit.lines) \in Nat /\ at \in 1 .. (Len(unit.lines) + 1)
           /\ at <= Len(unit.lines) => Line \in LineKinds
  <1>1. unit.lines \in Seq(LineKinds) /\ unit.guess \in {2, 3}
    <2>1. CASE unit \in Units
      <3>1. unit \in [lines : Seq(LineKinds), guess : {2, 3}]
        BY <2>1, UnitsAssumption
      <3> QED BY <3>1
    <2>2. CASE unit = [lines |-> <<>>, guess |-> 3]
      <3>1. <<>> \in Seq(LineKinds)
        OBVIOUS
      <3> QED BY <2>2, <3>1
    <2> QED BY <2>1, <2>2 DEF VersionTypeOK
  <1>2. at \in 1 .. (Len(unit.lines) + 1)
    BY DEF VersionTypeOK
  <1> QED BY <1>1, <1>2 DEF Line

(* In a unit with something besides comments and no version line, the      *)
(* preprocessor guesses.                                                   *)
LEMMA GuessIsMade ==
    ASSUME VersionTypeOK, Outside # {},
           \A i \in 1 .. Len(unit.lines) :
               unit.lines[i] \notin {"v2", "v3", "unended", "bad"}
    PROVE  Guessed
  <1>1. Len(unit.lines) \in Nat
    BY UnitTyped
  <1>2. NoComment \in SUBSET Nat /\ NoComment \subseteq 1 .. Len(unit.lines)
    BY <1>1 DEF NoComment
  <1>3. NoComment # {}
    BY DEF Outside, NoComment
  <1>4. First(NoComment) \in 1 .. Len(unit.lines)
    BY <1>2, <1>3, FirstIsLeast
  <1> QED BY <1>3, <1>4 DEF Guessed

LEMMA VersionKept ==
    ASSUME VersionTypeOK, GuessedVersionTaken, UNCHANGED versionVars
    PROVE  VersionTypeOK' /\ GuessedVersionTaken'
  <1>1. /\ Version' = Version /\ SCCL' = SCCL /\ SCCR' = SCCR /\ stated' = stated
        /\ unit' = unit /\ at' = at /\ stage' = stage
    BY DEF versionVars
  <1>2. VersionTypeOK'
    BY <1>1, Zenon DEF VersionTypeOK
  <1>3. Outside' = Outside
    BY <1>1, Zenon DEF Outside, InC
  <1> QED BY <1>1, <1>2, <1>3, Zenon DEF GuessedVersionTaken

LEMMA ScanTypes ==
    ASSUME VersionTypeOK, stage = "scan",
           SkipLine \/ OtherLine \/ VersionLine \/ ScanEnds \/ MalformedLine
    PROVE  VersionTypeOK' /\ GuessedVersionTaken'
  <1> DEFINE Kept ==
               /\ unit' = unit /\ at' \in {at, at + 1}
               /\ at' = at + 1 => at <= Len(unit.lines)
               /\ stage' \in {"scan", "guess"} /\ Version' \in {Version, 2, 3}
               /\ stated' \in {stated, TRUE}
  <1>0. at \in Nat
    BY UnitTyped
  <1>1. Kept
    <2>1. CASE SkipLine
      BY <2>1, <1>0 DEF SkipLine
    <2>2. CASE OtherLine
      BY <2>2, <1>0 DEF OtherLine, Found
    <2>3. CASE VersionLine
      BY <2>3, <1>0 DEF VersionLine, VersionOf
    <2>4. CASE ScanEnds
      BY <2>4, <1>0 DEF ScanEnds
    <2>5. CASE MalformedLine
      BY <2>5, <1>0 DEF MalformedLine, Found
    <2> QED BY <2>1, <2>2, <2>3, <2>4, <2>5
  <1>2. {SCCL', SCCR'} \subseteq BOOLEAN /\ (SCCR' => SCCL')
    <2>0. SCCL \in BOOLEAN /\ SCCR \in BOOLEAN /\ (SCCR => SCCL)
      BY DEF VersionTypeOK
    <2>1. CASE SkipLine
      <3>1. /\ SCCL' = (SCCL \/ Line \in {"open", "both"})
            /\ SCCR' = (SCCR \/ (SCCL /\ Line \in {"end", "both"}))
        BY <2>1 DEF SkipLine
      <3>2. SCCL' \in BOOLEAN /\ SCCR' \in BOOLEAN
        BY <3>1
      <3>3. SCCR' => SCCL'
        BY <3>1, <2>0, Zenon
      <3> QED BY <3>2, <3>3
    <2>2. CASE OtherLine \/ VersionLine \/ ScanEnds \/ MalformedLine
      <3>1. SCCL' = SCCL /\ SCCR' = SCCR
        BY <2>2 DEF OtherLine, VersionLine, ScanEnds, MalformedLine
      <3> QED BY <3>1, <2>0
    <2> QED BY <2>1, <2>2
  <1>3. /\ Version \in {0, 2, 3} /\ stated \in BOOLEAN
        /\ unit \in Units \cup {[lines |-> <<>>, guess |-> 3]}
        /\ Len(unit.lines) \in Nat /\ at \in 1 .. (Len(unit.lines) + 1)
    BY UnitTyped DEF VersionTypeOK
  <1>4. at' \in 1 .. (Len(unit'.lines) + 1)
    BY <1>1, <1>3
  <1> QED BY <1>1, <1>2, <1>3, <1>4 DEF VersionTypeOK, GuessedVersionTaken

LEMMA VersionStep ==
    ASSUME DriverInv, VersionInv, [UnitNext]_unitVars
    PROVE  VersionInv'
  <1>0. /\ VersionTypeOK /\ VersionInStep /\ VersionOnTheWay /\ GuessedVersionTaken
        /\ erred \in BOOLEAN /\ Version \in {0, 2, 3}
    BY DEF VersionInv, DriverInv, DriverTypeOK, VersionTypeOK
  <1>a. \A level, next : EmitDiagnostic(level, next) => pc' \in {"exited", next}
    BY Zenon DEF EmitDiagnostic
  <1>1. CASE Open
    <2>1. /\ unit' \in Units /\ at' = 1 /\ stated' = FALSE /\ stage' = "scan"
          /\ Version' = Version /\ SCCL' = SCCL /\ SCCR' = SCCR /\ pc' = "prepare"
      BY <1>1 DEF Open, BeginScan, OpenUnit
    <2>2. at' \in 1 .. (Len(unit'.lines) + 1)
      <3>1. unit' \in [lines : Seq(LineKinds), guess : {2, 3}]
        BY <2>1, UnitsAssumption
      <3>2. Len(unit'.lines) \in Nat
        BY <3>1
      <3> QED BY <3>2, <2>1
    <2>3. VersionTypeOK'
      <3>1. {SCCL', SCCR', stated'} \subseteq BOOLEAN /\ (SCCR' => SCCL')
        BY <2>1, <1>0 DEF VersionTypeOK
      <3>2. unit' \in Units \cup {[lines |-> <<>>, guess |-> 3]}
        BY <2>1, Zenon
      <3> QED BY <2>1, <2>2, <3>1, <3>2, <1>0 DEF VersionTypeOK
    <2> QED
      BY <2>1, <2>3 DEF VersionInv, VersionInStep, VersionOnTheWay, GuessedVersionTaken
  <1>2. CASE OpenFails \/ PreprocessFails
    <2>1. UNCHANGED versionVars /\ pc' \in {"exited", "idle", "returning"}
      BY <1>2, <1>a DEF OpenFails, OpenUnitFails, PreprocessFails, PrepareFails
    <2>2. VersionTypeOK' /\ GuessedVersionTaken'
      BY <2>1, <1>0, VersionKept
    <2> QED BY <2>1, <2>2 DEF VersionInv, VersionInStep, VersionOnTheWay
  <1>3. CASE Scan
    <2>1. /\ SkipLine \/ OtherLine \/ VersionLine \/ ScanEnds
          /\ pc = "prepare" /\ pc' = pc /\ erred' = erred
      BY <1>3 DEF Scan, driverVars
    <2>2. stage = "scan" /\ stage' \in {"scan", "guess"}
      BY <2>1 DEF SkipLine, OtherLine, VersionLine, ScanEnds, Found
    <2>3. VersionTypeOK' /\ GuessedVersionTaken'
      BY <2>1, <2>2, <1>0, ScanTypes
    <2>4. VersionOnTheWay'
      BY <2>1, <2>2, <1>0 DEF VersionOnTheWay, SkipLine, OtherLine, VersionLine,
         ScanEnds, VersionOf
    <2> QED BY <2>1, <2>2, <2>3, <2>4 DEF VersionInv, VersionInStep
  <1>4. CASE ScanMalformed
    <2>1. MalformedLine /\ erred' = TRUE /\ pc' \in {"exited", "prepare"}
      BY <1>4, <1>a DEF ScanMalformed, DiagnoseVersion
    <2>2. stage = "scan" /\ stage' \in {"scan", "guess"}
      BY <2>1 DEF MalformedLine, Found
    <2>3. VersionTypeOK' /\ GuessedVersionTaken'
      BY <2>1, <2>2, <1>0, ScanTypes
    <2> QED BY <2>1, <2>2, <2>3 DEF VersionInv, VersionInStep, VersionOnTheWay
  <1>5. CASE Preprocess
    <2>1. /\ stage = "guess" /\ stage' = "known"
          /\ Version' = IF Guessed THEN unit.guess ELSE Version
          /\ SCCL' = SCCL /\ SCCR' = SCCR /\ stated' = stated
          /\ unit' = unit /\ at' = at
          /\ pc = "prepare" /\ pc' = "parsing" /\ erred' = erred
      BY <1>5 DEF Preprocess, Guess, Prepare
    <2>2. unit.guess \in {2, 3}
      BY <1>0, UnitTyped
    <2>3. VersionTypeOK'
      BY <2>1, <2>2, <1>0 DEF VersionTypeOK
    <2>4. GuessedVersionTaken'
      <3>1. Outside' = Outside
        BY <2>1, Zenon DEF Outside, InC
      <3>2. ASSUME Outside # {},
                   \A i \in 1 .. Len(unit.lines) :
                       unit.lines[i] \notin {"v2", "v3", "unended", "bad"}
            PROVE  Version' = unit.guess
        BY <3>2, <2>1, <1>0, GuessIsMade
      <3> QED BY <3>1, <3>2, <2>1 DEF GuessedVersionTaken
    <2> QED BY <2>1, <2>2, <2>3, <2>4, <1>0
        DEF VersionInv, VersionInStep, VersionOnTheWay
  <1>6. CASE Parse
    <2>1. /\ UNCHANGED versionVars /\ pc \in {"parsing", "ended", "returning"}
          /\ pc' = "parsing" => pc = "parsing" /\ (erred => erred')
          /\ pc' # "prepare"
      <3>1. UNCHANGED versionVars
        BY <1>6 DEF Parse
      <3>2. CASE Diagnose
        <4>1. pc = "parsing" /\ (erred => erred')
          BY <3>2 DEF Diagnose
        <4>2. pc' \in {"exited", "parsing"}
          BY <3>2, <1>a DEF Diagnose
        <4> QED BY <3>1, <4>1, <4>2
      <3>3. CASE SyntaxError \/ Parsed \/ Conclude \/ ReturnRoot \/ ReturnNull
        BY <3>1, <3>3, <1>a DEF SyntaxError, Parsed, Conclude, ReturnRoot, ReturnNull
      <3> QED BY <3>2, <3>3, <1>6 DEF Parse
    <2>2. VersionTypeOK' /\ GuessedVersionTaken'
      BY <2>1, <1>0, VersionKept
    <2>3. stage' = stage /\ Version' = Version
      BY <2>1 DEF versionVars
    <2> QED BY <2>1, <2>2, <2>3, <1>0 DEF VersionInv, VersionInStep, VersionOnTheWay
  <1>7. CASE UNCHANGED unitVars
    <2>1. /\ UNCHANGED versionVars /\ pc' = pc /\ erred' = erred
          /\ stage' = stage /\ Version' = Version /\ stated' = stated
      BY <1>7 DEF unitVars, driverVars, versionVars
    <2>2. VersionTypeOK' /\ GuessedVersionTaken'
      BY <2>1, <1>0, VersionKept
    <2> QED BY <2>1, <2>2, <1>0 DEF VersionInv, VersionInStep, VersionOnTheWay
  <1> QED BY <1>1, <1>2, <1>3, <1>4, <1>5, <1>6, <1>7 DEF UnitNext, Within

LEMMA VersionInitInv == UnitInit => VersionInv
  <1> SUFFICES ASSUME UnitInit PROVE VersionInv
    OBVIOUS
  <1>1. /\ Version = 0 /\ SCCL = FALSE /\ SCCR = FALSE /\ stated = FALSE
        /\ unit = [lines |-> <<>>, guess |-> 3] /\ at = 1 /\ stage = "none"
        /\ pc = "idle"
    BY DEF UnitInit, VersionInit, DriverInit
  <1>2. at \in 1 .. (Len(unit.lines) + 1)
    <2>1. Len(unit.lines) = 0
      BY <1>1
    <2> QED BY <2>1, <1>1
  <1>3. VersionTypeOK
    <2>1. {SCCL, SCCR, stated} \subseteq BOOLEAN /\ (SCCR => SCCL)
      BY <1>1
    <2>2. unit \in Units \cup {[lines |-> <<>>, guess |-> 3]}
      BY <1>1, Zenon
    <2> QED BY <1>1, <1>2, <2>1, <2>2 DEF VersionTypeOK
  <1> QED BY <1>1, <1>3 DEF VersionInv, VersionInStep, VersionOnTheWay, GuessedVersionTaken

-----------------------------------------------------------------------------
(* The invariant of the process: what its parts know of each other. *)
THEOREM UnitInvariant == UnitSpec => [](DriverInv /\ VersionInv)
  <1>1. UnitInit => DriverInv /\ VersionInv
    BY DriverInitInv, VersionInitInv DEF UnitInit
  <1>2. DriverInv /\ VersionInv /\ [UnitNext]_unitVars => (DriverInv /\ VersionInv)'
    BY DriverStep, VersionStep
  <1> QED BY <1>1, <1>2, PTL DEF UnitSpec

(* The parts are typed and in step: lines are looked through while the     *)
(* unit is prepared, and a unit parsed without an error has a version.     *)
THEOREM UnitTypes == UnitSpec => []UnitTypeOK
  <1>1. DriverInv /\ VersionInv => UnitTypeOK
    BY DEF DriverInv, VersionInv, VersionInStep, UnitTypeOK
  <1> QED BY <1>1, UnitInvariant, PTL

(* No error passes in silence, whatever levels follow one another over any *)
(* number of units.                                                        *)
THEOREM ErrorsAreShown == UnitSpec => []FirstErrorShown
  <1>1. DriverInv /\ VersionInv => FirstErrorShown
    BY DEF DriverInv
  <1> QED BY <1>1, UnitInvariant, PTL

(* Up to the limit each error is shown; what is withheld is beyond it.     *)
THEOREM ErrorsAreCounted == UnitSpec => []WithheldBeyondLimit
  <1>1. DriverInv /\ VersionInv => WithheldBeyondLimit
    BY DEF DriverInv
  <1> QED BY <1>1, UnitInvariant, PTL

(* With the default handler the process ends with the error that reaches   *)
(* the limit or an internal error, and with nothing else.                  *)
THEOREM ProcessEndsAtLimit == UnitSpec => []DefaultHandlerStops
  <1>1. DriverInv /\ VersionInv => DefaultHandlerStops
    BY DEF DriverInv
  <1> QED BY <1>1, UnitInvariant, PTL

(* With the default handler and a limit of one or two, a unit that returns *)
(* a root is one of a process that never issued an error.                  *)
THEOREM RootWithoutErrors == UnitSpec => []RootMeansNoError
  <1>1. DriverInv /\ VersionInv => RootMeansNoError
    BY DEF DriverInv
  <1> QED BY <1>1, UnitInvariant, PTL

(* A unit without a version line, whatever its lines, and whatever units   *)
(* were before it, is parsed as the version guessed from its registers.    *)
THEOREM GuessTakesEffect == UnitSpec => []GuessedVersionTaken
  <1>1. DriverInv /\ VersionInv => GuessedVersionTaken
    BY DEF VersionInv
  <1> QED BY <1>1, UnitInvariant, PTL

-----------------------------------------------------------------------------
(* Units whose comments are below their first line, and take several lines *)
(* each: the scan and the preprocessor agree on what is a comment.         *)
CommentsBelow ==
    \A u \in Units : \A i \in 1 .. Len(u.lines) :
        /\ u.lines[i] # "both"
        /\ u.lines[i] = "open" =>
              /\ \E j \in 1 .. (i - 1) : u.lines[j] \notin {"empty", "slashes", "open"}
              /\ \E k \in (i + 1) .. Len(u.lines) : u.lines[k] = "end"

(* A comment that has been opened and not closed is one of this unit, in   *)
(* which the scan still is; a version line that comes first is not passed  *)
(* by, and taken.                                                          *)
Declared == NoComment # {} /\ unit.lines[First(NoComment)] \in {"v2", "v3"}

ScanInv ==
    /\ unit.lines # <<>> => unit \in Units
    /\ stage = "scan" => pc \in {"prepare", "exited"}
    /\ SCCL /\ ~SCCR => stage = "scan" /\ InC(at - 1)
    /\ Declared /\ stage = "scan" => at <= First(NoComment)
    /\ Declared /\ stage \in {"guess", "known"} =>
           Version = VersionOf(unit.lines[First(NoComment)])

(* The first line that is no comment to the preprocessor. *)
LEMMA FirstLine ==
    ASSUME VersionTypeOK, NoComment # {}
    PROVE  /\ First(NoComment) \in 1 .. Len(unit.lines)
           /\ First(NoComment) \in NoComment
           /\ Len(unit.lines) \in Nat
           /\ \A i \in 1 .. (First(NoComment) - 1) : unit.lines[i] \in {"empty", "slashes"}
           /\ \A i \in 0 .. (First(NoComment) - 1) : ~InC(i)
  <1>1. Len(unit.lines) \in Nat
    BY UnitTyped
  <1>2. NoComment \in SUBSET Nat /\ NoComment \subseteq 1 .. Len(unit.lines)
    BY <1>1 DEF NoComment
  <1> DEFINE f == First(NoComment)
  <1>3. f \in NoComment /\ \A j \in NoComment : f <= j
    BY <1>2, FirstIsLeast
  <1>4. f \in 1 .. Len(unit.lines)
    BY <1>2, <1>3
  <1> HIDE DEF f
  <1>5. ASSUME NEW i \in 1 .. (f - 1) PROVE unit.lines[i] \in {"empty", "slashes"}
    <2>1. i \in 1 .. Len(unit.lines) /\ ~(f <= i)
      BY <1>1, <1>4
    <2> QED BY <2>1, <1>3 DEF NoComment
  <1>6. ASSUME NEW i \in 0 .. (f - 1), InC(i) PROVE FALSE
    <2>1. PICK j \in 1 .. i : unit.lines[j] = "open"
      BY <1>6 DEF InC
    <2>2. j \in 1 .. (f - 1)
      BY <1>4
    <2> QED BY <2>1, <2>2, <1>5
  <1> QED BY <1>1, <1>3, <1>4, <1>5, <1>6 DEF f

(* It is the first line outside of comments, too. *)
LEMMA FirstsAgree ==
    ASSUME CommentsBelow, VersionTypeOK, ScanInv, Outside # {}
    PROVE  NoComment # {} /\ First(Outside) = First(NoComment)
  <1>1. Len(unit.lines) \in Nat
    BY UnitTyped
  <1>2. NoComment # {} /\ Outside \subseteq NoComment
    BY DEF Outside, NoComment
  <1>3. unit \in Units
    BY <1>1, <1>2 DEF NoComment, ScanInv
  <1> DEFINE f == First(NoComment)
  <1>4. /\ f \in 1 .. Len(unit.lines) /\ f \in NoComment
        /\ \A i \in 1 .. (f - 1) : unit.lines[i] \in {"empty", "slashes"}
        /\ \A i \in 0 .. (f - 1) : ~InC(i)
    BY <1>2, FirstLine
  <1> HIDE DEF f
  <1>5. unit.lines[f] \notin {"open", "both"}
    BY <1>3, <1>4 DEF CommentsBelow
  <1>6. f - 1 \in 0 .. (f - 1)
    BY <1>4
  <1>7. f \in Outside
    BY <1>4, <1>5, <1>6 DEF Outside, NoComment
  <1>8. Outside \in SUBSET Nat /\ NoComment \in SUBSET Nat
    BY <1>1 DEF Outside, NoComment
  <1>9. First(Outside) \in Outside /\ First(Outside) <= f
    BY <1>7, <1>8, FirstIsLeast
  <1>10. f <= First(Outside)
    BY <1>2, <1>8, <1>9, FirstIsLeast DEF f
  <1>11. f \in Nat /\ First(Outside) \in Nat
    BY <1>4, <1>8, <1>9
  <1> QED BY <1>2, <1>9, <1>10, <1>11 DEF f

(* The state of the comment flags after a line that was skipped. *)
LEMMA SkippedComments ==
    ASSUME CommentsBelow, VersionTypeOK, ScanInv, SkipLine, SCCL' /\ ~SCCR'
    PROVE  InC(at)
  <1>1. /\ at \in 1 .. Len(unit.lines) /\ Skipped
        /\ SCCL \/ Line \in {"open", "both"}
        /\ ~SCCR /\ ~(SCCL /\ Line \in {"end", "both"})
    <2>1. at \in 1 .. (Len(unit.lines) + 1) /\ Len(unit.lines) \in Nat
      BY UnitTyped
    <2>2. /\ SCCL' = (SCCL \/ Line \in {"open", "both"})
          /\ SCCR' = (SCCR \/ (SCCL /\ Line \in {"end", "both"}))
      BY DEF SkipLine
    <2>3. /\ SCCL \/ Line \in {"open", "both"}
          /\ ~SCCR /\ ~(SCCL /\ Line \in {"end", "both"})
      BY <2>2, Zenon
    <2>4. at <= Len(unit.lines) /\ Skipped
      BY DEF SkipLine
    <2> QED BY <2>1, <2>3, <2>4
  <1>2. unit \in Units
    <2>1. Len(unit.lines) \in Nat /\ Len(unit.lines) # 0
      BY <1>1, UnitTyped
    <2>2. unit.lines # <<>>
      BY <2>1
    <2> QED BY <2>2 DEF ScanInv
  <1>3. CASE Line = "open"
    BY <1>1, <1>3 DEF InC, Line
  <1>4. CASE Line # "open"
    <2>1. SCCL /\ unit.lines[at] \notin {"end", "both"}
      BY <1>1, <1>2, <1>4 DEF CommentsBelow, Line
    <2>2. InC(at - 1)
      BY <2>1, <1>1 DEF ScanInv
    <2>3. PICK j \in 1 .. (at - 1) :
             /\ unit.lines[j] = "open"
             /\ \A k \in (j + 1) .. (at - 1) : unit.lines[k] \notin {"end", "both"}
      BY <2>2 DEF InC
    <2>4. j \in 1 .. at
      BY <1>1
    <2>5. ASSUME NEW k \in (j + 1) .. at PROVE unit.lines[k] \notin {"end", "both"}
      <3>1. k = at \/ k \in (j + 1) .. (at - 1)
        BY <1>1
      <3> QED BY <3>1, <2>1, <2>3
    <2> QED BY <2>3, <2>4, <2>5 DEF InC
  <1> QED BY <1>3, <1>4

(* At its end a unit is in no comment. *)
LEMMA CommentsClosed ==
    ASSUME CommentsBelow, VersionTypeOK, unit \in Units
    PROVE  ~InC(Len(unit.lines))
  <1> SUFFICES ASSUME InC(Len(unit.lines)) PROVE FALSE
    OBVIOUS
  <1>1. PICK j \in 1 .. Len(unit.lines) :
           /\ unit.lines[j] = "open"
           /\ \A k \in (j + 1) .. Len(unit.lines) : unit.lines[k] \notin {"end", "both"}
    BY DEF InC
  <1> QED BY <1>1 DEF CommentsBelow

LEMMA ScanInvStep ==
    ASSUME CommentsBelow, DriverInv, VersionInv, ScanInv, [UnitNext]_unitVars
    PROVE  ScanInv'
  <1>0. /\ VersionTypeOK /\ VersionInStep
        /\ Len(unit.lines) \in Nat /\ at \in 1 .. (Len(unit.lines) + 1)
        /\ SCCL \in BOOLEAN /\ SCCR \in BOOLEAN
    BY UnitTyped DEF VersionInv, VersionTypeOK
  <1>a. \A level, next : EmitDiagnostic(level, next) => pc' \in {"exited", next}
    BY Zenon DEF EmitDiagnostic
  <1>b. ASSUME unit' = unit
        PROVE  /\ NoComment' = NoComment /\ (Declared' <=> Declared)
               /\ First(NoComment)' = First(NoComment)
               /\ VersionOf(unit.lines[First(NoComment)])' =
                      VersionOf(unit.lines[First(NoComment)])
    <2>1. NoComment' = NoComment
      BY <1>b, Zenon DEF NoComment
    <2> QED BY <2>1, <1>b, Zenon DEF Declared
  <1>c. ASSUME Declared
        PROVE  /\ First(NoComment) \in 1 .. Len(unit.lines)
               /\ unit.lines[First(NoComment)] \in {"v2", "v3"}
               /\ \A i \in 1 .. (First(NoComment) - 1) :
                      unit.lines[i] \in {"empty", "slashes"}
               /\ \A i \in 0 .. (First(NoComment) - 1) : ~InC(i)
    BY <1>0, <1>c, FirstLine DEF Declared
  <1>1. CASE Open
    <2>1. /\ unit' \in Units /\ at' = 1 /\ stage' = "scan" /\ pc = "idle"
          /\ SCCL' = SCCL /\ SCCR' = SCCR /\ pc' = "prepare"
      BY <1>1 DEF Open, BeginScan, OpenUnit, NewUnit
    <2>2. ~(SCCL /\ ~SCCR)
      BY <2>1 DEF ScanInv
    <2>3. Declared' => 1 <= First(NoComment)'
      <3>1. VersionTypeOK'
        BY VersionStep DEF VersionInv
      <3>2. ASSUME Declared' PROVE First(NoComment)' \in 1 .. Len(unit.lines)'
        <4>1. NoComment' # {} /\ Len(unit'.lines) \in Nat
          <5>1. unit' \in [lines : Seq(LineKinds), guess : {2, 3}]
            BY <2>1, UnitsAssumption
          <5> QED BY <5>1, <3>2 DEF Declared
        <4>2. NoComment' \in SUBSET Nat /\ NoComment' \subseteq 1 .. Len(unit'.lines)
          BY <4>1 DEF NoComment
        <4>3. First(NoComment') \in NoComment'
          BY <4>1, <4>2, FirstIsLeast
        <4> QED BY <4>2, <4>3 DEF First
      <3> QED BY <3>2
    <2> QED BY <2>1, <2>2, <2>3 DEF ScanInv
  <1>2. CASE OpenFails \/ PreprocessFails \/ Parse \/ UNCHANGED unitVars
    <2>1. /\ unit' = unit /\ at' = at /\ stage' = stage /\ Version' = Version
          /\ SCCL' = SCCL /\ SCCR' = SCCR
      BY <1>2 DEF OpenFails, PreprocessFails, Parse, unitVars, versionVars
    <2>2. stage = "scan" => pc' \in {"prepare", "exited"}
      <3>1. CASE OpenFails
        BY <3>1 DEF OpenFails, OpenUnitFails, NewUnit, ScanInv
      <3>2. CASE PreprocessFails
        BY <3>2 DEF PreprocessFails
      <3>3. CASE Parse
        <4>1. pc \in {"parsing", "ended", "returning"}
          BY <3>3 DEF Parse, Diagnose, SyntaxError, Parsed, Conclude, ReturnRoot, ReturnNull
        <4> QED BY <4>1 DEF ScanInv
      <3>4. CASE UNCHANGED unitVars
        BY <3>4 DEF unitVars, driverVars, ScanInv
      <3> QED BY <1>2, <3>1, <3>2, <3>3, <3>4
    <2>3. InC(at - 1)' <=> InC(at - 1)
      BY <2>1, Zenon DEF InC
    <2> QED BY <2>1, <2>2, <2>3, <1>b DEF ScanInv
  <1>3. CASE Scan /\ SkipLine
    <2>1. /\ unit' = unit /\ at' = at + 1 /\ stage = "scan" /\ stage' = "scan"
          /\ pc' = "prepare" /\ at <= Len(unit.lines) /\ Skipped
      BY <1>3 DEF Scan, SkipLine, driverVars
    <2>2. SCCL' /\ ~SCCR' => InC(at - 1)'
      <3>1. ASSUME SCCL' /\ ~SCCR' PROVE InC(at)
        BY <3>1, <1>0, <1>3, SkippedComments
      <3>2. at' - 1 = at
        BY <2>1, <1>0
      <3>3. InC(at - 1)' <=> InC(at)
        BY <2>1, <3>2, Zenon DEF InC
      <3> QED BY <3>1, <3>3
    <2>3. Declared => at + 1 <= First(NoComment)
      <3> SUFFICES ASSUME Declared PROVE at + 1 <= First(NoComment)
        OBVIOUS
      <3> DEFINE f == First(NoComment)
      <3>1. at <= f /\ f \in 1 .. Len(unit.lines)
        BY <2>1, <1>c DEF ScanInv
      <3>2. at # f
        <4> SUFFICES ASSUME at = f PROVE FALSE
          OBVIOUS
        <4>1. Line \in {"v2", "v3"}
          BY <1>c DEF Line
        <4>2. ~InC(at - 1)
          <5>1. f - 1 \in 0 .. (f - 1)
            BY <3>1
          <5> QED BY <5>1, <1>c
        <4>3. ~(SCCL /\ ~SCCR)
          BY <4>2 DEF ScanInv
        <4> QED BY <4>1, <4>3, <2>1 DEF Skipped
      <3> HIDE DEF f
      <3>3. at + 1 <= f
        BY <3>1, <3>2, <1>0
      <3> QED BY <3>3 DEF f
    <2> QED BY <2>1, <2>2, <2>3, <1>b DEF ScanInv
  <1>4. CASE Scan /\ ScanEnds
    <2>1. /\ unit' = unit /\ at' = at /\ stage = "scan" /\ stage' = "guess"
          /\ SCCL' = SCCL /\ SCCR' = SCCR /\ at > Len(unit.lines)
      BY <1>4 DEF ScanEnds
    <2>2. ~(SCCL /\ ~SCCR)
      <3> SUFFICES ASSUME SCCL /\ ~SCCR PROVE FALSE
        OBVIOUS
      <3>1. InC(at - 1) /\ at - 1 = Len(unit.lines)
        BY <2>1, <1>0 DEF ScanInv
      <3>2. unit.lines # <<>>
        BY <3>1, <1>0 DEF InC
      <3> QED BY <3>1, <3>2, <1>0, CommentsClosed DEF ScanInv
    <2>3. ~Declared
      BY <2>1, <1>0, <1>c DEF ScanInv
    <2> QED BY <2>1, <2>2, <2>3, <1>b DEF ScanInv
  <1>5. CASE (Scan /\ (OtherLine \/ VersionLine)) \/ ScanMalformed
    <2>1. /\ unit' = unit /\ stage = "scan" /\ stage' \in {"scan", "guess"}
          /\ SCCL' = SCCL /\ SCCR' = SCCR /\ at <= Len(unit.lines) /\ ~Skipped
          /\ OtherLine \/ VersionLine \/ MalformedLine
      BY <1>5 DEF OtherLine, VersionLine, ScanMalformed, MalformedLine, Found
    <2>2. ~(SCCL /\ ~SCCR) /\ Line \notin {"empty", "slashes"}
      BY <2>1 DEF Skipped
    <2>3. pc' \in {"prepare", "exited"}
      <3>1. CASE ScanMalformed
        BY <3>1, <1>a DEF ScanMalformed, DiagnoseVersion
      <3>2. CASE Scan
        BY <3>2 DEF Scan, driverVars
      <3> QED BY <3>1, <3>2, <1>5
    <2>4. ASSUME Declared
          PROVE  /\ stage' = "guess" /\ Version' = VersionOf(unit.lines[First(NoComment)])
      <3>1. /\ at <= First(NoComment) /\ First(NoComment) \in 1 .. Len(unit.lines)
        BY <2>1, <2>4, <1>c DEF ScanInv
      <3>2. at = First(NoComment)
        <4>1. at \notin 1 .. (First(NoComment) - 1)
          BY <2>2, <2>4, <1>c DEF Line
        <4> QED BY <4>1, <3>1, <1>0
      <3>3. Line \in {"v2", "v3"} /\ Line = unit.lines[First(NoComment)]
        BY <3>2, <2>4, <1>c DEF Line
      <3>4. VersionLine
        BY <3>3, <2>1 DEF OtherLine, MalformedLine
      <3> QED BY <3>3, <3>4 DEF VersionLine
    <2> QED BY <2>1, <2>2, <2>3, <2>4, <1>b DEF ScanInv
  <1>6. CASE Preprocess
    <2>1. /\ unit' = unit /\ at' = at /\ stage = "guess" /\ stage' = "known"
          /\ SCCL' = SCCL /\ SCCR' = SCCR
          /\ Version' = IF Guessed THEN unit.guess ELSE Version
      BY <1>6 DEF Preprocess, Guess
    <2>2. ~(SCCL /\ ~SCCR)
      BY <2>1 DEF ScanInv
    <2>3. Declared => ~Guessed
      BY DEF Declared, Guessed
    <2> QED BY <2>1, <2>2, <2>3, <1>b DEF ScanInv
  <1> QED BY <1>1, <1>2, <1>3, <1>4, <1>5, <1>6 DEF UnitNext, Within, Scan

(* "The OPENQASM directive must be the first non-comment line": a unit     *)
(* whose first such line is a version line is parsed as that version,      *)
(* whatever follows, and whatever the units before left in the statics -   *)
(* provided that block comments come below it and are closed.              *)
THEOREM DeclarationTakesEffect ==
    ASSUME CommentsBelow
    PROVE  UnitSpec => []DeclaredVersionTaken
  <1>1. UnitInit => ScanInv
    <2> SUFFICES ASSUME UnitInit PROVE ScanInv
      OBVIOUS
    <2>1. unit.lines = <<>> /\ stage = "none" /\ SCCL = FALSE
      BY DEF UnitInit, VersionInit
    <2> QED BY <2>1 DEF ScanInv
  <1>2. DriverInv /\ VersionInv /\ ScanInv /\ [UnitNext]_unitVars => ScanInv'
    BY ScanInvStep
  <1>3. DriverInv /\ VersionInv /\ ScanInv => DeclaredVersionTaken
    BY FirstsAgree DEF VersionInv, DeclaredVersionTaken, ScanInv, Declared
  <1> QED BY <1>1, <1>2, <1>3, UnitInvariant, PTL DEF UnitSpec

-----------------------------------------------------------------------------
(* That a unit comes to an end.  What is left of it: lines to look through *)
(* and the end of the search, diagnostics, and the steps of the driver.    *)
LinesLeft == (Len(unit.lines) + 1 - at) + (IF stage = "scan" THEN 1 ELSE 0)
DiagnosticsLeft == MaxDiagnostics - diagnosed

StepsLeft ==
    CASE pc = "prepare"   -> LinesLeft + DiagnosticsLeft + 4
      [] pc = "parsing"   -> DiagnosticsLeft + 3
      [] pc = "ended"     -> 2
      [] pc = "returning" -> 1
      [] OTHER            -> 0

DiagnosedBound == diagnosed <= MaxDiagnostics

LEMMA DiagnosedStep ==
    ASSUME DriverInv, DiagnosedBound, [UnitNext]_unitVars
    PROVE  DiagnosedBound'
  <1>0. MaxDiagnostics \in Nat /\ diagnosed \in Nat
    BY DriverAssumption, DriverTypes
  <1>1. CASE Open \/ OpenFails
    <2>1. diagnosed' = 0
      BY <1>1 DEF Open, OpenFails, OpenUnit, OpenUnitFails, NewUnit
    <2> QED BY <2>1, <1>0 DEF DiagnosedBound
  <1>2. CASE Diagnose
    <2>1. diagnosed < MaxDiagnostics /\ diagnosed' = diagnosed + 1
      BY <1>2 DEF Diagnose
    <2> QED BY <2>1, <1>0 DEF DiagnosedBound
  <1>3. CASE (Within /\ ~Diagnose) \/ UNCHANGED unitVars
    <2>1. diagnosed' = diagnosed
      BY <1>3, Zenon DEF Within, Scan, ScanMalformed, DiagnoseVersion, Preprocess,
         Prepare, PreprocessFails, PrepareFails, Parse, SyntaxError, Parsed,
         Conclude, ReturnRoot, ReturnNull, unitVars, driverVars
    <2> QED BY <2>1 DEF DiagnosedBound
  <1> QED BY <1>1, <1>2, <1>3 DEF UnitNext

(* What is left is counted by a natural number, which is zero only when    *)
(* there is nothing left to do.                                            *)
LEMMA LeftIsCounted ==
    ASSUME DriverInv, VersionInv, DiagnosedBound
    PROVE  /\ LinesLeft \in Nat /\ DiagnosticsLeft \in Nat /\ StepsLeft \in Nat
           /\ StepsLeft = 0 <=> pc \in {"idle", "exited"}
  <1>1. LinesLeft \in Nat
    <2>1. Len(unit.lines) \in Nat /\ at \in 1 .. (Len(unit.lines) + 1)
      BY UnitTyped DEF VersionInv
    <2>2. PICK n \in Nat : n = Len(unit.lines)
      BY <2>1
    <2>3. at \in Nat /\ n + 1 - at \in Nat
      BY <2>1, <2>2
    <2>4. LinesLeft = (n + 1 - at) + (IF stage = "scan" THEN 1 ELSE 0)
      BY <2>2, Zenon DEF LinesLeft
    <2> QED BY <2>3, <2>4
  <1>2. DiagnosticsLeft \in Nat
    BY DriverAssumption, DriverTypes DEF DiagnosedBound, DiagnosticsLeft
  <1>3. pc \in {"idle", "prepare", "parsing", "ended", "returning", "exited"}
    BY DEF DriverInv, DriverTypeOK
  <1> HIDE DEF LinesLeft, DiagnosticsLeft
  <1>4. StepsLeft \in Nat /\ (StepsLeft = 0 <=> pc \in {"idle", "exited"})
    BY <1>1, <1>2, <1>3 DEF StepsLeft
  <1> QED BY <1>1, <1>2, <1>4

(* A step of the search has one line, or the search itself, less to go.    *)
LEMMA ScanGoesDown ==
    ASSUME VersionTypeOK,
           SkipLine \/ OtherLine \/ VersionLine \/ ScanEnds \/ MalformedLine
    PROVE  LinesLeft' = LinesLeft - 1
  <1>1. Len(unit.lines) \in Nat /\ at \in Nat /\ stage = "scan" /\ unit' = unit
    BY UnitTyped DEF SkipLine, OtherLine, VersionLine, ScanEnds, MalformedLine, Found
  <1>2. \/ at' = at + 1 /\ stage' = "scan"
        \/ at' = at /\ stage' = "guess"
    <2>1. CASE SkipLine
      BY <2>1 DEF SkipLine
    <2>2. CASE OtherLine
      BY <2>2 DEF OtherLine, Found
    <2>3. CASE VersionLine
      BY <2>3 DEF VersionLine
    <2>4. CASE ScanEnds
      BY <2>4 DEF ScanEnds
    <2>5. CASE MalformedLine
      BY <2>5 DEF MalformedLine, Found
    <2> QED BY <2>1, <2>2, <2>3, <2>4, <2>5
  <1> QED BY <1>1, <1>2 DEF LinesLeft

LEMMA UnitGoesDown ==
    ASSUME DriverInv, VersionInv, DiagnosedBound,
           DriverInv', VersionInv', DiagnosedBound', Within
    PROVE  StepsLeft' < StepsLeft
  <1>0. /\ VersionTypeOK /\ diagnosed \in Nat /\ MaxDiagnostics \in Nat
        /\ LinesLeft \in Nat /\ DiagnosticsLeft \in Nat /\ DiagnosticsLeft' \in Nat
    <2>1. diagnosed' \in Nat /\ diagnosed' <= MaxDiagnostics
      BY DEF DriverInv, DriverTypeOK, DiagnosedBound
    <2>2. MaxDiagnostics \in Nat /\ diagnosed \in Nat
      BY DriverAssumption, DriverTypes
    <2>3. DiagnosticsLeft' \in Nat
      <3>0. \A a, b \in Nat : b <= a => a - b \in Nat
        OBVIOUS
      <3>1. MaxDiagnostics - diagnosed' \in Nat
        BY <2>1, <2>2, <3>0, Zenon
      <3>2. DiagnosticsLeft' = MaxDiagnostics - diagnosed'
        BY DEF DiagnosticsLeft
      <3> QED BY <3>1, <3>2, Zenon
    <2>4. LinesLeft \in Nat /\ DiagnosticsLeft \in Nat
      BY LeftIsCounted
    <2> QED BY <2>2, <2>3, <2>4 DEF VersionInv
  <1>a. \A level, next : EmitDiagnostic(level, next) => pc' \in {"exited", next}
    BY Zenon DEF EmitDiagnostic
  <1>b. diagnosed' = diagnosed => DiagnosticsLeft' = DiagnosticsLeft
    BY DEF DiagnosticsLeft
  <1>1. CASE Scan
    <2>1. pc = "prepare" /\ pc' = "prepare" /\ diagnosed' = diagnosed
      BY <1>1 DEF Scan, driverVars
    <2>2. LinesLeft' = LinesLeft - 1
      BY <1>0, <1>1, ScanGoesDown DEF Scan
    <2> HIDE DEF LinesLeft, DiagnosticsLeft
    <2> QED BY <2>1, <2>2, <1>0, <1>b DEF StepsLeft
  <1>2. CASE ScanMalformed
    <2>1. pc = "prepare" /\ pc' \in {"exited", "prepare"} /\ diagnosed' = diagnosed
      BY <1>2, <1>a DEF ScanMalformed, DiagnoseVersion
    <2>2. LinesLeft' = LinesLeft - 1
      BY <1>0, <1>2, ScanGoesDown DEF ScanMalformed
    <2> HIDE DEF LinesLeft, DiagnosticsLeft
    <2> QED BY <2>1, <2>2, <1>0, <1>b DEF StepsLeft
  <1>3. CASE Preprocess \/ PreprocessFails
    <2>1. pc = "prepare" /\ pc' \in {"exited", "parsing", "returning"}
          /\ diagnosed' = diagnosed
      BY <1>3, <1>a DEF Preprocess, Prepare, PreprocessFails, PrepareFails
    <2> HIDE DEF LinesLeft, DiagnosticsLeft
    <2> QED BY <2>1, <1>0, <1>b DEF StepsLeft
  <1>4. CASE Diagnose
    <2>1. /\ pc = "parsing" /\ pc' \in {"exited", "parsing"}
          /\ diagnosed' = diagnosed + 1
      BY <1>4, <1>a DEF Diagnose
    <2>2. DiagnosticsLeft' = DiagnosticsLeft - 1
      BY <2>1, <1>0 DEF DiagnosticsLeft
    <2> HIDE DEF LinesLeft, DiagnosticsLeft
    <2> QED BY <2>1, <2>2, <1>0 DEF StepsLeft
  <1>5. CASE SyntaxError \/ Parsed
    <2>1. pc = "parsing" /\ pc' \in {"exited", "ended"}
      BY <1>5, <1>a DEF SyntaxError, Parsed
    <2> HIDE DEF LinesLeft, DiagnosticsLeft
    <2> QED BY <2>1, <1>0 DEF StepsLeft
  <1>6. CASE Conclude
    <2>1. pc = "ended" /\ pc' \in {"exited", "returning"}
      BY <1>6, <1>a DEF Conclude
    <2> QED BY <2>1 DEF StepsLeft
  <1>7. CASE ReturnRoot \/ ReturnNull
    <2>1. pc = "returning" /\ pc' \in {"exited", "idle"}
      BY <1>7, <1>a DEF ReturnRoot, ReturnNull
    <2> QED BY <2>1 DEF StepsLeft
  <1> QED BY <1>1, <1>2, <1>3, <1>4, <1>5, <1>6, <1>7 DEF Within, Parse

(* Each step of a unit leaves fewer to take, down to none when the unit is *)
(* answered or the process has ended: neither an error the handler returns *)
(* from nor a line of the search keeps it.  With fairness and a step that  *)
(* can be taken, EveryUnitReturns.                                         *)
UnitNearsItsEnd ==
    /\ [](StepsLeft \in Nat /\ (StepsLeft = 0 <=> pc \in {"idle", "exited"}))
    /\ [][Within => StepsLeft' < StepsLeft]_unitVars

THEOREM UnitsComeToAnEnd == UnitSpec => UnitNearsItsEnd
  <1> DEFINE Known == DriverInv /\ VersionInv /\ DiagnosedBound
  <1>1. UnitInit => DiagnosedBound
    BY DriverAssumption DEF UnitInit, DriverInit, DiagnosedBound
  <1>2. DriverInv /\ DiagnosedBound /\ [UnitNext]_unitVars => DiagnosedBound'
    BY DiagnosedStep
  <1>3. Known => StepsLeft \in Nat /\ (StepsLeft = 0 <=> pc \in {"idle", "exited"})
    BY LeftIsCounted
  <1>4. Known /\ Known' => [Within => StepsLeft' < StepsLeft]_unitVars
    BY UnitGoesDown
  <1>5. UnitSpec => []Known
    BY <1>1, <1>2, UnitInvariant, PTL DEF UnitSpec
  <1> HIDE DEF Known
  <1> QED BY <1>3, <1>4, <1>5, PTL DEF UnitNearsItsEnd
=============================================================================
