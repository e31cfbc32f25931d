------------------------- MODULE PulseContexts_proof -------------------------
(***************************************************************************)
(* The flags of cal and defcal, for programs of any length, with pulse     *)
(* constructs nested to any depth.  A flag says less than the parser's     *)
(* stack does, so that the invariant relates the two in both directions:   *)
(* a flag that is up has its construct on the stack, and until a construct *)
(* nested in another is closed a construct on the stack has its flags up,  *)
(* but for the flag that a call of a defcal clears.                        *)
(***************************************************************************)
EXTENDS PulseContexts, ScopeProtocol_proof

(* Is a construct of kind k open. *)
Within(k) == \E i \in 1..Len(open) : open[i].kind = k

(* A step that opens and closes no cal and no defcal. *)
KindsKept == \A k \in PulseKinds : Within(k)' <=> Within(k)

LEMMA InPulseIsWithin ==
    /\ InPulse <=> Within("OpenPulseCalibration") \/ Within("Defcal")
    /\ InCal <=> Within("OpenPulseCalibration")
    /\ InDefcal <=> Within("Defcal")
  BY DEF InPulse, InCal, InDefcal, Within, PulseKinds

-----------------------------------------------------------------------------
(* Every step of the flags is a step of the scopes, or leaves them alone.  *)
LEMMA PulseStepIsStep == [PulseNext]_pulseVars => [Next]_vars
  <1> SUFFICES ASSUME [PulseNext]_pulseVars PROVE [Next]_vars
    OBVIOUS
  <1>1. CASE UNCHANGED pulseVars
    BY <1>1 DEF pulseVars
  <1>2. CASE Terminated
    BY <1>2 DEF Terminated
  <1>3. ASSUME status = "parsing", DefcalCall PROVE [Next]_vars
    <2>1. /\ AtStatement /\ open' = StatementDone(open)
          /\ UNCHANGED <<ctxVars, matcher, failed, status>>
      BY <1>3 DEF DefcalCall
    <2>2. CASE open # <<>> /\ Inner.part = "single"
      <3>1. InnerIs(AllKinds, {"single"})
        BY <2>1, <2>2 DEF AtStatement, InnerIs
      <3>2. open' = SetPart(open, "reduce")
        BY <2>1, <2>2 DEF StatementDone, Inner
      <3> QED BY <1>3, <2>1, <3>1, <3>2 DEF SimpleStatement, Punctuation, Next
    <2>3. CASE ~(open # <<>> /\ Inner.part = "single")
      BY <2>1, <2>3 DEF StatementDone, Inner, vars
    <2> QED BY <2>2, <2>3
  <1>4. /\ "Defcal" \in Kinds \cap OpenedByKeyword
        /\ "OpenPulseCalibration" \in Kinds
    BY PulseAssumption DEF PulseKinds, OpenedByKeyword, DeclarationKinds
  <1>5. ASSUME status = "parsing", OpenCal \/ OpenDefcal PROVE [Next]_vars
    BY <1>4, <1>5 DEF OpenCal, OpenDefcal, Keyword, Next
  <1>6. ASSUME status = "parsing", CloseCal \/ CloseDefcal PROVE [Next]_vars
    BY <1>6 DEF CloseCal, CloseDefcal, Reduction, Next
  <1>7. ASSUME status = "parsing",
               RejectStatement \/ RejectConstruct \/ OtherKeyword \/ Punctuation
                 \/ OtherReduction \/ EndOfInput
        PROVE  [Next]_vars
    BY <1>7 DEF RejectStatement, RejectConstruct, OtherKeyword, OtherReduction,
                Keyword, Reduction, Next
  <1> QED BY <1>1, <1>2, <1>3, <1>5, <1>6, <1>7 DEF PulseNext

(* The scopes under the flags are those of ScopeProtocol: all that is      *)
(* proved of it holds of PulseSpec.                                        *)
THEOREM PulseImplementsProtocol == PulseSpec => Spec
  <1>1. PulseInit => Init
    BY DEF PulseInit
  <1> QED BY <1>1, PulseStepIsStep, PTL DEF PulseSpec, Spec

-----------------------------------------------------------------------------
(* The parser's stack as far as the kinds of its constructs go.            *)

LEMMA SameKinds ==
    ASSUME ParserTypeOK, open' \in Seq(Constructs), Len(open') = Len(open),
           \A i \in 1..Len(open) : open'[i].kind = open[i].kind
    PROVE  KindsKept
  BY DEF KindsKept, Within

LEMMA OneMore ==
    ASSUME ParserTypeOK, Len(open') = Len(open) + 1,
           \A i \in 1..Len(open) : open'[i] = open[i]
    PROVE  \A k \in PulseKinds :
              Within(k)' <=> Within(k) \/ open'[Len(open) + 1].kind = k
  <1>1. Len(open) \in Nat
    BY DEF ParserTypeOK
  <1>2. 1..Len(open') = 1..Len(open) \cup {Len(open) + 1}
    BY <1>1
  <1> QED BY <1>2 DEF Within

LEMMA OneLess ==
    ASSUME ParserTypeOK, open # <<>>, open' = Reduced
    PROVE  \A k \in PulseKinds : /\ Within(k)' => Within(k)
                                 /\ Within(k) => Within(k)' \/ Inner.kind = k
  <1>1. /\ Len(open) \in Nat \ {0} /\ Len(open') = Len(open) - 1
        /\ Inner = open[Len(open)]
        /\ \A i \in 1..Len(open) : open[i] \in Constructs
        /\ \A i \in 1..(Len(open) - 1) :
              \/ open'[i] = open[i]
              \/ open'[i] = [open[i] EXCEPT !.part = "reduce"]
    BY ReducedOK DEF ParserTypeOK
  <1>2. \A i \in 1..(Len(open) - 1) : i \in 1..Len(open)
    BY <1>1
  <1>3. \A i \in 1..(Len(open) - 1) : open'[i].kind = open[i].kind
    BY <1>1, <1>2 DEF Constructs
  <1>4. 1..Len(open) = 1..Len(open') \cup {Len(open)}
    BY <1>1
  <1> QED BY <1>1, <1>3, <1>4 DEF Within

LEMMA OneOfAnotherKind ==
    ASSUME ParserTypeOK, open # <<>>, open' = Reduced, Inner.kind \notin PulseKinds
    PROVE  KindsKept
  BY OneLess DEF KindsKept

LEMMA PartKinds ==
    ASSUME ParserTypeOK
    PROVE  /\ \A p \in Parts : open # <<>> /\ open' = SetPart(open, p) => KindsKept
           /\ open' = StatementDone(open) => KindsKept
           /\ UNCHANGED open => KindsKept
  <1> USE DEF ParserTypeOK
  <1>1. \A i \in 1..Len(open) : open[i] \in Constructs
    OBVIOUS
  <1>2. ASSUME NEW p \in Parts, open # <<>>, open' = SetPart(open, p)
        PROVE  KindsKept
    <2>1. /\ open' \in Seq(Constructs) /\ Len(open') = Len(open)
          /\ \A i \in 1..Len(open) :
                open'[i] = IF i = Len(open) THEN [open[i] EXCEPT !.part = p]
                                            ELSE open[i]
      BY <1>2, SetPartOK
    <2>2. \A i \in 1..Len(open) : open'[i].kind = open[i].kind
      BY <1>1, <2>1 DEF Constructs
    <2> QED BY <2>1, <2>2, SameKinds
  <1>3. ASSUME open' = StatementDone(open) PROVE KindsKept
    <2>1. /\ open' \in Seq(Constructs) /\ Len(open') = Len(open)
          /\ \A i \in 1..Len(open) : \/ open'[i] = open[i]
                                     \/ open'[i] = [open[i] EXCEPT !.part = "reduce"]
      BY <1>3, StatementDoneOK
    <2>2. \A i \in 1..Len(open) : open'[i].kind = open[i].kind
      BY <1>1, <2>1 DEF Constructs
    <2> QED BY <2>1, <2>2, SameKinds
  <1>4. UNCHANGED open => KindsKept
    BY DEF KindsKept, Within
  <1> QED BY <1>2, <1>3, <1>4

(* A construct of kind k has been started by a keyword. *)
LEMMA StartedKinds ==
    ASSUME TypesAndScopes, TypesAndScopes', NEW k \in AllKinds, NEW o \in BOOLEAN,
           open' = Started(k, o)
    PROVE  \A c \in PulseKinds : Within(c)' <=> Within(c) \/ k = c
  <1>1. ParserTypeOK /\ ContextTypeOK'
    BY DEF TypesAndScopes, ContextInv
  <1>2. /\ Len(open') = Len(open) + 1
        /\ \A i \in 1..Len(open) : open'[i] = open[i]
        /\ open'[Len(open) + 1] =
              [kind |-> k, part |-> "head", opened |-> o,
               scope |-> GetCurrentContext', depth |-> Len(CCV')]
    BY <1>1, StartedOK
  <1>3. open'[Len(open) + 1].kind = k
    BY <1>2
  <1> QED BY <1>1, <1>2, <1>3, OneMore

-----------------------------------------------------------------------------
(* Tokens and productions that are not about pulse constructs.             *)

LEMMA OtherKeywordKinds ==
    ASSUME TypesAndScopes, TypesAndScopes', OtherKeyword
    PROVE  KindsKept /\ UNCHANGED failed
  <1>1. ParserTypeOK
    BY DEF TypesAndScopes
  <1>2. ASSUME NEW k \in (Kinds \cap OpenedByKeyword) \ {"Defcal"}, OpenScope(k)
        PROVE  KindsKept
    <2>1. k \in AllKinds /\ k \notin PulseKinds
      BY KindsAreTypes DEF OpenedByKeyword, StatementKinds, DeclarationKinds,
                           PulseKinds
    <2>2. open' = Started(k, TRUE)
      BY <1>2 DEF OpenScope
    <2> QED BY <2>1, <2>2, StartedKinds DEF KindsKept
  <1>3. ASSUME ExternKeyword PROVE KindsKept
    <2>1. "Extern" \in AllKinds /\ "Extern" \notin PulseKinds
      BY DEF AllKinds, PulseKinds
    <2>2. ExternOpens \in BOOLEAN /\ open' = Started("Extern", ExternOpens)
      BY <1>3 DEF ExternKeyword, ExternOpens
    <2> QED BY <2>1, <2>2, StartedKinds DEF KindsKept
  <1>4. Break => KindsKept
    BY <1>1, PartKinds DEF Break
  <1>5. UNCHANGED failed
    BY DEF OtherKeyword, OpenScope, ExternKeyword, Break
  <1> QED BY <1>2, <1>3, <1>4, <1>5 DEF OtherKeyword

LEMMA PunctuationKinds ==
    ASSUME TypesAndScopes, Punctuation
    PROVE  KindsKept /\ UNCHANGED failed
  <1> USE DEF InnerIs
  <1>1. ParserTypeOK
    BY DEF TypesAndScopes
  <1>2. {"body", "after", "reduce", "list", "single"} \subseteq Parts
    BY DEF Parts
  <1>3. LeftCurly \/ BareLabel \/ NoBraces \/ SimpleStatement => KindsKept
    BY <1>1, <1>2, PartKinds DEF LeftCurly, BareLabel, NoBraces, SimpleStatement
  <1>4. RightCurly \/ Semicolon => KindsKept
    BY <1>1, <1>2, PartKinds DEF RightCurly, Semicolon
  <1>5. ASSUME OtherLeftCurly PROVE KindsKept
    <2> DEFINE b == [kind |-> "Braces", part |-> "body", opened |-> FALSE,
                     scope |-> GetCurrentContext, depth |-> Len(CCV)]
    <2>1. open' = Append(open, b)
      BY <1>5 DEF OtherLeftCurly
    <2>2. /\ Len(open') = Len(open) + 1
          /\ \A i \in 1..Len(open) : open'[i] = open[i]
          /\ open'[Len(open) + 1] = b
      BY <1>1, <2>1 DEF ParserTypeOK
    <2>3. open'[Len(open) + 1].kind \notin PulseKinds
      BY <2>2 DEF PulseKinds
    <2> QED BY <1>1, <2>2, <2>3, OneMore DEF KindsKept
  <1>6. ASSUME OtherRightCurly \/ PortOrFrame PROVE KindsKept
    <2>1. open # <<>> /\ open' = Reduced /\ Inner.kind \notin PulseKinds
      BY <1>6 DEF OtherRightCurly, PortOrFrame, PulseKinds
    <2> QED BY <1>1, <2>1, OneOfAnotherKind
  <1>7. UNCHANGED failed
    BY DEF Punctuation, LeftCurly, OtherLeftCurly, OtherRightCurly, RightCurly,
           BareLabel, NoBraces, SimpleStatement, Semicolon, PortOrFrame
  <1> QED BY <1>3, <1>4, <1>5, <1>6, <1>7 DEF Punctuation

LEMMA OtherReductionKinds ==
    ASSUME TypesAndScopes, OtherReduction, ~failed'
    PROVE  KindsKept /\ UNCHANGED failed
  <1>1. open # <<>> /\ Inner.kind \notin PulseKinds /\ Reduce
    BY DEF OtherReduction, ReduceError, OtherError
  <1>2. open' = Reduced /\ UNCHANGED failed
    BY <1>1 DEF Reduce
  <1> QED BY <1>1, <1>2, OneOfAnotherKind DEF TypesAndScopes

-----------------------------------------------------------------------------
FlagTypeOK ==
    /\ flag \in [CX : BOOLEAN, CCS : BOOLEAN, DCS : BOOLEAN, DBS : BOOLEAN]
    /\ nestedClosed \in BOOLEAN /\ called \in BOOLEAN

(* A flag that is up has its construct on the stack. *)
FlagsHaveConstructs ==
    /\ flag.CX => InPulse
    /\ flag.CCS => Within("OpenPulseCalibration")
    /\ flag.DCS \/ flag.DBS => InDefcal

(* Until a nested construct is closed, the constructs on the stack have    *)
(* their flags up; that of the defcal's names until a defcal is called.    *)
ConstructsHaveFlags ==
    ~nestedClosed => /\ InPulse => flag.CX
                     /\ InCal => flag.CCS
                     /\ InDefcal => flag.DBS
                     /\ InDefcal /\ ~called => flag.DCS

FlagInv == ~failed => FlagsHaveConstructs /\ ConstructsHaveFlags

PulseInv == TypesAndScopes /\ FlagTypeOK /\ FlagInv

LEMMA PulseInitInv == PulseInit => PulseInv
  <1> SUFFICES ASSUME PulseInit PROVE PulseInv
    OBVIOUS
  <1>1. TypesAndScopes
    BY InitTypes DEF PulseInit
  <1>2. ~InPulse /\ ~InCal /\ ~InDefcal
    BY DEF PulseInit, Init, InPulse, InCal, InDefcal
  <1>3. FlagTypeOK
    BY DEF PulseInit, Closed, FlagTypeOK
  <1>4. ~flag.CX /\ ~flag.CCS /\ ~flag.DCS /\ ~flag.DBS
    BY DEF PulseInit, Closed
  <1>5. FlagInv
    BY <1>2, <1>4 DEF FlagInv, FlagsHaveConstructs, ConstructsHaveFlags
  <1> QED BY <1>1, <1>3, <1>5 DEF PulseInv

(* The flags stay records of Booleans, whoever writes them. *)
LEMMA FlagTypeStep == FlagTypeOK /\ [PulseNext]_pulseVars => FlagTypeOK'
  <1> SUFFICES ASSUME FlagTypeOK, [PulseNext]_pulseVars PROVE FlagTypeOK'
    OBVIOUS
  <1>1. /\ \/ UNCHANGED flag
           \/ flag' \in {CalOpened, DefcalOpened, CalClosed, DefcalClosed}
           \/ flag' = [flag EXCEPT !.DCS = FALSE]
        /\ UNCHANGED nestedClosed \/ nestedClosed' = InPulse'
        /\ UNCHANGED called \/ called' \in BOOLEAN
    BY DEF PulseNext, pulseVars, pulseHistory, OpenCal, OpenDefcal, CloseCal,
           CloseDefcal, DefcalCall
  <1>2. InPulse' \in BOOLEAN
    BY DEF InPulse
  <1> QED BY <1>1, <1>2 DEF FlagTypeOK, CalOpened, DefcalOpened, CalClosed,
                            DefcalClosed

(* A step that keeps the constructs and the flags keeps the invariant.     *)
LEMMA KeptFlags ==
    ASSUME FlagTypeOK, FlagsHaveConstructs, ConstructsHaveFlags, KindsKept,
           UNCHANGED <<flag, nestedClosed, called>>
    PROVE  FlagsHaveConstructs' /\ ConstructsHaveFlags'
  <1>1. /\ InPulse' <=> InPulse
        /\ InCal' <=> InCal
        /\ InDefcal' <=> InDefcal
        /\ Within("OpenPulseCalibration")' <=> Within("OpenPulseCalibration")
    BY InPulseIsWithin DEF KindsKept, PulseKinds, Within, InPulse, InCal, InDefcal
  <1> QED BY <1>1 DEF FlagsHaveConstructs, ConstructsHaveFlags

(* What the keywords and productions of pulse constructs write.            *)
LEMMA FlagsWritten ==
    ASSUME FlagTypeOK
    PROVE  /\ flag' = CalOpened =>
                 /\ flag'.CX /\ flag'.CCS
                 /\ flag'.DCS = flag.DCS /\ flag'.DBS = flag.DBS
           /\ flag' = DefcalOpened =>
                 flag'.CX /\ flag'.DCS /\ flag'.DBS /\ flag'.CCS = flag.CCS
           /\ flag' = CalClosed =>
                 /\ ~flag'.CX /\ ~flag'.CCS
                 /\ flag'.DCS = flag.DCS /\ flag'.DBS = flag.DBS
           /\ flag' = DefcalClosed =>
                 ~flag'.CX /\ ~flag'.DCS /\ ~flag'.DBS /\ flag'.CCS = flag.CCS
  BY DEF FlagTypeOK, CalOpened, DefcalOpened, CalClosed, DefcalClosed

LEMMA OpeningKeepsFlags ==
    ASSUME TypesAndScopes, TypesAndScopes', FlagTypeOK, FlagsHaveConstructs,
           ConstructsHaveFlags, OpenCal \/ OpenDefcal
    PROVE  FlagsHaveConstructs' /\ ConstructsHaveFlags'
  <1> USE DEF FlagsHaveConstructs, ConstructsHaveFlags
  <1>1. PulseKinds \subseteq AllKinds /\ TRUE \in BOOLEAN
    BY DEF PulseKinds, AllKinds, DeclarationKinds
  <1>2. CASE OpenCal
    <2>1. open' = Started("OpenPulseCalibration", TRUE)
      BY <1>2 DEF OpenCal, CalKeyword
    <2>2. \A c \in PulseKinds :
             Within(c)' <=> Within(c) \/ c = "OpenPulseCalibration"
      BY <1>1, <2>1, StartedKinds DEF PulseKinds
    <2>3. /\ Within("OpenPulseCalibration")'
          /\ InPulse' /\ InCal' /\ (InDefcal' <=> InDefcal)
      BY <2>2, InPulseIsWithin DEF PulseKinds, Within, InPulse, InCal, InDefcal
    <2>4. flag' = CalOpened /\ nestedClosed' = nestedClosed /\ called' = called
      BY <1>2 DEF OpenCal, pulseHistory
    <2> QED BY <2>3, <2>4, FlagsWritten
  <1>3. CASE OpenDefcal
    <2>1. open' = Started("Defcal", TRUE)
      BY <1>3 DEF OpenDefcal, OpenScope
    <2>2. \A c \in PulseKinds : Within(c)' <=> Within(c) \/ c = "Defcal"
      BY <1>1, <2>1, StartedKinds DEF PulseKinds
    <2>3. /\ Within("OpenPulseCalibration")' <=> Within("OpenPulseCalibration")
          /\ InPulse' /\ (InCal' <=> InCal) /\ InDefcal'
      BY <2>2, InPulseIsWithin DEF PulseKinds, Within, InPulse, InCal, InDefcal
    <2>4. flag' = DefcalOpened /\ nestedClosed' = nestedClosed
      BY <1>3 DEF OpenDefcal
    <2> QED BY <2>3, <2>4, FlagsWritten
  <1> QED BY <1>2, <1>3

LEMMA ClosingKeepsFlags ==
    ASSUME TypesAndScopes, FlagTypeOK, FlagsHaveConstructs, CloseCal \/ CloseDefcal
    PROVE  FlagsHaveConstructs' /\ ConstructsHaveFlags'
  <1> USE DEF FlagsHaveConstructs, ConstructsHaveFlags
  <1>1. open # <<>> /\ open' = Reduced /\ nestedClosed' = InPulse'
    BY DEF CloseCal, CloseDefcal, Reduce
  <1>2. \A k \in PulseKinds : Within(k) => Within(k)' \/ Inner.kind = k
    BY <1>1, OneLess DEF TypesAndScopes
  <1>3. InCal' \/ InDefcal' => InPulse'
    BY InPulseIsWithin DEF Within, InPulse, InCal, InDefcal, PulseKinds
  <1>4. CASE CloseCal
    <2>1. Inner.kind = "OpenPulseCalibration" /\ flag' = CalClosed
      BY <1>4 DEF CloseCal, InnerIs
    <2>2. InDefcal => InDefcal'
      BY <1>2, <2>1 DEF Within, InDefcal, PulseKinds
    <2> QED BY <1>1, <1>3, <2>1, <2>2, FlagsWritten
  <1>5. CASE CloseDefcal
    <2>1. Inner.kind = "Defcal" /\ flag' = DefcalClosed
      BY <1>5 DEF CloseDefcal, InnerIs
    <2>2. Within("OpenPulseCalibration") => Within("OpenPulseCalibration")'
      BY <1>2, <2>1 DEF Within, PulseKinds
    <2> QED BY <1>1, <1>3, <2>1, <2>2, FlagsWritten
  <1> QED BY <1>4, <1>5

LEMMA CallKeepsFlags ==
    ASSUME TypesAndScopes, FlagTypeOK, FlagsHaveConstructs, ConstructsHaveFlags,
           DefcalCall
    PROVE  FlagsHaveConstructs' /\ ConstructsHaveFlags'
  <1>1. /\ flag' = [flag EXCEPT !.DCS = FALSE]
        /\ nestedClosed' = nestedClosed /\ called'
    BY DEF DefcalCall
  <1>2. /\ flag'.CX = flag.CX /\ flag'.CCS = flag.CCS /\ flag'.DBS = flag.DBS
        /\ ~flag'.DCS
    BY <1>1 DEF FlagTypeOK
  <1>3. KindsKept
    BY PartKinds DEF DefcalCall, TypesAndScopes
  <1>4. /\ InPulse' <=> InPulse
        /\ InCal' <=> InCal
        /\ InDefcal' <=> InDefcal
        /\ Within("OpenPulseCalibration")' <=> Within("OpenPulseCalibration")
    BY <1>3, InPulseIsWithin
       DEF KindsKept, PulseKinds, Within, InPulse, InCal, InDefcal
  <1> QED BY <1>1, <1>2, <1>4 DEF FlagsHaveConstructs, ConstructsHaveFlags

LEMMA PulseStepInv == PulseInv /\ [PulseNext]_pulseVars => PulseInv'
  <1> SUFFICES ASSUME PulseInv, [PulseNext]_pulseVars PROVE PulseInv'
    OBVIOUS
  <1>1. TypesAndScopes /\ FlagTypeOK /\ FlagInv
    BY DEF PulseInv
  <1>2. TypesAndScopes' /\ FlagTypeOK'
    BY <1>1, PulseStepIsStep, NextTypes, FlagTypeStep
  <1>3. ASSUME ~failed' PROVE FlagsHaveConstructs' /\ ConstructsHaveFlags'
    <2>0. ASSUME UNCHANGED <<open, failed, flag, nestedClosed, called>>
          PROVE  FlagsHaveConstructs' /\ ConstructsHaveFlags'
      <3>1. KindsKept
        BY <1>1, <2>0, PartKinds DEF TypesAndScopes
      <3> QED BY <1>1, <1>3, <2>0, <3>1, KeptFlags DEF FlagInv
    <2>1. CASE Terminated /\ UNCHANGED <<flag, pulseHistory>>
      BY <2>0, <2>1 DEF Terminated, vars, pulseHistory
    <2>2. CASE OpenCal \/ OpenDefcal
      <3>1. UNCHANGED failed
        BY <2>2 DEF OpenCal, OpenDefcal, CalKeyword, OpenScope
      <3> QED BY <1>1, <1>2, <1>3, <2>2, <3>1, OpeningKeepsFlags DEF FlagInv
    <2>3. CASE CloseCal \/ CloseDefcal
      <3>1. UNCHANGED failed
        BY <2>3 DEF CloseCal, CloseDefcal, Reduce
      <3> QED BY <1>1, <1>3, <2>3, <3>1, ClosingKeepsFlags DEF FlagInv
    <2>4. CASE DefcalCall
      <3>1. UNCHANGED failed
        BY <2>4 DEF DefcalCall
      <3> QED BY <1>1, <1>3, <2>4, <3>1, CallKeepsFlags DEF FlagInv
    <2>5. CASE RejectStatement \/ RejectConstruct
      BY <1>3, <2>5 DEF RejectStatement, RejectConstruct, OtherError, ReduceError
    <2>6. CASE /\ OtherKeyword \/ Punctuation \/ OtherReduction \/ EndOfInput
               /\ UNCHANGED <<flag, pulseHistory>>
      <3>1. EndOfInput => UNCHANGED open /\ UNCHANGED failed
        BY DEF EndOfInput
      <3>2. KindsKept /\ UNCHANGED failed
        BY <1>1, <1>2, <1>3, <2>6, <3>1, OtherKeywordKinds, PunctuationKinds,
           OtherReductionKinds, PartKinds DEF TypesAndScopes
      <3> QED BY <1>1, <1>3, <2>6, <3>2, KeptFlags DEF FlagInv, pulseHistory
    <2>7. CASE UNCHANGED pulseVars
      BY <2>0, <2>7 DEF pulseVars, vars
    <2>8. CASE PulseNext
      <3>1. \/ OpenCal \/ OpenDefcal \/ CloseCal \/ CloseDefcal \/ DefcalCall
            \/ RejectStatement \/ RejectConstruct
            \/ /\ OtherKeyword \/ Punctuation \/ OtherReduction \/ EndOfInput
               /\ UNCHANGED <<flag, pulseHistory>>
            \/ Terminated /\ UNCHANGED <<flag, pulseHistory>>
        BY <2>8 DEF PulseNext
      <3> QED BY <2>1, <2>2, <2>3, <2>4, <2>5, <2>6, <3>1
    <2> QED BY <2>7, <2>8
  <1> QED BY <1>2, <1>3 DEF PulseInv, FlagInv

THEOREM PulseInvariant == PulseSpec => []PulseInv
  BY PulseInitInv, PulseStepInv, PTL DEF PulseSpec

-----------------------------------------------------------------------------
(* The parser's state and the flags keep their types.                      *)
THEOREM PulseTypes == PulseSpec => []PulseTypeOK
  <1>1. PulseInv => PulseTypeOK
    BY DEF PulseInv, TypesAndScopes, ContextInv, ParserTypeOK, TypeOK,
           FlagTypeOK, PulseTypeOK
  <1> QED BY <1>1, PulseInvariant, PTL

(* However pulse constructs are nested, no flag outlives the outermost one *)
(* that may have set it: ValidateContext accepts nothing outside them.     *)
THEOREM FlagsEndWithConstructs == PulseSpec => []FlagsOnlyInside
  <1>1. PulseInv => FlagsOnlyInside
    BY InPulseIsWithin DEF PulseInv, FlagInv, FlagsHaveConstructs,
       FlagsOnlyInside, PulseAllowed
  <1> QED BY <1>1, PulseInvariant, PTL

(* In the body of a cal block or a defcal no pulse statement is rejected   *)
(* for its place, nor is the construct itself, before a construct nested   *)
(* in it has been closed.                                                  *)
THEOREM PulseStatementsAccepted == PulseSpec => []PulseAccepted
  <1>1. PulseInv => PulseAccepted
    <2> SUFFICES ASSUME PulseInv, ~failed, ~nestedClosed
                 PROVE  /\ InnerIs(PulseKinds, {"body", "reduce"}) => PulseAllowed
                        /\ InnerIs({"Defcal"}, {"reduce"}) => flag.DBS
      BY DEF PulseAccepted
    <2>1. ConstructsHaveFlags /\ ParserTypeOK
      BY DEF PulseInv, FlagInv, TypesAndScopes
    <2>2. open # <<>> => Len(open) \in 1..Len(open)
      BY <2>1 DEF ParserTypeOK
    <2>3. ASSUME InnerIs(PulseKinds, {"body", "reduce"}) PROVE PulseAllowed
      <3>1. InPulse
        BY <2>2, <2>3 DEF InPulse, InnerIs, Inner
      <3> QED BY <2>1, <3>1 DEF ConstructsHaveFlags, PulseAllowed
    <2>4. ASSUME InnerIs({"Defcal"}, {"reduce"}) PROVE flag.DBS
      <3>1. InDefcal
        BY <2>2, <2>4 DEF InDefcal, InnerIs, Inner
      <3> QED BY <2>1, <3>1 DEF ConstructsHaveFlags
    <2> QED BY <2>3, <2>4
  <1> QED BY <1>1, PulseInvariant, PTL

(* Whatever was parsed before, whatever defcals were called outside and    *)
(* however far into the construct, names of cal blocks may be used in a    *)
(* cal block, and in a defcal up to its first call of a defcal, before a   *)
(* construct nested in another has been closed.                            *)
THEOREM NamesUsable == PulseSpec => []CalibrationNamesUsable
  <1>1. PulseInv => CalibrationNamesUsable
    BY DEF PulseInv, FlagInv, ConstructsHaveFlags, CalibrationNamesUsable,
           NamesVisible
  <1> QED BY <1>1, PulseInvariant, PTL
=============================================================================
