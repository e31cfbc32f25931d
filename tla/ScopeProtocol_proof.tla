------------------------ MODULE ScopeProtocol_proof ------------------------
(***************************************************************************)
(* What holds of every program, for any set of constructs, any bounds, and *)
(* any diagnostic handler: with or without errors, in the forms on which   *)
(* scanner and parser disagree as in all others, the invariant of the      *)
(* tracker survives all that scanner and parser do to it, and a break      *)
(* closes no scope.  That scanner and parser are in step needs more: see   *)
(* ScopeInvariant_proof.                                                   *)
(***************************************************************************)
EXTENDS ScopeProtocol, DeclarationContext_proof

ParserTypeOK ==
    /\ open \in Seq(Constructs)
    /\ matcher \in [MatchedTypes -> [L : Nat, R : Nat]]
    /\ failed \in BOOLEAN
    /\ status \in {"parsing", "done", "exited", "aborted"}

TypesAndScopes == ContextInv /\ ParserTypeOK

(* Every kind of construct is a type of scope.                             *)
LEMMA KindsAreTypes ==
    /\ \A k \in AllKinds : k \in ContextTypes /\ ScopeType(k) \in ContextTypes
    /\ Kinds \subseteq AllKinds
  BY KindsAssumption DEF AllKinds, ScopeType, DeclarationKinds

-----------------------------------------------------------------------------
(* The parser's stack under the operators that change it.                  *)

LEMMA SetPartOK ==
    ASSUME NEW s \in Seq(Constructs), s # <<>>, NEW p \in Parts
    PROVE  /\ SetPart(s, p) \in Seq(Constructs)
           /\ Len(SetPart(s, p)) = Len(s)
           /\ \A i \in 1..Len(s) :
                 SetPart(s, p)[i] = IF i = Len(s) THEN [s[i] EXCEPT !.part = p]
                                                  ELSE s[i]
  <1>1. /\ Len(s) \in Nat \ {0} /\ Len(s) \in 1..Len(s)
        /\ \A i \in 1..Len(s) : s[i] \in Constructs
    OBVIOUS
  <1>2. SetPart(s, p) = [s EXCEPT ![Len(s)] = [s[Len(s)] EXCEPT !.part = p]]
    BY DEF SetPart
  <1>3. [s[Len(s)] EXCEPT !.part = p] \in Constructs
    BY <1>1 DEF Constructs
  <1>4. /\ SetPart(s, p) \in Seq(Constructs)
        /\ Len(SetPart(s, p)) = Len(s)
    BY <1>1, <1>2, <1>3
  <1> QED BY <1>1, <1>2, <1>4

LEMMA StatementDoneOK ==
    ASSUME NEW s \in Seq(Constructs)
    PROVE  /\ StatementDone(s) \in Seq(Constructs)
           /\ Len(StatementDone(s)) = Len(s)
           /\ \A i \in 1..Len(s) :
                 \/ StatementDone(s)[i] = s[i]
                 \/ /\ i = Len(s) /\ s[i].part = "single"
                    /\ StatementDone(s)[i] = [s[i] EXCEPT !.part = "reduce"]
  <1>1. "reduce" \in Parts
    BY DEF Parts
  <1>2. CASE s # <<>> /\ s[Len(s)].part = "single"
    <2>1. StatementDone(s) = SetPart(s, "reduce")
      BY <1>2 DEF StatementDone
    <2> QED BY <1>1, <1>2, <2>1, SetPartOK
  <1>3. CASE ~(s # <<>> /\ s[Len(s)].part = "single")
    BY <1>3 DEF StatementDone
  <1> QED BY <1>2, <1>3

LEMMA ReducedOK ==
    ASSUME ParserTypeOK, open # <<>>
    PROVE  /\ Inner \in Constructs /\ Inner = open[Len(open)]
           /\ Len(open) \in Nat \ {0}
           /\ Reduced \in Seq(Constructs)
           /\ Len(Reduced) = Len(open) - 1
           /\ \A i \in 1..(Len(open) - 1) :
                 \/ Reduced[i] = open[i]
                 \/ /\ i = Len(open) - 1 /\ open[i].part = "single"
                    /\ Reduced[i] = [open[i] EXCEPT !.part = "reduce"]
  <1> DEFINE s == SubSeq(open, 1, Len(open) - 1)
  <1>1. open \in Seq(Constructs)
    BY DEF ParserTypeOK
  <1>0. Len(open) \in Nat /\ Len(open) > 0
    BY <1>1
  <1>2. \A i \in 1..(Len(open) - 1) : open[i] \in Constructs
    BY <1>1
  <1>3. /\ s \in Seq(Constructs) /\ Len(s) = Len(open) - 1
        /\ \A i \in 1..(Len(open) - 1) : s[i] = open[i]
    <2>1. Len(open) - 1 \in Nat /\ \A i \in Nat : 1 + i - 1 = i
      BY <1>0
    <2>2. /\ s \in Seq(Constructs)
          /\ Len(s) = IF 1 <= Len(open) - 1 THEN Len(open) - 1 - 1 + 1 ELSE 0
          /\ \A i \in 1..(Len(open) - 1 - 1 + 1) : s[i] = open[1 + i - 1]
      BY <1>2, <2>1, SubSeqProperties
    <2> HIDE DEF s
    <2>3. Len(s) = Len(open) - 1
      <3>1. \A n \in Nat : n > 0 => (IF 1 <= n - 1 THEN n - 1 - 1 + 1 ELSE 0) = n - 1
        OBVIOUS
      <3> QED BY <1>0, <2>2, <3>1
    <2>4. ASSUME NEW i \in 1..(Len(open) - 1) PROVE s[i] = open[i]
      <3>1. i \in 1..(Len(open) - 1 - 1 + 1) /\ 1 + i - 1 = i
        BY <1>0
      <3>2. s[i] = open[1 + i - 1]
        BY <2>2, <3>1
      <3> QED BY <3>1, <3>2
    <2> QED BY <2>2, <2>3, <2>4
  <1>4. Reduced = StatementDone(s)
    BY DEF Reduced
  <1> HIDE DEF s
  <1>5. Inner \in Constructs /\ Inner = open[Len(open)]
    BY <1>0, <1>1 DEF Inner
  <1> QED BY <1>0, <1>3, <1>4, <1>5, StatementDoneOK

LEMMA StartedOK ==
    ASSUME ParserTypeOK, ContextTypeOK', NEW k \in AllKinds, NEW o \in BOOLEAN
    PROVE  /\ Started(k, o) \in Seq(Constructs)
           /\ Len(Started(k, o)) = Len(open) + 1
           /\ \A i \in 1..Len(open) : Started(k, o)[i] = open[i]
           /\ Started(k, o)[Len(open) + 1] =
                 [kind |-> k, part |-> "head", opened |-> o,
                  scope |-> GetCurrentContext', depth |-> Len(CCV')]
           /\ Started(k, o)[Len(open) + 1] \in Constructs
  <1>1. Len(CCV') \in Nat \ {0} /\ CCV'[Len(CCV')] \in Indices'
    BY DEF ContextTypeOK
  <1>2. Indices' \subseteq Int
    BY DEF Indices, StaticIXs, GlobalIX, CalibrationIX, ContextTypeOK
  <1>3. GetCurrentContext' = CCV'[Len(CCV')]
    BY DEF GetCurrentContext
  <1> DEFINE c == [kind |-> k, part |-> "head", opened |-> o,
                   scope |-> CCV'[Len(CCV')], depth |-> Len(CCV')]
  <1>4. c \in Constructs
    BY <1>1, <1>2 DEF Constructs, Parts
  <1>5. Started(k, o) = Append(open, c)
    BY DEF Started
  <1> HIDE DEF c
  <1>6. /\ Started(k, o) \in Seq(Constructs)
        /\ Len(Started(k, o)) = Len(open) + 1
        /\ \A i \in 1..Len(open) : Started(k, o)[i] = open[i]
        /\ Started(k, o)[Len(open) + 1] = c
    BY <1>4, <1>5 DEF ParserTypeOK
  <1> QED BY <1>3, <1>6 DEF c

(* The matchers under the operators that count or reset them.              *)
LEMMA MatcherOK ==
    ASSUME ParserTypeOK
    PROVE  /\ CountLeft => /\ matcher' \in [MatchedTypes -> [L : Nat, R : Nat]]
                           /\ \A t \in MatchedTypes : matcher'[t].R = matcher[t].R
           /\ CountRight => /\ matcher' \in [MatchedTypes -> [L : Nat, R : Nat]]
                            /\ \A t \in MatchedTypes : matcher'[t].R =
                                 matcher[t].R + (IF t = CurrentType THEN 1 ELSE 0)
           /\ \A k : ResetMatcher(k) =>
                 /\ matcher' \in [MatchedTypes -> [L : Nat, R : Nat]]
                 /\ \A t \in MatchedTypes : matcher'[t].R =
                                 IF t = k THEN 0 ELSE matcher[t].R
  <1>1. matcher \in [MatchedTypes -> [L : Nat, R : Nat]]
    BY DEF ParserTypeOK
  <1>2. ASSUME CountLeft
        PROVE  /\ matcher' \in [MatchedTypes -> [L : Nat, R : Nat]]
               /\ \A t \in MatchedTypes : matcher'[t].R = matcher[t].R
    BY <1>1, <1>2 DEF CountLeft
  <1>3. ASSUME CountRight
        PROVE  /\ matcher' \in [MatchedTypes -> [L : Nat, R : Nat]]
               /\ \A t \in MatchedTypes : matcher'[t].R =
                     matcher[t].R + (IF t = CurrentType THEN 1 ELSE 0)
    BY <1>1, <1>3 DEF CountRight
  <1>4. ASSUME NEW k, ResetMatcher(k)
        PROVE  /\ matcher' \in [MatchedTypes -> [L : Nat, R : Nat]]
               /\ \A t \in MatchedTypes : matcher'[t].R =
                     IF t = k THEN 0 ELSE matcher[t].R
    BY <1>1, <1>4 DEF ResetMatcher, Zero
  <1> QED BY <1>2, <1>3, <1>4

-----------------------------------------------------------------------------
(* The scopes under the compound steps of the productions.                 *)

LEMMA RetypedLinks ==
    ASSUME ContextTypeOK, NEW k \in AllKinds
    PROVE  SameLinks(Retyped(k))
  <1>1. CASE k \in RetypingKinds \/ (k = "OpenPulseCalibration" /\ InCalibrationContext)
    BY <1>1, RetypeLinks, KindsAreTypes DEF Retyped
  <1>2. CASE ~(k \in RetypingKinds \/ (k = "OpenPulseCalibration" /\ InCalibrationContext))
    BY <1>2 DEF Retyped, SameLinks, ContextTypeOK
  <1> QED BY <1>1, <1>2

(* The scope of a label is created and dies in the same production.        *)
LEMMA CloseLabelInv ==
    ASSUME ContextInv, NEW k \in AllKinds, CloseLabel(k)
    PROVE  /\ ContextInv'
           /\ CCV' = CCV /\ \A i \in Indices : DC'[i] = DC[i]
  <1> USE DEF ContextInv
  <1>1. /\ GetCurrentContext \in Indices /\ CIX \notin Indices
    BY CurrentExists
  <1>2. CIX \in Nat \ {0} /\ DOMAIN DC = Indices /\ CCV \in Seq(Indices) /\ CCV # <<>>
    BY DEF ContextTypeOK
  <1>3. CIX' = CIX + 1 /\ CCV' = CCV
    BY DEF CloseLabel
  <1>4. Indices' = Indices \cup {CIX}
    BY <1>2, <1>3 DEF Indices, StaticIXs, GlobalIX, CalibrationIX
  <1>5. /\ DC'[CIX] = [CTy |-> k, PCX |-> GetCurrentContext, SCS |-> "Dead"]
        /\ \A i \in Indices : DC'[i] = DC[i]
        /\ DC' = [i \in Indices' |-> DC'[i]]
    BY <1>1, <1>2, <1>4 DEF CloseLabel, Context
  <1>6. ContextTypeOK'
    <2>1. ContextRecords \subseteq ContextRecords'
      BY <1>4 DEF ContextRecords
    <2>2. DC'[CIX] \in ContextRecords'
      BY <1>1, <1>4, <1>5, KindsAreTypes DEF ContextRecords
    <2>3. \A i \in Indices' : DC'[i] \in ContextRecords'
      BY <1>4, <1>5, <2>1, <2>2 DEF ContextTypeOK
    <2>4. DC' \in [Indices' -> ContextRecords']
      BY <1>5, <2>3
    <2>5. CCV' \in Seq(Indices') /\ CCV' # <<>>
      BY <1>2, <1>3, <1>4
    <2> QED BY <1>2, <1>3, <2>4, <2>5 DEF ContextTypeOK
  <1>7. StackChain'
    <2>1. \A j \in 1..Len(CCV) : CCV[j] \in Indices
      BY <1>2
    <2> QED BY <1>3, <1>5, <2>1 DEF StackChain
  <1>8. AliveIffOpen'
    <2>1. OpenIXs' = OpenIXs /\ OpenIXs \subseteq Indices
      BY <1>2, <1>3 DEF OpenIXs
    <2>2. ASSUME NEW i \in 1..(CIX' - 1)
          PROVE  (DC'[i].SCS = "Alive") <=> (i \in OpenIXs')
      <3>1. CASE i = CIX
        BY <3>1, <1>1, <1>5, <2>1
      <3>2. CASE i \in 1..(CIX - 1)
        BY <3>2, <1>2, <1>5, <2>1 DEF AliveIffOpen, Indices
      <3> QED BY <1>2, <1>3, <3>1, <3>2
    <2> QED BY <2>2 DEF AliveIffOpen
  <1>9. StaticsAlive'
    BY <1>5 DEF StaticsAlive, Indices
  <1> QED BY <1>3, <1>5, <1>6, <1>7, <1>8, <1>9

LEMMA StutterInv == ContextInv /\ UNCHANGED ctxVars => ContextInv'
  <1> SUFFICES ASSUME ContextInv, UNCHANGED ctxVars PROVE ContextInv'
    OBVIOUS
  <1>1. SameLinks(DC') /\ UNCHANGED <<CIX, CCV>>
    BY DEF ContextInv, ContextTypeOK, SameLinks, ctxVars
  <1> QED BY <1>1, LinksInv

LEMMA PopCurrentInv == ContextInv /\ PopCurrentContext => ContextInv'
  <1> SUFFICES ASSUME ContextInv, PopCurrentContext PROVE ContextInv'
    OBVIOUS
  <1>1. SameLinks(DC) /\ PopFrom(DC)
    BY DEF ContextInv, ContextTypeOK, SameLinks, PopCurrentContext
  <1> QED BY <1>1, PopInv

-----------------------------------------------------------------------------
(* Types and scopes: keywords.                                             *)

LEMMA WhileScopeOK ==
    ASSUME TypesAndScopes, NEW o \in BOOLEAN, WhileScope(o)
    PROVE  ContextInv' /\ matcher' \in [MatchedTypes -> [L : Nat, R : Nat]]
  <1>1. CASE o
    <2>1. CreateContext("WhileStatement") /\ "WhileStatement" \in ContextTypes
      BY <1>1, KindsAssumption DEF WhileScope, AllKinds
    <2> QED BY <2>1, CreateInv, MatcherOK
            DEF TypesAndScopes, WhileScope, ParserTypeOK
  <1>2. CASE ~o
    BY <1>2, StutterInv DEF TypesAndScopes, WhileScope, ParserTypeOK
  <1> QED BY <1>1, <1>2

LEMMA KeywordTypes ==
    ASSUME TypesAndScopes, Keyword, status = "parsing"
    PROVE  TypesAndScopes'
  <1> USE DEF TypesAndScopes
  <1>1. ASSUME NEW k \in Kinds \cap OpenedByKeyword, OpenScope(k)
        PROVE  TypesAndScopes'
    <2>1. k \in AllKinds /\ CreateContext(ScopeType(k)) /\ ResetMatcher(k)
          /\ open' = Started(k, TRUE) /\ UNCHANGED <<failed, status>>
      BY <1>1, KindsAreTypes DEF OpenScope
    <2>2. ContextInv'
      BY <2>1, CreateInv, KindsAreTypes
    <2>3. open' \in Seq(Constructs)
      BY <2>1, <2>2, StartedOK DEF ContextInv
    <2> QED BY <2>1, <2>2, <2>3, MatcherOK DEF ParserTypeOK
  <1>2. ASSUME CalKeyword PROVE TypesAndScopes'
    <2>1. ContextInv'
      BY <1>2, CalibrateInv DEF CalKeyword
    <2>2. open' \in Seq(Constructs)
      BY <1>2, <2>1, StartedOK DEF CalKeyword, ContextInv, AllKinds
    <2> QED BY <1>2, <2>1, <2>2 DEF CalKeyword, ParserTypeOK
  <1>3. ASSUME ExternKeyword PROVE TypesAndScopes'
    <2>1. "Extern" \in ContextTypes /\ "Extern" \in AllKinds /\ ExternOpens \in BOOLEAN
      BY KindsAssumption DEF AllKinds, ExternOpens
    <2>2. ContextInv'
      <3>1. CASE ExternOpens
        BY <1>3, <2>1, <3>1, CreateInv DEF ExternKeyword
      <3>2. CASE ~ExternOpens
        BY <1>3, <3>2, StutterInv DEF ExternKeyword
      <3> QED BY <3>1, <3>2
    <2>3. open' \in Seq(Constructs)
      BY <1>3, <2>1, <2>2, StartedOK DEF ExternKeyword, ContextInv
    <2> QED BY <1>3, <2>2, <2>3, MatcherOK DEF ExternKeyword, ParserTypeOK
  <1>4. WhileOpens \in BOOLEAN /\ "WhileStatement" \in AllKinds /\ "tail" \in Parts
    BY DEF WhileOpens, AllKinds, Parts
  <1>5. ASSUME WhileKeyword PROVE TypesAndScopes'
    <2>1. ContextInv' /\ matcher' \in [MatchedTypes -> [L : Nat, R : Nat]]
      BY <1>4, <1>5, WhileScopeOK DEF WhileKeyword
    <2>2. open' \in Seq(Constructs)
      BY <1>4, <1>5, <2>1, StartedOK DEF WhileKeyword, ContextInv
    <2> QED BY <1>5, <2>1, <2>2 DEF WhileKeyword, ParserTypeOK
  <1>6. ASSUME DoTail PROVE TypesAndScopes'
    <2>1. ContextInv' /\ matcher' \in [MatchedTypes -> [L : Nat, R : Nat]]
      BY <1>4, <1>6, WhileScopeOK DEF DoTail
    <2>2. open' \in Seq(Constructs)
      BY <1>4, <1>6, SetPartOK DEF DoTail, InnerIs, ParserTypeOK
    <2> QED BY <1>6, <2>1, <2>2 DEF DoTail, ParserTypeOK
  <1>7. ASSUME NEW k \in Kinds \cap LabelKinds, LabelKeyword(k)
        PROVE  TypesAndScopes'
    <2>1. ContextInv'
      BY <1>7, StutterInv DEF LabelKeyword
    <2>2. open' \in Seq(Constructs)
      BY <1>7, <2>1, StartedOK, KindsAreTypes DEF LabelKeyword, ContextInv
    <2> QED BY <1>7, <2>1, <2>2, MatcherOK DEF LabelKeyword, ParserTypeOK
  <1>8. ASSUME Break PROVE TypesAndScopes'
    <2>1. ContextInv'
      BY <1>8, PopCurrentInv, StutterInv DEF Break
    <2>2. open' \in Seq(Constructs)
      BY <1>8, StatementDoneOK DEF Break, ParserTypeOK
    <2> QED BY <1>8, <2>1, <2>2 DEF Break, ParserTypeOK
  <1> QED BY <1>1, <1>2, <1>3, <1>5, <1>6, <1>7, <1>8 DEF Keyword

(* Punctuation moves no scope.                                             *)
LEMMA PunctuationTypes ==
    ASSUME TypesAndScopes, Punctuation
    PROVE  TypesAndScopes'
  <1> USE DEF TypesAndScopes
  <1>1. UNCHANGED ctxVars /\ UNCHANGED <<failed, status>>
    BY DEF Punctuation, LeftCurly, OtherLeftCurly, OtherRightCurly, RightCurly,
           BareLabel, NoBraces, SimpleStatement, Semicolon, PortOrFrame
  <1>2. ContextInv'
    BY <1>1, StutterInv
  <1>3. matcher' \in [MatchedTypes -> [L : Nat, R : Nat]]
    BY MatcherOK DEF Punctuation, LeftCurly, OtherLeftCurly, OtherRightCurly,
           RightCurly, BareLabel, NoBraces, SimpleStatement, Semicolon,
           PortOrFrame, ParserTypeOK, UncountedRight
  <1>4. open' \in Seq(Constructs)
    <2>1. CASE \E p \in Parts : open # <<>> /\ open' = SetPart(open, p)
      BY <2>1, SetPartOK DEF ParserTypeOK
    <2>2. CASE open # <<>> /\ open' = Reduced
      BY <2>2, ReducedOK
    <2>3. CASE OtherLeftCurly
      <3>1. Len(CCV) \in Nat /\ GetCurrentContext \in Int
        BY CurrentExists DEF ContextInv, ContextTypeOK, Indices, StaticIXs,
                             GlobalIX, CalibrationIX
      <3>2. [kind |-> "Braces", part |-> "body", opened |-> FALSE,
             scope |-> GetCurrentContext, depth |-> Len(CCV)] \in Constructs
        BY <3>1 DEF Constructs, AllKinds, Parts
      <3> QED BY <2>3, <3>2 DEF OtherLeftCurly, ParserTypeOK
    <2>4. {"body", "after", "reduce", "list", "single"} \subseteq Parts
      BY DEF Parts
    <2> QED BY <2>1, <2>2, <2>3, <2>4
            DEF Punctuation, LeftCurly, OtherRightCurly, RightCurly, BareLabel,
                NoBraces, SimpleStatement, Semicolon, PortOrFrame, InnerIs
  <1> QED BY <1>1, <1>2, <1>3, <1>4 DEF ParserTypeOK

(* Reductions and errors.                                                  *)
LEMMA ReductionTypes ==
    ASSUME TypesAndScopes, Reduction, status = "parsing"
    PROVE  TypesAndScopes'
  <1> USE DEF TypesAndScopes
  <1>1. ASSUME Abort PROVE TypesAndScopes'
    BY <1>1, StutterInv DEF Abort, ParserTypeOK
  <1>2. ASSUME Reduce PROVE TypesAndScopes'
    <2>1. Inner.kind \in AllKinds /\ open' \in Seq(Constructs)
      BY <1>2, ReducedOK DEF Reduce, Constructs
    <2>2. ContextInv'
      <3>1. CASE Inner.kind \in LabelKinds
        BY <1>2, <2>1, <3>1, CloseLabelInv DEF Reduce
      <3>2. CASE Inner.kind \notin LabelKinds
        BY <1>2, <2>1, <3>2, RetypedLinks, PopInv DEF Reduce, ContextInv
      <3> QED BY <3>1, <3>2
    <2> QED BY <1>2, <2>1, <2>2, MatcherOK DEF Reduce, ParserTypeOK
  <1>3. ASSUME ReduceBareLabel PROVE TypesAndScopes'
    BY <1>3, StutterInv, ReducedOK DEF ReduceBareLabel, InnerIs, ParserTypeOK
  <1>4. ASSUME ReduceError PROVE TypesAndScopes'
    <2>1. Inner.kind \in AllKinds /\ Reduced \in Seq(Constructs)
      BY <1>4, ReducedOK DEF ReduceError, Constructs
    <2>2. CASE ExitOnError
      BY <1>4, <2>2, StutterInv DEF ReduceError, ParserTypeOK
    <2>3. CASE ~ExitOnError
      <3>1. ContextInv'
        <4>1. CASE DC' \in {DC, Retyped(Inner.kind)} /\ UNCHANGED <<CIX, CCV>>
          <5>1. SameLinks(DC')
            BY <2>1, <4>1, RetypedLinks DEF SameLinks, ContextInv, ContextTypeOK
          <5> QED BY <4>1, <5>1, LinksInv
        <4>2. CASE Inner.kind = "Defcal" /\ PopFrom(Retyped("Defcal"))
          BY <2>1, <4>2, RetypedLinks, PopInv DEF ContextInv
        <4> QED BY <1>4, <2>3, <4>1, <4>2 DEF ReduceError
      <3> QED BY <1>4, <2>1, <2>3, <3>1 DEF ReduceError, ParserTypeOK
    <2> QED BY <2>2, <2>3
  <1>5. ASSUME OtherError PROVE TypesAndScopes'
    BY <1>5, StutterInv DEF OtherError, ParserTypeOK
  <1> QED BY <1>1, <1>2, <1>3, <1>4, <1>5 DEF Reduction

LEMMA InitTypes == Init => TypesAndScopes
  <1> SUFFICES ASSUME Init PROVE TypesAndScopes
    OBVIOUS
  <1>1. ContextInv
    BY InitInv DEF Init
  <1>2. open \in Seq(Constructs)
    BY DEF Init
  <1>3. matcher \in [MatchedTypes -> [L : Nat, R : Nat]]
    <2>1. Zero \in [L : Nat, R : Nat]
      BY DEF Zero
    <2> QED BY <2>1 DEF Init
  <1>4. ParserTypeOK
    BY <1>2, <1>3 DEF Init, ParserTypeOK
  <1> QED BY <1>1, <1>4 DEF TypesAndScopes

LEMMA NextTypes == TypesAndScopes /\ [Next]_vars => TypesAndScopes'
  <1> SUFFICES ASSUME TypesAndScopes, [Next]_vars PROVE TypesAndScopes'
    OBVIOUS
  <1>1. CASE status = "parsing" /\ Keyword
    BY <1>1, KeywordTypes
  <1>2. CASE Punctuation
    BY <1>2, PunctuationTypes
  <1>3. CASE status = "parsing" /\ Reduction
    BY <1>3, ReductionTypes
  <1>4. CASE EndOfInput
    BY <1>4, StutterInv DEF EndOfInput, TypesAndScopes, ParserTypeOK
  <1>5. CASE UNCHANGED vars
    BY <1>5, StutterInv DEF vars, TypesAndScopes, ParserTypeOK
  <1> QED BY <1>1, <1>2, <1>3, <1>4, <1>5 DEF Next, Terminated

(* Whatever the program, its errors and its exceptional forms: parsing     *)
(* keeps the types, and the invariant of the tracker.                      *)
THEOREM TypesInvariant == Spec => []TypesAndScopes
  BY InitTypes, NextTypes, PTL DEF Spec

(* Type correctness of the protocol.                                       *)
THEOREM ProtocolTypes == Spec => []TypeOK
  <1>1. TypesAndScopes => TypeOK
    BY DEF TypesAndScopes, ContextInv, ParserTypeOK, TypeOK
  <1> QED BY <1>1, TypesInvariant, PTL

(* After any number of errors, and scopes left open by them, a lookup      *)
(* still walks down the stack of open scopes.                              *)
THEOREM ParserLookupChain == Spec => []StackChain
  <1>1. TypesAndScopes => StackChain
    BY DEF TypesAndScopes, ContextInv
  <1> QED BY <1>1, TypesInvariant, PTL

(* And IsDead() still tells exactly whether a scope is open.               *)
THEOREM ParserLiveScopes == Spec => []AliveIffOpen
  <1>1. TypesAndScopes => AliveIffOpen
    BY DEF TypesAndScopes, ContextInv
  <1> QED BY <1>1, TypesInvariant, PTL

-----------------------------------------------------------------------------
(* Break.                                                                  *)

(* No scope on the stack, and not the calibration scope, has a type that   *)
(* break looks for: the scopes of loops have other types, and those of     *)
(* labels are never on the stack.                                          *)
NoneToBreak ==
    /\ \A d \in 1..Len(CCV) : DC[CCV[d]].CTy \notin BreakTypes
    /\ DC[CalibrationIX].CTy \notin BreakTypes

LEMMA KindsNotBroken ==
    /\ \A k \in AllKinds \ LabelKinds : ScopeType(k) \notin BreakTypes
    /\ \A k \in RetypingKinds : k \notin BreakTypes
    /\ "OpenPulseCalibration" \notin BreakTypes /\ "Global" \notin BreakTypes
  BY DEF AllKinds, LabelKinds, ScopeType, BreakTypes, RetypingKinds,
         StatementKinds, DeclarationKinds

(* The stack only grows by scopes of other types, and retyping gives none. *)
LEMMA StackNotBroken ==
    ASSUME ContextTypeOK, NoneToBreak
    PROVE  /\ \A k \in AllKinds \ LabelKinds :
                 CreateContext(ScopeType(k)) => NoneToBreak'
           /\ SetCalibrationContext => NoneToBreak'
           /\ UNCHANGED ctxVars => NoneToBreak'
  <1> USE DEF NoneToBreak
  <1>1. CalibrationIX \in Indices /\ Len(CCV) \in Nat
    BY DEF Indices, StaticIXs, ContextTypeOK
  <1>2. ASSUME NEW k \in AllKinds \ LabelKinds, CreateContext(ScopeType(k))
        PROVE  NoneToBreak'
    BY <1>1, <1>2, CreateEffect, KindsNotBroken
  <1>3. ASSUME SetCalibrationContext PROVE NoneToBreak'
    BY <1>1, <1>3, CalibrateEffect
  <1>4. ASSUME UNCHANGED ctxVars PROVE NoneToBreak'
    BY <1>4 DEF ctxVars
  <1> QED BY <1>2, <1>3, <1>4

LEMMA RetypedNotBroken ==
    ASSUME ContextTypeOK, NoneToBreak, NEW dc \in {DC} \cup {Retyped(k) : k \in AllKinds}
    PROVE  /\ PopFrom(dc) => NoneToBreak'
           /\ DC' = dc /\ CCV' = CCV => NoneToBreak'
  <1>1. /\ CalibrationIX \in Indices /\ Len(CCV) \in Nat
        /\ \A d \in 1..Len(CCV) : CCV[d] \in Indices
        /\ DC \in [Indices -> ContextRecords]
    BY DEF Indices, StaticIXs, ContextTypeOK
  <1>2. SameLinks(dc)
    BY RetypedLinks DEF SameLinks, ContextTypeOK
  <1>3. \A i \in Indices : DC[i].CTy \notin BreakTypes => dc[i].CTy \notin BreakTypes
    <2>1. ASSUME NEW k \in AllKinds, NEW i \in Indices, dc = Retyped(k),
                 DC[i].CTy \notin BreakTypes
          PROVE  dc[i].CTy \notin BreakTypes
      <3>1. \/ dc = DC
            \/ k \notin BreakTypes /\ dc = [DC EXCEPT ![GetCurrentContext].CTy = k]
        BY <2>1, KindsNotBroken DEF Retyped, SetContextType
      <3> QED BY <1>1, <2>1, <3>1 DEF ContextRecords
    <2> QED BY <2>1
  <1>4. ASSUME PopFrom(dc) PROVE NoneToBreak'
    <2>1. /\ Len(CCV') \in 1..Len(CCV) \cup {Len(CCV)}
          /\ \A d \in 1..Len(CCV') : CCV'[d] = CCV[d]
          /\ \A i \in Indices : DC'[i].CTy = dc[i].CTy
      BY <1>1, <1>2, <1>4, PopEffect
    <2> QED BY <1>1, <1>3, <2>1 DEF NoneToBreak
  <1>5. ASSUME DC' = dc, CCV' = CCV PROVE NoneToBreak'
    BY <1>1, <1>3, <1>5 DEF NoneToBreak
  <1> QED BY <1>4, <1>5

LEMMA KeywordNotBroken ==
    ASSUME TypesAndScopes, NoneToBreak, Keyword
    PROVE  NoneToBreak' /\ (Break => UNCHANGED CCV)
  <1>1. ContextTypeOK
    BY DEF TypesAndScopes, ContextInv
  <1>2. /\ \A k \in Kinds \cap OpenedByKeyword : k \in AllKinds \ LabelKinds
        /\ \A k \in {"Extern", "WhileStatement"} :
              k \in AllKinds \ LabelKinds /\ ScopeType(k) = k
    BY KindsAreTypes DEF AllKinds, OpenedByKeyword, StatementKinds,
                         DeclarationKinds, LabelKinds, ScopeType
  <1>3. Break => UNCHANGED ctxVars
    <2>1. CurrentType \notin BreakTypes
      BY <1>1, CurrentExists DEF NoneToBreak, CurrentType, GetCurrentContext
    <2> QED BY <2>1 DEF Break
  <1>4. \/ \E k \in AllKinds \ LabelKinds : CreateContext(ScopeType(k))
        \/ SetCalibrationContext
        \/ UNCHANGED ctxVars
    BY <1>2, <1>3 DEF Keyword, OpenScope, CalKeyword, ExternKeyword,
                      WhileKeyword, DoTail, WhileScope, LabelKeyword
  <1>5. NoneToBreak'
    BY <1>1, <1>4, StackNotBroken
  <1> QED BY <1>3, <1>5 DEF ctxVars

LEMMA ReductionNotBroken ==
    ASSUME TypesAndScopes, NoneToBreak, Reduction
    PROVE  NoneToBreak'
  <1>1. ContextInv /\ ContextTypeOK
    BY DEF TypesAndScopes, ContextInv
  <1>2. open # <<>> => Inner.kind \in AllKinds
    BY ReducedOK DEF TypesAndScopes, Constructs
  <1>3. "Defcal" \in AllKinds
    BY DEF AllKinds, DeclarationKinds
  <1>4. ASSUME NEW k \in AllKinds, CloseLabel(k) PROVE NoneToBreak'
    <2>1. CCV' = CCV /\ \A i \in Indices : DC'[i] = DC[i]
      BY <1>1, <1>4, CloseLabelInv
    <2>2. CalibrationIX \in Indices /\ \A d \in 1..Len(CCV) : CCV[d] \in Indices
      BY <1>1 DEF Indices, StaticIXs, ContextTypeOK
    <2> QED BY <2>1, <2>2 DEF NoneToBreak
  <1>5. ASSUME Reduce PROVE NoneToBreak'
    BY <1>1, <1>2, <1>4, <1>5, RetypedNotBroken DEF Reduce
  <1>6. ASSUME ReduceError PROVE NoneToBreak'
    <2>1. \/ UNCHANGED ctxVars
          \/ DC' \in {DC, Retyped(Inner.kind)} /\ CCV' = CCV
          \/ PopFrom(Retyped("Defcal"))
      BY <1>6 DEF ReduceError
    <2>2. Inner.kind \in AllKinds
      BY <1>2, <1>6 DEF ReduceError
    <2> QED BY <1>1, <1>3, <2>1, <2>2, RetypedNotBroken, StackNotBroken
  <1>7. ASSUME Abort \/ ReduceBareLabel \/ OtherError PROVE NoneToBreak'
    BY <1>1, <1>7, StackNotBroken DEF Abort, ReduceBareLabel, OtherError
  <1> QED BY <1>5, <1>6, <1>7 DEF Reduction

LEMMA NextNotBroken ==
    TypesAndScopes /\ NoneToBreak /\ [Next]_vars
       => NoneToBreak' /\ (Break => UNCHANGED CCV)
  <1> SUFFICES ASSUME TypesAndScopes, NoneToBreak, [Next]_vars
               PROVE  NoneToBreak' /\ (Break => UNCHANGED CCV)
    OBVIOUS
  <1>1. CASE Keyword
    BY <1>1, KeywordNotBroken
  <1>2. ContextTypeOK
    BY DEF TypesAndScopes, ContextInv
  <1>3. Break => UNCHANGED CCV
    BY <1>1, KeywordNotBroken DEF Keyword
  <1>4. CASE Punctuation \/ EndOfInput \/ UNCHANGED vars
    <2>1. UNCHANGED ctxVars
      BY <1>4 DEF vars, EndOfInput, Punctuation, LeftCurly, OtherLeftCurly,
                  OtherRightCurly, RightCurly, BareLabel, NoBraces,
                  SimpleStatement, Semicolon, PortOrFrame
    <2> QED BY <1>2, <1>3, <2>1, StackNotBroken
  <1>5. CASE Reduction
    BY <1>3, <1>5, ReductionNotBroken
  <1> QED BY <1>1, <1>4, <1>5 DEF Next, Terminated

(* A break leaves every scope open, in every program: the types it looks   *)
(* for (scanner, rule for break) are never those of a current scope.       *)
THEOREM BreakClosesNothing == Spec => BreakKeepsScopes
  <1>1. Init => NoneToBreak
    BY KindsNotBroken
    DEF Init, ContextInit, NoneToBreak, StaticIXs, GlobalIX, CalibrationIX, Context
  <1>2. TypesAndScopes /\ NoneToBreak /\ [Next]_vars
           => NoneToBreak' /\ [Break => UNCHANGED CCV]_vars
    BY NextNotBroken
  <1> QED BY <1>1, <1>2, TypesInvariant, PTL DEF Spec, BreakKeepsScopes
=============================================================================
