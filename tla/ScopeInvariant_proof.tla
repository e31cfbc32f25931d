------------------------ MODULE ScopeInvariant_proof ------------------------
(***************************************************************************)
(* On a program without errors and without the forms on which scanner and  *)
(* parser disagree, ScopesInStep is inductive (relative to the types and   *)
(* the tracker's invariant), and the safety properties of ScopeProtocol    *)
(* follow from it.                                                         *)
(*                                                                         *)
(* Most steps leave the constructs below the innermost one, and the scopes *)
(* they lie on, as they were (KeptTo); what is left to show for each       *)
(* action is that the innermost construct, new, changed or exposed, is in  *)
(* step.  The three lemmas PushedInStep, PartInStep and ReducedInStep do   *)
(* this once for each way the parser's stack can change.                   *)
(***************************************************************************)
EXTENDS ScopeInvariant, ScopeProtocol_proof

Same(c, d) ==
    c.kind = d.kind /\ c.opened = d.opened /\ c.scope = d.scope /\ c.depth = d.depth

(* The first n constructs are kept, but for the part the parser is in, and *)
(* so are the scopes up to the height they reach.                          *)
KeptTo(n) ==
    /\ n \in 0..Len(open) /\ n <= Len(open')
    /\ \A i \in 1..n : Same(open'[i], open[i])
    /\ Height(n) <= Len(CCV')
    /\ \A d \in 1..Height(n) : CCV'[d] = CCV[d] /\ DC'[CCV[d]].CTy = DC[CCV[d]].CTy

(* The facts about the two stacks that every step starts from.             *)
LEMMA InStepFacts ==
    ASSUME TypesAndScopes, InStep
    PROVE  /\ Len(open) \in Nat /\ Len(CCV) \in Nat \ {0}
           /\ \A i \in 1..Len(open) : open[i] \in Constructs
           /\ \A n \in 0..Len(open) : Height(n) \in 1..Len(CCV)
           /\ \A j, n \in 0..Len(open) : j <= n => Height(j) <= Height(n)
           /\ \A d \in 1..Len(CCV) : CCV[d] \in Indices
           /\ CalibrationIX \in Indices
  <1>1. Len(open) \in Nat /\ \A i \in 1..Len(open) : open[i] \in Constructs
    BY DEF TypesAndScopes, ParserTypeOK
  <1>2. /\ Len(CCV) \in Nat \ {0} /\ \A d \in 1..Len(CCV) : CCV[d] \in Indices
        /\ CalibrationIX \in Indices
    BY CurrentExists
    DEF TypesAndScopes, ContextInv, ContextTypeOK, Indices, StaticIXs
  <1>3. \A n \in 0..Len(open) : Height(n) \in 1..Len(CCV)
    BY <1>1, <1>2 DEF InStep, Stacked, Height
  <1>4. ASSUME NEW j \in 0..Len(open), NEW n \in 0..Len(open), j <= n
        PROVE  Height(j) <= Height(n)
    <2>1. CASE j = 0
      BY <1>1, <1>2, <1>3, <2>1 DEF Height
    <2>2. CASE j # 0
      <3>1. j \in 1..Len(open) /\ n \in 1..Len(open)
        BY <1>1, <1>4, <2>2
      <3> QED BY <1>4, <3>1 DEF InStep, Height
    <2> QED BY <2>1, <2>2
  <1> QED BY <1>1, <1>2, <1>3, <1>4

(* What is kept stays in step.                                             *)
LEMMA KeptStacked ==
    ASSUME TypesAndScopes, InStep, NEW n, KeptTo(n)
    PROVE  /\ \A k \in 0..n : Height(k)' = Height(k)
           /\ \A j, k \in 1..n : j <= k => open'[j].depth <= open'[k].depth
           /\ \A k \in 1..n : Stacked(k)' /\ Counted(k)'
           /\ \A k \in 1..n : open'[k].part = open[k].part => Opened(k)'
  <1>1. /\ n \in Nat /\ n <= Len(open)
        /\ \A i \in 1..n : i \in 1..Len(open) /\ Same(open'[i], open[i])
    BY InStepFacts DEF KeptTo
  <1>2. \A k \in 0..n : Height(k)' = Height(k)
    BY <1>1 DEF Height, Same
  <1>3. \A j, k \in 1..n : j <= k => open'[j].depth <= open'[k].depth
    BY <1>1 DEF InStep, Same
  <1>4. ASSUME NEW k \in 1..n
        PROVE  /\ k \in 1..Len(open) /\ k - 1 \in 0..n
               /\ open[k].depth \in 1..Height(n)
               /\ Height(k-1)' = Height(k-1)
               /\ Stacked(k) /\ Opened(k) /\ Counted(k)
               /\ CCV'[open[k].depth] = CCV[open[k].depth]
               /\ CCV[open[k].depth] = open[k].scope
               /\ DC'[open[k].scope].CTy = DC[open[k].scope].CTy
    <2>1. k \in 1..Len(open) /\ k - 1 \in 0..n /\ k \in 0..Len(open) /\ n \in 0..Len(open)
      BY <1>1
    <2>2. Height(k) <= Height(n) /\ Height(k) = open[k].depth
      BY <1>1, <2>1, InStepFacts DEF Height
    <2>3. open[k].depth \in 1..Height(n)
      BY <2>1, <2>2, InStepFacts
    <2>4. Stacked(k) /\ Opened(k) /\ Counted(k)
      BY <2>1 DEF InStep
    <2> QED BY <1>2, <2>1, <2>3, <2>4 DEF KeptTo, Stacked
  <1>5. ASSUME NEW k \in 1..n PROVE Stacked(k)'
    <2>1. open[k].depth <= Len(CCV')
      BY <1>1, <1>4, InStepFacts DEF KeptTo
    <2>2. Same(open'[k], open[k])
      BY <1>1
    <2> QED BY <1>4, <2>1, <2>2 DEF Stacked, Same
  <1>6. ASSUME NEW k \in 1..n PROVE Counted(k)'
    <2>1. CASE open[k].kind \in LabelKinds
      <3>1. k > 1 /\ k - 1 \in 1..n /\ open[k-1].kind = "SwitchStatement"
        BY <1>1, <1>4, <2>1 DEF Counted
      <3> QED BY <1>1, <1>4, <2>1, <3>1 DEF Counted, Same, LabelKinds
    <2>2. CASE open[k].kind \notin LabelKinds
      BY <1>1, <1>4, <2>2 DEF Counted, Same
    <2> QED BY <2>1, <2>2
  <1>7. ASSUME NEW k \in 1..n, open'[k].part = open[k].part PROVE Opened(k)'
    BY <1>1, <1>4, <1>7 DEF Opened, Same
  <1> QED BY <1>2, <1>3, <1>5, <1>6, <1>7

-----------------------------------------------------------------------------
(* The three ways the parser's stack changes.                              *)

(* A construct c is started on top of constructs that are kept.            *)
StartsInStep(c) ==
    /\ c.depth = Len(CCV') /\ c.depth >= 1 /\ CCV'[c.depth] = c.scope
    /\ c.depth = Len(CCV) + (IF c.opened THEN 1 ELSE 0)
    /\ c.opened => /\ DC'[c.scope].CTy = ScopeType(c.kind)
                   /\ c.scope = CalibrationIX => c.kind = "OpenPulseCalibration"
    /\ c.kind \in LabelKinds => /\ ~c.opened
                                /\ open # <<>> /\ Inner.kind = "SwitchStatement"
    /\ c.kind = "Braces" => /\ ~c.opened /\ c.part = "body"
                            /\ DC'[c.scope].CTy # "DoWhileStatement"
    /\ c.kind \notin LabelKinds \cup {"Braces"} =>
          /\ c.opened \/ c.kind = "Extern"
          /\ c.part = "head"

LEMMA PushedInStep ==
    ASSUME TypesAndScopes, InStep, KeptTo(Len(open)),
           NEW c \in Constructs, Len(open') = Len(open) + 1,
           open'[Len(open) + 1] = c, StartsInStep(c), c.part \in {"head", "body"},
           \A i \in 1..Len(open) : open'[i] = open[i],
           open # <<>> => Inner.part \in {"head", "body", "single", "list"},
           DC'[CalibrationIX].CTy = DC[CalibrationIX].CTy,
           matcher'["DoWhileStatement"].R = 0, status' # "aborted"
    PROVE  InStep'
  <1>0. PICK n \in Nat : n = Len(open)
    BY InStepFacts
  <1>1. /\ n \in 0..n /\ n + 1 \in Nat /\ n + 1 > 0 /\ Len(open') = n + 1
        /\ n + 1 - 1 = n /\ open' # <<>> /\ open'[n + 1] = c
        /\ \A k \in 1..(n + 1) : k \in 1..n \/ k = n + 1
        /\ n # 0 <=> open # <<>>
        /\ \A i \in 1..n : open'[i] = open[i]
    BY <1>0 DEF TypesAndScopes, ParserTypeOK
  <1>2. Height(n)' = Height(n) /\ Height(n) = Len(CCV) /\ KeptTo(n)
    BY <1>0, <1>1, KeptStacked DEF InStep
  <1>3. ASSUME NEW k \in 1..n
        PROVE  /\ Stacked(k)' /\ Opened(k)' /\ Counted(k)' /\ Placed(k)'
               /\ open'[k].depth <= c.depth
    <2>1. k \in 0..n /\ open[k] = open'[k] /\ Placed(k)
      BY <1>0, <1>1 DEF InStep
    <2>2. /\ Height(k) <= Height(n) /\ Height(k) = open[k].depth
          /\ Len(CCV) \in Nat /\ open[k].depth \in Nat
      <3>1. k \in 0..Len(open) /\ n \in 0..Len(open) /\ k <= n /\ k # 0
        BY <1>0, <1>1
      <3>2. open[k] \in Constructs
        BY <1>0, InStepFacts
      <3> QED BY <3>1, <3>2, InStepFacts DEF Height, Constructs
    <2>3. open'[k].depth <= c.depth
      BY <1>2, <2>1, <2>2 DEF StartsInStep
    <2>4. Placed(k)'
      <3>1. open'[k].part \in {"head", "body", "single", "list"}
        BY <1>0, <1>1, <2>1 DEF Inner, Placed
      <3> QED BY <2>1, <3>1 DEF Placed
    <2> QED BY <1>2, <2>1, <2>3, <2>4, KeptStacked
  <1>4. ASSUME NEW m \in 1..(n + 1), m = n + 1
        PROVE  Stacked(m)' /\ Opened(m)' /\ Counted(m)' /\ Placed(m)'
    <2>1. m - 1 = n /\ open'[m] = c /\ (m > 1 <=> open # <<>>)
      BY <1>1, <1>4
    <2>2. Height(m-1)' = Len(CCV)
      BY <1>2, <2>1
    <2>3. Stacked(m)'
      BY <2>1, <2>2 DEF Stacked, StartsInStep, Constructs
    <2>4. Opened(m)' /\ Placed(m)'
      BY <1>1, <1>4, <2>1 DEF Opened, Placed, StartsInStep, LabelKinds
    <2>5. open # <<>> => open'[m-1] = Inner
      BY <1>0, <1>1, <2>1 DEF Inner
    <2>6. Counted(m)'
      BY <2>1, <2>5 DEF Counted, StartsInStep, LabelKinds
    <2> QED BY <2>3, <2>4, <2>6
  <1>5. ASSUME NEW k \in 1..(n + 1)
        PROVE  Stacked(k)' /\ Opened(k)' /\ Counted(k)' /\ Placed(k)'
    BY <1>1, <1>3, <1>4
  <1>6. \A j, k \in 1..(n + 1) : j <= k => open'[j].depth <= open'[k].depth
    <2>1. \A j, k \in 1..n : j <= k => open'[j].depth <= open'[k].depth
      BY <1>2, KeptStacked
    <2>2. c.depth <= c.depth
      BY DEF Constructs
    <2>3. \A k \in 1..n : ~(n + 1 <= k)
      BY <1>1
    <2> QED BY <1>1, <1>3, <2>1, <2>2, <2>3
  <1>7. ~PastDo'
    BY <1>1 DEF PastDo, InnerIs, Inner
  <1>8. Len(CCV') = Height(Len(open))'
    BY <1>1 DEF StartsInStep, Height
  <1> QED BY <1>1, <1>5, <1>6, <1>7, <1>8 DEF InStep

(* Only the part the parser is in changes, to p, in the innermost.         *)
LEMMA PartInStep ==
    ASSUME TypesAndScopes, InStep, open # <<>>, NEW p \in Parts,
           open' = SetPart(open, p),
           UNCHANGED ctxVars, status' # "aborted",
           Inner.kind = "Extern" => Inner.opened \/ p = "head",
           Inner.kind = "Braces" => p = "body",
           Inner.kind = "DoWhileStatement" =>
              p \in {"head", "body", "after", "tail", "reduce"},
           matcher'["DoWhileStatement"].R =
              IF Inner.kind = "DoWhileStatement" /\ p \in {"after", "tail", "reduce"}
              THEN 1 ELSE 0
    PROVE  InStep'
  <1> DEFINE n == Len(open)
  <1>1. /\ n \in Nat /\ n > 0 /\ n \in 1..n /\ n \in 0..n /\ Len(open') = n
        /\ Inner \in Constructs /\ Inner = open[n] /\ open' # <<>>
        /\ \A i \in 1..n : open'[i] =
              IF i = n THEN [open[i] EXCEPT !.part = p] ELSE open[i]
    <2>1. /\ n \in Nat /\ n > 0 /\ Inner \in Constructs /\ Inner = open[n]
      BY ReducedOK DEF TypesAndScopes
    <2>2. n \in 1..n /\ n \in 0..n
      BY <2>1
    <2>3. /\ Len(open') = n
          /\ \A i \in 1..n : open'[i] =
                IF i = n THEN [open[i] EXCEPT !.part = p] ELSE open[i]
      BY SetPartOK DEF TypesAndScopes, ParserTypeOK
    <2>4. open' # <<>>
      BY <2>1, <2>3
    <2> QED BY <2>1, <2>2, <2>3, <2>4
  <1>2. /\ \A i \in 1..n : Same(open'[i], open[i])
        /\ \A i \in 1..n : i # n => open'[i].part = open[i].part
        /\ open'[n].part = p
    BY <1>1, InStepFacts DEF Same, Constructs
  <1>3. KeptTo(n) /\ Height(n)' = Height(n)
    <2>1. KeptTo(n)
      BY <1>1, <1>2, InStepFacts DEF KeptTo, ctxVars
    <2> QED BY <1>1, <2>1, KeptStacked
  <1>4. ASSUME NEW k \in 1..n
        PROVE  Stacked(k)' /\ Opened(k)' /\ Counted(k)' /\ Placed(k)'
    <2>1. Stacked(k)' /\ Counted(k)' /\ Opened(k) /\ Placed(k)
      BY <1>3, KeptStacked DEF InStep
    <2>2. Opened(k)' /\ Placed(k)'
      BY <1>1, <1>2, <2>1 DEF Opened, Placed, Same
    <2> QED BY <2>1, <2>2
  <1>5. \A j, k \in 1..n : j <= k => open'[j].depth <= open'[k].depth
    BY <1>3, KeptStacked
  <1>6. PastDo' <=> Inner.kind = "DoWhileStatement" /\ p \in {"after", "tail", "reduce"}
    BY <1>1, <1>2 DEF PastDo, InnerIs, Inner, Same
  <1>7. Len(CCV') = Height(Len(open))'
    BY <1>1, <1>3 DEF InStep, ctxVars
  <1> QED BY <1>1, <1>4, <1>5, <1>6, <1>7 DEF InStep, ctxVars

(* The innermost construct is reduced, and what is below it is kept.       *)
LEMMA ReducedInStep ==
    ASSUME TypesAndScopes, InStep, open # <<>>, open' = Reduced,
           KeptTo(Len(open) - 1), Len(CCV') = Height(Len(open) - 1),
           DC'[CalibrationIX].CTy = DC[CalibrationIX].CTy,
           matcher'["DoWhileStatement"].R = 0, status' # "aborted"
    PROVE  InStep'
  <1> DEFINE n == Len(open) - 1
  <1>1. /\ n \in Nat /\ Len(open) = n + 1 /\ Len(open') = n
        /\ \A i \in 1..n : i \in 1..Len(open) /\ i < Len(open)
        /\ \A i \in 1..n :
              \/ open'[i] = open[i]
              \/ /\ i = n /\ open[i].part = "single"
                 /\ open'[i] = [open[i] EXCEPT !.part = "reduce"]
    BY ReducedOK DEF TypesAndScopes
  <1>2. ASSUME NEW k \in 1..n
        PROVE  /\ Stacked(k)' /\ Opened(k)' /\ Counted(k)' /\ Placed(k)'
               /\ ~(open'[k].kind = "DoWhileStatement"
                      /\ open'[k].part \in {"after", "tail", "reduce"})
    <2>1. /\ Stacked(k)' /\ Counted(k)' /\ Opened(k) /\ Placed(k)
          /\ Same(open'[k], open[k])
      BY <1>1, KeptStacked DEF InStep, KeptTo
    <2>2. open[k].part \in {"head", "body", "single", "list"} /\ open[k] \in Constructs
      BY <1>1, <2>1, InStepFacts DEF Placed
    <2>3. \/ open'[k].part = open[k].part
          \/ k = n /\ open[k].part = "single" /\ open'[k].part = "reduce"
      BY <1>1, <2>2 DEF Constructs
    <2>4. Opened(k)' /\ Placed(k)'
      BY <1>1, <2>1, <2>2, <2>3 DEF Opened, Placed, Same
    <2> QED BY <2>1, <2>2, <2>3, <2>4 DEF Placed, Same
  <1>3. \A j, k \in 1..n : j <= k => open'[j].depth <= open'[k].depth
    BY KeptStacked
  <1>4. ~PastDo'
    <2>1. open' # <<>> => n \in 1..n
      BY <1>1
    <2> QED BY <1>1, <1>2, <2>1 DEF PastDo, InnerIs, Inner
  <1>5. Len(CCV') = Height(Len(open))'
    BY <1>1, KeptStacked
  <1> QED BY <1>1, <1>2, <1>3, <1>4, <1>5 DEF InStep

-----------------------------------------------------------------------------
(* The innermost construct and the current scope.                          *)

LEMMA InnerInStep ==
    ASSUME TypesAndScopes, InStep, open # <<>>
    PROVE  /\ Inner \in Constructs
           /\ Inner.depth = Len(CCV) /\ Inner.scope = GetCurrentContext
           /\ Len(CCV) = Height(Len(open) - 1) + (IF Inner.opened THEN 1 ELSE 0)
           /\ Inner.opened => /\ CurrentType = ScopeType(Inner.kind)
                              /\ ~InGlobalContext /\ Len(CCV) > 1
                              /\ InCalibrationContext
                                    => Inner.kind = "OpenPulseCalibration"
           /\ Inner.kind \in LabelKinds \cup {"Braces"} => ~Inner.opened
           /\ Inner.kind = "Extern" => Inner.opened \/ Inner.part = "head"
           /\ Inner.kind \notin LabelKinds \cup {"Braces", "Extern"} => Inner.opened
           /\ Inner.kind = "DoWhileStatement" =>
                 Inner.part \in {"head", "body", "after", "tail", "reduce"}
           /\ Inner.kind = "Braces" => Inner.part = "body"
           /\ CurrentType = "DoWhileStatement" =>
                 \/ Inner.kind = "DoWhileStatement"
                 \/ Inner.kind = "Extern" /\ Inner.part = "head"
  <1>0. PICK n \in Nat : n = Len(open)
    BY InStepFacts
  <1>1. /\ n > 0 /\ n \in 1..n /\ n - 1 \in 0..n /\ n \in 0..n
        /\ Inner = open[n] /\ Inner \in Constructs
    BY <1>0, ReducedOK DEF TypesAndScopes
  <1>2. Stacked(n) /\ Opened(n) /\ Counted(n) /\ Placed(n)
    BY <1>0, <1>1 DEF InStep
  <1>3. Inner.depth = Len(CCV) /\ Inner.scope = GetCurrentContext
    BY <1>0, <1>1, <1>2 DEF InStep, Height, Stacked, GetCurrentContext
  <1>4. Len(CCV) = Height(n - 1) + (IF Inner.opened THEN 1 ELSE 0)
    BY <1>1, <1>2, <1>3 DEF Stacked
  <1>5. ASSUME Inner.opened
        PROVE  /\ CurrentType = ScopeType(Inner.kind)
               /\ ~InGlobalContext /\ Len(CCV) > 1
               /\ InCalibrationContext => Inner.kind = "OpenPulseCalibration"
    <2>1. Height(n - 1) >= 1 /\ Height(n - 1) \in Nat
      BY <1>0, <1>1, InStepFacts
    <2>2. Len(CCV) > 1 /\ Len(CCV) \in 2..Len(CCV)
      BY <1>4, <1>5, <2>1, InStepFacts
    <2>3. ~InGlobalContext
      BY <2>2 DEF TypesAndScopes, ContextInv, StackChain, InGlobalContext,
                  GetCurrentContext
    <2>4. CurrentType = ScopeType(Inner.kind)
      BY <1>1, <1>2, <1>3, <1>5 DEF Stacked, CurrentType
    <2>5. InCalibrationContext => Inner.kind = "OpenPulseCalibration"
      BY <1>1, <1>2, <1>3, <1>5 DEF Stacked, InCalibrationContext
    <2> QED BY <2>2, <2>3, <2>4, <2>5
  <1>6. Inner.kind \in LabelKinds => CurrentType = "SwitchStatement"
    <2> SUFFICES ASSUME Inner.kind \in LabelKinds
                 PROVE  CurrentType = "SwitchStatement"
      OBVIOUS
    <2>1. PICK m \in Nat : m = n - 1
      BY <1>1
    <2>2. /\ m # 0 /\ m \in 1..Len(open) /\ open[m].kind = "SwitchStatement"
      BY <1>0, <1>1, <1>2, <2>1 DEF Counted
    <2>3. Stacked(m) /\ Opened(m) /\ ~Inner.opened
      BY <1>1, <1>2, <2>2 DEF InStep, Opened
    <2>4. open[m].opened /\ Height(m) = open[m].depth
      BY <2>2, <2>3 DEF Opened, LabelKinds, Height
    <2>5. open[m].depth = Len(CCV)
      BY <1>0, <1>1, <1>4, <2>1, <2>3, <2>4, InStepFacts
    <2> QED BY <2>2, <2>3, <2>4, <2>5
            DEF Stacked, ScopeType, CurrentType, GetCurrentContext
  <1>7. CurrentType = "DoWhileStatement" =>
           \/ Inner.kind = "DoWhileStatement"
           \/ Inner.kind = "Extern" /\ Inner.part = "head"
    <2> SUFFICES ASSUME CurrentType = "DoWhileStatement"
                 PROVE  \/ Inner.kind = "DoWhileStatement"
                        \/ Inner.kind = "Extern" /\ Inner.part = "head"
      OBVIOUS
    <2>1. CASE Inner.opened
      BY <1>5, <2>1 DEF ScopeType
    <2>2. CASE ~Inner.opened
      <3>1. Inner.kind # "Braces"
        BY <1>1, <1>2, <1>3 DEF Counted, CurrentType
      <3> QED BY <1>1, <1>2, <1>6, <2>2, <3>1 DEF Opened
    <2> QED BY <2>1, <2>2
  <1> QED BY <1>0, <1>1, <1>2, <1>3, <1>4, <1>5, <1>7 DEF Opened, Placed

-----------------------------------------------------------------------------
(* Keywords.                                                               *)

(* A keyword is met only where no do is past its body.                     *)
LEMMA StatementStart ==
    ASSUME TypesAndScopes, InStep,
           AtStatement \/ AtPulseStatement \/ InnerIs(AllKinds, {"head", "body"})
    PROVE  /\ matcher["DoWhileStatement"].R = 0
           /\ open # <<>> => Inner.part \in {"head", "body", "single", "list"}
  <1>1. open # <<>> => Inner.part \in {"head", "body", "single", "list"}
    BY DEF AtStatement, AtPulseStatement, InnerIs
  <1>2. ~PastDo
    BY <1>1 DEF PastDo, InnerIs
  <1> QED BY <1>1, <1>2 DEF InStep

(* The scopes below a new one are kept.                                    *)
LEMMA CreateKeeps ==
    ASSUME TypesAndScopes, InStep, NEW ty, CreateContext(ty) \/ SetCalibrationContext
                                           \/ UNCHANGED ctxVars,
           Len(open') = Len(open) + 1, \A i \in 1..Len(open) : open'[i] = open[i]
    PROVE  /\ KeptTo(Len(open))
           /\ DC'[CalibrationIX] = DC[CalibrationIX]
  <1>1. /\ Height(Len(open)) = Len(CCV) /\ Len(CCV) \in Nat /\ Len(open) \in Nat
        /\ CalibrationIX \in Indices /\ \A d \in 1..Len(CCV) : CCV[d] \in Indices
    BY InStepFacts DEF InStep
  <1>2. /\ Len(CCV) <= Len(CCV') /\ DC'[CalibrationIX] = DC[CalibrationIX]
        /\ \A d \in 1..Len(CCV) : CCV'[d] = CCV[d] /\ DC'[CCV[d]] = DC[CCV[d]]
    <2>1. ContextTypeOK
      BY DEF TypesAndScopes, ContextInv
    <2>2. CASE CreateContext(ty)
      BY <1>1, <2>1, <2>2, CreateEffect
    <2>3. CASE SetCalibrationContext
      BY <1>1, <2>1, <2>3, CalibrateEffect
    <2>4. CASE UNCHANGED ctxVars
      BY <1>1, <2>4 DEF ctxVars
    <2> QED BY <2>2, <2>3, <2>4
  <1>3. Len(open) <= Len(open') /\ Len(open) \in 0..Len(open)
    BY <1>1
  <1> QED BY <1>1, <1>2, <1>3 DEF KeptTo, Same

(* A keyword that opens a scope for its construct.                         *)
LEMMA OpeningInStep ==
    ASSUME TypesAndScopes, TypesAndScopes', InStep, status' # "aborted",
           AtStatement \/ AtPulseStatement,
           NEW k \in AllKinds \ (LabelKinds \cup {"Braces"}),
           \/ CreateContext(ScopeType(k))
           \/ k = "OpenPulseCalibration" /\ SetCalibrationContext,
           open' = Started(k, TRUE),
           matcher'["DoWhileStatement"].R \in {0, matcher["DoWhileStatement"].R}
    PROVE  InStep'
  <1> DEFINE c == [kind |-> k, part |-> "head", opened |-> TRUE,
                   scope |-> GetCurrentContext', depth |-> Len(CCV')]
  <1>1. ContextTypeOK /\ ContextTypeOK' /\ ParserTypeOK
    BY DEF TypesAndScopes, ContextInv
  <1>2. /\ Started(k, TRUE) \in Seq(Constructs)
        /\ Len(open') = Len(open) + 1
        /\ \A i \in 1..Len(open) : open'[i] = open[i]
        /\ open'[Len(open) + 1] = c
        /\ c \in Constructs
    BY <1>1, StartedOK
  <1>3. KeptTo(Len(open)) /\ DC'[CalibrationIX] = DC[CalibrationIX]
    BY <1>2, CreateKeeps
  <1>4. /\ Len(CCV') = Len(CCV) + 1
        /\ CCV'[Len(CCV')] = GetCurrentContext'
        /\ DC'[GetCurrentContext'].CTy = ScopeType(k)
        /\ GetCurrentContext' = CalibrationIX => k = "OpenPulseCalibration"
    <2>1. CASE CreateContext(ScopeType(k))
      <3>1. CIX # CalibrationIX
        BY <1>1, CreateEffect, <2>1 DEF CalibrationIX
      <3> QED BY <1>1, <2>1, <3>1, CreateEffect
    <2>2. CASE k = "OpenPulseCalibration" /\ SetCalibrationContext
      BY <1>1, <2>2, CalibrateEffect DEF ScopeType, InStep
    <2> QED BY <2>1, <2>2
  <1>5. StartsInStep(c)
    BY <1>4, InStepFacts DEF StartsInStep
  <1>6. c.part \in {"head", "body"}
    OBVIOUS
  <1> HIDE DEF c
  <1>7. matcher'["DoWhileStatement"].R = 0
    BY StatementStart
  <1> QED BY <1>2, <1>3, <1>5, <1>6, <1>7, StatementStart, PushedInStep

(* One that opens none: a label, or an extern in a cal block.              *)
LEMMA UnopenedInStep ==
    ASSUME TypesAndScopes, TypesAndScopes', InStep, status' # "aborted",
           open # <<>>, Inner.part \in {"head", "body", "single", "list"},
           NEW k \in LabelKinds \cup {"Extern"},
           k \in LabelKinds => Inner.kind = "SwitchStatement",
           UNCHANGED ctxVars, open' = Started(k, FALSE),
           matcher'["DoWhileStatement"].R = 0
    PROVE  InStep'
  <1> DEFINE c == [kind |-> k, part |-> "head", opened |-> FALSE,
                   scope |-> GetCurrentContext', depth |-> Len(CCV')]
  <1>1. ContextTypeOK' /\ ParserTypeOK /\ k \in AllKinds
    BY DEF TypesAndScopes, ContextInv, AllKinds
  <1>2. /\ Started(k, FALSE) \in Seq(Constructs)
        /\ Len(open') = Len(open) + 1
        /\ \A i \in 1..Len(open) : open'[i] = open[i]
        /\ open'[Len(open) + 1] = c
        /\ c \in Constructs
    BY <1>1, StartedOK
  <1>3. KeptTo(Len(open)) /\ DC'[CalibrationIX] = DC[CalibrationIX]
    BY <1>2, CreateKeeps
  <1>4. StartsInStep(c)
    BY InStepFacts DEF StartsInStep, LabelKinds, ctxVars, GetCurrentContext
  <1>5. c.part \in {"head", "body"}
    OBVIOUS
  <1> HIDE DEF c
  <1> QED BY <1>2, <1>3, <1>4, <1>5, PushedInStep

(* What the two uses of `while' do: the counter of right braces tells them *)
(* apart.                                                                  *)
LEMMA WhileInStep ==
    ASSUME TypesAndScopes, InStep, WhileScope(WhileOpens)
    PROVE  /\ PastDo => UNCHANGED <<ctxVars, matcher>>
           /\ ~PastDo => /\ WhileOpens = TRUE
                         /\ CreateContext("WhileStatement")
                         /\ matcher'["DoWhileStatement"].R = 0
  <1>1. WhileOpens = (matcher["DoWhileStatement"].R = 0)
    BY DEF WhileOpens, DoBraces
  <1>2. CASE PastDo
    <2>1. matcher["DoWhileStatement"].R = 1
      BY <1>2 DEF InStep
    <2>2. ~(matcher["DoWhileStatement"].R = 0)
      BY <2>1
    <2>3. WhileOpens = FALSE
      BY <1>1, <2>2
    <2> QED BY <1>2, <2>3 DEF WhileScope
  <1>3. CASE ~PastDo
    <2>1. WhileOpens = TRUE /\ matcher["DoWhileStatement"].R = 0
      BY <1>1, <1>3 DEF InStep
    <2>2. "DoWhileStatement" \in MatchedTypes
      BY DEF MatchedTypes, StatementKinds
    <2>3. matcher'["DoWhileStatement"].R = 0
      BY <2>1, <2>2, MatcherOK DEF WhileScope, TypesAndScopes
    <2> QED BY <1>3, <2>1, <2>3 DEF WhileScope
  <1> QED BY <1>2, <1>3

LEMMA KeywordInStep ==
    ASSUME TypesAndScopes, TypesAndScopes', NoneToBreak, InStep,
           status = "parsing", Keyword, FormsAssumption
    PROVE  InStep'
  <1>1. "DoWhileStatement" \in MatchedTypes /\ ParserTypeOK
    BY DEF MatchedTypes, StatementKinds, TypesAndScopes
  <1>2. ASSUME NEW k \in Kinds \cap OpenedByKeyword, OpenScope(k)
        PROVE  InStep'
    <2>1. k \in AllKinds \ (LabelKinds \cup {"Braces"})
      BY KindsAreTypes DEF AllKinds, OpenedByKeyword, StatementKinds,
                           DeclarationKinds, LabelKinds
    <2>2. matcher'["DoWhileStatement"].R \in {0, matcher["DoWhileStatement"].R}
      BY <1>1, <1>2, MatcherOK DEF OpenScope
    <2> QED BY <1>2, <2>1, <2>2, OpeningInStep DEF OpenScope
  <1>3. ASSUME CalKeyword PROVE InStep'
    <2>1. "OpenPulseCalibration" \in AllKinds \ (LabelKinds \cup {"Braces"})
      BY DEF AllKinds, LabelKinds
    <2> QED BY <1>3, <2>1, OpeningInStep DEF CalKeyword
  <1>4. ASSUME ExternKeyword PROVE InStep'
    <2>1. /\ "Extern" \in AllKinds \ (LabelKinds \cup {"Braces"})
          /\ ScopeType("Extern") = "Extern" /\ "Extern" # "DoWhileStatement"
          /\ "Extern" \in LabelKinds \cup {"Extern"} /\ "Extern" \notin LabelKinds
      BY DEF AllKinds, LabelKinds, ScopeType
    <2>2. matcher'["DoWhileStatement"].R = matcher["DoWhileStatement"].R
      BY <1>1, <1>4, <2>1, MatcherOK DEF ExternKeyword
    <2>3. CASE ExternOpens
      <3>1. open' = Started("Extern", TRUE)
        BY <1>4, <2>3 DEF ExternKeyword, ExternOpens
      <3> QED BY <1>4, <2>1, <2>2, <2>3, <3>1, OpeningInStep DEF ExternKeyword
    <2>4. CASE ~ExternOpens
      <3>1. open' = Started("Extern", FALSE)
        BY <1>4, <2>4 DEF ExternKeyword, ExternOpens
      <3>2. InnerIs({"OpenPulseCalibration"}, {"body"})
        BY <1>4, <2>4 DEF ExternKeyword, FormsAssumption
      <3>3. open # <<>> /\ Inner.part = "body"
        BY <3>2 DEF InnerIs
      <3>4. matcher'["DoWhileStatement"].R = 0
        BY <1>4, <2>2, StatementStart DEF ExternKeyword
      <3> QED BY <1>4, <2>1, <2>4, <3>1, <3>3, <3>4, UnopenedInStep
              DEF ExternKeyword
    <2> QED BY <2>3, <2>4
  <1>5. ASSUME WhileKeyword PROVE InStep'
    <2>1. ~PastDo
      BY <1>5 DEF WhileKeyword, AtStatement, PastDo, InnerIs
    <2>2. /\ "WhileStatement" \in AllKinds \ (LabelKinds \cup {"Braces"})
          /\ ScopeType("WhileStatement") = "WhileStatement"
      BY DEF AllKinds, LabelKinds, ScopeType
    <2> QED BY <1>5, <2>1, <2>2, WhileInStep, OpeningInStep DEF WhileKeyword
  <1>6. ASSUME DoTail PROVE InStep'
    <2>1. /\ open # <<>> /\ Inner.kind = "DoWhileStatement" /\ PastDo
          /\ "tail" \in Parts
      BY <1>6 DEF DoTail, InnerIs, PastDo, Parts
    <2>2. UNCHANGED <<ctxVars, matcher>> /\ matcher["DoWhileStatement"].R = 1
      BY <1>6, <2>1, WhileInStep DEF DoTail, InStep
    <2> QED BY <1>6, <2>1, <2>2, PartInStep DEF DoTail
  <1>7. ASSUME NEW k \in Kinds \cap LabelKinds, LabelKeyword(k)
        PROVE  InStep'
    <2>1. /\ open # <<>> /\ Inner.kind = "SwitchStatement" /\ Inner.part = "body"
          /\ ~PastDo /\ k # "DoWhileStatement"
      BY <1>7 DEF LabelKeyword, InnerIs, PastDo, LabelKinds
    <2>2. matcher'["DoWhileStatement"].R = 0
      BY <1>1, <1>7, <2>1, MatcherOK DEF LabelKeyword, InStep
    <2> QED BY <1>7, <2>1, <2>2, UnopenedInStep DEF LabelKeyword
  <1>8. ASSUME Break PROVE InStep'
    <2>1. CurrentType \notin BreakTypes
      BY CurrentExists DEF TypesAndScopes, ContextInv, NoneToBreak, CurrentType,
                           GetCurrentContext
    <2>2. UNCHANGED ctxVars
      BY <1>8, <2>1 DEF Break
    <2>3. CASE open # <<>> /\ Inner.part = "single"
      <3>1. open' = SetPart(open, "reduce") /\ "reduce" \in Parts
        BY <1>8, <2>3 DEF Break, StatementDone, Inner, Parts
      <3>2. Inner.kind \notin {"DoWhileStatement", "Braces"}
        BY <2>3, InnerInStep
      <3>3. Inner.kind = "Extern" => Inner.opened
        BY <2>3, InnerInStep
      <3> QED BY <1>8, <2>2, <2>3, <3>1, <3>2, <3>3, StatementStart, PartInStep
              DEF Break
    <2>4. CASE ~(open # <<>> /\ Inner.part = "single")
      <3>1. UNCHANGED <<ctxVars, open, matcher, status>>
        BY <1>8, <2>2, <2>4 DEF Break, StatementDone, Inner
      <3> QED BY <3>1 DEF InStep, Height, Stacked, Opened, Counted, Placed,
                          PastDo, InnerIs, Inner, ctxVars
    <2> QED BY <2>3, <2>4
  <1> QED BY <1>2, <1>3, <1>4, <1>5, <1>6, <1>7, <1>8 DEF Keyword

-----------------------------------------------------------------------------
(* Punctuation.                                                            *)

(* A construct that opened no scope goes, and leaves the scopes alone.     *)
LEMMA UnopenedReduced ==
    ASSUME TypesAndScopes, InStep, open # <<>>, ~Inner.opened,
           open' = Reduced, UNCHANGED CCV,
           \A i \in Indices : DC'[i].CTy = DC[i].CTy,
           matcher'["DoWhileStatement"].R = 0, status' # "aborted"
    PROVE  InStep'
  <1>0. PICK n \in Nat : n = Len(open) - 1
    BY ReducedOK DEF TypesAndScopes
  <1>1. /\ n \in 0..Len(open) /\ Len(open') = n
        /\ \A i \in 1..n : \/ open'[i] = open[i]
                           \/ open'[i] = [open[i] EXCEPT !.part = "reduce"]
        /\ \A i \in 1..n : i \in 1..Len(open)
    BY <1>0, ReducedOK DEF TypesAndScopes
  <1>2. Len(CCV) = Height(n) /\ Len(CCV) \in Nat
    BY <1>0, InnerInStep, InStepFacts
  <1>3. \A i \in 1..n : Same(open'[i], open[i])
    BY <1>1, InStepFacts DEF Same, Constructs
  <1>4. KeptTo(n)
    BY <1>1, <1>2, <1>3, InStepFacts DEF KeptTo
  <1>5. DC'[CalibrationIX].CTy = DC[CalibrationIX].CTy
    BY InStepFacts
  <1> QED BY <1>0, <1>2, <1>4, <1>5, ReducedInStep

LEMMA PunctuationInStep ==
    ASSUME TypesAndScopes, TypesAndScopes', InStep, status = "parsing",
           Punctuation, FormsAssumption
    PROVE  InStep'
  <1>1. /\ "DoWhileStatement" \in MatchedTypes /\ ParserTypeOK
        /\ matcher["DoWhileStatement"].R \in Nat
        /\ {"body", "list", "single", "reduce", "after"} \subseteq Parts
    BY DEF MatchedTypes, StatementKinds, TypesAndScopes, ParserTypeOK, Parts
  <1>2. ~PastDo => matcher["DoWhileStatement"].R = 0
    BY DEF InStep
  <1>3. CountLeft => matcher'["DoWhileStatement"].R = matcher["DoWhileStatement"].R
    BY <1>1, MatcherOK
  <1>4. ASSUME LeftCurly PROVE InStep'
    <2>1. /\ open # <<>> /\ Inner.part = "head"
          /\ Inner.kind # "Braces" /\ (Inner.kind = "Extern" => Inner.opened)
      BY <1>4 DEF LeftCurly, InnerIs, FormsAssumption
    <2>2. matcher'["DoWhileStatement"].R = 0
      BY <1>2, <1>3, <1>4, <2>1 DEF LeftCurly, PastDo, InnerIs
    <2> QED BY <1>1, <1>4, <2>1, <2>2, PartInStep DEF LeftCurly
  <1>5. ASSUME OtherLeftCurly PROVE InStep'
    <2> DEFINE c == [kind |-> "Braces", part |-> "body", opened |-> FALSE,
                     scope |-> GetCurrentContext, depth |-> Len(CCV)]
    <2>1. AtStatement \/ InnerIs(AllKinds, {"head", "body"})
      BY <1>5 DEF OtherLeftCurly, InnerIs, AllKinds, StatementKinds
    <2>2. c \in Constructs
      <3>1. Len(CCV) \in Nat /\ GetCurrentContext \in Int
        BY CurrentExists DEF TypesAndScopes, ContextInv, ContextTypeOK, Indices,
                             StaticIXs, GlobalIX, CalibrationIX
      <3> QED BY <3>1 DEF Constructs, AllKinds, Parts
    <2>3. open' = Append(open, c) /\ UNCHANGED ctxVars /\ status' = "parsing"
      BY <1>5 DEF OtherLeftCurly
    <2>4. c.part = "body" /\ StartsInStep(c)
      <3>1. CurrentType # "DoWhileStatement"
        BY <1>5 DEF OtherLeftCurly, FormsAssumption
      <3> QED BY <2>3, <3>1, InStepFacts
              DEF StartsInStep, ctxVars, CurrentType, GetCurrentContext, LabelKinds
    <2> HIDE DEF c
    <2>5. /\ Len(open') = Len(open) + 1 /\ open'[Len(open) + 1] = c
          /\ \A i \in 1..Len(open) : open'[i] = open[i]
      BY <1>1, <2>2, <2>3 DEF ParserTypeOK
    <2>6. KeptTo(Len(open)) /\ DC'[CalibrationIX] = DC[CalibrationIX]
      BY <2>3, <2>5, CreateKeeps
    <2>7. matcher'["DoWhileStatement"].R = 0
      BY <1>3, <1>5, <2>1, StatementStart DEF OtherLeftCurly
    <2> QED BY <2>1, <2>2, <2>3, <2>4, <2>5, <2>6, <2>7, StatementStart, PushedInStep
  <1>6. ASSUME OtherRightCurly PROVE InStep'
    <2>1. /\ open # <<>> /\ Inner.kind = "Braces" /\ ~PastDo
          /\ CountRight \/ UNCHANGED matcher
          /\ open' = Reduced /\ UNCHANGED ctxVars
      BY <1>6 DEF OtherRightCurly, UncountedRight, InnerIs, PastDo
    <2>2. CurrentType # "DoWhileStatement" /\ ~Inner.opened
      BY <2>1, InnerInStep
    <2>3. matcher'["DoWhileStatement"].R = 0
      BY <1>1, <1>2, <2>1, <2>2, MatcherOK
    <2> QED BY <1>6, <2>1, <2>2, <2>3, UnopenedReduced DEF OtherRightCurly, ctxVars
  <1>7. ASSUME RightCurly PROVE InStep'
    <2>1. /\ open # <<>> /\ Inner.kind # "Braces" /\ Inner.part = "body" /\ ~PastDo
          /\ UNCHANGED ctxVars /\ UNCHANGED status
          /\ \/ CountRight
             \/ Inner.kind # "DoWhileStatement" /\ UNCHANGED matcher
      BY <1>7 DEF RightCurly, UncountedRight, InnerIs, PastDo
    <2>2. Inner.kind = "Extern" => Inner.opened
      BY <2>1, InnerInStep
    <2>3. CASE Inner.kind = "DoWhileStatement"
      <3>1. CurrentType = "DoWhileStatement"
        BY <2>1, <2>3, InnerInStep DEF ScopeType, LabelKinds
      <3>2. matcher'["DoWhileStatement"].R = 1
        BY <1>1, <1>2, <2>1, <2>3, <3>1, MatcherOK
      <3>3. open' = SetPart(open, "after")
        BY <1>7, <2>3 DEF RightCurly
      <3> QED BY <1>1, <2>1, <2>3, <3>2, <3>3, PartInStep
    <2>4. CASE Inner.kind # "DoWhileStatement"
      <3>1. CurrentType # "DoWhileStatement"
        BY <2>1, <2>4, InnerInStep
      <3>2. matcher'["DoWhileStatement"].R = 0
        BY <1>1, <1>2, <2>1, <3>1, MatcherOK
      <3>3. open' = SetPart(open, "reduce")
        BY <1>7, <2>4 DEF RightCurly
      <3> QED BY <1>1, <2>1, <2>2, <2>4, <3>2, <3>3, PartInStep
    <2> QED BY <2>3, <2>4
  <1>8. ASSUME BareLabel \/ NoBraces PROVE InStep'
    <2>1. /\ open # <<>> /\ ~PastDo
          /\ Inner.kind \notin {"DoWhileStatement", "Extern", "Braces"}
          /\ \E p \in {"list", "single"} : open' = SetPart(open, p)
      BY <1>8 DEF BareLabel, NoBraces, InnerIs, PastDo, LabelKinds
    <2>2. UNCHANGED ctxVars /\ UNCHANGED status /\ matcher'["DoWhileStatement"].R = 0
      BY <1>2, <1>8, <2>1 DEF BareLabel, NoBraces
    <2> QED BY <1>1, <2>1, <2>2, PartInStep
  <1>9. ASSUME SimpleStatement PROVE InStep'
    <2>1. open # <<>> /\ Inner.part = "single" /\ ~PastDo
      BY <1>9 DEF SimpleStatement, InnerIs, PastDo
    <2>2. /\ Inner.kind \notin {"DoWhileStatement", "Braces"}
          /\ Inner.kind = "Extern" => Inner.opened
      BY <2>1, InnerInStep
    <2> QED BY <1>1, <1>2, <1>9, <2>1, <2>2, PartInStep DEF SimpleStatement
  <1>10. ASSUME Semicolon PROVE InStep'
    <2>1. /\ open # <<>> /\ Inner.kind # "Braces"
          /\ Inner.kind = "Extern" => Inner.opened
          /\ PastDo <=> Inner.kind = "DoWhileStatement"
      BY <1>10 DEF Semicolon, InnerIs, PastDo, FormsAssumption
    <2> QED BY <1>1, <1>10, <2>1, PartInStep DEF Semicolon, InStep
  <1>11. ASSUME PortOrFrame PROVE InStep'
    <2>1. open # <<>> /\ ~Inner.opened /\ ~PastDo
      BY <1>11, InnerInStep
      DEF PortOrFrame, InnerIs, PastDo, FormsAssumption, Constructs
    <2> QED BY <1>2, <1>11, <2>1, UnopenedReduced DEF PortOrFrame, ctxVars
  <1> QED BY <1>4, <1>5, <1>6, <1>7, <1>8, <1>9, <1>10, <1>11 DEF Punctuation

-----------------------------------------------------------------------------
(* Reductions.                                                             *)

(* Retyping the scope of the construct about to be reduced changes the     *)
(* type of no other open scope, nor that of the calibration scope.         *)
LEMMA RetypedKeeps ==
    ASSUME TypesAndScopes, InStep, open # <<>>, Inner.opened
    PROVE  /\ \A d \in 1..(Len(CCV) - 1) :
                 Retyped(Inner.kind)[CCV[d]].CTy = DC[CCV[d]].CTy
           /\ Retyped(Inner.kind)[CalibrationIX].CTy = DC[CalibrationIX].CTy
  <1>1. /\ Inner.kind \in AllKinds /\ GetCurrentContext \in Indices
        /\ DC \in [Indices -> ContextRecords] /\ Len(CCV) \in Nat
        /\ \A d \in 1..Len(CCV) : CCV[d] \in Indices
        /\ CalibrationIX \in Indices
    BY InnerInStep, InStepFacts, CurrentExists
    DEF TypesAndScopes, ContextInv, ContextTypeOK, Constructs
  <1>2. \A i \in Indices : i # GetCurrentContext => Retyped(Inner.kind)[i] = DC[i]
    BY <1>1 DEF Retyped, SetContextType
  <1>3. CASE InCalibrationContext
    <2>1. /\ Inner.kind = "OpenPulseCalibration" /\ CurrentType = Inner.kind
          /\ DC[GetCurrentContext] \in ContextRecords
      BY <1>1, <1>3, InnerInStep DEF ScopeType
    <2>2. Retyped(Inner.kind)[GetCurrentContext].CTy = DC[GetCurrentContext].CTy
      BY <1>1, <2>1 DEF Retyped, SetContextType, CurrentType, ContextRecords
    <2> QED BY <1>1, <1>2, <2>2
  <1>4. CASE ~InCalibrationContext
    <2>1. GetCurrentContext # CalibrationIX /\ GetCurrentContext # GlobalIX
      BY <1>4, InnerInStep DEF InCalibrationContext, InGlobalContext
    <2>2. ASSUME NEW d \in 1..(Len(CCV) - 1), CCV[d] = GetCurrentContext
          PROVE  FALSE
      <3>1. /\ d \in 1..Len(CCV) /\ Len(CCV) \in 1..Len(CCV) /\ d < Len(CCV)
            /\ CCV[Len(CCV)] = GetCurrentContext
        BY <1>1 DEF GetCurrentContext
      <3>2. CCV[d] < CCV[Len(CCV)]
        BY <2>1, <2>2, <3>1
        DEF TypesAndScopes, ContextInv, StackChain, StaticIXs
      <3>3. CCV[d] \in Int
        BY <1>1, <3>1 DEF Indices, StaticIXs, GlobalIX, CalibrationIX,
                          TypesAndScopes, ContextInv, ContextTypeOK
      <3> QED BY <2>2, <3>1, <3>2, <3>3
    <2> QED BY <1>1, <1>2, <2>1, <2>2
  <1> QED BY <1>3, <1>4

(* No assertion of a production fails.                                     *)
LEMMA NoAbort ==
    ASSUME TypesAndScopes, InStep, Abort
    PROVE  FALSE
  <1>1. open # <<>> /\ AssertionFails(Inner.kind)
    BY DEF Abort
  <1>2. Inner.kind \in RetypingKinds \cup {"SwitchStatement"} /\ Inner.opened
    BY <1>1, InnerInStep DEF AssertionFails, RetypingKinds, LabelKinds
  <1>3. ~InGlobalContext /\ CurrentType = ScopeType(Inner.kind)
    BY <1>1, <1>2, InnerInStep
  <1> QED BY <1>1, <1>3 DEF AssertionFails, ScopeType

LEMMA ReduceInStep ==
    ASSUME TypesAndScopes, TypesAndScopes', InStep, status = "parsing", Reduce
    PROVE  InStep'
  <1>1. /\ open # <<>> /\ Inner.part = "reduce" /\ Inner.kind \in AllKinds
        /\ open' = Reduced /\ status' = "parsing"
        /\ Inner.kind # "Braces" /\ ContextInv /\ ContextTypeOK
        /\ "DoWhileStatement" \in MatchedTypes /\ ParserTypeOK
    BY InnerInStep DEF Reduce, Constructs, TypesAndScopes, ContextInv,
                       MatchedTypes, StatementKinds
  <1>2. matcher'["DoWhileStatement"].R = 0
    <2>1. CASE Inner.kind = "DoWhileStatement"
      <3>1. ResetMatcher("DoWhileStatement")
        BY <2>1 DEF Reduce, ResetAfter
      <3> QED BY <1>1, <3>1, MatcherOK
    <2>2. CASE Inner.kind # "DoWhileStatement"
      <3>1. ~PastDo
        BY <2>2 DEF PastDo, InnerIs
      <3>2. matcher["DoWhileStatement"].R = 0
        BY <3>1 DEF InStep
      <3>3. ResetMatcher(Inner.kind) \/ UNCHANGED matcher
        BY DEF Reduce
      <3> QED BY <1>1, <2>2, <3>2, <3>3, MatcherOK
    <2> QED BY <2>1, <2>2
  <1>3. CASE Inner.kind \in LabelKinds
    <2>1. CloseLabel(Inner.kind)
      BY <1>3 DEF Reduce
    <2>2. CCV' = CCV /\ \A i \in Indices : DC'[i].CTy = DC[i].CTy
      BY <1>1, <2>1, CloseLabelInv
    <2>3. ~Inner.opened
      BY <1>1, <1>3, InnerInStep
    <2> QED BY <1>1, <1>2, <2>2, <2>3, UnopenedReduced
  <1>4. CASE Inner.kind \notin LabelKinds
    <2>1. Inner.opened /\ PopFrom(Retyped(Inner.kind)) /\ SameLinks(Retyped(Inner.kind))
      BY <1>1, <1>4, InnerInStep, RetypedLinks DEF Reduce
    <2>0. PICK n \in Nat : n = Len(open) - 1
      BY <1>1, ReducedOK
    <2>2. /\ n \in 0..Len(open) /\ Len(open') = n
          /\ \A i \in 1..n : \/ open'[i] = open[i]
                             \/ open'[i] = [open[i] EXCEPT !.part = "reduce"]
          /\ \A i \in 1..n : i \in 1..Len(open)
      BY <1>1, <2>0, ReducedOK
    <2>3. /\ Len(CCV) = Height(n) + 1 /\ Len(CCV) > 1 /\ Height(n) \in Nat
      BY <1>1, <2>0, <2>1, <2>2, InnerInStep, InStepFacts
    <2>4. /\ Len(CCV') = Height(n)
          /\ \A d \in 1..Height(n) : CCV'[d] = CCV[d]
          /\ \A i \in Indices : DC'[i].CTy = Retyped(Inner.kind)[i].CTy
      BY <1>1, <2>1, <2>3, PopEffect
    <2>5. /\ \A d \in 1..Height(n) : /\ CCV[d] \in Indices
                                     /\ DC'[CCV[d]].CTy = DC[CCV[d]].CTy
          /\ DC'[CalibrationIX].CTy = DC[CalibrationIX].CTy
      <3>1. /\ \A d \in 1..(Len(CCV) - 1) :
                  Retyped(Inner.kind)[CCV[d]].CTy = DC[CCV[d]].CTy
            /\ Retyped(Inner.kind)[CalibrationIX].CTy = DC[CalibrationIX].CTy
        BY <1>1, <2>1, RetypedKeeps
      <3>2. CalibrationIX \in Indices /\ \A d \in 1..Len(CCV) : CCV[d] \in Indices
        BY InStepFacts
      <3>3. DC'[CalibrationIX].CTy = DC[CalibrationIX].CTy
        BY <2>4, <3>1, <3>2
      <3>4. ASSUME NEW d \in 1..Height(n)
            PROVE  CCV[d] \in Indices /\ DC'[CCV[d]].CTy = DC[CCV[d]].CTy
        <4>1. d \in 1..(Len(CCV) - 1) /\ d \in 1..Len(CCV)
          BY <2>3, <3>4
        <4>2. CCV[d] \in Indices
          BY <3>2, <4>1
        <4>3. Retyped(Inner.kind)[CCV[d]].CTy = DC[CCV[d]].CTy
          BY <3>1, <4>1
        <4>4. DC'[CCV[d]].CTy = Retyped(Inner.kind)[CCV[d]].CTy
          BY <2>4, <4>2
        <4> QED BY <4>2, <4>3, <4>4
      <3> QED BY <3>3, <3>4
    <2>6. \A i \in 1..n : Same(open'[i], open[i])
      BY <2>2, InStepFacts DEF Same, Constructs
    <2>7. KeptTo(n)
      BY <2>2, <2>3, <2>4, <2>5, <2>6 DEF KeptTo
    <2> QED BY <1>1, <1>2, <2>0, <2>4, <2>5, <2>7, ReducedInStep
  <1> QED BY <1>3, <1>4

-----------------------------------------------------------------------------
(* The invariant, and what follows from it.                                *)

ProtocolInv == TypesAndScopes /\ NoneToBreak /\ ScopesInStep

LEMMA InitInStep == Init => ProtocolInv
  <1> SUFFICES ASSUME Init PROVE ProtocolInv
    OBVIOUS
  <1>1. TypesAndScopes
    BY InitTypes
  <1>2. NoneToBreak
    BY KindsNotBroken DEF Init, ContextInit, NoneToBreak, StaticIXs, GlobalIX,
                          CalibrationIX, Context
  <1>3. Len(open) = 0 /\ open = <<>> /\ Len(CCV) = 1
    BY DEF Init, ContextInit
  <1>4. DC[CalibrationIX].CTy = "OpenPulseCalibration"
    BY DEF Init, ContextInit, StaticIXs, GlobalIX, CalibrationIX, Context
  <1>5. matcher["DoWhileStatement"].R = 0 /\ ~PastDo
    BY <1>3 DEF Init, MatchedTypes, StatementKinds, Zero, PastDo, InnerIs
  <1>6. InStep
    BY <1>3, <1>4, <1>5 DEF Init, InStep, Height
  <1> QED BY <1>1, <1>2, <1>6 DEF ProtocolInv, ScopesInStep

LEMMA NextInStep ==
    ASSUME FormsAssumption
    PROVE  ProtocolInv /\ [Next]_vars => ProtocolInv'
  <1> SUFFICES ASSUME TypesAndScopes, NoneToBreak, ScopesInStep, [Next]_vars
               PROVE  ProtocolInv'
    BY DEF ProtocolInv
  <1>1. TypesAndScopes' /\ NoneToBreak'
    BY NextTypes, NextNotBroken
  <1>2. ASSUME ~failed' PROVE InStep'
    <2>1. failed => failed'
      BY DEF Next, Terminated, vars, Keyword, Punctuation, Reduction, OpenScope,
             CalKeyword, ExternKeyword, WhileKeyword, DoTail, LabelKeyword, Break,
             LeftCurly, OtherLeftCurly, OtherRightCurly, RightCurly, BareLabel,
             NoBraces, SimpleStatement, Semicolon, PortOrFrame, Abort, Reduce,
             ReduceBareLabel, ReduceError, OtherError, EndOfInput
    <2>2. InStep
      BY <1>2, <2>1 DEF ScopesInStep
    <2>3. CASE status = "parsing" /\ Keyword
      BY <1>1, <2>2, <2>3, KeywordInStep
    <2>4. CASE status = "parsing" /\ Punctuation
      BY <1>1, <2>2, <2>4, PunctuationInStep
    <2>5. CASE Abort
      BY <2>2, <2>5, NoAbort
    <2>6. CASE status = "parsing" /\ Reduce
      BY <1>1, <2>2, <2>6, ReduceInStep
    <2>7. CASE status = "parsing" /\ ReduceBareLabel
      <3>1. /\ open # <<>> /\ ~Inner.opened /\ ~PastDo
        BY <2>2, <2>7, InnerInStep
        DEF ReduceBareLabel, InnerIs, PastDo, LabelKinds
      <3>2. matcher'["DoWhileStatement"].R = 0
        BY <2>2, <2>7, <3>1 DEF ReduceBareLabel, InStep
      <3> QED BY <2>2, <2>7, <3>1, <3>2, UnopenedReduced DEF ReduceBareLabel, ctxVars
    <2>8. CASE ReduceError \/ OtherError
      BY <1>2, <2>8 DEF ReduceError, OtherError
    <2>9. CASE (status = "parsing" /\ EndOfInput) \/ UNCHANGED vars
      <3>1. UNCHANGED <<ctxVars, open, matcher>> /\ status' # "aborted"
        BY <2>2, <2>9 DEF EndOfInput, vars, InStep
      <3> QED BY <2>2, <3>1 DEF InStep, Height, Stacked, Opened, Counted, Placed,
                                PastDo, InnerIs, Inner, ctxVars
    <2> QED BY <2>3, <2>4, <2>5, <2>6, <2>7, <2>8, <2>9
            DEF Next, Reduction, Terminated
  <1> QED BY <1>1, <1>2 DEF ProtocolInv, ScopesInStep

(* As long as no error is reported, scanner and parser are in step.        *)
THEOREM InStepInvariant ==
    ASSUME FormsAssumption
    PROVE  Spec => []ProtocolInv
  <1>1. ProtocolInv /\ [Next]_vars => ProtocolInv'
    BY NextInStep
  <1> QED BY <1>1, InitInStep, PTL DEF Spec

(* Scopes and constructs match, construct by construct.                    *)
THEOREM ProtocolInStep ==
    ASSUME FormsAssumption
    PROVE  Spec => []ScopesInStep
  <1>1. ProtocolInv => ScopesInStep
    BY DEF ProtocolInv
  <1>2. Spec => []ProtocolInv
    BY InStepInvariant
  <1> QED BY <1>1, <1>2, PTL

(* Every production pops the scope its own keyword opened, and top-level   *)
(* statements are declared in the global scope.                            *)
THEOREM ProductionsPopTheirScope ==
    ASSUME FormsAssumption
    PROVE  Spec => []ScopeMatchesConstruct
  <1>1. ProtocolInv => ScopeMatchesConstruct
    <2> SUFFICES ASSUME ProtocolInv, status = "parsing", ~failed
                 PROVE  IF open = <<>> THEN CCV = <<GlobalIX>>
                        ELSE Len(CCV) = Inner.depth
                               /\ GetCurrentContext = Inner.scope
      BY DEF ScopeMatchesConstruct
    <2>1. InStep /\ TypesAndScopes
      BY DEF ProtocolInv, ScopesInStep
    <2>2. CASE open = <<>>
      <3>1. Len(CCV) = 1 /\ CCV \in Seq(Indices) /\ CCV[1] = GlobalIX
        BY <2>1, <2>2
        DEF InStep, Height, TypesAndScopes, ContextInv, ContextTypeOK, StackChain
      <3> QED BY <2>2, <3>1
    <2>3. CASE open # <<>>
      BY <2>1, <2>3, InnerInStep
    <2> QED BY <2>2, <2>3
  <1>2. Spec => []ProtocolInv
    BY InStepInvariant
  <1> QED BY <1>1, <1>2, PTL

(* A while loop opens a scope of its own wherever it is.                   *)
THEOREM EveryWhileOpens ==
    ASSUME FormsAssumption
    PROVE  Spec => []WhileOwnsScope
  <1>1. ProtocolInv => WhileOwnsScope
    BY DEF ProtocolInv, ScopesInStep, InStep, Opened, WhileOwnsScope, LabelKinds
  <1>2. Spec => []ProtocolInv
    BY InStepInvariant
  <1> QED BY <1>1, <1>2, PTL

(* The assertions about the current scope never fail.                      *)
THEOREM NoAssertionFails ==
    ASSUME FormsAssumption
    PROVE  Spec => []AssertionsHold
  <1>1. ProtocolInv => AssertionsHold
    BY DEF ProtocolInv, ScopesInStep, InStep, AssertionsHold
  <1>2. Spec => []ProtocolInv
    BY InStepInvariant
  <1> QED BY <1>1, <1>2, PTL

(* The calibration scope keeps its type, cal blocks and defcals nested in  *)
(* one another included.                                                   *)
THEOREM CalibrationTypeKept ==
    ASSUME FormsAssumption
    PROVE  Spec => []CalibrationKeepsType
  <1>1. ProtocolInv => CalibrationKeepsType
    BY DEF ProtocolInv, ScopesInStep, InStep, CalibrationKeepsType
  <1>2. Spec => []ProtocolInv
    BY InStepInvariant
  <1> QED BY <1>1, <1>2, PTL
=============================================================================
