---------------------- MODULE DeclarationContext_proof ----------------------
(***************************************************************************)
(* The tracker keeps its invariants whatever its callers do.  The          *)
(* operations are treated one by one, in lemmas that ScopeProtocol_proof   *)
(* cites again; PopFrom(dc) is the general form of a pop, in which dc is   *)
(* DC after scopes have been retyped.                                      *)
(***************************************************************************)
EXTENDS DeclarationContext, SequenceTheorems, TLAPS

StaticsAlive == \A i \in StaticIXs : DC[i].SCS = "Alive"

ContextInv == ContextTypeOK /\ StackChain /\ AliveIffOpen /\ StaticsAlive

(* The static scopes keep their place, and retyping changes nothing the    *)
(* other parts of the invariant read.                                      *)
SameLinks(dc) ==
    /\ dc \in [Indices -> ContextRecords]
    /\ \A i \in Indices : dc[i].PCX = DC[i].PCX /\ dc[i].SCS = DC[i].SCS

(* There is always a current scope, and it exists.                         *)
LEMMA CurrentExists ==
    ASSUME ContextTypeOK
    PROVE  /\ Len(CCV) \in Nat \ {0}
           /\ GetCurrentContext \in Indices
           /\ CIX \notin Indices
           /\ DC[GetCurrentContext] \in ContextRecords
  <1>1. Len(CCV) \in Nat \ {0}
    BY DEF ContextTypeOK
  <1>2. GetCurrentContext \in Indices
    BY <1>1 DEF ContextTypeOK, GetCurrentContext
  <1> QED
    BY <1>1, <1>2 DEF ContextTypeOK, Indices, StaticIXs, GlobalIX, CalibrationIX

(* The two static scopes satisfy the invariant.                            *)
LEMMA InitInv == ContextInit => ContextInv
  <1> SUFFICES ASSUME ContextInit PROVE ContextInv
    OBVIOUS
  <1> USE DEF ContextInit, StaticIXs, GlobalIX, CalibrationIX
  <1>1. CIX = 1 /\ CCV = <<0>> /\ Indices = {0, -1}
    BY DEF Indices
  <1>2. ContextTypeOK
    <2>1. DC \in [Indices -> ContextRecords]
      BY <1>1, ContextTypesAssumption
      DEF ContextRecords, Context, NoContext
    <2> QED BY <1>1, <2>1 DEF ContextTypeOK
  <1>3. StackChain
    BY <1>1 DEF StackChain
  <1>4. AliveIffOpen
    BY <1>1 DEF AliveIffOpen
  <1>5. StaticsAlive
    BY DEF StaticsAlive, Context
  <1> QED BY <1>2, <1>3, <1>4, <1>5 DEF ContextInv

(* CreateContext, for any type of scope.                                   *)
LEMMA CreateInv ==
    ASSUME ContextInv, NEW ty \in ContextTypes, CreateContext(ty)
    PROVE  ContextInv'
  <1> USE DEF ContextInv
  <1>1. /\ Len(CCV) \in Nat \ {0} /\ GetCurrentContext \in Indices
        /\ CIX \notin Indices
    BY CurrentExists
  <1>2. /\ CIX' = CIX + 1
        /\ CCV' = Append(CCV, CIX)
        /\ DC' = [i \in DOMAIN DC \cup {CIX} |->
                    IF i = CIX THEN Context(ty, GetCurrentContext) ELSE DC[i]]
    BY DEF CreateContext
  <1>3. CIX \in Nat \ {0} /\ DOMAIN DC = Indices /\ CCV \in Seq(Indices)
    BY DEF ContextTypeOK
  <1>4. Indices' = Indices \cup {CIX}
    BY <1>2, <1>3 DEF Indices, StaticIXs, GlobalIX, CalibrationIX
  <1>5. /\ DC'[CIX] = Context(ty, GetCurrentContext)
        /\ \A i \in Indices : DC'[i] = DC[i]
    BY <1>1, <1>2, <1>3
  <1>6. ContextTypeOK'
    <2>1. \A i \in Indices' : DC'[i] \in ContextRecords'
      <3>1. Context(ty, GetCurrentContext) \in ContextRecords'
        BY <1>1, <1>4 DEF Context, ContextRecords
      <3>2. ContextRecords \subseteq ContextRecords'
        BY <1>4 DEF ContextRecords
      <3> QED BY <1>4, <1>5, <3>1, <3>2 DEF ContextTypeOK
    <2>2. DC' \in [Indices' -> ContextRecords']
      BY <1>2, <1>3, <1>4, <2>1
    <2>3. CCV' \in Seq(Indices') /\ CCV' # <<>>
      BY <1>2, <1>3, <1>4
    <2> QED BY <1>2, <1>3, <2>2, <2>3 DEF ContextTypeOK
  <1>7. /\ Len(CCV') = Len(CCV) + 1
        /\ CCV'[Len(CCV) + 1] = CIX
        /\ \A k \in 1..Len(CCV) : CCV'[k] = CCV[k] /\ CCV[k] \in Indices
    BY <1>1, <1>2, <1>3
  <1>8. StackChain'
    <2>1. \A k \in 2..Len(CCV') :
             /\ CCV'[k] # GlobalIX
             /\ CCV'[k] # CalibrationIX => DC'[CCV'[k]].PCX = CCV'[k-1]
      <3> TAKE k \in 2..Len(CCV')
      <3>1. CASE k = Len(CCV) + 1
        <4>1. CCV'[k] = CIX /\ CCV'[k-1] = GetCurrentContext
          BY <3>1, <1>1, <1>7 DEF GetCurrentContext
        <4>2. DC'[CIX].PCX = GetCurrentContext
          BY <1>5 DEF Context
        <4> QED BY <4>1, <4>2, <1>3 DEF GlobalIX
      <3>2. CASE k \in 2..Len(CCV)
        BY <3>2, <1>1, <1>5, <1>7 DEF StackChain
      <3> QED BY <1>1, <1>7, <3>1, <3>2
    <2>2. ASSUME NEW j \in 1..Len(CCV'), NEW k \in 1..Len(CCV'), j < k,
                 CCV'[j] \notin StaticIXs, CCV'[k] \notin StaticIXs
          PROVE  CCV'[j] < CCV'[k]
      <3>1. CASE k = Len(CCV) + 1
        <4>1. CCV'[j] \in Indices \ StaticIXs /\ CCV'[k] = CIX
          BY <2>2, <3>1, <1>1, <1>7
        <4> QED BY <4>1, <1>3 DEF Indices
      <3>2. CASE k \in 1..Len(CCV)
        BY <2>2, <3>2, <1>1, <1>7 DEF StackChain
      <3> QED BY <1>1, <1>7, <3>1, <3>2
    <2>3. CCV'[1] = GlobalIX
      BY <1>1, <1>7 DEF StackChain
    <2> QED BY <2>1, <2>2, <2>3 DEF StackChain
  <1>9. AliveIffOpen'
    <2>1. OpenIXs' = OpenIXs \cup {CIX}
      BY <1>1, <1>7 DEF OpenIXs
    <2>2. ASSUME NEW i \in 1..(CIX' - 1)
          PROVE  (DC'[i].SCS = "Alive") <=> (i \in OpenIXs')
      <3>1. CASE i = CIX
        BY <3>1, <1>5, <2>1 DEF Context
      <3>2. CASE i \in 1..(CIX - 1)
        <4>1. DC'[i] = DC[i] /\ i # CIX
          BY <3>2, <1>3, <1>5 DEF Indices
        <4> QED BY <3>2, <4>1, <2>1 DEF AliveIffOpen
      <3> QED BY <1>2, <1>3, <3>1, <3>2
    <2> QED BY <2>2 DEF AliveIffOpen
  <1>10. StaticsAlive'
    BY <1>5 DEF StaticsAlive, Indices
  <1> QED BY <1>6, <1>8, <1>9, <1>10

(* A pop, after the scopes may have been retyped.                          *)
LEMMA PopInv ==
    ASSUME ContextInv, NEW dc, SameLinks(dc), PopFrom(dc)
    PROVE  ContextInv'
  <1> USE DEF ContextInv
  <1> DEFINE cur == GetCurrentContext
  <1>1. /\ Len(CCV) \in Nat \ {0} /\ cur \in Indices
    BY CurrentExists
  <1>2. CIX' = CIX /\ Indices' = Indices /\ ContextRecords' = ContextRecords
    BY DEF PopFrom, Indices, ContextRecords
  <1>3. /\ CIX \in Nat \ {0} /\ CCV \in Seq(Indices)
        /\ dc \in [Indices -> ContextRecords]
    BY DEF ContextTypeOK, SameLinks
  <1>4. ASSUME Len(CCV) = 1 PROVE ContextInv'
    <2>1. DC' = dc /\ CCV' = CCV
      BY <1>4 DEF PopFrom
    <2>2. ContextTypeOK'
      BY <1>2, <1>3, <2>1 DEF ContextTypeOK
    <2>3. StackChain'
      BY <2>1, <1>1, <1>4 DEF StackChain
    <2>4. AliveIffOpen'
      <3>1. OpenIXs' = OpenIXs
        BY <2>1 DEF OpenIXs
      <3> QED BY <1>2, <1>3, <2>1, <3>1 DEF AliveIffOpen, SameLinks, Indices
    <2>5. StaticsAlive'
      BY <2>1 DEF StaticsAlive, SameLinks, Indices
    <2> QED BY <2>2, <2>3, <2>4, <2>5
  <1>5. ASSUME Len(CCV) > 1 PROVE ContextInv'
    <2>1. /\ DC' = SetDead(dc, cur)
          /\ CCV' = SubSeq(CCV, 1, Len(CCV) - 1)
      BY <1>5 DEF PopFrom
    <2>2. /\ Len(CCV') = Len(CCV) - 1 /\ CCV' \in Seq(Indices) /\ CCV' # <<>>
          /\ \A k \in 1..Len(CCV') : CCV'[k] = CCV[k] /\ CCV[k] \in Indices
      <3>1. /\ Len(CCV) - 1 \in 1..Len(CCV)
            /\ \A k \in 1..Len(CCV) : CCV[k] \in Indices
        BY <1>1, <1>3, <1>5
      <3>2. Len(CCV') = Len(CCV) - 1 /\ CCV' \in Seq(Indices)
        BY <1>3, <2>1, <3>1, SubSeqProperties
      <3>3. \A k \in 1..(Len(CCV) - 1) : CCV'[k] = CCV[k]
        BY <1>3, <2>1, <3>1, SubSeqProperties
      <3> QED BY <3>1, <3>2, <3>3
    <2>3. /\ DC' \in [Indices -> ContextRecords]
          /\ \A i \in Indices : /\ DC'[i].PCX = DC[i].PCX
                                /\ i # cur => DC'[i].SCS = DC[i].SCS
      <3>1. CASE cur \in StaticIXs
        BY <3>1, <2>1, <1>3 DEF SetDead, SameLinks
      <3>2. CASE cur \notin StaticIXs
        <4>1. DC' = [dc EXCEPT ![cur] = [dc[cur] EXCEPT !.SCS = "Dead"]]
          BY <3>2, <2>1 DEF SetDead
        <4>2. [dc[cur] EXCEPT !.SCS = "Dead"] \in ContextRecords
          BY <1>1, <1>3 DEF ContextRecords
        <4>3. [dc[cur] EXCEPT !.SCS = "Dead"].PCX = dc[cur].PCX
          BY <1>1, <1>3 DEF ContextRecords
        <4> HIDE DEF cur
        <4> QED BY <4>1, <4>2, <4>3, <1>1, <1>3 DEF SameLinks
      <3> QED BY <3>1, <3>2
    <2>4. ContextTypeOK'
      BY <1>2, <1>3, <2>2, <2>3 DEF ContextTypeOK
    <2>5. StackChain'
      <3>1. CCV'[1] = GlobalIX
        BY <1>1, <1>5, <2>2 DEF StackChain
      <3>2. ASSUME NEW k \in 2..Len(CCV')
            PROVE  /\ CCV'[k] # GlobalIX
                   /\ CCV'[k] # CalibrationIX => DC'[CCV'[k]].PCX = CCV'[k-1]
        <4>1. k \in 2..Len(CCV) /\ k - 1 \in 1..Len(CCV') /\ k \in 1..Len(CCV')
          BY <1>1, <2>2
        <4>2. CCV'[k] = CCV[k] /\ CCV'[k-1] = CCV[k-1] /\ CCV[k] \in Indices
          BY <4>1, <2>2
        <4> QED BY <4>1, <4>2, <2>3 DEF StackChain
      <3>3. ASSUME NEW j \in 1..Len(CCV'), NEW k \in 1..Len(CCV'), j < k,
                   CCV'[j] \notin StaticIXs, CCV'[k] \notin StaticIXs
            PROVE  CCV'[j] < CCV'[k]
        <4>1. j \in 1..Len(CCV) /\ k \in 1..Len(CCV)
          BY <1>1, <2>2
        <4> QED BY <3>3, <4>1, <2>2 DEF StackChain
      <3> QED BY <3>1, <3>2, <3>3 DEF StackChain
    <2>6. AliveIffOpen'
      <3> SUFFICES ASSUME NEW i \in 1..(CIX - 1)
                   PROVE  (DC'[i].SCS = "Alive") <=> (i \in OpenIXs')
        BY <1>2 DEF AliveIffOpen
      <3>1. i \in Indices /\ i \notin StaticIXs
        BY <1>3 DEF Indices, StaticIXs, GlobalIX, CalibrationIX
      <3>2. CASE i = cur
        <4>1. DC'[i].SCS = "Dead"
          BY <3>1, <3>2, <2>1, <1>3 DEF SetDead, ContextRecords
        <4>2. \A k \in 1..Len(CCV') : CCV'[k] # i
          <5> SUFFICES ASSUME NEW k \in 1..Len(CCV'), CCV'[k] = i PROVE FALSE
            OBVIOUS
          <5>1. /\ k \in 1..Len(CCV) /\ Len(CCV) \in 1..Len(CCV) /\ k < Len(CCV)
                /\ CCV[k] = i /\ CCV[Len(CCV)] = i
            BY <3>2, <1>1, <2>2 DEF GetCurrentContext
          <5> QED BY <3>1, <5>1 DEF StackChain
        <4> QED BY <4>1, <4>2 DEF OpenIXs
      <3>3. CASE i # cur
        <4>1. i \in OpenIXs' <=> i \in OpenIXs
          <5>1. i \in OpenIXs' => i \in OpenIXs
            BY <1>1, <2>2 DEF OpenIXs
          <5>2. ASSUME NEW k \in 1..Len(CCV), CCV[k] = i
                PROVE  k \in 1..Len(CCV') /\ CCV'[k] = i
            BY <5>2, <3>3, <1>1, <2>2 DEF GetCurrentContext
          <5> QED BY <5>1, <5>2 DEF OpenIXs
        <4> QED BY <4>1, <3>1, <3>3, <2>3 DEF AliveIffOpen
      <3> QED BY <3>2, <3>3
    <2>7. StaticsAlive'
      BY <2>1, <1>3 DEF StaticsAlive, SetDead, SameLinks, Indices
    <2> QED BY <2>4, <2>5, <2>6, <2>7
  <1> QED BY <1>1, <1>4, <1>5

(* The calibration scope may be pushed at any time.                        *)
LEMMA CalibrateInv ==
    ASSUME ContextInv, SetCalibrationContext
    PROVE  ContextInv'
  <1> USE DEF ContextInv
  <1>1. Len(CCV) \in Nat \ {0} /\ CIX \in Nat \ {0} /\ CCV \in Seq(Indices)
    BY CurrentExists DEF ContextTypeOK
  <1>2. /\ CIX' = CIX /\ DC' = DC /\ CCV' = Append(CCV, CalibrationIX)
        /\ Indices' = Indices /\ ContextRecords' = ContextRecords
    BY DEF SetCalibrationContext, Indices, ContextRecords
  <1>3. CalibrationIX \in Indices /\ CalibrationIX \in StaticIXs
    BY DEF Indices, StaticIXs
  <1>4. /\ Len(CCV') = Len(CCV) + 1 /\ CCV'[Len(CCV) + 1] = CalibrationIX
        /\ CCV' \in Seq(Indices) /\ CCV' # <<>>
        /\ \A k \in 1..Len(CCV) : CCV'[k] = CCV[k]
    BY <1>1, <1>2, <1>3
  <1>5. ContextTypeOK'
    BY <1>2, <1>4 DEF ContextTypeOK
  <1>6. StackChain'
    <2>1. CCV'[1] = GlobalIX
      BY <1>1, <1>4 DEF StackChain
    <2>2. ASSUME NEW k \in 2..Len(CCV')
          PROVE  /\ CCV'[k] # GlobalIX
                 /\ CCV'[k] # CalibrationIX => DC'[CCV'[k]].PCX = CCV'[k-1]
      <3>1. CASE k = Len(CCV) + 1
        BY <3>1, <1>4 DEF GlobalIX, CalibrationIX
      <3>2. CASE k \in 2..Len(CCV)
        BY <3>2, <1>1, <1>2, <1>4 DEF StackChain
      <3> QED BY <1>1, <1>4, <3>1, <3>2
    <2>3. ASSUME NEW j \in 1..Len(CCV'), NEW k \in 1..Len(CCV'), j < k,
                 CCV'[j] \notin StaticIXs, CCV'[k] \notin StaticIXs
          PROVE  CCV'[j] < CCV'[k]
      <3>1. j \in 1..Len(CCV) /\ k \in 1..Len(CCV)
        BY <2>3, <1>1, <1>3, <1>4
      <3> QED BY <2>3, <3>1, <1>4 DEF StackChain
    <2> QED BY <2>1, <2>2, <2>3 DEF StackChain
  <1>7. AliveIffOpen'
    <2> SUFFICES ASSUME NEW i \in 1..(CIX - 1)
                 PROVE  (i \in OpenIXs') <=> (i \in OpenIXs)
      BY <1>2 DEF AliveIffOpen
    <2>1. i # CalibrationIX
      BY <1>1 DEF CalibrationIX
    <2> QED BY <2>1, <1>1, <1>4 DEF OpenIXs
  <1>8. StaticsAlive'
    BY <1>2 DEF StaticsAlive
  <1> QED BY <1>5, <1>6, <1>7, <1>8

(* Retyping the current scope leaves every link as it was.                 *)
LEMMA RetypeLinks ==
    ASSUME ContextTypeOK, NEW ty \in ContextTypes
    PROVE  SameLinks(SetContextType(DC, GetCurrentContext, ty))
  <1> DEFINE cur == GetCurrentContext
  <1>1. cur \in Indices /\ DC[cur] \in ContextRecords
    BY CurrentExists
  <1>2. DC \in [Indices -> ContextRecords]
    BY DEF ContextTypeOK
  <1>3. SetContextType(DC, cur, ty) = [DC EXCEPT ![cur] = [DC[cur] EXCEPT !.CTy = ty]]
    BY DEF SetContextType
  <1>4. /\ [DC[cur] EXCEPT !.CTy = ty] \in ContextRecords
        /\ [DC[cur] EXCEPT !.CTy = ty].PCX = DC[cur].PCX
        /\ [DC[cur] EXCEPT !.CTy = ty].SCS = DC[cur].SCS
    BY <1>1 DEF ContextRecords
  <1> HIDE DEF cur
  <1>5. SameLinks(SetContextType(DC, cur, ty))
    BY <1>1, <1>2, <1>3, <1>4 DEF SameLinks
  <1> QED BY <1>5 DEF cur

(* Scopes that keep their links keep the invariant.                        *)
LEMMA LinksInv ==
    ASSUME ContextInv, SameLinks(DC'), UNCHANGED <<CIX, CCV>>
    PROVE  ContextInv'
  <1> USE DEF ContextInv
  <1>1. /\ Indices' = Indices /\ ContextRecords' = ContextRecords
        /\ OpenIXs' = OpenIXs /\ CIX \in Nat \ {0} /\ CCV \in Seq(Indices)
    BY DEF Indices, ContextRecords, OpenIXs, ContextTypeOK
  <1>2. ContextTypeOK'
    BY <1>1 DEF ContextTypeOK, SameLinks
  <1>3. StackChain'
    <2>1. \A k \in 2..Len(CCV) : CCV[k] \in Indices
      BY <1>1
    <2> QED BY <2>1, <1>1 DEF StackChain, SameLinks
  <1>4. AliveIffOpen'
    BY <1>1 DEF AliveIffOpen, SameLinks, Indices
  <1>5. StaticsAlive'
    BY DEF StaticsAlive, SameLinks, Indices
  <1> QED BY <1>2, <1>3, <1>4, <1>5

-----------------------------------------------------------------------------
(* What the operations do to the stack and to the types of the scopes.     *)

LEMMA CreateEffect ==
    ASSUME ContextTypeOK, NEW ty, CreateContext(ty)
    PROVE  /\ CIX \in Nat \ {0} /\ CIX \notin Indices
           /\ Len(CCV') = Len(CCV) + 1 /\ CCV'[Len(CCV) + 1] = CIX
           /\ GetCurrentContext' = CIX
           /\ \A d \in 1..Len(CCV) : CCV'[d] = CCV[d] /\ CCV[d] \in Indices
           /\ DC'[CIX].CTy = ty
           /\ \A i \in Indices : DC'[i] = DC[i]
  <1>1. /\ Len(CCV) \in Nat \ {0} /\ CIX \notin Indices
        /\ CIX \in Nat \ {0} /\ DOMAIN DC = Indices /\ CCV \in Seq(Indices)
    BY CurrentExists DEF ContextTypeOK
  <1>2. /\ CCV' = Append(CCV, CIX)
        /\ DC' = [i \in Indices \cup {CIX} |->
                    IF i = CIX THEN Context(ty, GetCurrentContext) ELSE DC[i]]
    BY <1>1 DEF CreateContext
  <1>3. DC'[CIX].CTy = ty /\ \A i \in Indices : DC'[i] = DC[i]
    BY <1>1, <1>2 DEF Context
  <1>4. /\ Len(CCV') = Len(CCV) + 1 /\ CCV'[Len(CCV) + 1] = CIX
        /\ \A d \in 1..Len(CCV) : CCV'[d] = CCV[d] /\ CCV[d] \in Indices
    BY <1>1, <1>2
  <1>5. GetCurrentContext' = CIX
    BY <1>4 DEF GetCurrentContext
  <1> QED BY <1>1, <1>3, <1>4, <1>5

LEMMA CalibrateEffect ==
    ASSUME ContextTypeOK, SetCalibrationContext
    PROVE  /\ Len(CCV') = Len(CCV) + 1 /\ CCV'[Len(CCV) + 1] = CalibrationIX
           /\ GetCurrentContext' = CalibrationIX
           /\ \A d \in 1..Len(CCV) : CCV'[d] = CCV[d] /\ CCV[d] \in Indices
           /\ DC' = DC
  <1>1. Len(CCV) \in Nat \ {0} /\ CCV \in Seq(Indices)
    BY CurrentExists DEF ContextTypeOK
  <1>2. CCV' = Append(CCV, CalibrationIX) /\ DC' = DC
    BY DEF SetCalibrationContext
  <1>3. /\ Len(CCV') = Len(CCV) + 1 /\ CCV'[Len(CCV) + 1] = CalibrationIX
        /\ \A d \in 1..Len(CCV) : CCV'[d] = CCV[d] /\ CCV[d] \in Indices
    BY <1>1, <1>2
  <1> QED BY <1>2, <1>3 DEF GetCurrentContext

LEMMA PopEffect ==
    ASSUME ContextTypeOK, NEW dc, SameLinks(dc), PopFrom(dc)
    PROVE  /\ Len(CCV') = IF Len(CCV) > 1 THEN Len(CCV) - 1 ELSE Len(CCV)
           /\ \A d \in 1..Len(CCV') : CCV'[d] = CCV[d]
           /\ \A i \in Indices : DC'[i].CTy = dc[i].CTy
  <1>1. /\ Len(CCV) \in Nat \ {0} /\ GetCurrentContext \in Indices
        /\ CCV \in Seq(Indices) /\ dc \in [Indices -> ContextRecords]
    BY CurrentExists DEF ContextTypeOK, SameLinks
  <1>2. \A i \in Indices : SetDead(dc, GetCurrentContext)[i].CTy = dc[i].CTy
    BY <1>1 DEF SetDead, ContextRecords
  <1>3. \A i \in Indices : DC'[i].CTy = dc[i].CTy
    BY <1>2 DEF PopFrom
  <1>4. CASE Len(CCV) > 1
    <2>1. CCV' = SubSeq(CCV, 1, Len(CCV) - 1)
      BY <1>4 DEF PopFrom
    <2>2. /\ Len(CCV) - 1 \in 1..Len(CCV)
          /\ \A d \in 1..Len(CCV) : CCV[d] \in Indices
      BY <1>1, <1>4
    <2>3. Len(CCV') = Len(CCV) - 1
      BY <1>1, <2>1, <2>2, SubSeqProperties
    <2>4. \A d \in 1..(Len(CCV) - 1) : CCV'[d] = CCV[d]
      BY <1>1, <2>1, <2>2, SubSeqProperties
    <2> QED BY <1>3, <1>4, <2>3, <2>4
  <1>5. CASE ~(Len(CCV) > 1)
    BY <1>1, <1>3, <1>5 DEF PopFrom
  <1> QED BY <1>4, <1>5

-----------------------------------------------------------------------------
(* Every operation of the tracker keeps the invariant.                     *)
LEMMA NextInv == ContextInv /\ [ContextNext]_ctxVars => ContextInv'
  <1> SUFFICES ASSUME ContextInv, [ContextNext]_ctxVars PROVE ContextInv'
    OBVIOUS
  <1>1. ContextTypeOK /\ SameLinks(DC)
    BY DEF ContextInv, SameLinks, ContextTypeOK
  <1>2. CASE Create
    BY <1>2, CreateInv DEF Create
  <1>3. CASE Pop
    BY <1>1, <1>3, PopInv DEF Pop, PopCurrentContext
  <1>4. CASE Calibrate
    BY <1>4, CalibrateInv DEF Calibrate
  <1>5. CASE Retype
    BY <1>1, <1>5, RetypeLinks, LinksInv DEF Retype
  <1>6. CASE UNCHANGED ctxVars
    <2>1. SameLinks(DC') /\ UNCHANGED <<CIX, CCV>>
      BY <1>1, <1>6 DEF ctxVars, SameLinks
    <2> QED BY <2>1, LinksInv
  <1> QED BY <1>2, <1>3, <1>4, <1>5, <1>6 DEF ContextNext

(* However the tracker is driven, there is always a current scope and it   *)
(* exists (the type invariant), the chain of parents is the stack, and a   *)
(* scope is alive exactly while it is open.                                *)
THEOREM ContextInvariant == ContextSpec => []ContextInv
  <1>1. ContextInit => ContextInv
    BY InitInv
  <1>2. ContextInv /\ [ContextNext]_ctxVars => ContextInv'
    BY NextInv
  <1> QED BY <1>1, <1>2, PTL DEF ContextSpec

(* CCV.back() is defined, and names a scope of the map.                    *)
THEOREM TrackerTypes == ContextSpec => []ContextTypeOK
  <1>1. ContextInv => ContextTypeOK
    BY DEF ContextInv
  <1> QED BY <1>1, ContextInvariant, PTL

(* A lookup that follows the parents walks down the stack of open scopes.  *)
THEOREM LookupChain == ContextSpec => []StackChain
  <1>1. ContextInv => StackChain
    BY DEF ContextInv
  <1> QED BY <1>1, ContextInvariant, PTL

(* IsDead() on a created scope is FALSE exactly while it is open.          *)
THEOREM LiveScopes == ContextSpec => []AliveIffOpen
  <1>1. ContextInv => AliveIffOpen
    BY DEF ContextInv
  <1> QED BY <1>1, ContextInvariant, PTL

(* Indices are not reused, parents never change, and no dead scope is ever *)
(* revived or opened again.                                                *)
THEOREM PermanentScopes == ContextSpec => ScopesArePermanent
  <1> DEFINE Kept ==
        \A i \in DOMAIN DC :
          /\ i \in DOMAIN DC'
          /\ DC'[i].PCX = DC[i].PCX
          /\ DC[i].SCS = "Dead" => /\ DC'[i].SCS = "Dead"
                                   /\ \A k \in 1..Len(CCV') : CCV'[k] # i
  <1>1. ASSUME ContextInv, ContextInv', ContextNext PROVE Kept
    <2> SUFFICES ASSUME NEW i \in Indices
                 PROVE  /\ i \in Indices' /\ DC'[i].PCX = DC[i].PCX
                        /\ DC[i].SCS = "Dead" => DC'[i].SCS = "Dead"
      <3>1. DOMAIN DC = Indices /\ DOMAIN DC' = Indices'
        BY <1>1 DEF ContextInv, ContextTypeOK
      <3>2. ASSUME NEW i \in Indices', DC'[i].SCS = "Dead"
            PROVE  \A k \in 1..Len(CCV') : CCV'[k] # i
        <4>1. i \in 1..(CIX' - 1)
          BY <1>1, <3>2 DEF ContextInv, StaticsAlive, Indices
        <4> QED BY <1>1, <3>2, <4>1 DEF ContextInv, AliveIffOpen, OpenIXs
      <3> QED BY <3>1, <3>2
    <2>1. CASE Create
      <3>1. CIX \notin Indices
        BY <1>1, CurrentExists DEF ContextInv
      <3>2. CIX' = CIX + 1 /\ DC'[i] = DC[i]
        BY <1>1, <2>1, <3>1 DEF Create, CreateContext, ContextInv, ContextTypeOK
      <3> QED BY <1>1, <3>2 DEF Indices, ContextInv, ContextTypeOK
    <2>2. CASE Pop
      <3>1. Indices' = Indices
        BY <2>2 DEF Pop, PopCurrentContext, PopFrom, Indices
      <3>2. DC' = DC \/ DC' = [DC EXCEPT ![GetCurrentContext].SCS = "Dead"]
        BY <2>2 DEF Pop, PopCurrentContext, PopFrom, SetDead
      <3>3. DC \in [Indices -> ContextRecords]
        BY <1>1 DEF ContextInv, ContextTypeOK
      <3> QED BY <3>1, <3>2, <3>3 DEF ContextRecords
    <2>3. CASE Calibrate
      BY <2>3 DEF Calibrate, SetCalibrationContext, Indices
    <2>4. CASE Retype
      <3>1. Indices' = Indices
        BY <2>4 DEF Retype, Indices
      <3>2. PICK ty \in ContextTypes :
              DC' = [DC EXCEPT ![GetCurrentContext].CTy = ty]
        BY <2>4 DEF Retype, SetContextType
      <3>3. DC \in [Indices -> ContextRecords]
        BY <1>1 DEF ContextInv, ContextTypeOK
      <3> QED BY <3>1, <3>2, <3>3 DEF ContextRecords
    <2> QED BY <1>1, <2>1, <2>2, <2>3, <2>4 DEF ContextNext
  <1>2. ContextInv /\ ContextInv' /\ [ContextNext]_ctxVars => [Kept]_ctxVars
    BY <1>1
  <1>3. [][Kept]_ctxVars => ScopesArePermanent
    BY DEF ScopesArePermanent
  <1> HIDE DEF Kept
  <1> QED BY <1>2, <1>3, ContextInvariant, PTL DEF ContextSpec
=============================================================================
