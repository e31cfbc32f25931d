------------------------- MODULE DeclarationContext -------------------------
(***************************************************************************)
(* ASTDeclarationContext and ASTDeclarationContextTracker: the lexical     *)
(* scopes of a translation unit.  Every scope the scanner opens is a       *)
(* heap object with a fresh index and a pointer to its parent; the         *)
(* tracker keeps the scopes that are open in the vector CCV, whose back is *)
(* the current scope.  A scope that is popped is marked Dead, never freed: *)
(* symbol table entries keep pointing at it, so the scope controller later *)
(* decides visibility from SCS and from the chain of parents.              *)
(*                                                                         *)
(* Two scopes are static objects: the global scope (index 0) and the       *)
(* single calibration scope shared by every `cal' block, whose index is    *)
(* ~0x0 and which may be on the stack several times.                       *)
(***************************************************************************)
EXTENDS Integers, Sequences

CONSTANTS
    ContextTypes,   \* the ASTType values a scope is created with
    MaxIndex,       \* bound: scopes are opened only while CIX < MaxIndex
    MaxDepth        \* bound: the calibration scope is pushed only below it

ASSUME ContextTypesAssumption ==
    {"Global", "OpenPulseCalibration"} \subseteq ContextTypes
ASSUME BoundsAssumption == MaxIndex \in Nat /\ MaxDepth \in Nat

GlobalIX == 0        \* GCX
CalibrationIX == -1  \* CCX: static_cast<unsigned>(~0x0)
NoContext == -2      \* a null parent pointer
StaticIXs == {GlobalIX, CalibrationIX}

VARIABLES
    CIX,    \* index of the next scope
    DC,     \* every scope ever created, by index
    CCV     \* indices of the open scopes, the current one last

ctxVars == <<CIX, DC, CCV>>

Context(ty, parent) == [CTy |-> ty, PCX |-> parent, SCS |-> "Alive"]

GetCurrentContext == CCV[Len(CCV)]
CurrentType == DC[GetCurrentContext].CTy
InCalibrationContext == GetCurrentContext = CalibrationIX
InGlobalContext == GetCurrentContext = GlobalIX

ContextInit ==
    /\ CIX = 1
    /\ DC = [i \in StaticIXs |->
                IF i = GlobalIX THEN Context("Global", NoContext)
                                ELSE Context("OpenPulseCalibration", GlobalIX)]
    /\ CCV = <<GlobalIX>>

(* ASTDeclarationContext::SetContextType and SetDead, as values of DC.     *)
SetContextType(dc, i, ty) == [dc EXCEPT ![i].CTy = ty]

SetDead(dc, i) ==
    IF i \in StaticIXs THEN dc ELSE [dc EXCEPT ![i].SCS = "Dead"]

-----------------------------------------------------------------------------
(* The operations of the tracker.                                          *)

CreateContextReusing(ty) ==      \* mutant: the index is not consumed
    /\ DC' = [i \in DOMAIN DC \cup {CIX} |->
                IF i = CIX THEN Context(ty, GetCurrentContext) ELSE DC[i]]
    /\ CCV' = Append(CCV, CIX)
    /\ CIX' = IF CIX > 1 THEN CIX ELSE CIX + 1

CreateContextGlobalParent(ty) == \* mutant: every scope hangs off the global
    /\ CIX' = CIX + 1
    /\ DC' = [i \in DOMAIN DC \cup {CIX} |->
                IF i = CIX THEN Context(ty, GlobalIX) ELSE DC[i]]
    /\ CCV' = Append(CCV, CIX)

CreateContext(ty) ==
    /\ CIX' = CIX + 1
    /\ DC' = [i \in DOMAIN DC \cup {CIX} |->
                IF i = CIX THEN Context(ty, GetCurrentContext) ELSE DC[i]]
    /\ CCV' = Append(CCV, CIX)

(* PopCurrentContext after the scopes have been updated to dc.             *)
PopFromNoDeath(dc) ==            \* mutant: the popped scope stays alive
    /\ DC' = dc
    /\ CCV' = IF Len(CCV) > 1 THEN SubSeq(CCV, 1, Len(CCV) - 1) ELSE CCV
    /\ UNCHANGED CIX

PopFromKeepsCalibration(dc) ==   \* mutant: the static scope is not popped
    /\ DC' = SetDead(dc, GetCurrentContext)
    /\ CCV' = IF GetCurrentContext \in StaticIXs THEN CCV
                                                 ELSE SubSeq(CCV, 1, Len(CCV) - 1)
    /\ UNCHANGED CIX

PopFrom(dc) ==
    /\ IF Len(CCV) > 1
       THEN /\ DC' = SetDead(dc, GetCurrentContext)
            /\ CCV' = SubSeq(CCV, 1, Len(CCV) - 1)
       ELSE /\ DC' = dc
            /\ CCV' = CCV
    /\ UNCHANGED CIX

PopCurrentContext == PopFrom(DC)

SetCalibrationContextOnce ==     \* mutant: a cal in a cal is not pushed
    /\ CCV' = IF InCalibrationContext THEN CCV ELSE Append(CCV, CalibrationIX)
    /\ UNCHANGED <<CIX, DC>>

SetCalibrationContext ==
    /\ CCV' = Append(CCV, CalibrationIX)
    /\ UNCHANGED <<CIX, DC>>

-----------------------------------------------------------------------------
(* The tracker driven by arbitrary callers: any operation at any time,     *)
(* except that SetContextType asserts that it is not the global scope.     *)

Create == \E ty \in ContextTypes : CIX < MaxIndex /\ CreateContext(ty)

Pop == PopCurrentContext

Calibrate == Len(CCV) < MaxDepth /\ SetCalibrationContext

Retype ==
    \E ty \in ContextTypes :
        /\ ~InGlobalContext
        /\ DC' = SetContextType(DC, GetCurrentContext, ty)
        /\ UNCHANGED <<CIX, CCV>>

ContextNext == Create \/ Pop \/ Calibrate \/ Retype

ContextSpec == ContextInit /\ [][ContextNext]_ctxVars

-----------------------------------------------------------------------------
(* Properties.                                                             *)

Indices == StaticIXs \cup 1..(CIX - 1)

ContextRecords ==
    [CTy : ContextTypes, PCX : Indices \cup {NoContext}, SCS : {"Alive", "Dead"}]

(* Type invariant: DC holds exactly the static scopes and the CIX - 1      *)
(* scopes created so far; CCV is never empty and holds existing scopes, so *)
(* CCV.back() (GetCurrentContext) is always defined.                       *)
ContextTypeOK ==
    /\ CIX \in Nat \ {0}
    /\ DC \in [Indices -> ContextRecords]
    /\ CCV \in Seq(Indices)
    /\ CCV # <<>>

OpenIXs == {CCV[k] : k \in 1..Len(CCV)}

(* The chain of parents of a scope is the stack below it: the scope a      *)
(* lookup walks to next is the one that was current when it was opened, no *)
(* scope opened by CreateContext is on the stack twice, and the global     *)
(* scope is at the bottom and nowhere else.  (The shared calibration scope *)
(* is the exception: its parent is always the global scope.)               *)
StackChain ==
    /\ CCV[1] = GlobalIX
    /\ \A k \in 2..Len(CCV) :
          /\ CCV[k] # GlobalIX
          /\ CCV[k] # CalibrationIX => DC[CCV[k]].PCX = CCV[k-1]
    /\ \A j, k \in 1..Len(CCV) :
          j < k /\ CCV[j] \notin StaticIXs /\ CCV[k] \notin StaticIXs
             => CCV[j] < CCV[k]

(* A created scope is Alive exactly while it is on the stack: IsDead(),    *)
(* which the scope controller reads off a symbol's scope, never disagrees  *)
(* with the tracker.                                                       *)
AliveIffOpen ==
    \A i \in 1..(CIX - 1) : (DC[i].SCS = "Alive") <=> (i \in OpenIXs)

(* What a symbol entry remembers of its scope stays true: an index is      *)
(* never given to a second scope, a scope keeps its parent, and a dead     *)
(* scope is never revived (SetAlive has no caller), nor opened again.      *)
ScopesArePermanent ==
    [][\A i \in DOMAIN DC :
          /\ i \in DOMAIN DC'
          /\ DC'[i].PCX = DC[i].PCX
          /\ DC[i].SCS = "Dead" => /\ DC'[i].SCS = "Dead"
                                   /\ \A k \in 1..Len(CCV') : CCV'[k] # i]_ctxVars
=============================================================================
