----------------------------- MODULE IfStatements -----------------------------
(***************************************************************************)
(* Which if an else or else if belongs to.  The grammar makes if, else if  *)
(* and else three statements of their own, one after the other in the same *)
(* list; the productions join them with what three static trackers and two *)
(* flags in every node of an if remember: the current if, the ifs pushed   *)
(* so far, and whether an else or else if is pending.  The scanner sets    *)
(* these flags by looking past right braces.                               *)
(*                                                                         *)
(* Programs are laid out as the repository's tests are: a left brace and a *)
(* right brace share their line with the keyword, and a body without       *)
(* braces is on the next line.                                             *)
(***************************************************************************)
EXTENDS Integers, Sequences, SequencesExt

CONSTANTS
    Bodies,     \* constructs whose body may have if statements: for, function,
                \* case (of a switch)
    Forms,      \* forms of a program that are not left out, see below
    MaxNodes,   \* bound: statements of if, else if and else
    MaxNesting, \* bound: open constructs
    MaxScopes   \* bound: scopes created

ASSUME IfAssumption ==
    /\ Bodies \subseteq {"for", "function", "case"}
    /\ Forms \subseteq {"IfInPlainIf", "IfInBranch", "PlainAfterBrace", "IfInBody", "PlainIf",
                   "OddElse"}
    /\ MaxNodes \in Nat /\ MaxNesting \in Nat /\ MaxScopes \in Nat

VARIABLES
    open,       \* the constructs being parsed, innermost last; the first is
                \* the program.  kind, braced, items: the nodes in its list;
                \* scope; key: of its token; body: what is known of it
    node,       \* the nodes: kind; of: the if an else (if) is attached to;
                \* dc: the scope it is in; parent, elseIfs, else, pendElseIf,
                \* pendElse: of an if; next: of an else if
                \* history, belongs: the if it follows in its list
    IL, CIF,    \* ASTIfStatementTracker: the ifs pushed, in the order of their
                \* numbers; the current one
    PendingElseIf, PendingElse,
    EIPendingElse,  \* ASTElseIfStatementTracker: PendingElse
    CEI,            \* and the current else if
    ECIF,           \* ASTElseStatementTracker: the current if
    braces,         \* ASTIfBraceMatcher: left and right
    ISC, Tokens,    \* ASTIfStatementBuilder: the next key, keys of tokens
    follow,         \* the last right brace is before: elseif, else, other, or
                    \* the last statement had none: free
    scopes,         \* scopes created
    status          \* ok; error, ice: reported; undefined, hang

flags == <<PendingElseIf, PendingElse, EIPendingElse>>
tracker == <<IL, CIF, flags, CEI, ECIF, braces>>
builder == <<ISC, Tokens>>
ifVars == <<open, node, tracker, builder, follow, scopes, status>>

Branches == {"if", "elseif", "else"}

Frame(kind, braced, key) ==
    [kind |-> kind, braced |-> braced, items |-> <<>>, scope |-> scopes + 1,
     key |-> key, body |-> IF braced THEN "list" ELSE "none"]

IfInit ==
    /\ open = <<[kind |-> "global", braced |-> TRUE, items |-> <<>>, scope |-> 0,
                 key |-> 0, body |-> "list"]>>
    /\ node = <<>> /\ IL = {} /\ CIF = 0
    /\ PendingElseIf = FALSE /\ PendingElse = FALSE /\ EIPendingElse = FALSE
    /\ CEI = 0 /\ ECIF = 0 /\ braces = [L |-> 0, R |-> 0]
    /\ ISC = 0 /\ Tokens = {} /\ follow = "other" /\ scopes = 0 /\ status = "ok"

Inner == Last(open)
Depth == Len(open)

(* The scope current when the innermost construct was opened.              *)
Outer == open[Depth - 1]

(* The last if among the first i items of a list, and whether an else (if) *)
(* may follow what is in it; an item that is no node of these is zero.     *)
KindOf(n) == IF n = 0 THEN "other" ELSE node[n].kind
LastIf(items, i) ==
    LET S == {j \in 1..i : KindOf(items[j]) = "if"}
    IN  IF S = {} THEN 0 ELSE items[Max(S)]
Continues(items) == items # <<>> /\ KindOf(Last(items)) \in {"if", "elseif"}

(* An innermost construct to which a statement may be added.               *)
Ready == status = "ok" /\ (Inner.body = "list" \/ Inner.body = "none")

Room == Depth <= MaxNesting /\ scopes < MaxScopes
NodesOpen == Cardinality({i \in 1..Depth : open[i].kind \in Branches})
NodeRoom == Len(node) + NodesOpen < MaxNodes

-----------------------------------------------------------------------------
(* The keyword if with its condition and left brace.                       *)

ClearsTrackers(kind) == kind \in {"global", "for", "function"}

(* CheckDeclarationContext, for an if in a scope of that kind.             *)
CheckIfContext(kind) ==
    /\ IF ClearsTrackers(kind) \/ kind = "if"
       THEN PendingElseIf' = FALSE /\ PendingElse' = FALSE
       ELSE UNCHANGED <<PendingElseIf, PendingElse>>
    /\ IF ClearsTrackers(kind)
       THEN IL' = {} /\ CIF' = 0 /\ EIPendingElse' = FALSE
       ELSE UNCHANGED <<IL, CIF, EIPendingElse>>

(* Left out unless they are in Forms: an if in an if without braces        *)
(* (IfInPlainIf), in an else if or else (IfInBranch), in a loop or case    *)
(* that is in one of these (IfInBody); an if without braces in one of these *)
(* or a case (PlainIf); an else (if) without braces after a right brace    *)
(* (PlainAfterBrace); an else with braces in an if, else if, else, loop or *)
(* case, after an odd number of right braces that outnumber the left ones  *)
(* (OddElse): the brace matcher starts anew at each if, and the production *)
(* tells an if from the one around it by that number.                      *)
IfAllowed ==
    /\ follow \in {"other", "free"}
    /\ \/ Inner.braced
       \/ Inner.kind = "if" /\ "IfInPlainIf" \in Forms
    /\ Inner.kind \in {"elseif", "else"} => "IfInBranch" \in Forms
    /\ \A i \in 1..Depth : open[i].kind \in {"for", "case"} =>
          ("IfInBody" \in Forms \/ \A j \in 1..i : open[j].kind \notin Branches)

(* ASTIfBraceMatcher starts anew at each if.  In the body of an if the     *)
(* braces of boxes, initializers and durationof are counted in it too; no  *)
(* program here has any.                                                   *)
BracesAnewKept(braced) ==    \* mutant: the matcher is not cleared
    [braces EXCEPT !.L = IF braced THEN @ + 1 ELSE @]
BracesAnew(braced) == [L |-> IF braced THEN 1 ELSE 0, R |-> 0]

OpenIf(braced) ==
    /\ Ready /\ Room /\ NodeRoom /\ IfAllowed
    /\ ~braced /\ (\E i \in 1..Depth : open[i].kind \in Branches \cup {"case"}) => "PlainIf" \in Forms
    /\ CheckIfContext(Inner.kind)
    /\ status' = IF ISC \in Tokens THEN "ice" ELSE status
    /\ Tokens' = Tokens \cup {ISC}
    /\ ISC' = IF braced THEN ISC + 1 ELSE ISC
    /\ braces' = BracesAnew(braced)
    /\ open' = Append(open, Frame("if", braced, ISC))
    /\ scopes' = scopes + 1 /\ follow' = "other"
    /\ UNCHANGED <<node, CEI, ECIF>>

(* The same of else if, and of else.                                       *)
SetPending(flag) ==
    node' = IF CIF = 0 THEN node ELSE [node EXCEPT ![CIF][flag] = TRUE]

FollowsBrace(kind, braced) ==
    IF braced THEN follow \in {kind, "free"}
    ELSE follow = "free" \/ (follow = "other" /\ "PlainAfterBrace" \in Forms)

BranchAllowed(kind, braced) ==
    /\ Inner.braced /\ Continues(Inner.items) /\ FollowsBrace(kind, braced)

OpenElseIf(braced) ==
    /\ Ready /\ Room /\ NodeRoom /\ BranchAllowed("elseif", braced)
    /\ SetPending("pendElseIf")
    /\ PendingElseIf' = (PendingElseIf \/ (~braced /\ Inner.kind \in {"global", "if"}))
    /\ open' = Append(open, Frame("elseif", braced, 0))
    /\ scopes' = scopes + 1 /\ follow' = "other"
    /\ UNCHANGED <<IL, CIF, PendingElse, EIPendingElse, CEI, ECIF, braces, builder, status>>

OpenElse(braced) ==
    /\ Ready /\ Room /\ NodeRoom /\ BranchAllowed("else", braced)
    /\ braced /\ braces.L < braces.R /\ braces.R % 2 = 1 =>
          Inner.kind \in {"global", "function"} \/ "OddElse" \in Forms
    /\ SetPending("pendElse")
    /\ open' = Append(open, Frame("else", braced, 0))
    /\ scopes' = scopes + 1 /\ follow' = "other"
    /\ UNCHANGED <<tracker, builder, status>>

(* A loop, a function or a case with braces: a list begins.  The scope in  *)
(* the body of a case is that of its switch, until the end of the case.    *)
OpenBody(kind) ==
    /\ Ready /\ Room /\ follow \in {"other", "free"}
    /\ kind = "function" => Depth = 1
    /\ open' = Append(open, Frame(kind, TRUE, 0))
    /\ scopes' = scopes + 1 /\ follow' = "other"
    /\ UNCHANGED <<node, tracker, builder, status>>

(* A statement that is the whole body of an if, else if or else.           *)
Simple ==
    /\ Ready /\ ~Inner.braced
    /\ open' = [open EXCEPT ![Depth].body = "done"] /\ follow' = "free"
    /\ UNCHANGED <<node, tracker, builder, scopes, status>>

-----------------------------------------------------------------------------
(* A right brace, before "} else if", "} else" or anything else.           *)

(* After this brace an else (if) may follow: of this construct, or of one  *)
(* without braces of which this is the body.                               *)
MayContinue ==
    \E i \in 2..Depth :
        /\ open[i].kind \in {"if", "elseif"}
        /\ \A j \in i..(Depth - 1) : ~open[j].braced

BeforeElseIf ==
    /\ node' = IF CIF = 0 THEN node
               ELSE [node EXCEPT ![CIF].pendElseIf = TRUE, ![CIF].pendElse = FALSE]
    /\ PendingElseIf' = (PendingElseIf \/ Inner.kind = "if")
    /\ UNCHANGED <<PendingElse, EIPendingElse, braces>>

BeforeElseUnmarked ==         \* mutant: the if is not marked pending
    /\ PendingElse' = (PendingElse \/ CIF = 0)
    /\ EIPendingElse' = (EIPendingElse \/ Inner.kind = "elseif")
    /\ UNCHANGED <<node, PendingElseIf, braces>>

BeforeElse ==
    /\ node' = IF CIF = 0 THEN node
               ELSE [node EXCEPT ![CIF].pendElseIf = FALSE, ![CIF].pendElse = TRUE]
    /\ PendingElse' = (PendingElse \/ CIF = 0 \/ Inner.kind = "if")
    /\ EIPendingElse' = (EIPendingElse \/ Inner.kind = "elseif")
    /\ UNCHANGED <<PendingElseIf, braces>>

BeforeOther ==
    /\ node' = IF Inner.kind = "elseif" /\ CIF # 0
               THEN [node EXCEPT ![CIF].pendElseIf = FALSE, ![CIF].pendElse = FALSE]
               ELSE node
    /\ braces' = [braces EXCEPT !.R = IF Inner.kind = "if" THEN @ + 1 ELSE @]
    /\ PendingElseIf' = (PendingElseIf /\ Inner.kind # "elseif")
    /\ PendingElse' = (PendingElse /\ Inner.kind \notin {"elseif", "else"})
    /\ EIPendingElse' = (EIPendingElse /\ Inner.kind \notin {"elseif", "else"})

RightBrace ==
    /\ Ready /\ Inner.braced /\ Depth > 1 /\ follow \in {"other", "free"}
    /\ \/ MayContinue /\ follow' = "elseif" /\ BeforeElseIf
       \/ MayContinue /\ follow' = "else" /\ BeforeElse
       \/ follow' = "other" /\ BeforeOther
    /\ open' = [open EXCEPT ![Depth].body = "done"]
    /\ UNCHANGED <<IL, CIF, CEI, ECIF, builder, scopes, status>>

-----------------------------------------------------------------------------
(* The productions.                                                        *)

Done(kind) == status = "ok" /\ Inner.body = "done" /\ Inner.kind = kind

(* The innermost construct becomes a statement n of the one around it.     *)
Popped(n) ==
    [i \in 1..(Depth - 1) |->
        IF i = Depth - 1
        THEN [Outer EXCEPT !.items = Append(@, n),
                           !.body = IF Outer.braced THEN @ ELSE "done"]
        ELSE open[i]]

Stop(outcome) ==
    /\ status' = outcome
    /\ UNCHANGED <<open, node, tracker, builder, follow, scopes>>

Pending(n) == node[n].pendElseIf \/ node[n].pendElse

(* Each else (if) of a list is the next one of the if before it.           *)
ListOK(items) ==
    \A i \in DOMAIN items :
        LET h == LastIf(items, i)
            k == Cardinality({j \in 1..i : KindOf(items[j]) = "elseif"
                                            /\ node[items[j]].belongs = h})
        IN  /\ KindOf(items[i]) = "elseif" =>
                 /\ node[items[i]].of = h /\ k <= Len(node[h].elseIfs)
                 /\ node[h].elseIfs[k] = items[i]
            /\ KindOf(items[i]) = "else" =>
                 node[items[i]].of = h /\ node[h].else = items[i]

(* The else of each if of a list is in the list.                           *)
ElsesInList(items) ==
    \A i \in DOMAIN items : KindOf(items[i]) = "if" /\ node[items[i]].else # 0 =>
        \E j \in DOMAIN items : items[j] = node[items[i]].else

NewNode(kind, of, parent) ==
    [kind |-> kind, of |-> of, dc |-> Outer.scope, parent |-> parent,
     elseIfs |-> <<>>, else |-> 0, next |-> 0,
     pendElseIf |-> kind = "if" /\ PendingElseIf, pendElse |-> kind = "if" /\ PendingElse,
     belongs |-> IF kind = "if" THEN 0 ELSE LastIf(Outer.items, Len(Outer.items))]

N == Len(node) + 1

(* ProductionRule_3000 and 3001.                                           *)
ParentOfIf == IF Outer.kind \in {"global", "function"} THEN 0 ELSE CIF

Adopted(f, items, n) ==
    [i \in DOMAIN f |-> IF f[i].kind = "if" /\ \E j \in DOMAIN items : items[j] = i
                        THEN [f[i] EXCEPT !.parent = n] ELSE f[i]]

ReduceIf ==
    /\ Done("if")
    /\ IF ~ListOK(Inner.items) \/ ~ElsesInList(Inner.items) THEN Stop("error")
       ELSE /\ node' = Adopted(Append(node, NewNode("if", 0, ParentOfIf)), Inner.items, N)
            /\ PendingElseIf' = FALSE /\ PendingElse' = FALSE
            /\ IL' = IL \cup {N} /\ CIF' = N /\ ECIF' = N /\ CEI' = 0
            /\ Tokens' = IF Inner.braced THEN Tokens ELSE Tokens \ {Inner.key}
            /\ ISC' = IF Inner.braced THEN ISC ELSE ISC + 1
            /\ open' = Popped(N)
            /\ UNCHANGED <<EIPendingElse, braces, follow, scopes, status>>

(* The first ancestor of an if, itself included, that is pending; none if  *)
(* there is no such; and whether the walk comes back to an if.             *)
Ancestors(n) ==
    LET Up[k \in 0..Len(node)] == IF k = 0 THEN n
                                  ELSE IF Up[k - 1] = 0 THEN 0 ELSE node[Up[k - 1]].parent
    IN  Up
Ends(n) == {k \in 0..Len(node) : Ancestors(n)[k] = 0 \/ Pending(Ancestors(n)[k])}
Circles(n) == Ends(n) = {}
FirstPending(n) == Ancestors(n)[Min(Ends(n))]

AttachElseIf(f, c, n) == [f EXCEPT ![c].elseIfs = Append(@, n)]

(* NormalizeElseIf: each else if points to the next one.                   *)
NormalizedUnlinked(f, c) ==   \* mutant: P is not advanced
    [i \in DOMAIN f |->
        IF \E k \in DOMAIN f[c].elseIfs : f[c].elseIfs[k] = i THEN [f[i] EXCEPT !.next = 0]
        ELSE f[i]]

Normalized(f, c) ==
    [i \in DOMAIN f |->
        IF \E k \in DOMAIN f[c].elseIfs : f[c].elseIfs[k] = i
        THEN LET k == CHOOSE k \in DOMAIN f[c].elseIfs : f[c].elseIfs[k] = i
             IN  [f[i] EXCEPT !.next = IF k = Len(f[c].elseIfs) THEN 0
                                       ELSE f[c].elseIfs[k + 1]]
        ELSE f[i]]

Linked(f, e, n) == IF e = 0 THEN f ELSE [f EXCEPT ![e].next = n]

(* No if for it: none is current, or the current one is in its own body.   *)
NoDominator(c) == c = 0 \/ node[c].dc = Inner.scope

(* ProductionRule_3010: else if without braces.                            *)
ReducePlainElseIf ==
    /\ Done("elseif") /\ ~Inner.braced
    /\ IF NoDominator(CIF) THEN Stop("error")
       ELSE /\ node' = Linked(AttachElseIf(Append(node, NewNode("elseif", CIF, 0)), CIF, N),
                              CEI, N)
            /\ CEI' = N
            /\ ECIF' = IF EIPendingElse THEN CIF ELSE ECIF
            /\ open' = Popped(N)
            /\ UNCHANGED <<IL, CIF, flags, braces, builder, follow, scopes, status>>

(* ProductionRule_3011: else if with braces.                               *)
ReduceElseIf ==
    /\ Done("elseif") /\ Inner.braced
    /\ IF ~ListOK(Inner.items) \/ CIF = 0 THEN Stop("error")
       ELSE IF ~Pending(CIF) /\ Circles(node[CIF].parent) THEN Stop("hang")
       ELSE LET S == IF Pending(CIF) THEN 0 ELSE FirstPending(node[CIF].parent)
                f == Normalized(AttachElseIf(Append(node, NewNode("elseif", CIF, 0)), CIF, N),
                                CIF)
                e == IF CEI # 0 /\ node[CEI].of = CIF THEN CEI ELSE 0
            IN  /\ node' = Linked(f, e, N)
                /\ CEI' = N
                /\ CIF' = IF S = 0 THEN CIF ELSE S
                /\ ECIF' = IF S # 0 THEN S
                           ELSE IF EIPendingElse \/ node[CIF].dc = Inner.scope THEN CIF
                           ELSE IF ~Pending(CIF) /\ node[CIF].parent # 0 THEN 0
                           ELSE ECIF
                /\ IF S = 0 THEN UNCHANGED flags
                   ELSE /\ PendingElseIf' = FALSE /\ PendingElse' = FALSE
                        /\ EIPendingElse' = FALSE
                /\ open' = Popped(N)
                /\ UNCHANGED <<IL, braces, builder, follow, scopes, status>>

(* Pop of the if tracker: the if pushed before c becomes the current one.  *)
PopIf(c) ==
    IF c # CIF THEN node[c].parent
    ELSE IF IL \subseteq {c} THEN 0
    ELSE IF c \notin IL THEN c
    ELSE Max({i \in IL : i < c})
PopUndefined(c) == c = CIF /\ c \in IL /\ IL # {c} /\ \A i \in IL : c <= i

(* ProductionRule_3020: else without braces.                               *)
ReducePlainElse ==
    /\ Done("else") /\ ~Inner.braced
    /\ IF NoDominator(ECIF) THEN Stop("error")
       ELSE IF PopUndefined(ECIF) THEN Stop("undefined")
       ELSE /\ node' = [Append(node, NewNode("else", ECIF, 0)) EXCEPT ![ECIF].else = N]
            /\ CIF' = PopIf(ECIF) /\ ECIF' = 0
            /\ open' = Popped(N)
            /\ UNCHANGED <<IL, flags, CEI, braces, builder, follow, scopes, status>>

(* ProductionRule_3021: else with braces.                                  *)
DominatorOfElseOuter ==       \* mutant: the parity is not looked at
    IF braces.L < braces.R /\ node[CIF].parent # 0 THEN node[CIF].parent ELSE CIF

DominatorOfElse ==
    LET P == node[CIF].parent
    IN  IF /\ braces.L < braces.R /\ P # 0
           /\ IF node[CIF].else # 0 THEN braces.L % 2 = 1 ELSE braces.R % 2 = 1
        THEN P ELSE CIF

ReduceElse ==
    /\ Done("else") /\ Inner.braced
    /\ IF ~ListOK(Inner.items) \/ CIF = 0 THEN Stop("error")
       ELSE LET even == braces.L = braces.R /\ ~Pending(CIF)
                c == IF braces.L # braces.R THEN DominatorOfElse ELSE CIF
                f == [Append(node, NewNode("else", c, 0)) EXCEPT ![c].else = N,
                                                                 ![c].pendElseIf = FALSE]
            IN  IF Circles(node[c].parent) THEN Stop("hang")
                ELSE IF even /\ FirstPending(node[c].parent) = 0 THEN Stop("error")
                ELSE /\ node' = Normalized(f, c)
                     /\ CIF' = FirstPending(node[c].parent) /\ ECIF' = CIF'
                     /\ IF even
                        THEN /\ PendingElseIf' = FALSE /\ PendingElse' = FALSE
                             /\ EIPendingElse' = FALSE
                        ELSE UNCHANGED flags
                     /\ open' = Popped(N)
                     /\ UNCHANGED <<IL, CEI, braces, builder, follow, scopes, status>>

(* The end of a loop, a function or a case; the ifs of a case are erased.  *)
ReduceBody ==
    /\ \E k \in Bodies : Done(k)
    /\ LET erased == {n \in ToSet(Inner.items) : Inner.kind = "case" /\ KindOf(n) = "if"}
       IN  IF erased = {} THEN UNCHANGED <<IL, CIF, ECIF>>
           ELSE /\ IL' = IL \ erased /\ ECIF' = 0
                /\ CIF' = IF IL \subseteq erased THEN 0 ELSE Max(IL \ erased)
    /\ open' = Popped(0)
    /\ UNCHANGED <<node, flags, CEI, braces, builder, follow, scopes, status>>

IfNext ==
    \/ \E braced \in BOOLEAN : OpenIf(braced) \/ OpenElseIf(braced) \/ OpenElse(braced)
    \/ \E k \in Bodies : OpenBody(k)
    \/ Simple \/ RightBrace
    \/ ReduceIf
    \/ ReducePlainElseIf \/ ReduceElseIf \/ ReducePlainElse \/ ReduceElse \/ ReduceBody

IfSpec == IfInit /\ [][IfNext]_ifVars

-----------------------------------------------------------------------------
(* Properties.                                                             *)

IfTypeOK ==
    /\ \A n \in DOMAIN node :
         /\ node[n].kind \in Branches /\ node[n].of \in 0..Len(node)
         /\ node[n].parent \in 0..Len(node)
         /\ {node[n].pendElseIf, node[n].pendElse} \subseteq BOOLEAN
    /\ \A n \in IL : KindOf(n) = "if"
    /\ {CIF, ECIF, CEI} \subseteq 0..Len(node)
    /\ {PendingElseIf, PendingElse, EIPendingElse} \subseteq BOOLEAN
    /\ braces.L \in 0..1 /\ braces.R \in Nat /\ Tokens \subseteq 0..ISC
    /\ status \in {"ok", "error", "ice", "hang", "undefined"}

(* An else and an else if is attached to the if that is before it in the   *)
(* same list.                                                              *)
BranchBelongs ==
    \A n \in DOMAIN node : node[n].kind # "if" => node[n].of = node[n].belongs

(* A program in which every else has its if is parsed without an error.    *)
NoSpuriousError == status = "ok"

(* Each else if of an if points to the next one, and the last to none.     *)
ChainInOrder ==
    \A n \in DOMAIN node :
        LET v == node[n].elseIfs
        IN  \A k \in DOMAIN v : node[v[k]].next = IF k = Len(v) THEN 0 ELSE v[k + 1]
=============================================================================
