---------------------------- MODULE ScopeProtocol ----------------------------
(***************************************************************************)
(* Who opens and who closes the scopes.  The SCANNER opens a scope as soon *)
(* as it meets the keyword of a construct (QasmScanner.l); the PARSER      *)
(* closes it when it reduces the production of the whole construct         *)
(* (a rule of ASTProductionFactory).  Nothing ties the two                 *)
(* together: the production pops whatever scope is on top of the tracker's *)
(* stack, and one keyword (`while') opens a scope or not depending on how  *)
(* many braces a global counter has seen.                                  *)
(*                                                                         *)
(* A behaviour is the scanning and parsing of one translation unit.  `open'*)
(* is the parser's stack of constructs that have been started and not yet  *)
(* reduced (the productions of QasmParser.y), and each action is a token   *)
(* delivered by the scanner, with the parser's shift, or a reduction.      *)
(* Closing productions are reduced without a lookahead token (the parser   *)
(* is in a consistent state), so no token is scanned while the top of      *)
(* `open' is complete ("reduce").  A label is the exception: it looks for  *)
(* a break behind its closing brace.  The token read is scanned in the     *)
(* scope of the switch, which the production of the label leaves as it     *)
(* found it, so that the order of the two moves no scope and no counter.   *)
(***************************************************************************)
EXTENDS DeclarationContext

CONSTANTS
    Kinds,              \* the kinds of construct a program may contain
    Forms,              \* the exceptional forms it may contain: see AllForms
    AssertionsEnabled,  \* is the parser built without NDEBUG
    ExitOnError,        \* default diagnostic handler: exit(1) on an error
    MaxNesting,         \* bound on the number of open constructs
    MaxBraces           \* bound on the braces a matcher counts

(* Constructs whose keyword opens a scope of the same ASTType.             *)
StatementKinds == {"IfStatement", "ElseIfStatement", "ElseStatement",
                   "ForStatement", "DoWhileStatement", "SwitchStatement"}
DeclarationKinds == {"Gate", "Opaque", "Function", "Defcal"}
LabelKinds == {"CaseStatement", "DefaultStatement"}
AllKinds == StatementKinds \cup DeclarationKinds \cup LabelKinds \cup
            {"WhileStatement", "OpenPulseCalibration", "Extern", "Braces"}

(* Forms of programs on which the two sides, or the flags of PulseContexts, *)
(* do not agree; runs and theorems say whether they are included.          *)
(*   BracesInDo       braces of an initializer, a box or a durationof      *)
(*                    directly in the body of a do                         *)
(*   ExternNotOpened  an extern function whose keyword opens no scope      *)
(*   PortInDefcal     an extern port or frame outside a cal block          *)
(*   NestedPulse      a cal or defcal inside a cal or defcal               *)
AllForms == {"BracesInDo", "ExternNotOpened", "PortInDefcal", "NestedPulse"}

PulseKinds == {"OpenPulseCalibration", "Defcal"}

(* The brace matchers: one pair of counters per type of scope.             *)
MatchedTypes == (StatementKinds \cup LabelKinds \cup
                 {"WhileStatement", "Gate", "Defcal", "Function", "Extern"})

ASSUME KindsAssumption ==
    /\ Kinds \subseteq AllKinds
    /\ Forms \subseteq AllForms
    /\ AllKinds \cup {"Global"} \subseteq ContextTypes
    /\ AssertionsEnabled \in BOOLEAN
    /\ ExitOnError \in BOOLEAN
    /\ MaxNesting \in Nat /\ MaxBraces \in Nat

VARIABLES
    open,       \* constructs started and not reduced, innermost last
    matcher,    \* Left and Right of every brace matcher
    failed,     \* has an error been reported
    status      \* "parsing", "done", "exited" (exit(1)), "aborted" (assert)

vars == <<ctxVars, open, matcher, failed, status>>

(* Where the parser is inside a construct.                                 *)
(*   head    the keyword has been read, the body has not begun             *)
(*   body    inside braces;  single: before the only statement of a body   *)
(*           without braces;  list: in the statements of a bare label      *)
(*   after   past the closing brace of a do;  tail: past its `while'       *)
(*   reduce  complete: the next thing the parser does is reduce it         *)
Parts == {"head", "body", "single", "list", "after", "tail", "reduce"}

Zero == [L |-> 0, R |-> 0]

Init ==
    /\ ContextInit
    /\ open = <<>>
    /\ matcher = [k \in MatchedTypes |-> Zero]
    /\ failed = FALSE
    /\ status = "parsing"

-----------------------------------------------------------------------------
(* The parser's stack.                                                     *)

Inner == open[Len(open)]
InnerIs(ks, ps) == open # <<>> /\ Inner.kind \in ks /\ Inner.part \in ps

(* Where the grammar accepts a Statement.                                  *)
AtStatement ==
    \/ open = <<>>
    \/ InnerIs(AllKinds \ {"SwitchStatement", "Gate"}, {"body", "single", "list"})

(* Where it accepts an OpenPulseStatement.                                 *)
AtPulseStatement == open = <<>> \/ InnerIs(PulseKinds, {"body"})

MayNest(k) ==
    \/ k \notin PulseKinds \/ "NestedPulse" \in Forms
    \/ \A i \in 1..Len(open) : open[i].kind \notin PulseKinds

(* The bounds.  Before an error the braces of constructs are bounded by    *)
(* their number; after one, scopes and counters may be out of step for     *)
(* good, and constructs are started only while every counter is small.     *)
Room ==
    /\ CIX < MaxIndex /\ Len(open) < MaxNesting
    /\ failed => \A k \in MatchedTypes : /\ matcher[k].L < MaxBraces
                                         /\ matcher[k].R < MaxBraces

(* A construct started by the current token: `opened' says whether the     *)
(* token opened a scope, `scope' and `depth' which scope is current after  *)
(* it and at which depth (history, read by the properties only).           *)
Started(k, opened) ==
    Append(open, [kind |-> k, part |-> "head", opened |-> opened,
                  scope |-> CCV'[Len(CCV')], depth |-> Len(CCV')])

(* The parser after its innermost construct has been reduced: a construct  *)
(* without braces is complete with its only statement.                     *)
SetPart(s, p) == [s EXCEPT ![Len(s)].part = p]

StatementDone(s) ==
    IF s # <<>> /\ s[Len(s)].part = "single" THEN SetPart(s, "reduce") ELSE s

Reduced == StatementDone(SubSeq(open, 1, Len(open) - 1))

-----------------------------------------------------------------------------
(* Scanner: keywords.                                                      *)

ResetMatcher(k) ==
    matcher' = IF k \in MatchedTypes THEN [matcher EXCEPT ![k] = Zero]
                                     ELSE matcher

(* An opaque declaration is scanned as a gate.                             *)
ScopeType(k) == IF k = "Opaque" THEN "Gate" ELSE k

(* gate, opaque, def, defcal, if, else if, else, for, do, switch           *)
OpenScope(k) ==
    /\ AtStatement /\ Room /\ MayNest(k)
    /\ CreateContext(ScopeType(k))
    /\ ResetMatcher(k)
    /\ open' = Started(k, TRUE)
    /\ UNCHANGED <<failed, status>>

CalKeyword ==
    /\ AtPulseStatement /\ Room /\ MayNest("OpenPulseCalibration")
    /\ Len(CCV) < MaxDepth
    /\ SetCalibrationContext
    /\ open' = Started("OpenPulseCalibration", TRUE)
    /\ UNCHANGED <<matcher, failed, status>>

ExternOpens == ~InCalibrationContext /\ CurrentType # "Extern"

ExternKeyword ==
    /\ AtStatement /\ Room
    /\ \/ ExternOpens \/ "ExternNotOpened" \in Forms
       \/ InnerIs({"OpenPulseCalibration"}, {"body"})
    /\ IF ExternOpens THEN CreateContext("Extern") ELSE UNCHANGED ctxVars
    /\ ResetMatcher("Extern")
    /\ open' = Started("Extern", ExternOpens)
    /\ UNCHANGED <<failed, status>>

(* The rule for `while' must tell the head of a while loop from the tail   *)
(* of a do statement, and has only the braces counted in `do' scopes to    *)
(* tell them apart: it opens a scope if no right brace has been counted,   *)
(* and resets the matcher of while if a left one has.                      *)
DoBraces == matcher["DoWhileStatement"]

WhileOpens == DoBraces.R = 0

WhileTokenUncounted(opens) ==    \* mutant: no scope inside the body of a do
    /\ IF opens /\ DoBraces.L = 0 THEN CreateContext("WhileStatement")
                                   ELSE UNCHANGED ctxVars
    /\ UNCHANGED matcher

WhileScope(opens) ==
    /\ IF opens THEN CreateContext("WhileStatement") ELSE UNCHANGED ctxVars
    /\ IF opens /\ DoBraces.L # 0 THEN ResetMatcher("WhileStatement")
                                   ELSE UNCHANGED matcher

WhileKeyword ==
    /\ AtStatement /\ Room
    /\ WhileScope(WhileOpens)
    /\ open' = Started("WhileStatement", WhileOpens)
    /\ UNCHANGED <<failed, status>>

DoTail ==
    /\ InnerIs({"DoWhileStatement"}, {"after"})
    /\ WhileScope(WhileOpens)
    /\ open' = SetPart(open, "tail")
    /\ UNCHANGED <<failed, status>>

(* case and default open no scope: the production does, once the body has  *)
(* been parsed.                                                            *)
LabelKeyword(k) ==
    /\ InnerIs({"SwitchStatement"}, {"body"}) /\ Room
    /\ UNCHANGED ctxVars
    /\ ResetMatcher(k)
    /\ open' = Started(k, FALSE)
    /\ UNCHANGED <<failed, status>>

(* break pops the scope of a loop or a label, by the types such a scope    *)
(* might have.                                                             *)
BreakTypesStatement ==           \* mutant: the types loops really have
    {"CaseStatement", "DefaultStatement", "ForStatement", "WhileStatement",
     "DoWhileStatement"}

BreakTypes == {"CaseStatement", "DefaultStatement", "ForLoop", "WhileLoop",
               "DoWhileLoop"}

Break ==
    /\ AtStatement
    /\ IF CurrentType \in BreakTypes THEN PopCurrentContext
                                     ELSE UNCHANGED ctxVars
    /\ open' = StatementDone(open)
    /\ UNCHANGED <<matcher, failed, status>>

-----------------------------------------------------------------------------
(* Scanner: punctuation.  A brace is counted in the matcher of the type of *)
(* the current scope, whatever the brace belongs to.                       *)

CountLeft ==
    matcher' = IF CurrentType \in MatchedTypes
               THEN [matcher EXCEPT ![CurrentType].L = @ + 1] ELSE matcher

CountRight ==
    matcher' = IF CurrentType \in MatchedTypes
               THEN [matcher EXCEPT ![CurrentType].R = @ + 1] ELSE matcher

(* A right brace that an else, or an else if with a body in braces, follows *)
(* is matched by longer rules, which count nothing.  It can only end a     *)
(* statement, and not a do.                                                *)
ElseKinds == {"ElseIfStatement", "ElseStatement"}

UncountedRight == Kinds \cap ElseKinds # {} /\ UNCHANGED matcher

(* The brace that starts the body of a construct.                          *)
LeftCurly ==
    /\ InnerIs(AllKinds \ {"Opaque", "Braces"}, {"head"})
    /\ Inner.kind = "Extern" => Inner.opened \/ "ExternNotOpened" \in Forms
    /\ CountLeft
    /\ open' = SetPart(open, "body")
    /\ UNCHANGED <<ctxVars, failed, status>>

(* Any other brace: an initializer list, a durationof, the set of values   *)
(* of a for, or a box, whose body holds statements.                        *)
OtherLeftCurly ==
    /\ "Braces" \in Kinds
    /\ AtStatement \/ InnerIs({"ForStatement"}, {"head"})
    /\ CurrentType = "DoWhileStatement" => "BracesInDo" \in Forms
    /\ Room
    /\ CurrentType \in MatchedTypes => matcher[CurrentType].L < MaxBraces
    /\ CountLeft
    /\ open' = Append(open, [kind |-> "Braces", part |-> "body",
                              opened |-> FALSE, scope |-> GetCurrentContext,
                              depth |-> Len(CCV)])
    /\ UNCHANGED <<ctxVars, failed, status>>

OtherRightCurly ==
    /\ InnerIs({"Braces"}, {"body"})
    /\ CountRight \/ UncountedRight
    /\ open' = Reduced
    /\ UNCHANGED <<ctxVars, failed, status>>

RightCurly ==
    /\ InnerIs(AllKinds \ {"Braces"}, {"body"})
    /\ \/ CountRight
       \/ Inner.kind \notin LabelKinds \cup {"DoWhileStatement"} /\ UncountedRight
    /\ open' = SetPart(open, IF Inner.kind = "DoWhileStatement" THEN "after"
                                                                ELSE "reduce")
    /\ UNCHANGED <<ctxVars, failed, status>>

(* An if, else if, else or for without braces, and a label without them.   *)
BareLabel ==
    /\ InnerIs(LabelKinds, {"head"})
    /\ open' = SetPart(open, "list")
    /\ UNCHANGED <<ctxVars, matcher, failed, status>>

NoBraces ==
    /\ InnerIs({"IfStatement", "ElseIfStatement", "ElseStatement",
                "ForStatement"}, {"head"})
    /\ open' = SetPart(open, "single")
    /\ UNCHANGED <<ctxVars, matcher, failed, status>>

SimpleStatement ==
    /\ InnerIs(AllKinds, {"single"})
    /\ open' = SetPart(open, "reduce")
    /\ UNCHANGED <<ctxVars, matcher, failed, status>>

(* The semicolon of an opaque or extern declaration, or of a do.           *)
Semicolon ==
    /\ \/ InnerIs({"Opaque", "Extern"}, {"head"})
       \/ InnerIs({"DoWhileStatement"}, {"tail"})
    /\ Inner.kind = "Extern" => Inner.opened \/ "ExternNotOpened" \in Forms
    /\ open' = SetPart(open, "reduce")
    /\ UNCHANGED <<ctxVars, matcher, failed, status>>

(* extern port p; and extern frame f; are not function declarations: the   *)
(* scope the keyword may have opened is not popped.                        *)
PortOrFrame ==
    /\ InnerIs({"Extern"}, {"head"})
    /\ Len(open) > 1
    /\ open[Len(open) - 1].kind \in PulseKinds
    /\ Inner.opened => "PortInDefcal" \in Forms
    /\ open' = Reduced
    /\ UNCHANGED <<ctxVars, matcher, failed, status>>

-----------------------------------------------------------------------------
(* Parser: reductions.                                                     *)

(* Productions that call SetContextType on the current scope.              *)
(* (of a cal block, once it is known to be the calibration scope).         *)
RetypingKinds == {"Gate", "Opaque", "Defcal", "IfStatement",
                  "ElseIfStatement", "ElseStatement", "ForStatement",
                  "WhileStatement", "DoWhileStatement"}

Retyped(k) ==
    IF k \in RetypingKinds \/ (k = "OpenPulseCalibration" /\ InCalibrationContext)
    THEN SetContextType(DC, GetCurrentContext, k) ELSE DC

(* SetContextType asserts that the scope is not the global one, and the    *)
(* productions of switch that the current scope is a switch.               *)
AssertionFails(k) ==
    /\ AssertionsEnabled
    /\ \/ k \in RetypingKinds /\ InGlobalContext
       \/ k = "SwitchStatement" /\ CurrentType # "SwitchStatement"

Abort ==
    /\ open # <<>> /\ Inner.part = "reduce" /\ AssertionFails(Inner.kind)
    /\ status' = "aborted"
    /\ UNCHANGED <<ctxVars, open, matcher, failed>>

(* A label in braces: the scope of its body is created after the body has  *)
(* been parsed, and popped by the same production.                         *)
CloseLabelLeaking(k) ==          \* mutant: the scope is not popped
    CreateContext(k)

CloseLabel(k) ==
    /\ CIX' = CIX + 1
    /\ DC' = [i \in DOMAIN DC \cup {CIX} |->
                IF i = CIX THEN [Context(k, GetCurrentContext) EXCEPT !.SCS = "Dead"]
                           ELSE DC[i]]
    /\ UNCHANGED CCV

ResetAfterNotDo == {"Extern", "WhileStatement"}    \* mutant

ResetAfter == {"Extern", "WhileStatement", "DoWhileStatement"}

Reduce ==
    /\ open # <<>> /\ Inner.part = "reduce" /\ ~AssertionFails(Inner.kind)
    /\ Inner.kind = "OpenPulseCalibration" => InCalibrationContext
    /\ IF Inner.kind \in LabelKinds THEN CloseLabel(Inner.kind)
                                    ELSE PopFrom(Retyped(Inner.kind))
    /\ IF Inner.kind \in ResetAfter THEN ResetMatcher(Inner.kind)
                                    ELSE UNCHANGED matcher
    /\ open' = Reduced
    /\ UNCHANGED <<failed, status>>

(* The production of a label without braces.                               *)
ReduceBareLabel ==
    /\ InnerIs(LabelKinds, {"list"})
    /\ open' = Reduced
    /\ UNCHANGED <<ctxVars, matcher, failed, status>>

(* A production that reports an error (always, for a cal block that is     *)
(* closed outside the calibration scope) returns without popping; only     *)
(* some errors of a defcal pop.  The default handler exits; a handler of   *)
(* an embedding program may return.                                        *)
ReduceError ==
    /\ open # <<>> /\ Inner.part = "reduce" /\ ~AssertionFails(Inner.kind)
    /\ failed' = TRUE
    /\ IF ExitOnError
       THEN /\ status' = "exited"
            /\ UNCHANGED <<ctxVars, open, matcher>>
       ELSE /\ \/ DC' \in {DC, Retyped(Inner.kind)} /\ UNCHANGED <<CIX, CCV>>
               \/ Inner.kind = "Defcal" /\ PopFrom(Retyped("Defcal"))
            /\ open' = Reduced
            /\ UNCHANGED <<matcher, status>>

(* Any other production or token may report an error; it moves no scope.   *)
OtherError ==
    /\ open # <<>> => Inner.part # "reduce"
    /\ failed' = TRUE
    /\ status' = IF ExitOnError THEN "exited" ELSE status
    /\ UNCHANGED <<ctxVars, open, matcher>>

EndOfInput ==
    /\ open = <<>>
    /\ status' = "done"
    /\ UNCHANGED <<ctxVars, open, matcher, failed>>

-----------------------------------------------------------------------------
OpenedByKeyword == StatementKinds \cup DeclarationKinds

Keyword ==
    \/ \E k \in Kinds \cap OpenedByKeyword : OpenScope(k)
    \/ "OpenPulseCalibration" \in Kinds /\ CalKeyword
    \/ "Extern" \in Kinds /\ ExternKeyword
    \/ "WhileStatement" \in Kinds /\ WhileKeyword
    \/ DoTail
    \/ \E k \in Kinds \cap LabelKinds : LabelKeyword(k)
    \/ Break

Punctuation ==
    \/ LeftCurly \/ OtherLeftCurly \/ OtherRightCurly \/ RightCurly
    \/ BareLabel \/ NoBraces \/ SimpleStatement \/ Semicolon \/ PortOrFrame

Reduction == Abort \/ Reduce \/ ReduceBareLabel \/ ReduceError \/ OtherError

Terminated == status # "parsing" /\ UNCHANGED vars

Next ==
    \/ status = "parsing" /\ (Keyword \/ Punctuation \/ Reduction \/ EndOfInput)
    \/ Terminated

Spec == Init /\ [][Next]_vars

-----------------------------------------------------------------------------
(* Properties.                                                             *)

Constructs == [kind : AllKinds, part : Parts, opened : BOOLEAN,
               scope : Int, depth : Nat]

TypeOK ==
    /\ ContextTypeOK
    /\ open \in Seq(Constructs)
    /\ matcher \in [MatchedTypes -> [L : Nat, R : Nat]]
    /\ failed \in BOOLEAN
    /\ status \in {"parsing", "done", "exited", "aborted"}

(* The scope on top of the stack is the one that was current just after    *)
(* the keyword of the innermost open construct, at the same depth: every   *)
(* production therefore pops the scope its own keyword opened, and what is *)
(* parsed at top level is declared in the global scope.                    *)
ScopeMatchesConstruct ==
    status = "parsing" /\ ~failed =>
        IF open = <<>>
        THEN CCV = <<GlobalIX>>
        ELSE Len(CCV) = Inner.depth /\ GetCurrentContext = Inner.scope

(* "A while loop may exist inside or outside a do-while loop": wherever it *)
(* is, the keyword of a while loop opens a scope of its own, and the tail  *)
(* of a do opens none (ScopeMatchesConstruct).                             *)
WhileOwnsScope ==
    ~failed => \A i \in 1..Len(open) :
                  open[i].kind = "WhileStatement" => open[i].opened

(* The assertions the productions make about the current scope hold on     *)
(* every program that is parsed without an error.                          *)
AssertionsHold == ~failed => status # "aborted"

(* A break closes no scope: the loop or label it is in is still open.      *)
BreakKeepsScopes == [][Break => UNCHANGED CCV]_vars

(* The calibration scope is one object for the whole program: a production *)
(* that retyped it (being reduced while it is current) would change every  *)
(* later cal block.                                                        *)
CalibrationKeepsType ==
    ~failed => DC[CalibrationIX].CTy = "OpenPulseCalibration"

=============================================================================
