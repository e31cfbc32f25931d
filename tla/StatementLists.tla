--------------------------- MODULE StatementLists ---------------------------
(***************************************************************************)
(* How the parser collects the statements of a program, and of each box,   *)
(* function, loop and conditional in it, into the lists that become their  *)
(* bodies in the syntax tree.                                              *)
(*                                                                         *)
(* The lists belong to builders, singletons that outlive the construct.    *)
(* The builders of programs, boxes, functions, kernels and defcals have    *)
(* one list, which the empty start of each construct clears and which the  *)
(* node copies.  Those of loops, cases and conditionals make a new list at *)
(* each start; the builder of for loops remembers the newest, and the end  *)
(* of every for clears it.  The node of a for holds a copy of its list,    *)
(* the others a pointer to it.                                             *)
(***************************************************************************)
EXTENDS Naturals, Sequences, SequencesExt, FiniteSets

CONSTANTS
    StaticKinds,        \* constructs whose builder has one list
    Forms,              \* the exceptional forms a program may contain
    MaxStatements,      \* bound on the statements, of all units together
    MaxNesting          \* bound on the constructs open at once

(* "SameInSame": a box, or the like, somewhere in another; "PlainForInFor":*)
(* a for without braces in the body of a for with braces that holds no     *)
(* earlier for with braces; "PlainRangeFor": a for without braces whose    *)
(* variable has a type and whose range an operator, as in                  *)
(* `for int i in [0 : n - 1] h q;'.                                        *)
AllForms == {"SameInSame", "PlainForInFor", "PlainRangeFor"}

(* "fresh" stands for while, do, switch, case, default, if, else if and    *)
(* else; the plain kinds have no braces, and their only statement is given *)
(* to a list of their own when it has ended.                               *)
PlainKinds == {"plainFor", "plainIf"}
Braced == StaticKinds \cup {"for", "fresh"}

ASSUME ListsAssumption ==
    /\ StaticKinds \cap ({"program", "for", "fresh"} \cup PlainKinds) = {}
    /\ Forms \subseteq AllForms
    /\ MaxStatements \in Nat \ {0}
    /\ MaxNesting \in Nat \ {0}

VARIABLES
    program,    \* the program builder's list and its map of addresses
    static,     \* the lists of the builders of StaticKinds
    new,        \* the lists made at the start of a construct
    newest,     \* the one of them the builder of for loops remembers
    open,       \* the constructs not yet reduced, the program first
    nodes       \* the statements reduced so far

listVars == <<program, static, new, newest, open, nodes>>

----------------------------------------------------------------------------
(* An open construct: its kind, its list in `new' (0 if it has none) and,  *)
(* when it has no braces, its statement once that has ended.               *)
Construct(k, l) == [kind |-> k, list |-> l, only |-> <<>>]

(* A node with a copy of its body, and one that points to the list l. *)
Copy(b) == [list |-> 0, body |-> b]
Pointer(l) == [list |-> l, body |-> <<>>]

(* Type invariant: lists hold statements that have ended, the constructs   *)
(* and the nodes refer to lists that exist, the program encloses all.      *)
ListsTypeOK ==
    LET Lists == Seq(1 .. Len(nodes))
    IN  /\ program \in [list: Lists, known: SUBSET (1 .. Len(nodes))]
        /\ static \in [StaticKinds -> Lists]
        /\ new \in Seq(Lists)
        /\ newest \in 1 .. Len(new)
        /\ open \in Seq([kind: {"program"} \cup Braced \cup PlainKinds,
                         list: 0 .. Len(new), only: Lists])
        /\ open # <<>> /\ open[1].kind = "program"
        /\ nodes \in Seq([list: 0 .. Len(new), body: Lists])

(* Were there no first list, the end of a first for would clear nothing.   *)
ListsInitUnset ==
    /\ program = [list |-> <<>>, known |-> {}]
    /\ static = [k \in StaticKinds |-> <<>>]
    /\ new = <<>>
    /\ newest = 0
    /\ open = <<Construct("program", 0)>>
    /\ nodes = <<>>

(* The builder of for loops gets its first list when the type system is    *)
(* initialized, before the first unit is parsed.                           *)
ListsInit ==
    /\ program = [list |-> <<>>, known |-> {}]
    /\ static = [k \in StaticKinds |-> <<>>]
    /\ new = << <<>> >>
    /\ newest = 1
    /\ open = <<Construct("program", 0)>>
    /\ nodes = <<>>

(* The statements collected so far for the open construct c, and those of  *)
(* the node n as a reader of the syntax tree finds them.                   *)
Collected(c) ==
    CASE c.kind = "program" -> program.list
      [] c.kind \in StaticKinds -> static[c.kind]
      [] c.kind \in PlainKinds -> c.only
      [] OTHER -> new[c.list]

BodyOf(n) == IF n.list = 0 THEN n.body ELSE new[n.list]

----------------------------------------------------------------------------
(* The program's builder takes a statement once: it knows its address. *)
Taken(p, s) ==
    IF s \in p.known THEN p
    ELSE [list |-> Append(p.list, s), known |-> p.known \cup {s}]

(* A statement with the node n has been reduced and goes to the innermost  *)
(* of the constructs c; `lists' are those of `new' by then.  A declaration *)
(* is given to the program's builder by its own production first.          *)
Reduced(n, c, lists, isDeclaration) ==
    LET s == Len(nodes) + 1
        declared == IF isDeclaration THEN Taken(program, s) ELSE program
    IN  /\ nodes' = Append(nodes, n)
        /\ program' = IF Last(c).kind = "program" THEN Taken(declared, s)
                      ELSE declared
        /\ static' = [k \in StaticKinds |->
                        IF k = Last(c).kind THEN Append(static[k], s)
                        ELSE static[k]]
        /\ new' = [l \in DOMAIN lists |->
                     IF l = Last(c).list THEN Append(lists[l], s)
                     ELSE lists[l]]
        /\ open' = IF Last(c).kind \in PlainKinds
                   THEN [c EXCEPT ![Len(c)].only = <<s>>] ELSE c
        /\ UNCHANGED newest

(* The lists after the builder of for loops has cleared the newest. *)
ForCleared == [new EXCEPT ![newest] = <<>>]

----------------------------------------------------------------------------
(* A statement may begin, unless the construct without braces has its one; *)
(* every construct that is open still becomes a statement.                 *)
Inner == Last(open)

MayBegin ==
    /\ Inner.kind \in PlainKinds => Inner.only = <<>>
    /\ Len(nodes) + Len(open) <= MaxStatements

MayNest == MayBegin /\ Len(open) <= MaxNesting

Statement == MayBegin /\ Reduced(Copy(<<>>), open, new, FALSE)

Declaration == MayBegin /\ Reduced(Copy(<<>>), open, new, TRUE)

(* The empty start of a statement list: the one list of the builder is     *)
(* cleared, or a new list is made.                                         *)
StartKept(k) == static

StartCleared(k) == [static EXCEPT ![k] = <<>>]

BeginStatic(k) ==
    /\ MayNest
    /\ \/ "SameInSame" \in Forms
       \/ \A i \in DOMAIN open : open[i].kind # k
    /\ static' = StartCleared(k)
    /\ open' = Append(open, Construct(k, 0))
    /\ UNCHANGED <<program, new, newest, nodes>>

NewList(k) ==
    /\ new' = Append(new, <<>>)
    /\ open' = Append(open, Construct(k, Len(new')))
    /\ UNCHANGED <<program, static, nodes>>

BeginFor == MayNest /\ NewList("for") /\ newest' = Len(new')

BeginFresh == MayNest /\ NewList("fresh") /\ UNCHANGED newest

(* A for without braces, or an if, else if or else. *)
BeginPlain(k) ==
    /\ MayNest
    /\ \/ k = "plainIf" \/ "PlainForInFor" \in Forms
       \/ \A i \in DOMAIN open : open[i].kind = "for" => open[i].list # newest
    /\ open' = Append(open, Construct(k, 0))
    /\ UNCHANGED <<program, static, new, newest, nodes>>

----------------------------------------------------------------------------
EndStatic ==
    /\ Inner.kind \in StaticKinds
    /\ Reduced(Copy(static[Inner.kind]), Front(open), new, FALSE)

EndFor ==
    /\ Inner.kind = "for"
    /\ Reduced(Copy(new[Inner.list]), Front(open), ForCleared, FALSE)

EndFresh ==
    /\ Inner.kind = "fresh"
    /\ Reduced(Pointer(Inner.list), Front(open), new, FALSE)

(* Which body the node of a for without braces gets: its production makes  *)
(* a list of the only statement, but that of a PlainRangeFor makes a list  *)
(* and leaves it empty.                                                    *)
PlainForBodies(c) ==
    {c.only} \cup (IF "PlainRangeFor" \in Forms THEN { <<>> } ELSE {})

EndPlainFor ==
    /\ Inner.kind = "plainFor" /\ Inner.only # <<>>
    /\ \E b \in PlainForBodies(Inner) :
           Reduced(Copy(b), Front(open), ForCleared, FALSE)

EndPlainIf ==
    /\ Inner.kind = "plainIf" /\ Inner.only # <<>>
    /\ Reduced(Copy(Inner.only), Front(open), new, FALSE)

(* The next translation unit clears the program's list, but not its map of *)
(* addresses; the lists of the other builders stay as they are.            *)
NextUnit ==
    /\ Len(open) = 1
    /\ program' = [program EXCEPT !.list = <<>>]
    /\ UNCHANGED <<static, new, newest, open, nodes>>

ListsNext ==
    \/ Statement \/ Declaration
    \/ \E k \in StaticKinds : BeginStatic(k)
    \/ BeginFor \/ BeginFresh
    \/ \E k \in PlainKinds : BeginPlain(k)
    \/ EndStatic \/ EndFor \/ EndFresh \/ EndPlainFor \/ EndPlainIf
    \/ NextUnit

ListsSpec == ListsInit /\ [][ListsNext]_listVars

----------------------------------------------------------------------------
(* No statement is lost: each that has ended was taken by the program's    *)
(* builder or is in the body of a construct, open or ended.                *)
Holders == {Collected(open[i]) : i \in DOMAIN open}
               \cup {BodyOf(nodes[i]) : i \in DOMAIN nodes}

NothingLost ==
    DOMAIN nodes = program.known \cup UNION {Range(h) : h \in Holders}

(* Refinement: whatever is nested in whatever, and however the builders    *)
(* share, clear and remember their lists, each open construct and each     *)
(* node of the tree has exactly the statements that were written in it, in *)
(* order, and no later construct or unit takes any away: in programs       *)
(* without the shapes of AllForms, each of which loses statements.         *)
Tree == INSTANCE StatementTree
            WITH bodies <- [i \in DOMAIN open |-> Collected(open[i])],
                 nodes <- [i \in DOMAIN nodes |-> BodyOf(nodes[i])]

BodiesAsWritten == Tree!TreeSpec
=============================================================================
