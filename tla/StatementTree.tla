--------------------------- MODULE StatementTree ---------------------------
(***************************************************************************)
(* What a parse of nested statements promises: the body of every construct *)
(* is the sequence of the statements written in it, in the order in which  *)
(* they end, and never changes once the construct has ended.  A statement  *)
(* is named by the number of statements that ended before it, plus one.    *)
(*                                                                         *)
(* One thing is particular to this parser and part of the promise: every   *)
(* declaration is also a statement of the program itself, at the place     *)
(* where it is written, however deep it is nested.                         *)
(***************************************************************************)
EXTENDS Naturals, Sequences, SequencesExt

VARIABLES
    bodies,     \* of the constructs that are open, the program first
    nodes       \* of the statements that have ended: the body of each

treeVars == <<bodies, nodes>>

TreeInit ==
    /\ bodies = << <<>> >>
    /\ nodes = <<>>

(* The statement that ends now. *)
Name == Len(nodes) + 1

(* The bodies b after one more statement in the innermost. *)
Extended(b) == [b EXCEPT ![Len(b)] = Append(@, Name)]

Statement ==
    /\ bodies' = Extended(bodies)
    /\ nodes' = Append(nodes, <<>>)

Declaration ==
    /\ bodies' = IF Len(bodies) = 1
                 THEN Extended(bodies)
                 ELSE Extended([bodies EXCEPT ![1] = Append(@, Name)])
    /\ nodes' = Append(nodes, <<>>)

Begin ==
    /\ bodies' = Append(bodies, <<>>)
    /\ UNCHANGED nodes

End ==
    /\ Len(bodies) > 1
    /\ bodies' = Extended(Front(bodies))
    /\ nodes' = Append(nodes, Last(bodies))

(* The next translation unit starts with an empty program. *)
NextUnit ==
    /\ Len(bodies) = 1
    /\ bodies' = << <<>> >>
    /\ UNCHANGED nodes

TreeNext == Statement \/ Declaration \/ Begin \/ End \/ NextUnit

TreeSpec == TreeInit /\ [][TreeNext]_treeVars
=============================================================================
