--------------------------- MODULE IncludeExpansion ---------------------------
(***************************************************************************)
(* What the preprocessor promises: a text in which directives, in any      *)
(* order, give way to the text of their file the first time it is met and  *)
(* to nothing afterwards, until none is left or one cannot be carried out. *)
(* Passes, comments, temporary files and what outlives a unit are gone.    *)
(***************************************************************************)
EXTENDS Sequences, Integers

CONSTANTS Sources, NotThere     \* texts to expand, the mark of a missing file

VARIABLES text, inserted, state, content

expansionVars == <<text, inserted, state, content>>

IsDirective(i) == i \in 1..Len(text) /\ text[i].kind = "include"

Before(i) == SubSeq(text, 1, i - 1)
After(i) == SubSeq(text, i + 1, Len(text))

ExpansionInit == text = <<>> /\ inserted = {} /\ state = "ready"

Start ==
    /\ state # "expanding"
    /\ text' \in Sources /\ inserted' = {} /\ state' = "expanding"
    /\ UNCHANGED content

Expand(i) ==
    /\ state = "expanding" /\ IsDirective(i)
    /\ text[i].file \notin inserted /\ content[text[i].file] # NotThere
    /\ text' = Before(i) \o content[text[i].file] \o After(i)
    /\ inserted' = inserted \cup {text[i].file}
    /\ UNCHANGED <<state, content>>

Drop(i) ==
    /\ state = "expanding" /\ IsDirective(i) /\ text[i].file \in inserted
    /\ text' = Before(i) \o After(i)
    /\ UNCHANGED <<inserted, state, content>>

Complete ==
    /\ state = "expanding" /\ ~\E i \in 1..Len(text) : IsDirective(i)
    /\ state' = "done" /\ UNCHANGED <<text, inserted, content>>

GiveUp ==
    /\ state = "expanding"
    /\ state' = "failed" /\ UNCHANGED <<text, inserted, content>>

(* The text cannot even be taken in.                                       *)
Refuse ==
    /\ state # "expanding"
    /\ state' = "failed" /\ UNCHANGED <<text, inserted, content>>

Step == (\E i \in 1..Len(text) : Expand(i) \/ Drop(i)) \/ Complete \/ GiveUp

ExpansionNext == Start \/ Refuse \/ Step

ExpansionSteps == ExpansionInit /\ [][ExpansionNext]_expansionVars

(* What has been started goes on until it is done or fails.                *)
ExpansionFairness == WF_expansionVars(Step)

ExpansionSpec == ExpansionSteps /\ ExpansionFairness
=============================================================================
