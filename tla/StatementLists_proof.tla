------------------------- MODULE StatementLists_proof -------------------------
(***************************************************************************)
(* The builders' lists implement the abstract tree, for programs of any    *)
(* length and depth that contain none of the exceptional forms.  What has  *)
(* to be known besides the types is that nobody else refers to a list that *)
(* is cleared or extended: ListsApart.                                     *)
(***************************************************************************)
EXTENDS StatementLists, SequenceTheorems, TLAPS

Kinds == {"program"} \cup Braced \cup PlainKinds

Lists == Seq(1 .. Len(nodes))
Constructs == [kind : Kinds, list : 0 .. Len(new), only : Lists]
Statements == [list : 0 .. Len(new), body : Lists]

(* The list of every construct that has one of its own is younger than     *)
(* those of the constructs around it; an open for is no younger than the   *)
(* list the builder remembers, older if there is a for without braces in   *)
(* it, and no other construct, and no node, has that list or an open one.  *)
OwnLists ==
    /\ \A i \in 1 .. Len(open) :
          open[i].list # 0 <=> open[i].kind \in {"for", "fresh"}
    /\ \A i, j \in 1 .. Len(open) :
          i < j /\ open[i].list # 0 /\ open[j].list # 0 => open[i].list < open[j].list
    /\ \A i \in 1 .. Len(open) : open[i].kind = "for" => open[i].list <= newest
    /\ \A i, j \in 1 .. Len(open) :
          i < j /\ open[i].kind = "for" /\ open[j].kind = "plainFor" =>
              open[i].list < newest
    /\ \A i \in 1 .. Len(open) : open[i].kind = "fresh" => open[i].list # newest

NodesApart ==
    \A n \in 1 .. Len(nodes) : nodes[n].list # 0 =>
        /\ nodes[n].list # newest
        /\ \A i \in 1 .. Len(open) : open[i].list # nodes[n].list

(* Builders with one list are in use once, the program encloses all, and   *)
(* a construct without braces with another in it has no statement yet.     *)
SharedOnce ==
    /\ \A i, j \in 1 .. Len(open) :
          i < j /\ open[i].kind = open[j].kind => open[i].kind \notin StaticKinds
    /\ \A i \in 2 .. Len(open) : open[i].kind # "program"
    /\ \A i \in 1 .. Len(open) :
          i < Len(open) /\ open[i].kind \in PlainKinds => open[i].only = <<>>

ListsApart == OwnLists /\ NodesApart /\ SharedOnce

ListsInv == ListsTypeOK /\ ListsApart

(* What the tree's variables stand for. *)
Bodies == [i \in DOMAIN open |-> Collected(open[i])]
Bars == [n \in DOMAIN nodes |-> BodyOf(nodes[n])]

-----------------------------------------------------------------------------
LEMMA TypesUnfolded ==
    ASSUME ListsTypeOK
    PROVE  /\ program.list \in Lists /\ program.known \in SUBSET (1 .. Len(nodes))
           /\ program = [list |-> program.list, known |-> program.known]
           /\ static \in [StaticKinds -> Lists]
           /\ new \in Seq(Lists) /\ Len(new) \in Nat
           /\ newest \in 1 .. Len(new)
           /\ open \in Seq(Constructs) /\ Len(open) \in Nat \ {0}
           /\ open # <<>> /\ open[1].kind = "program"
           /\ nodes \in Seq(Statements)
           /\ Len(nodes) \in Nat
           /\ \A i \in 1 .. Len(open) : open[i] \in Constructs
           /\ \A n \in 1 .. Len(nodes) :
                  nodes[n] \in Statements
           /\ DOMAIN open = 1 .. Len(open) /\ DOMAIN nodes = 1 .. Len(nodes)
           /\ DOMAIN new = 1 .. Len(new)
  <1>1. /\ program \in [list : Lists, known : SUBSET (1 .. Len(nodes))]
        /\ static \in [StaticKinds -> Lists]
        /\ new \in Seq(Lists) /\ newest \in 1 .. Len(new)
        /\ open \in Seq(Constructs) /\ open # <<>> /\ open[1].kind = "program"
        /\ nodes \in Seq(Statements)
    BY Zenon DEF ListsTypeOK, Lists, Constructs, Statements, Kinds
  <1>2. /\ program.list \in Lists /\ program.known \in SUBSET (1 .. Len(nodes))
        /\ program = [list |-> program.list, known |-> program.known]
    BY <1>1
  <1>3. /\ Len(new) \in Nat /\ DOMAIN new = 1 .. Len(new)
        /\ Len(open) \in Nat \ {0} /\ DOMAIN open = 1 .. Len(open)
        /\ \A i \in 1 .. Len(open) : open[i] \in Constructs
    BY <1>1
  <1>4. /\ Len(nodes) \in Nat /\ DOMAIN nodes = 1 .. Len(nodes)
        /\ \A n \in 1 .. Len(nodes) :
               nodes[n] \in Statements
    BY <1>1
  <1> QED BY <1>1, <1>2, <1>3, <1>4

LEMMA FrontOfOpen ==
    ASSUME NEW S, NEW s \in Seq(S), s # <<>>
    PROVE  /\ Front(s) \in Seq(S) /\ Len(Front(s)) = Len(s) - 1
           /\ \A i \in 1 .. (Len(s) - 1) : Front(s)[i] = s[i]
           /\ Last(s) = s[Len(s)] /\ Len(s) \in Nat \ {0}
  <1>1. Len(s) \in Nat \ {0} /\ \A i \in 1 .. (Len(s) - 1) : s[i] \in S
    OBVIOUS
  <1> DEFINE m == Len(s) - 1
  <1>2. 1 \in Int /\ m \in Int /\ m >= 0 /\ m - 1 + 1 = m
    BY <1>1
  <1>a. \A i \in 1 .. m : s[i] \in S
    BY <1>1
  <1> HIDE DEF m
  <1>b. /\ SubSeq(s, 1, m) \in Seq(S)
        /\ Len(SubSeq(s, 1, m)) = IF 1 <= m THEN m - 1 + 1 ELSE 0
        /\ \A i \in 1 .. m - 1 + 1 : SubSeq(s, 1, m)[i] = s[1 + i - 1]
    BY <1>2, <1>a, SubSeqProperties
  <1>3. /\ SubSeq(s, 1, m) \in Seq(S) /\ Len(SubSeq(s, 1, m)) = m
        /\ \A i \in 1 .. m : SubSeq(s, 1, m)[i] = s[i]
    BY <1>2, <1>b
  <1>4. Front(s) = SubSeq(s, 1, m)
    BY DEF Front, m
  <1>5. Len(Front(s)) = m
    BY <1>2, <1>3, <1>4
  <1>6. ASSUME NEW i \in 1 .. m PROVE Front(s)[i] = s[i]
    BY <1>2, <1>3, <1>4
  <1>7. Last(s) = s[Len(s)]
    BY DEF Last
  <1> QED BY <1>1, <1>3, <1>4, <1>5, <1>6, <1>7 DEF m

LEMMA InitEstablishes == ListsInit => ListsInv
  BY DEF ListsInit, ListsInv, ListsTypeOK, ListsApart, OwnLists, NodesApart, SharedOnce, Construct

-----------------------------------------------------------------------------
(* The constructs c that are open once a statement has been reduced, the   *)
(* lists as they are by then, and the statement's node n.                  *)
Outer(c) ==
    /\ c \in Seq(Constructs) /\ Len(c) \in 1 .. Len(open)
    /\ \A i \in 1 .. Len(c) : c[i] = open[i]

ListsKept(c, lists) ==
    /\ lists \in Seq(Lists) /\ Len(lists) = Len(new)
    /\ \A i \in 1 .. Len(c) : c[i].list # 0 => lists[c[i].list] = new[c[i].list]
    /\ \A k \in 1 .. Len(nodes) :
          nodes[k].list # 0 => lists[nodes[k].list] = new[nodes[k].list]

NodeApart(n, c) ==
    /\ n \in Statements
    /\ n.list # 0 => n.list # newest /\ \A i \in 1 .. Len(c) : c[i].list # n.list

Takes(c) == c[Len(c)].kind \in PlainKinds => c[Len(c)].only = <<>>

ReductionOK(n, c, lists) ==
    ListsInv /\ Outer(c) /\ ListsKept(c, lists) /\ NodeApart(n, c) /\ Takes(c)

(* The types after a reduction. *)
LEMMA ReducedTypes ==
    ASSUME NEW n, NEW c, NEW lists, NEW d \in BOOLEAN,
           ReductionOK(n, c, lists), Reduced(n, c, lists, d)
    PROVE  /\ ListsTypeOK'
           /\ nodes' = Append(nodes, n) /\ Len(nodes') = Len(nodes) + 1
           /\ Len(new') = Len(new) /\ Len(open') = Len(c) /\ newest' = newest
           /\ \A i \in 1 .. Len(c) :
                  open'[i].kind = c[i].kind /\ open'[i].list = c[i].list
           /\ \A i \in 1 .. Len(c) :
                  open'[i].only = IF i = Len(c) /\ c[i].kind \in PlainKinds
                                  THEN <<Len(nodes) + 1>> ELSE c[i].only
           /\ \A l \in 1 .. Len(new) :
                  new'[l] = IF l = c[Len(c)].list THEN Append(lists[l], Len(nodes) + 1)
                            ELSE lists[l]
  <1> DEFINE s == Len(nodes) + 1
             L == Len(c)
  <1>0. /\ ListsTypeOK /\ Outer(c) /\ ListsKept(c, lists) /\ n \in Statements
        /\ Last(c) = c[L]
    BY DEF ReductionOK, ListsInv, NodeApart, Last
  <1>1. /\ nodes' = Append(nodes, n) /\ newest' = newest
        /\ static' = [k \in StaticKinds |->
                        IF k = c[L].kind THEN Append(static[k], s) ELSE static[k]]
        /\ new' = [l \in DOMAIN lists |->
                     IF l = c[L].list THEN Append(lists[l], s) ELSE lists[l]]
        /\ open' = IF c[L].kind \in PlainKinds
                   THEN [c EXCEPT ![L].only = <<s>>] ELSE c
    BY <1>0, Zenon DEF Reduced
  <1>2. PICK p \in {program, Taken(program, s)} :
           program' = IF c[L].kind = "program" THEN Taken(p, s) ELSE p
    BY <1>0, Zenon DEF Reduced
  <1>3. /\ Len(nodes) \in Nat /\ Len(new) \in Nat /\ L \in Nat \ {0} /\ s \in Nat
        /\ nodes \in Seq(Statements)
        /\ \A i \in 1 .. L : c[i] \in Constructs
        /\ lists \in Seq(Lists) /\ Len(lists) = Len(new) /\ DOMAIN lists = 1 .. Len(new)
        /\ \A l \in 1 .. Len(new) : lists[l] \in Lists
    BY <1>0, TypesUnfolded DEF Outer, ListsKept
  <1>4. Len(nodes') = s /\ nodes' \in Seq(Statements)
    BY <1>0, <1>1, <1>3, AppendProperties
  <1> DEFINE Lists1 == Seq(1 .. s)
  <1>5. Lists' = Lists1
    BY <1>4 DEF Lists
  <1>6. \A q \in Lists : q \in Lists1 /\ Append(q, s) \in Lists1
    BY <1>3 DEF Lists
  <1>7. <<s>> \in Lists1
    BY <1>3
  <1>8. Taken(program, s) = [list |-> Append(program.list, s),
                             known |-> program.known \cup {s}]
    BY <1>0, <1>3, TypesUnfolded DEF Taken
  <1> HIDE DEF Lists1
  <1>9. program' \in [list : Lists1, known : SUBSET (1 .. s)]
    <2>1. /\ program.list \in Lists /\ program.known \in SUBSET (1 .. Len(nodes))
          /\ program = [list |-> program.list, known |-> program.known]
      BY <1>0, TypesUnfolded
    <2>2. program \in [list : Lists1, known : SUBSET (1 .. s)]
      BY <2>1, <1>3, <1>6
    <2>3. Taken(program, s) \in [list : Lists1, known : SUBSET (1 .. s)]
      <3>1. program.known \cup {s} \in SUBSET (1 .. s)
        BY <2>1, <1>3
      <3>2. Append(program.list, s) \in Lists1
        BY <2>1, <1>6
      <3> DEFINE li == Append(program.list, s)
                 kn == program.known \cup {s}
      <3>3. li \in Lists1 /\ kn \in SUBSET (1 .. s)
        BY <3>1, <3>2
      <3>4. Taken(program, s) = [list |-> li, known |-> kn]
        BY <1>8
      <3> HIDE DEF li, kn
      <3>5. [list |-> li, known |-> kn] \in [list : Lists1, known : SUBSET (1 .. s)]
        BY <3>3
      <3> QED BY <3>4, <3>5, Zenon
    <2>4. Taken(Taken(program, s), s) = Taken(program, s)
      BY <1>8 DEF Taken
    <2> QED BY <1>2, <2>2, <2>3, <2>4
  <1>10. static' \in [StaticKinds -> Lists1]
    BY <1>0, <1>1, <1>6, TypesUnfolded
  <1>11. /\ new' \in Seq(Lists1) /\ Len(new') = Len(new)
         /\ \A l \in 1 .. Len(new) :
               new'[l] = IF l = c[L].list THEN Append(lists[l], s) ELSE lists[l]
    <2>1. /\ DOMAIN new' = 1 .. Len(new)
          /\ \A l \in 1 .. Len(new) :
                new'[l] = IF l = c[L].list THEN Append(lists[l], s) ELSE lists[l]
      BY <1>1, <1>3
    <2>2. \A l \in 1 .. Len(new) : new'[l] \in Lists1
      BY <2>1, <1>3, <1>6
    <2>3. new' = [l \in 1 .. Len(new) |-> new'[l]]
      BY <1>1, <1>3
    <2> QED BY <2>1, <2>2, <2>3, <1>3
  <1>12. /\ open' \in Seq(Constructs') /\ Len(open') = L
         /\ \A i \in 1 .. L : open'[i].kind = c[i].kind /\ open'[i].list = c[i].list
         /\ \A i \in 1 .. L :
               open'[i].only = IF i = L /\ c[i].kind \in PlainKinds THEN <<s>>
                               ELSE c[i].only
    <2>1. Constructs' = [kind : Kinds, list : 0 .. Len(new), only : Lists1]
      BY <1>5, <1>11 DEF Constructs, Kinds
    <2>2. \A x \in Constructs : x \in Constructs'
      BY <2>1, <1>6 DEF Constructs
    <2>3. c \in Seq(Constructs')
      BY <2>2, <1>0, <1>3 DEF Outer
    <2>4. CASE c[L].kind \in PlainKinds
      <3> DEFINE x == [c[L] EXCEPT !.only = <<s>>]
      <3>1. /\ x \in Constructs' /\ x.kind = c[L].kind /\ x.list = c[L].list
            /\ x.only = <<s>>
        <4>1. c[L] \in Constructs
          BY <1>3
        <4>2. /\ c[L] = [kind |-> c[L].kind, list |-> c[L].list, only |-> c[L].only]
              /\ c[L].kind \in Kinds /\ c[L].list \in 0 .. Len(new)
          BY <4>1 DEF Constructs
        <4>3. x = [kind |-> c[L].kind, list |-> c[L].list, only |-> <<s>>]
          BY <4>2
        <4> QED BY <4>2, <4>3, <2>1, <1>7
      <3>2. open' = [c EXCEPT ![L] = x]
        BY <1>1, <2>4
      <3> HIDE DEF x
      <3>3. L \in 1 .. Len(c)
        BY <1>3
      <3>4. /\ open' \in Seq(Constructs') /\ Len(open') = Len(c)
            /\ \A i \in 1 .. Len(c) : open'[i] = IF i = L THEN x ELSE c[i]
        BY <2>3, <3>1, <3>2, <3>3, ExceptSeq
      <3> QED BY <2>4, <3>1, <3>4
    <2>5. CASE c[L].kind \notin PlainKinds
      BY <1>1, <2>3, <2>5
    <2> QED BY <2>4, <2>5
  <1>13. ListsTypeOK'
    <2>1. newest' \in 1 .. Len(new')
      BY <1>0, <1>1, <1>11, TypesUnfolded
    <2>2. open' # <<>> /\ open'[1].kind = "program"
      <3>1. 1 \in 1 .. L /\ open[1].kind = "program" /\ c[1] = open[1]
        BY <1>0, <1>3, TypesUnfolded DEF Outer
      <3>2. open'[1].kind = "program"
        BY <3>1, <1>12
      <3>3. open' # <<>>
        BY <1>3, <1>12
      <3> QED BY <3>2, <3>3
    <2>3. nodes' \in Seq([list : 0 .. Len(new'), body : Lists'])
      <3> DEFINE T == [list : 0 .. Len(new'), body : Lists']
      <3>1. \A x \in Statements : x \in [list : 0 .. Len(new'), body : Lists']
        BY <1>5, <1>6, <1>11 DEF Statements
      <3>2. Statements \subseteq T
        BY <3>1
      <3> HIDE DEF T
      <3>3. nodes' \in Seq(T)
        BY <1>4, <3>2, SeqMonotonic
      <3> QED BY <3>3 DEF T
    <2>4. open' \in Seq([kind : {"program"} \cup Braced \cup PlainKinds,
                         list : 0 .. Len(new'), only : Lists'])
      BY <1>12 DEF Constructs, Kinds
    <2>5. Lists' = Seq(1 .. Len(nodes'))
      BY DEF Lists
    <2> QED
      BY <1>4, <1>5, <1>9, <1>10, <1>11, <2>1, <2>2, <2>3, <2>4, <2>5, Zenon
      DEF ListsTypeOK
  <1> QED BY <1>1, <1>4, <1>11, <1>12, <1>13

(* A reduction keeps apart the lists and the constructs that use them. *)
LEMMA ReducedApart ==
    ASSUME NEW n, NEW c, NEW lists, NEW d \in BOOLEAN,
           ReductionOK(n, c, lists), Reduced(n, c, lists, d)
    PROVE  ListsInv'
  <1>0. /\ ListsTypeOK /\ ListsApart /\ Outer(c)
        /\ NodeApart(n, c)
    BY DEF ReductionOK, ListsInv
  <1>1. /\ ListsTypeOK'
        /\ nodes' = Append(nodes, n) /\ Len(nodes') = Len(nodes) + 1
        /\ Len(new') = Len(new) /\ Len(open') = Len(c) /\ newest' = newest
        /\ \A i \in 1 .. Len(c) :
               open'[i].kind = c[i].kind /\ open'[i].list = c[i].list
        /\ \A i \in 1 .. Len(c) :
               open'[i].only = IF i = Len(c) /\ c[i].kind \in PlainKinds
                               THEN <<Len(nodes) + 1>> ELSE c[i].only
    BY ReducedTypes
  <1>2. /\ Len(c) \in 1 .. Len(open) /\ Len(open) \in Nat
        /\ \A i \in 1 .. Len(c) :
              /\ i \in 1 .. Len(open)
              /\ open'[i].kind = open[i].kind /\ open'[i].list = open[i].list
    BY <1>0, <1>1, TypesUnfolded DEF Outer
  <1>3. OwnLists'
    BY <1>0, <1>1, <1>2 DEF ListsApart, OwnLists
  <1>4. SharedOnce'
    <2>1. \A i \in 1 .. Len(open') :
             i < Len(open') /\ open'[i].kind \in PlainKinds => open'[i].only = <<>>
      <3> SUFFICES ASSUME NEW i \in 1 .. Len(open'),
                          i < Len(open'), open'[i].kind \in PlainKinds
                   PROVE  open'[i].only = <<>>
        OBVIOUS
      <3>1. i \in 1 .. Len(c) /\ i < Len(c) /\ i < Len(open)
        BY <1>1, <1>2
      <3>2. open'[i].only = open[i].only
        BY <3>1, <1>0, <1>1 DEF Outer
      <3> QED BY <3>1, <3>2, <1>0, <1>2 DEF ListsApart, SharedOnce
    <2>2. \A i \in 2 .. Len(open') : open'[i].kind # "program"
      BY <1>0, <1>1, <1>2 DEF ListsApart, SharedOnce
    <2>3. \A i, j \in 1 .. Len(open') :
             i < j /\ open'[i].kind = open'[j].kind => open'[i].kind \notin StaticKinds
      BY <1>0, <1>1, <1>2 DEF ListsApart, SharedOnce
    <2> QED BY <2>1, <2>2, <2>3 DEF SharedOnce
  <1>5. NodesApart'
    <2> SUFFICES ASSUME NEW k \in 1 .. Len(nodes'), nodes'[k].list # 0
                 PROVE  /\ nodes'[k].list # newest'
                        /\ \A i \in 1 .. Len(open') : open'[i].list # nodes'[k].list
      BY DEF NodesApart
    <2>0. /\ nodes \in Seq(Statements) /\ n \in Statements /\ Len(nodes) \in Nat
      BY <1>0, TypesUnfolded DEF NodeApart
    <2>1. CASE k = Len(nodes) + 1
      <3>1. nodes'[k] = n
        BY <2>0, <2>1, <1>1, AppendProperties
      <3> QED BY <3>1, <1>0, <1>1 DEF NodeApart
    <2>2. CASE k \in 1 .. Len(nodes)
      <3>1. nodes'[k] = nodes[k]
        BY <2>0, <2>2, <1>1, AppendProperties
      <3> QED BY <3>1, <2>2, <1>0, <1>1, <1>2 DEF ListsApart, NodesApart
    <2> QED BY <2>0, <2>1, <2>2, <1>1
  <1> QED BY <1>1, <1>3, <1>4, <1>5 DEF ListsInv, ListsApart

(* What a reader of the tree finds after a reduction: the statement is in  *)
(* the innermost construct, a declaration in the program, too; all else is *)
(* as it was.                                                              *)
LEMMA ReducedBodies ==
    ASSUME NEW n, NEW c, NEW lists, NEW d \in BOOLEAN,
           ReductionOK(n, c, lists), Reduced(n, c, lists, d)
    PROVE  /\ \A i \in 1 .. Len(c) :
                 Collected(open[i])' = IF i = Len(c) \/ (i = 1 /\ d)
                                       THEN Append(Collected(open[i]), Len(nodes) + 1)
                                       ELSE Collected(open[i])
           /\ \A k \in 1 .. Len(nodes) : BodyOf(nodes[k])' = BodyOf(nodes[k])
           /\ \A k \in {Len(nodes) + 1} :
                 BodyOf(nodes[k])' = IF n.list = 0 THEN n.body ELSE lists[n.list]
  <1> DEFINE s == Len(nodes) + 1
             L == Len(c)
  <1>0. /\ ListsTypeOK /\ ListsApart /\ Outer(c) /\ ListsKept(c, lists)
        /\ NodeApart(n, c) /\ Takes(c) /\ Last(c) = c[L]
    BY DEF ReductionOK, ListsInv, Last
  <1>1. /\ nodes' = Append(nodes, n) /\ Len(open') = L
        /\ \A i \in 1 .. L : open'[i].kind = c[i].kind /\ open'[i].list = c[i].list
        /\ \A i \in 1 .. L :
              open'[i].only = IF i = L /\ c[i].kind \in PlainKinds
                              THEN <<s>> ELSE c[i].only
        /\ \A l \in 1 .. Len(new) :
              new'[l] = IF l = c[L].list THEN Append(lists[l], s) ELSE lists[l]
    BY ReducedTypes
  <1>2. /\ L \in 1 .. Len(open) /\ Len(open) \in Nat /\ Len(new) \in Nat
        /\ Len(nodes) \in Nat /\ nodes \in Seq(Statements)
        /\ \A i \in 1 .. L :
              /\ i \in 1 .. Len(open) /\ c[i] = open[i]
              /\ open[i].kind \in Kinds /\ open[i].list \in 0 .. Len(new)
    BY <1>0, TypesUnfolded DEF Outer, Constructs
  <1>3. static' = [k \in StaticKinds |->
                     IF k = c[L].kind THEN Append(static[k], s) ELSE static[k]]
    BY <1>0, Zenon DEF Reduced
  <1>4. program'.list = IF L = 1 \/ d THEN Append(program.list, s) ELSE program.list
    <2>1. /\ program' = IF c[L].kind = "program"
                        THEN Taken(IF d THEN Taken(program, s) ELSE program, s)
                        ELSE IF d THEN Taken(program, s) ELSE program
      BY <1>0, Zenon DEF Reduced
    <2>2. c[L].kind = "program" <=> L = 1
      <3>1. c[L] = open[L] /\ open[1].kind = "program"
        BY <1>0, <1>2, TypesUnfolded
      <3>2. \A i \in 2 .. Len(open) : open[i].kind # "program"
        BY <1>0 DEF ListsApart, SharedOnce
      <3>a. L \in 1 .. Len(open) /\ Len(open) \in Nat
        BY <1>2
      <3> HIDE DEF L
      <3>3. L = 1 \/ L \in 2 .. Len(open)
        BY <3>a
      <3> QED BY <3>1, <3>2, <3>3
    <2>3. s \notin program.known
      BY <1>0, TypesUnfolded
    <2> QED BY <2>1, <2>2, <2>3 DEF Taken
  <1>5. ASSUME NEW i \in 1 .. L
        PROVE  Collected(open[i])' = IF i = L \/ (i = 1 /\ d)
                                     THEN Append(Collected(open[i]), s)
                                     ELSE Collected(open[i])
    <2>0. /\ c[i] = open[i] /\ open'[i].kind = open[i].kind
          /\ open'[i].list = open[i].list
          /\ open[i].kind \in Kinds /\ i \in 1 .. Len(open)
      BY <1>1, <1>2
    <2>1. CASE open[i].kind = "program"
      <3>1. i = 1
        BY <2>0, <2>1, <1>0 DEF ListsApart, SharedOnce
      <3>2. Collected(open[i]) = program.list /\ Collected(open[i])' = program'.list
        <4>1. open[i].kind \notin StaticKinds /\ open[i].kind \notin PlainKinds
          BY <2>1, ListsAssumption DEF PlainKinds
        <4> QED BY <4>1, <2>0, <2>1, Zenon DEF Collected
      <3> QED BY <3>1, <3>2, <1>2, <1>4
    <2>a. open[i].kind # "program" => i # 1
      BY <1>0, TypesUnfolded
    <2>2. CASE open[i].kind \in StaticKinds
      <3>1. open[i].kind # "program" /\ open[i].kind \notin PlainKinds
        BY <2>2, ListsAssumption
      <3>2. /\ Collected(open[i]) = static[open[i].kind]
            /\ Collected(open[i])' = static'[open[i].kind]
        BY <2>0, <2>2, <3>1, Zenon DEF Collected
      <3>3. open[i].kind = c[L].kind <=> i = L
        BY <2>0, <2>2, <1>0, <1>2 DEF ListsApart, SharedOnce
      <3> QED BY <2>2, <2>a, <3>1, <3>2, <3>3, <1>3
    <2>3. CASE open[i].kind \in PlainKinds
      <3>1. open[i].kind # "program" /\ open[i].kind \notin StaticKinds
        BY <2>3, ListsAssumption DEF PlainKinds
      <3>2. /\ Collected(open[i]) = open[i].only
            /\ Collected(open[i])' = open'[i].only
        BY <2>0, <2>3, <3>1, Zenon DEF Collected
      <3>3. i = L => open[i].only = <<>> /\ open'[i].only = <<s>>
        BY <2>0, <2>3, <1>0, <1>1 DEF Takes
      <3>4. i # L => open'[i].only = open[i].only
        BY <2>0, <1>1
      <3>5. i # L => i # 1
        BY <2>a, <3>1
      <3>6. Append(<<>>, s) = <<s>>
        BY <1>2
      <3> QED BY <2>a, <3>1, <3>2, <3>3, <3>4, <3>6
    <2>4. CASE open[i].kind \in {"for", "fresh"}
      <3>1. /\ open[i].kind # "program" /\ open[i].kind \notin StaticKinds
            /\ open[i].kind \notin PlainKinds
        BY <2>4, ListsAssumption DEF PlainKinds
      <3>2. /\ Collected(open[i]) = new[open[i].list]
            /\ Collected(open[i])' = new'[open[i].list]
        BY <2>0, <2>4, <3>1, Zenon DEF Collected
      <3>3. open[i].list \in 1 .. Len(new) /\ lists[open[i].list] = new[open[i].list]
        BY <2>0, <2>4, <1>0, <1>2 DEF ListsApart, OwnLists, ListsKept
      <3>4. open[i].list = c[L].list <=> i = L
        BY <2>0, <3>3, <1>0, <1>2 DEF ListsApart, OwnLists
      <3> QED BY <2>a, <3>1, <3>2, <3>3, <3>4, <1>1
    <2> QED BY <2>0, <2>1, <2>2, <2>3, <2>4 DEF Kinds, Braced
  <1>6. ASSUME NEW k \in 1 .. Len(nodes) PROVE BodyOf(nodes[k])' = BodyOf(nodes[k])
    <2>1. nodes'[k] = nodes[k] /\ nodes[k] \in Statements
      BY <1>0, <1>1, <1>2, AppendProperties DEF NodeApart
    <2>2. CASE nodes[k].list = 0
      BY <2>1, <2>2 DEF BodyOf
    <2>3. CASE nodes[k].list # 0
      <3>1. nodes[k].list \in 1 .. Len(new) /\ nodes[k].list # c[L].list
        BY <2>1, <2>3, <1>0, <1>2 DEF Statements, ListsApart, NodesApart
      <3>2. new'[nodes[k].list] = new[nodes[k].list]
        BY <3>1, <2>3, <1>0, <1>1 DEF ListsKept
      <3> QED BY <2>1, <2>3, <3>2 DEF BodyOf
    <2> QED BY <2>2, <2>3
  <1>7. ASSUME NEW k \in {s}
        PROVE  BodyOf(nodes[k])' = IF n.list = 0 THEN n.body ELSE lists[n.list]
    <2>1. nodes'[k] = n /\ n \in Statements
      BY <1>0, <1>1, <1>2, AppendProperties DEF NodeApart
    <2>2. ASSUME n.list # 0 PROVE new'[n.list] = lists[n.list]
      <3>1. n.list \in 1 .. Len(new) /\ n.list # c[L].list
        BY <2>1, <2>2, <1>0, <1>2 DEF Statements, NodeApart
      <3> QED BY <3>1, <1>1
    <2>3. BodyOf(nodes[k])' = IF nodes'[k].list = 0 THEN nodes'[k].body
                              ELSE new'[nodes'[k].list]
      BY Zenon DEF BodyOf
    <2> QED BY <2>1, <2>2, <2>3
  <1> QED BY <1>5, <1>6, <1>7

-----------------------------------------------------------------------------
(* Sequences given by their elements. *)
LEMMA BodiesAreSequences ==
    ASSUME ListsTypeOK
    PROVE  /\ \E S : Bodies \in Seq(S)
           /\ \E S : Bars \in Seq(S)
           /\ Len(Bodies) = Len(open) /\ DOMAIN Bodies = 1 .. Len(open)
           /\ Len(Bars) = Len(nodes) /\ DOMAIN Bars = 1 .. Len(nodes)
           /\ \A i \in 1 .. Len(open) : Bodies[i] = Collected(open[i])
           /\ \A k \in 1 .. Len(nodes) : Bars[k] = BodyOf(nodes[k])
  <1>1. /\ DOMAIN open = 1 .. Len(open) /\ Len(open) \in Nat
        /\ DOMAIN nodes = 1 .. Len(nodes) /\ Len(nodes) \in Nat
    BY TypesUnfolded
  <1>2. /\ Bodies \in Seq({Collected(open[i]) : i \in 1 .. Len(open)})
        /\ Len(Bodies) = Len(open) /\ DOMAIN Bodies = 1 .. Len(open)
        /\ \A i \in 1 .. Len(open) : Bodies[i] = Collected(open[i])
    BY <1>1 DEF Bodies
  <1>3. /\ Bars \in Seq({BodyOf(nodes[k]) : k \in 1 .. Len(nodes)})
        /\ Len(Bars) = Len(nodes) /\ DOMAIN Bars = 1 .. Len(nodes)
        /\ \A k \in 1 .. Len(nodes) : Bars[k] = BodyOf(nodes[k])
    BY <1>1 DEF Bars
  <1> QED BY <1>2, <1>3

(* The same of the next state. *)
LEMMA NextBodiesAreSequences ==
    ASSUME ListsTypeOK'
    PROVE  /\ \E S : Bodies' \in Seq(S)
           /\ \E S : Bars' \in Seq(S)
           /\ Len(Bodies') = Len(open') /\ DOMAIN Bodies' = 1 .. Len(open')
           /\ Len(Bars') = Len(nodes') /\ DOMAIN Bars' = 1 .. Len(nodes')
           /\ \A i \in 1 .. Len(open') : Bodies'[i] = Collected(open[i])'
           /\ \A k \in 1 .. Len(nodes') : Bars'[k] = BodyOf(nodes[k])'
  <1>1. open' \in Seq(Constructs') /\ nodes' \in Seq(Statements')
    BY Zenon DEF ListsTypeOK, Lists, Constructs, Statements, Kinds
  <1>2. /\ DOMAIN open' = 1 .. Len(open') /\ Len(open') \in Nat
        /\ DOMAIN nodes' = 1 .. Len(nodes') /\ Len(nodes') \in Nat
    BY <1>1
  <1>3. Bodies' = [i \in 1 .. Len(open') |-> Collected(open[i])']
    BY <1>2, Zenon DEF Bodies
  <1>4. Bars' = [k \in 1 .. Len(nodes') |-> BodyOf(nodes[k])']
    BY <1>2, Zenon DEF Bars
  <1>5. /\ Bodies' \in Seq({Collected(open[i])' : i \in 1 .. Len(open')})
        /\ Len(Bodies') = Len(open') /\ DOMAIN Bodies' = 1 .. Len(open')
        /\ \A i \in 1 .. Len(open') : Bodies'[i] = Collected(open[i])'
    BY <1>2, <1>3
  <1>6. /\ Bars' \in Seq({BodyOf(nodes[k])' : k \in 1 .. Len(nodes')})
        /\ Len(Bars') = Len(nodes') /\ DOMAIN Bars' = 1 .. Len(nodes')
        /\ \A k \in 1 .. Len(nodes') : Bars'[k] = BodyOf(nodes[k])'
    BY <1>2, <1>4
  <1> QED BY <1>5, <1>6

LEMMA AppendByElements ==
    ASSUME NEW S, NEW s \in Seq(S), NEW T, NEW t \in Seq(T), NEW x,
           Len(t) = Len(s) + 1, t[Len(s) + 1] = x,
           \A i \in 1 .. Len(s) : t[i] = s[i]
    PROVE  t = Append(s, x)
  <1> DEFINE U == S \cup T \cup {x}
  <1>1. s \in Seq(U) /\ t \in Seq(U) /\ x \in U
    BY SeqMonotonic, Zenon
  <1> HIDE DEF U
  <1>2. /\ Append(s, x) \in Seq(U) /\ Len(Append(s, x)) = Len(s) + 1
        /\ \A i \in 1 .. Len(s) : Append(s, x)[i] = s[i]
        /\ Append(s, x)[Len(s) + 1] = x
    BY <1>1, AppendProperties
  <1>3. Len(s) \in Nat
    OBVIOUS
  <1>4. \A i \in 1 .. Len(t) : t[i] = Append(s, x)[i]
    BY <1>2, <1>3
  <1> QED BY <1>1, <1>2, <1>4, SeqEqual

(* A reduction, as it is seen in the tree. *)
LEMMA ReducedTree ==
    ASSUME NEW n, NEW c, NEW lists, NEW d \in BOOLEAN,
           ReductionOK(n, c, lists), Reduced(n, c, lists, d)
    PROVE  /\ Len(Bodies') = Len(c) /\ DOMAIN Bodies' = 1 .. Len(c)
           /\ \A i \in 1 .. Len(c) :
                 Bodies'[i] = IF i = Len(c) \/ (i = 1 /\ d)
                              THEN Append(Bodies[i], Len(Bars) + 1) ELSE Bodies[i]
           /\ Bars' = Append(Bars, IF n.list = 0 THEN n.body ELSE lists[n.list])
  <1>1. ListsTypeOK /\ Outer(c) /\ Len(c) \in 1 .. Len(open) /\ Len(open) \in Nat
    BY TypesUnfolded DEF ReductionOK, ListsInv, Outer
  <1>2. /\ ListsTypeOK' /\ Len(nodes') = Len(nodes) + 1 /\ Len(open') = Len(c)
    BY ReducedTypes
  <1>3. /\ Len(Bodies') = Len(c) /\ DOMAIN Bodies' = 1 .. Len(c)
        /\ \A i \in 1 .. Len(c) : Bodies'[i] = Collected(open[i])'
        /\ Len(Bars') = Len(nodes) + 1
        /\ \A k \in 1 .. (Len(nodes) + 1) : Bars'[k] = BodyOf(nodes[k])'
        /\ \E S : Bars' \in Seq(S)
    BY <1>2, NextBodiesAreSequences
  <1>4. /\ \A i \in 1 .. Len(open) : Bodies[i] = Collected(open[i])
        /\ \A k \in 1 .. Len(nodes) : Bars[k] = BodyOf(nodes[k])
        /\ Len(Bars) = Len(nodes) /\ Len(nodes) \in Nat
        /\ \E S : Bars \in Seq(S)
    BY <1>1, BodiesAreSequences, TypesUnfolded
  <1>5. /\ \A i \in 1 .. Len(c) :
              Collected(open[i])' = IF i = Len(c) \/ (i = 1 /\ d)
                                    THEN Append(Collected(open[i]), Len(nodes) + 1)
                                    ELSE Collected(open[i])
        /\ \A k \in 1 .. Len(nodes) : BodyOf(nodes[k])' = BodyOf(nodes[k])
        /\ \A k \in {Len(nodes) + 1} :
              BodyOf(nodes[k])' = IF n.list = 0 THEN n.body ELSE lists[n.list]
    BY ReducedBodies
  <1>6. Bars' = Append(Bars, IF n.list = 0 THEN n.body ELSE lists[n.list])
    <2> DEFINE x == IF n.list = 0 THEN n.body ELSE lists[n.list]
    <2>1. Bars'[Len(Bars) + 1] = x
      <3>1. PICK k : k \in {Len(nodes) + 1}
        OBVIOUS
      <3>2. BodyOf(nodes[k])' = x
        BY <3>1, <1>5, Zenon
      <3>3. k = Len(nodes) + 1 /\ k \in 1 .. (Len(nodes) + 1)
        BY <3>1, <1>4
      <3>4. Bars'[k] = BodyOf(nodes[k])'
        BY <3>3, <1>3
      <3> QED BY <3>2, <3>3, <3>4, <1>4
    <2>2. ASSUME NEW k \in 1 .. Len(Bars) PROVE Bars'[k] = Bars[k]
      <3>1. Bars'[k] = BodyOf(nodes[k])'
        BY <1>3, <1>4
      <3>2. BodyOf(nodes[k])' = BodyOf(nodes[k]) /\ BodyOf(nodes[k]) = Bars[k]
        BY <1>4, <1>5
      <3> QED BY <3>1, <3>2
    <2>3. PICK S : Bars \in Seq(S)
      BY <1>4
    <2>4. PICK T : Bars' \in Seq(T)
      BY <1>3
    <2> HIDE DEF x
    <2>5. Bars' = Append(Bars, x)
      BY <2>1, <2>2, <2>3, <2>4, <1>3, <1>4, AppendByElements
    <2> QED BY <2>5 DEF x
  <1>7. ASSUME NEW i \in 1 .. Len(c)
        PROVE  Bodies'[i] = IF i = Len(c) \/ (i = 1 /\ d)
                            THEN Append(Bodies[i], Len(Bars) + 1) ELSE Bodies[i]
    <2>1. i \in 1 .. Len(open)
      BY <1>1
    <2> QED BY <2>1, <1>3, <1>4, <1>5
  <1> QED BY <1>3, <1>6, <1>7

-----------------------------------------------------------------------------
(* The actions that reduce: a statement, a declaration, the end of each    *)
(* construct.                                                              *)
LEMMA OpenIsOuter ==
    ASSUME ListsTypeOK
    PROVE  /\ Outer(open) /\ Len(open) \in Nat
           /\ Len(open) > 1 => /\ Outer(Front(open))
                               /\ Len(Front(open)) = Len(open) - 1
           /\ Inner = open[Len(open)]
  <1>1. /\ open \in Seq(Constructs) /\ open # <<>> /\ Len(open) \in Nat \ {0}
    BY TypesUnfolded
  <1>2. /\ Front(open) \in Seq(Constructs) /\ Len(Front(open)) = Len(open) - 1
        /\ \A i \in 1 .. (Len(open) - 1) : Front(open)[i] = open[i]
        /\ Last(open) = open[Len(open)]
    BY <1>1, FrontOfOpen
  <1>3. Outer(open)
    BY <1>1 DEF Outer
  <1>4. Len(open) > 1 => Outer(Front(open))
    BY <1>1, <1>2 DEF Outer
  <1> QED BY <1>1, <1>2, <1>3, <1>4 DEF Inner

LEMMA TreeMeaning ==
    /\ Tree!TreeInit <=> Bodies = << <<>> >> /\ Bars = <<>>
    /\ Tree!Statement <=>
          /\ Bodies' = [Bodies EXCEPT ![Len(Bodies)] = Append(@, Len(Bars) + 1)]
          /\ Bars' = Append(Bars, <<>>)
    /\ Tree!Declaration <=>
          /\ Bodies' = IF Len(Bodies) = 1
                       THEN [Bodies EXCEPT ![Len(Bodies)] = Append(@, Len(Bars) + 1)]
                       ELSE Tree!Extended([Bodies EXCEPT ![1] =
                                              Append(@, Len(Bars) + 1)])
          /\ Bars' = Append(Bars, <<>>)
    /\ \A b : Tree!Extended(b) = [b EXCEPT ![Len(b)] = Append(@, Len(Bars) + 1)]
    /\ Tree!Begin <=> Bodies' = Append(Bodies, <<>>) /\ Bars' = Bars
    /\ Tree!End <=>
          /\ Len(Bodies) > 1
          /\ Bodies' = Tree!Extended(Front(Bodies))
          /\ Bars' = Append(Bars, Last(Bodies))
    /\ Tree!NextUnit <=>
          Len(Bodies) = 1 /\ Bodies' = << <<>> >> /\ Bars' = Bars
    /\ UNCHANGED Tree!treeVars <=> Bodies' = Bodies /\ Bars' = Bars
  <1>1. Tree!TreeInit <=> Bodies = << <<>> >> /\ Bars = <<>>
    BY Zenon DEF Tree!TreeInit, Bodies, Bars
  <1>2. Tree!Statement <=>
          /\ Bodies' = [Bodies EXCEPT ![Len(Bodies)] = Append(@, Len(Bars) + 1)]
          /\ Bars' = Append(Bars, <<>>)
    BY Zenon DEF Tree!Statement, Tree!Extended, Tree!Name, Bodies, Bars
  <1>3. Tree!Declaration <=>
          /\ Bodies' = IF Len(Bodies) = 1
                       THEN [Bodies EXCEPT ![Len(Bodies)] = Append(@, Len(Bars) + 1)]
                       ELSE Tree!Extended([Bodies EXCEPT ![1] =
                                              Append(@, Len(Bars) + 1)])
          /\ Bars' = Append(Bars, <<>>)
    BY Zenon DEF Tree!Declaration, Tree!Extended, Tree!Name, Bodies, Bars
  <1>4. \A b : Tree!Extended(b) = [b EXCEPT ![Len(b)] = Append(@, Len(Bars) + 1)]
    BY Zenon DEF Tree!Extended, Tree!Name, Bars
  <1>5. Tree!Begin <=> Bodies' = Append(Bodies, <<>>) /\ Bars' = Bars
    BY Zenon DEF Tree!Begin, Bodies, Bars
  <1>6. Tree!End <=>
          /\ Len(Bodies) > 1
          /\ Bodies' = Tree!Extended(Front(Bodies))
          /\ Bars' = Append(Bars, Last(Bodies))
    BY Zenon DEF Tree!End, Tree!Front, Tree!Last, Front, Last, Bodies, Bars
  <1>7. Tree!NextUnit <=>
          Len(Bodies) = 1 /\ Bodies' = << <<>> >> /\ Bars' = Bars
    BY Zenon DEF Tree!NextUnit, Bodies, Bars
  <1>8. UNCHANGED Tree!treeVars <=> Bodies' = Bodies /\ Bars' = Bars
    BY Zenon DEF Tree!treeVars, Bodies, Bars
  <1> QED BY <1>1, <1>2, <1>3, <1>4, <1>5, <1>6, <1>7, <1>8, Zenon

LEMMA SimpleReductions ==
    ASSUME ListsInv, NEW d \in BOOLEAN, MayBegin,
           Reduced(Copy(<<>>), open, new, d)
    PROVE  /\ ReductionOK(Copy(<<>>), open, new)
           /\ IF d THEN Tree!Declaration ELSE Tree!Statement
  <1>0. ListsTypeOK
    BY DEF ListsInv
  <1>1. ReductionOK(Copy(<<>>), open, new)
    <2>1. NodeApart(Copy(<<>>), open)
      BY <1>0, TypesUnfolded DEF NodeApart, Copy, Statements, Lists
    <2>2. ListsKept(open, new)
      BY <1>0, TypesUnfolded DEF ListsKept
    <2>3. Takes(open)
      BY <1>0, OpenIsOuter DEF Takes, MayBegin
    <2> QED BY <1>0, <2>1, <2>2, <2>3, OpenIsOuter DEF ReductionOK
  <1>2. /\ Len(Bodies') = Len(open) /\ DOMAIN Bodies' = 1 .. Len(open)
        /\ \A i \in 1 .. Len(open) :
              Bodies'[i] = IF i = Len(open) \/ (i = 1 /\ d)
                           THEN Append(Bodies[i], Len(Bars) + 1) ELSE Bodies[i]
        /\ Bars' = Append(Bars, <<>>)
    BY <1>1, ReducedTree DEF Copy
  <1>3. /\ Len(Bodies) = Len(open) /\ DOMAIN Bodies = 1 .. Len(open)
        /\ \E S : Bodies \in Seq(S) /\ Len(open) \in Nat \ {0}
    BY <1>0, BodiesAreSequences, TypesUnfolded
  <1> DEFINE more == Len(Bars) + 1
             one == [Bodies EXCEPT ![Len(Bodies)] = Append(@, more)]
             first == [Bodies EXCEPT ![1] = Append(@, more)]
             both == [first EXCEPT ![Len(first)] = Append(@, more)]
  <1>4. CASE ~d \/ Len(open) = 1
    <2>1. Bodies' = one
      <3>1. DOMAIN one = 1 .. Len(open)
        BY <1>3
      <3>2. \A i \in 1 .. Len(open) : one[i] = Bodies'[i]
        BY <1>2, <1>3, <1>4
      <3>3. /\ Bodies' = [i \in DOMAIN Bodies' |-> Bodies'[i]]
            /\ one = [i \in DOMAIN one |-> one[i]]
        BY Zenon DEF Bodies
      <3> QED BY <1>2, <3>1, <3>2, <3>3
    <2> QED BY <2>1, <1>1, <1>2, <1>3, <1>4, TreeMeaning
  <1>5. CASE d /\ Len(open) # 1
    <2>0. Len(open) > 1 /\ 1 \in 1 .. Len(open) /\ Len(open) \in 1 .. Len(open)
      BY <1>3, <1>5
    <2>1. /\ Len(first) = Len(open) /\ DOMAIN first = 1 .. Len(open)
          /\ \A i \in 1 .. Len(open) :
                first[i] = IF i = 1 THEN Append(Bodies[i], more) ELSE Bodies[i]
      BY <1>3, <2>0
    <2> HIDE DEF first
    <2>2. /\ DOMAIN both = 1 .. Len(open)
          /\ \A i \in 1 .. Len(open) :
                both[i] = IF i = Len(open) THEN Append(first[i], more) ELSE first[i]
      BY <2>1
    <2>3. \A i \in 1 .. Len(open) : both[i] = Bodies'[i]
      BY <1>2, <1>5, <2>0, <2>1, <2>2
    <2>4. Bodies' = both
      <3>1. /\ Bodies' = [i \in DOMAIN Bodies' |-> Bodies'[i]]
            /\ both = [i \in DOMAIN both |-> both[i]]
        BY Zenon DEF Bodies
      <3> QED BY <1>2, <2>2, <2>3, <3>1
    <2>5. both = Tree!Extended(first)
      BY TreeMeaning, Zenon
    <2>6. Bodies' = IF Len(Bodies) = 1 THEN one ELSE Tree!Extended(first)
      BY <2>4, <2>5, <1>3, <1>5
    <2> QED BY <2>6, <1>1, <1>2, <1>5, TreeMeaning, Zenon DEF first
  <1> QED BY <1>4, <1>5

LEMMA EndReduction ==
    ASSUME ListsInv, Len(open) > 1, NEW n \in Statements, NEW lists,
           ListsKept(Front(open), lists),
           n.list # 0 => /\ n.list # newest
                         /\ \A i \in 1 .. Len(Front(open)) :
                               Front(open)[i].list # n.list,
           (IF n.list = 0 THEN n.body ELSE lists[n.list]) = Collected(Inner),
           Reduced(n, Front(open), lists, FALSE)
    PROVE  ListsInv' /\ Tree!End
  <1> DEFINE c == Front(open)
  <1>0. ListsTypeOK /\ SharedOnce
    BY DEF ListsInv, ListsApart
  <1>1. /\ Outer(c) /\ Len(c) = Len(open) - 1 /\ Len(open) \in Nat
        /\ Inner = open[Len(open)]
    BY <1>0, OpenIsOuter
  <1>2. ReductionOK(n, c, lists)
    <2>1. Takes(c)
      <3>1. c[Len(c)] = open[Len(c)] /\ Len(c) \in 1 .. Len(open) /\ Len(c) < Len(open)
        BY <1>1 DEF Outer
      <3> QED BY <3>1, <1>0 DEF Takes, SharedOnce
    <2> QED BY <2>1, <1>1 DEF ReductionOK, NodeApart
  <1>3. ListsInv'
    BY <1>2, ReducedApart
  <1> DEFINE more == Len(Bars) + 1
             f == Front(Bodies)
             grown == [f EXCEPT ![Len(f)] = Append(@, more)]
  <1>4. /\ Len(Bodies') = Len(c) /\ DOMAIN Bodies' = 1 .. Len(c)
        /\ \A i \in 1 .. Len(c) :
              Bodies'[i] = IF i = Len(c) THEN Append(Bodies[i], more) ELSE Bodies[i]
        /\ Bars' = Append(Bars, Collected(Inner))
    <2>1. FALSE \in BOOLEAN /\ ReductionOK(n, c, lists) /\ Reduced(n, c, lists, FALSE)
      BY <1>2
    <2> HIDE DEF c, more
    <2>2. /\ Len(Bodies') = Len(c) /\ DOMAIN Bodies' = 1 .. Len(c)
          /\ \A i \in 1 .. Len(c) :
                Bodies'[i] = IF i = Len(c) \/ (i = 1 /\ FALSE)
                             THEN Append(Bodies[i], Len(Bars) + 1) ELSE Bodies[i]
          /\ Bars' = Append(Bars, IF n.list = 0 THEN n.body ELSE lists[n.list])
      BY <2>1, ReducedTree, Zenon
    <2> QED BY <2>2, Zenon DEF more
  <1>5. /\ Len(Bodies) = Len(open) /\ \E S : Bodies \in Seq(S)
        /\ \A i \in 1 .. Len(open) : Bodies[i] = Collected(open[i])
    BY <1>0, BodiesAreSequences
  <1>6. /\ \E S : f \in Seq(S)
        /\ Len(f) = Len(c) /\ Last(Bodies) = Collected(Inner)
        /\ \A i \in 1 .. Len(c) : f[i] = Bodies[i]
    <2>1. PICK S : Bodies \in Seq(S)
      BY <1>5
    <2>2. Bodies # <<>>
      BY <1>5, <1>1
    <2>3. /\ f \in Seq(S) /\ Len(f) = Len(Bodies) - 1
          /\ \A i \in 1 .. (Len(Bodies) - 1) : f[i] = Bodies[i]
          /\ Last(Bodies) = Bodies[Len(Bodies)]
      BY <2>1, <2>2, FrontOfOpen
    <2> QED BY <2>3, <1>1, <1>5
  <1> HIDE DEF f
  <1>7. Bodies' = grown
    <2>1. DOMAIN f = 1 .. Len(c) /\ Len(c) \in 1 .. Len(c)
      BY <1>1, <1>6
    <2>2. /\ DOMAIN grown = 1 .. Len(c)
          /\ \A i \in 1 .. Len(c) :
                grown[i] = IF i = Len(c) THEN Append(f[i], more) ELSE f[i]
      BY <2>1, <1>6
    <2>3. /\ Bodies' = [i \in DOMAIN Bodies' |-> Bodies'[i]]
          /\ grown = [i \in DOMAIN grown |-> grown[i]]
      BY Zenon DEF Bodies
    <2>4. \A i \in 1 .. Len(c) : grown[i] = Bodies'[i]
      BY <2>2, <1>4, <1>6
    <2> QED BY <2>2, <2>3, <2>4, <1>4
  <1>8. Bodies' = Tree!Extended(f)
    BY <1>7, TreeMeaning, Zenon
  <1>9. Len(Bodies) > 1 /\ Bars' = Append(Bars, Last(Bodies))
    BY <1>4, <1>5, <1>6
  <1> QED BY <1>3, <1>8, <1>9, TreeMeaning, Zenon DEF f

(* The lists of the constructs around the innermost, and of the nodes, are *)
(* not the one a for clears.                                               *)
LEMMA ClearedKept ==
    ASSUME ListsInv, Len(open) > 1, Inner.kind \in {"for", "plainFor"}
    PROVE  ListsKept(Front(open), ForCleared)
  <1> DEFINE c == Front(open)
             m == Len(open)
  <1>0. ListsTypeOK /\ OwnLists /\ NodesApart
    BY DEF ListsInv, ListsApart
  <1>1. /\ Outer(c) /\ Len(c) = m - 1 /\ m \in Nat /\ Inner = open[m]
        /\ new \in Seq(Lists) /\ newest \in 1 .. Len(new)
        /\ nodes \in Seq(Statements) /\ Len(nodes) \in Nat
        /\ \A i \in 1 .. m : open[i] \in Constructs
        /\ \A k \in 1 .. Len(nodes) : nodes[k] \in Statements
    BY <1>0, OpenIsOuter, TypesUnfolded
  <1>2. /\ ForCleared \in Seq(Lists) /\ Len(ForCleared) = Len(new)
        /\ \A l \in 1 .. Len(new) : l # newest => ForCleared[l] = new[l]
    <2>1. <<>> \in Lists
      BY DEF Lists
    <2> QED BY <2>1, <1>1, ExceptSeq DEF ForCleared
  <1>3. ASSUME NEW i \in 1 .. Len(c), c[i].list # 0
        PROVE  ForCleared[c[i].list] = new[c[i].list]
    <2>1. /\ i \in 1 .. m /\ i < m /\ c[i] = open[i] /\ m \in 1 .. m
          /\ open[i].list \in 1 .. Len(new)
      <3>1. /\ \A j \in 1 .. Len(c) : c[j] = open[j]
            /\ \A x \in Constructs : x.list \in 0 .. Len(new)
        BY <1>1 DEF Outer, Constructs
      <3>2. Len(c) = m - 1 /\ m \in Nat /\ i \in 1 .. Len(c)
        BY <1>1
      <3> HIDE DEF c, m
      <3>3. i \in 1 .. m /\ i < m /\ m \in 1 .. m
        BY <3>2
      <3> QED BY <3>1, <3>3, <1>1, <1>3
    <2>2. CASE open[i].kind = "fresh"
      BY <2>1, <2>2, <1>0, <1>2 DEF OwnLists
    <2>3. CASE open[i].kind = "for"
      <3>1. open[i].list < newest
        <4>1. CASE open[m].kind = "plainFor"
          BY <4>1, <2>1, <2>3, <1>0 DEF OwnLists
        <4>2. CASE open[m].kind = "for"
          <5>1. open[m].list # 0 /\ open[m].list <= newest
            BY <4>2, <2>1, <1>0 DEF OwnLists
          <5>2. open[i].list < open[m].list
            BY <5>1, <2>1, <1>0, <1>3 DEF OwnLists
          <5>3. open[m].list \in Nat /\ newest \in Nat
            BY <2>1, <1>1 DEF Constructs
          <5> QED BY <5>1, <5>2, <5>3, <2>1
        <4> QED BY <4>1, <4>2, <1>1
      <3> QED BY <3>1, <2>1, <1>1, <1>2
    <2> QED BY <2>1, <2>2, <2>3, <1>0, <1>3 DEF OwnLists
  <1>4. ASSUME NEW k \in 1 .. Len(nodes), nodes[k].list # 0
        PROVE  ForCleared[nodes[k].list] = new[nodes[k].list]
    BY <1>0, <1>1, <1>2, <1>4 DEF NodesApart, Statements
  <1> QED BY <1>2, <1>3, <1>4 DEF ListsKept

(* What is known of the innermost construct when it ends. *)
LEMMA InnerEnds ==
    ASSUME ListsInv, Inner.kind \in Braced \cup PlainKinds
    PROVE  /\ Len(open) > 1 /\ Inner = open[Len(open)]
           /\ Len(open) \in 1 .. Len(open)
           /\ Inner \in Constructs /\ Collected(Inner) \in Lists
           /\ Outer(Front(open)) /\ Len(Front(open)) = Len(open) - 1
           /\ ListsKept(Front(open), new)
  <1>0. ListsTypeOK /\ SharedOnce /\ OwnLists
    BY DEF ListsInv, ListsApart
  <1>1. /\ Inner = open[Len(open)] /\ Len(open) \in Nat \ {0}
        /\ open[1].kind = "program" /\ \A i \in 1 .. Len(open) : open[i] \in Constructs
        /\ static \in [StaticKinds -> Lists] /\ new \in Seq(Lists)
        /\ program.list \in Lists
    BY <1>0, OpenIsOuter, TypesUnfolded
  <1>2. "program" \notin Braced \cup PlainKinds
    BY ListsAssumption DEF Braced, PlainKinds
  <1>3. Len(open) > 1 /\ Inner \in Constructs
    BY <1>1, <1>2
  <1>4. Outer(Front(open)) /\ Len(Front(open)) = Len(open) - 1
    BY <1>0, <1>3, OpenIsOuter
  <1>5. ListsKept(Front(open), new)
    BY <1>1 DEF ListsKept
  <1>6. Collected(Inner) \in Lists
    <2>1. CASE Inner.kind \in StaticKinds
      <3>1. Collected(Inner) = static[Inner.kind]
        <4>1. Inner.kind # "program" /\ Inner.kind \notin PlainKinds
          BY <2>1, ListsAssumption
        <4> QED BY <4>1, <2>1, Zenon DEF Collected
      <3> QED BY <3>1, <2>1, <1>1
    <2>2. CASE Inner.kind \in PlainKinds
      <3>1. Collected(Inner) = Inner.only
        <4>1. Inner.kind # "program" /\ Inner.kind \notin StaticKinds
          BY <2>2, ListsAssumption DEF PlainKinds
        <4> QED BY <4>1, <2>2, Zenon DEF Collected
      <3> QED BY <3>1, <1>3 DEF Constructs
    <2>3. CASE Inner.kind \in {"for", "fresh"}
      <3>1. Collected(Inner) = new[Inner.list]
        <4>1. /\ Inner.kind # "program" /\ Inner.kind \notin StaticKinds
              /\ Inner.kind \notin PlainKinds
          BY <2>3, ListsAssumption DEF PlainKinds
        <4> QED BY <4>1, Zenon DEF Collected
      <3>2. Inner.list \in 1 .. Len(new)
        BY <2>3, <1>0, <1>1, <1>3 DEF OwnLists, Constructs
      <3> QED BY <3>1, <3>2, <1>1
    <2> QED BY <2>1, <2>2, <2>3 DEF Braced
  <1> QED BY <1>1, <1>3, <1>4, <1>5, <1>6

LEMMA CopyIsStatement ==
    ASSUME ListsTypeOK, NEW b \in Lists
    PROVE  Copy(b) \in Statements /\ Copy(b).list = 0 /\ Copy(b).body = b
  BY TypesUnfolded DEF Copy, Statements

LEMMA Ends ==
    ASSUME ListsInv, Forms = {},
           EndStatic \/ EndFor \/ EndFresh \/ EndPlainFor \/ EndPlainIf
    PROVE  ListsInv' /\ Tree!End
  <1>0. ListsTypeOK /\ ListsApart
    BY DEF ListsInv
  <1>1. Inner.kind \in Braced \cup PlainKinds
    BY DEF EndStatic, EndFor, EndFresh, EndPlainFor, EndPlainIf, Braced, PlainKinds
  <1>2. /\ Len(open) > 1 /\ Inner \in Constructs /\ Collected(Inner) \in Lists
        /\ ListsKept(Front(open), new)
        /\ Copy(Collected(Inner)) \in Statements
        /\ Copy(Collected(Inner)).list = 0
        /\ Copy(Collected(Inner)).body = Collected(Inner)
    BY <1>0, <1>1, InnerEnds, CopyIsStatement
  <1>3. /\ EndStatic => Collected(Inner) = static[Inner.kind]
        /\ EndFor \/ EndFresh => Collected(Inner) = new[Inner.list]
        /\ EndPlainFor \/ EndPlainIf => Collected(Inner) = Inner.only
    <2>1. ASSUME EndStatic PROVE Collected(Inner) = static[Inner.kind]
      <3>1. /\ Inner.kind # "program" /\ Inner.kind \in StaticKinds
            /\ Inner.kind \notin PlainKinds
        BY <2>1, ListsAssumption DEF EndStatic
      <3> QED BY <3>1, Zenon DEF Collected
    <2>2. ASSUME EndFor \/ EndFresh PROVE Collected(Inner) = new[Inner.list]
      <3>1. /\ Inner.kind # "program" /\ Inner.kind \notin StaticKinds
            /\ Inner.kind \notin PlainKinds
        BY <2>2, ListsAssumption DEF EndFor, EndFresh, PlainKinds
      <3> QED BY <3>1, Zenon DEF Collected
    <2>3. ASSUME EndPlainFor \/ EndPlainIf PROVE Collected(Inner) = Inner.only
      <3>1. /\ Inner.kind # "program" /\ Inner.kind \notin StaticKinds
            /\ Inner.kind \in PlainKinds
        BY <2>3, ListsAssumption DEF EndPlainFor, EndPlainIf, PlainKinds
      <3> QED BY <3>1, Zenon DEF Collected
    <2> QED BY <2>1, <2>2, <2>3
  <1> DEFINE n == Copy(Collected(Inner))
  <1>4. CASE EndStatic \/ EndPlainIf
    <2>1. Reduced(n, Front(open), new, FALSE)
      BY <1>3, <1>4, Zenon DEF EndStatic, EndPlainIf
    <2> HIDE DEF n
    <2> QED BY <2>1, <1>2, EndReduction DEF n
  <1>5. CASE EndFor \/ EndPlainFor
    <2>1. Reduced(n, Front(open), ForCleared, FALSE)
      <3>1. PlainForBodies(Inner) = {Inner.only}
        BY DEF PlainForBodies
      <3>2. EndPlainFor => Reduced(Copy(Inner.only), Front(open), ForCleared, FALSE)
        BY <3>1, Zenon DEF EndPlainFor
      <3> QED BY <1>3, <1>5, <3>2, Zenon DEF EndFor
    <2>2. ListsKept(Front(open), ForCleared)
      BY <1>2, <1>5, ClearedKept DEF EndFor, EndPlainFor
    <2> HIDE DEF n
    <2> QED BY <2>1, <2>2, <1>2, EndReduction DEF n
  <1>6. CASE EndFresh
    <2> DEFINE p == Pointer(Inner.list)
    <2>1. Reduced(p, Front(open), new, FALSE) /\ Inner.kind = "fresh"
      BY <1>6, Zenon DEF EndFresh
    <2>2. /\ Inner = open[Len(open)] /\ Len(open) \in 1 .. Len(open)
          /\ Outer(Front(open)) /\ Len(Front(open)) = Len(open) - 1
      BY <1>1, InnerEnds
    <2>3. /\ p.list = Inner.list /\ p.list # 0 /\ p.list # newest
          /\ p \in Statements
      BY <2>1, <2>2, <1>0, <1>2 DEF Pointer, ListsApart, OwnLists, Statements, Constructs, Lists
    <2>4. ASSUME NEW i \in 1 .. Len(Front(open))
          PROVE  Front(open)[i].list # p.list
      <3>1. /\ i \in 1 .. Len(open) /\ i < Len(open) /\ Front(open)[i] = open[i]
        BY <2>2 DEF Outer
      <3>2. open[i].list # 0 => open[i].list < Inner.list
        BY <3>1, <2>2, <2>3, <1>0 DEF ListsApart, OwnLists
      <3>3. Inner.list \in Nat
        BY <1>2 DEF Constructs
      <3> QED BY <3>1, <3>2, <3>3, <2>3
    <2>5. new[p.list] = Collected(Inner)
      BY <2>3, <1>3, <1>6
    <2> HIDE DEF p
    <2> QED BY <2>1, <2>3, <2>4, <2>5, <1>2, EndReduction
  <1> QED BY <1>4, <1>5, <1>6

-----------------------------------------------------------------------------
(* The actions that open a construct, of the kind k and with the list l.   *)
BeginOK(k, l) ==
    /\ k \in Braced \cup PlainKinds /\ l \in 0 .. Len(new')
    /\ open' = Append(open, Construct(k, l))
    /\ program' = program /\ nodes' = nodes
    /\ static' \in [StaticKinds -> Lists]
    /\ \A j \in StaticKinds :
          (\E i \in 1 .. Len(open) : open[i].kind = j) => static'[j] = static[j]
    /\ new' \in Seq(Lists) /\ Len(new') >= Len(new)
    /\ \A i \in 1 .. Len(new) : new'[i] = new[i]
    /\ newest' = IF k = "for" THEN l ELSE newest
    /\ k \in StaticKinds =>
          static'[k] = <<>> /\ \A i \in 1 .. Len(open) : open[i].kind # k
    /\ IF k \in {"for", "fresh"}
       THEN l = Len(new) + 1 /\ Len(new') = l /\ new'[l] = <<>> ELSE l = 0
    /\ k = "plainFor" =>
          \A i \in 1 .. Len(open) : open[i].kind = "for" => open[i].list # newest

LEMMA BeginTypes ==
    ASSUME ListsInv, NEW k, NEW l, BeginOK(k, l)
    PROVE  /\ ListsTypeOK' /\ Len(open') = Len(open) + 1
           /\ \A i \in 1 .. Len(open) : open'[i] = open[i]
           /\ open'[Len(open) + 1] = Construct(k, l)
  <1>0. ListsTypeOK
    BY DEF ListsInv
  <1>1. /\ open \in Seq(Constructs) /\ Len(open) \in Nat \ {0}
        /\ nodes \in Seq(Statements) /\ open[1].kind = "program"
        /\ Len(new) \in Nat /\ Len(nodes) \in Nat /\ newest \in 1 .. Len(new)
        /\ Len(new') \in Nat /\ Len(new') >= Len(new) /\ Lists' = Lists
    BY <1>0, TypesUnfolded DEF BeginOK, Lists
  <1>2. /\ \A x \in Constructs : x \in Constructs'
        /\ \A x \in Statements : x \in Statements'
    BY <1>1 DEF Constructs, Statements, Kinds
  <1>3. Construct(k, l) \in Constructs'
    <2>1. <<>> \in Lists
      BY DEF Lists
    <2>2. k \in Kinds /\ l \in 0 .. Len(new')
      BY DEF BeginOK, Kinds
    <2> QED BY <2>1, <2>2, <1>1 DEF Construct, Constructs, Kinds
  <1>4. open \in Seq(Constructs') /\ nodes' \in Seq(Statements')
    <2>1. Constructs \subseteq Constructs' /\ Statements \subseteq Statements'
      BY <1>2
    <2>2. nodes' = nodes
      BY DEF BeginOK
    <2> QED BY <2>1, <2>2, <1>1, SeqMonotonic
  <1>5. /\ open' \in Seq(Constructs') /\ Len(open') = Len(open) + 1
        /\ \A i \in 1 .. Len(open) : open'[i] = open[i]
        /\ open'[Len(open) + 1] = Construct(k, l)
    BY <1>3, <1>4, AppendProperties DEF BeginOK
  <1>6. newest' \in 1 .. Len(new')
    BY <1>1 DEF BeginOK
  <1>7. open' # <<>> /\ open'[1].kind = "program"
    <2>1. 1 \in 1 .. Len(open)
      BY <1>1
    <2> QED BY <2>1, <1>1, <1>5
  <1>8. /\ program' \in [list : Lists', known : SUBSET (1 .. Len(nodes'))]
        /\ static' \in [StaticKinds -> Lists'] /\ new' \in Seq(Lists')
    BY <1>0, <1>1 DEF BeginOK, ListsTypeOK, Lists
  <1>9. ListsTypeOK'
    BY <1>4, <1>5, <1>6, <1>7, <1>8, Zenon
    DEF ListsTypeOK, Constructs, Statements, Lists, Kinds
  <1> QED BY <1>5, <1>9

LEMMA BeginApart ==
    ASSUME ListsInv, NEW k, NEW l, BeginOK(k, l), MayBegin
    PROVE  ListsInv'
  <1> DEFINE m == Len(open) + 1
  <1>0. /\ ListsTypeOK /\ OwnLists /\ NodesApart /\ SharedOnce
    BY DEF ListsInv, ListsApart
  <1>1. /\ ListsTypeOK' /\ Len(open') = m
        /\ \A i \in 1 .. Len(open) : open'[i] = open[i]
        /\ open'[m].kind = k /\ open'[m].list = l
    <2>1. open'[m] = Construct(k, l)
      BY BeginTypes
    <2>2. Construct(k, l).kind = k /\ Construct(k, l).list = l
      BY DEF Construct
    <2>3. open'[m].kind = k /\ open'[m].list = l
      BY <2>1, <2>2, Zenon
    <2> QED BY <2>3, BeginTypes
  <1>2. /\ Len(open) \in Nat \ {0} /\ Len(new) \in Nat /\ newest \in 1 .. Len(new)
        /\ \A i \in 1 .. Len(open) : open[i].list \in 0 .. Len(new)
        /\ \A j \in 1 .. Len(nodes) : nodes[j].list \in 0 .. Len(new)
        /\ nodes' = nodes
    BY <1>0, TypesUnfolded DEF Constructs, Statements, BeginOK
  <1>3. /\ newest' = IF k = "for" THEN l ELSE newest
        /\ k \in {"for", "fresh"} => l = Len(new) + 1
        /\ k \notin {"for", "fresh"} => l = 0
        /\ k = "plainFor" =>
              \A i \in 1 .. Len(open) : open[i].kind = "for" => open[i].list # newest
    BY DEF BeginOK
  <1>4. \A i \in 1 .. m : i \in 1 .. Len(open) \/ i = m
    BY <1>2
  <1>5. OwnLists'
    <2>1. \A i \in 1 .. m :
             open'[i].list # 0 <=> open'[i].kind \in {"for", "fresh"}
      BY <1>0, <1>1, <1>2, <1>3, <1>4 DEF OwnLists
    <2>2. ASSUME NEW i \in 1 .. m, NEW j \in 1 .. m, i < j,
                 open'[i].list # 0, open'[j].list # 0
          PROVE  open'[i].list < open'[j].list
      <3>1. i \in 1 .. Len(open)
        BY <2>2, <1>2, <1>4
      <3>2. CASE j = m
        <4>1. l # 0 /\ l = Len(new) + 1
          BY <2>2, <3>2, <1>1, <1>3
        <4> QED BY <4>1, <3>1, <3>2, <1>1, <1>2
      <3>3. CASE j \in 1 .. Len(open)
        BY <2>2, <3>1, <3>3, <1>0, <1>1 DEF OwnLists
      <3> QED BY <3>2, <3>3, <1>4
    <2>3. ASSUME NEW i \in 1 .. m, open'[i].kind = "for"
          PROVE  open'[i].list <= newest'
      <3>1. CASE i = m
        BY <2>3, <3>1, <1>1, <1>2, <1>3
      <3>2. CASE i \in 1 .. Len(open)
        BY <2>3, <3>2, <1>0, <1>1, <1>2, <1>3 DEF OwnLists
      <3> QED BY <3>1, <3>2, <1>4
    <2>4. ASSUME NEW i \in 1 .. m, NEW j \in 1 .. m, i < j,
                 open'[i].kind = "for", open'[j].kind = "plainFor"
          PROVE  open'[i].list < newest'
      <3>1. i \in 1 .. Len(open) /\ open[i].kind = "for"
        BY <2>4, <1>1, <1>2, <1>4
      <3>2. open[i].list <= newest
        BY <3>1, <1>0 DEF OwnLists
      <3>3. CASE j = m
        <4>1. newest' = newest /\ open[i].list # newest
          BY <2>4, <3>1, <3>3, <1>1, <1>3
        <4> QED BY <4>1, <3>1, <3>2, <1>1, <1>2
      <3>4. CASE j \in 1 .. Len(open)
        <4>1. open[i].list < newest
          BY <2>4, <3>1, <3>4, <1>0, <1>1 DEF OwnLists
        <4> QED BY <4>1, <3>1, <1>1, <1>2, <1>3
      <3> QED BY <3>3, <3>4, <1>4
    <2>5. ASSUME NEW i \in 1 .. m, open'[i].kind = "fresh"
          PROVE  open'[i].list # newest'
      <3>1. CASE i = m
        BY <2>5, <3>1, <1>1, <1>2, <1>3
      <3>2. CASE i \in 1 .. Len(open)
        BY <2>5, <3>2, <1>0, <1>1, <1>2, <1>3 DEF OwnLists
      <3> QED BY <3>1, <3>2, <1>4
    <2> HIDE DEF m
    <2> QED BY <2>1, <2>2, <2>3, <2>4, <2>5, <1>1, Zenon DEF OwnLists
  <1>6. NodesApart'
    <2> SUFFICES ASSUME NEW j \in 1 .. Len(nodes), nodes[j].list # 0
                 PROVE  /\ nodes[j].list # newest'
                        /\ \A i \in 1 .. m : open'[i].list # nodes[j].list
      BY <1>1, <1>2 DEF NodesApart
    <2>1. nodes[j].list # newest'
      BY <1>0, <1>2, <1>3 DEF NodesApart
    <2>2. ASSUME NEW i \in 1 .. m PROVE open'[i].list # nodes[j].list
      <3>1. CASE i = m
        BY <3>1, <1>1, <1>2, <1>3
      <3>2. CASE i \in 1 .. Len(open)
        BY <3>2, <1>0, <1>1 DEF NodesApart
      <3> QED BY <3>1, <3>2, <1>4
    <2> QED BY <2>1, <2>2
  <1>7. SharedOnce'
    <2>1. ASSUME NEW i \in 1 .. m, NEW j \in 1 .. m, i < j,
                 open'[i].kind = open'[j].kind, open'[i].kind \in StaticKinds
          PROVE  FALSE
      <3>1. i \in 1 .. Len(open)
        BY <2>1, <1>2, <1>4
      <3>2. CASE j = m
        BY <2>1, <3>1, <3>2, <1>1 DEF BeginOK
      <3>3. CASE j \in 1 .. Len(open)
        BY <2>1, <3>1, <3>3, <1>0, <1>1 DEF SharedOnce
      <3> QED BY <3>2, <3>3, <1>4
    <2>2. ASSUME NEW i \in 2 .. m PROVE open'[i].kind # "program"
      <3>1. k # "program"
        BY ListsAssumption DEF BeginOK, Braced, PlainKinds
      <3>2. i = m \/ (i \in 1 .. Len(open) /\ i \in 2 .. Len(open))
        BY <1>2
      <3> QED BY <3>1, <3>2, <1>0, <1>1 DEF SharedOnce
    <2>3. ASSUME NEW i \in 1 .. m, i < m, open'[i].kind \in PlainKinds
          PROVE  open'[i].only = <<>>
      <3>1. i \in 1 .. Len(open) /\ open'[i] = open[i] /\ open[i].kind \in PlainKinds
        BY <2>3, <1>1, <1>2
      <3>2. CASE i = Len(open)
        <4>1. Inner = open[i]
          BY <3>2, <1>0, OpenIsOuter
        <4> QED BY <4>1, <3>1 DEF MayBegin
      <3>3. CASE i < Len(open)
        BY <3>1, <3>3, <1>0 DEF SharedOnce
      <3> QED BY <3>1, <3>2, <3>3, <1>2
    <2> HIDE DEF m
    <2> QED BY <2>1, <2>2, <2>3, <1>1 DEF SharedOnce
  <1> QED BY <1>1, <1>5, <1>6, <1>7 DEF ListsInv, ListsApart

(* A construct that begins is, in the tree, a new empty body. *)
LEMMA BeginTree ==
    ASSUME ListsInv, NEW k, NEW l, BeginOK(k, l), MayBegin
    PROVE  Tree!Begin
  <1> DEFINE m == Len(open) + 1
  <1>0. /\ ListsTypeOK /\ OwnLists /\ NodesApart /\ SharedOnce
    BY DEF ListsInv, ListsApart
  <1>1. /\ ListsTypeOK' /\ Len(open') = m /\ Len(open) \in Nat
        /\ \A i \in 1 .. Len(open) : open'[i] = open[i] /\ i \in 1 .. m
        /\ m \in 1 .. m
    BY <1>0, BeginTypes, TypesUnfolded
  <1>2. open'[m] = Construct(k, l)
    BY BeginTypes
  <1>3. /\ Construct(k, l).kind = k /\ Construct(k, l).list = l
        /\ Construct(k, l).only = <<>>
    BY DEF Construct
  <1>4. ASSUME NEW i \in 1 .. Len(open)
        PROVE  Collected(open[i])' = Collected(open[i])
    <2>0. /\ open'[i] = open[i] /\ open[i].kind \in Kinds
          /\ open[i].list \in 0 .. Len(new) /\ Len(new) \in Nat
      BY <1>0, <1>1, TypesUnfolded DEF Constructs
    <2>1. CASE open[i].kind = "program"
      <3>1. /\ open[i].kind \notin StaticKinds /\ open[i].kind \notin PlainKinds
            /\ program' = program
        BY <2>1, ListsAssumption DEF PlainKinds, BeginOK
      <3> QED BY <2>0, <2>1, <3>1, Zenon DEF Collected
    <2>2. CASE open[i].kind \in StaticKinds
      <3>1. open[i].kind # "program" /\ open[i].kind \notin PlainKinds
        BY <2>2, ListsAssumption
      <3>2. static'[open[i].kind] = static[open[i].kind]
        BY <2>2 DEF BeginOK
      <3> QED BY <2>0, <2>2, <3>1, <3>2, Zenon DEF Collected
    <2>3. CASE open[i].kind \in PlainKinds
      <3>1. open[i].kind # "program" /\ open[i].kind \notin StaticKinds
        BY <2>3, ListsAssumption DEF PlainKinds
      <3> QED BY <2>0, <2>3, <3>1, Zenon DEF Collected
    <2>4. CASE open[i].kind \in {"for", "fresh"}
      <3>1. /\ open[i].kind # "program" /\ open[i].kind \notin StaticKinds
            /\ open[i].kind \notin PlainKinds
        BY <2>4, ListsAssumption DEF PlainKinds
      <3>2. new'[open[i].list] = new[open[i].list]
        BY <2>0, <2>4, <1>0 DEF OwnLists, BeginOK
      <3> QED BY <2>0, <3>1, <3>2, Zenon DEF Collected
    <2> QED BY <2>0, <2>1, <2>2, <2>3, <2>4 DEF Kinds, Braced
  <1>5. ASSUME NEW i \in {m} PROVE Collected(open[i])' = <<>>
    <2>0. /\ open'[i].kind = k /\ open'[i].list = l /\ open'[i].only = <<>>
      BY <1>2, <1>3, Zenon
    <2>1. CASE k \in StaticKinds
      <3>1. k # "program" /\ k \notin PlainKinds
        BY <2>1, ListsAssumption
      <3>2. static'[k] = <<>>
        BY <2>1 DEF BeginOK
      <3> QED BY <2>0, <2>1, <3>1, <3>2, Zenon DEF Collected
    <2>2. CASE k \in PlainKinds
      <3>1. k # "program" /\ k \notin StaticKinds
        BY <2>2, ListsAssumption DEF PlainKinds
      <3> QED BY <2>0, <2>2, <3>1, Zenon DEF Collected
    <2>3. CASE k \in {"for", "fresh"}
      <3>1. k # "program" /\ k \notin StaticKinds /\ k \notin PlainKinds
        BY <2>3, ListsAssumption DEF PlainKinds
      <3>2. new'[l] = <<>>
        BY <2>3 DEF BeginOK
      <3> QED BY <2>0, <3>1, <3>2, Zenon DEF Collected
    <2> QED BY <2>1, <2>2, <2>3 DEF BeginOK, Braced
  <1>6. Bodies' = Append(Bodies, <<>>)
    <2>1. /\ Len(Bodies) = Len(open) /\ \E S : Bodies \in Seq(S)
          /\ \A i \in 1 .. Len(open) : Bodies[i] = Collected(open[i])
      BY <1>0, BodiesAreSequences
    <2>2. /\ Len(Bodies') = m /\ \E S : Bodies' \in Seq(S)
          /\ \A i \in 1 .. m : Bodies'[i] = Collected(open[i])'
      BY <1>1, NextBodiesAreSequences
    <2>3. Bodies'[m] = <<>>
      <3>1. PICK i : i \in {m}
        OBVIOUS
      <3>2. Collected(open[i])' = <<>>
        BY <3>1, <1>5, Zenon
      <3>3. i = m /\ i \in 1 .. m
        BY <3>1, <1>1
      <3>4. Bodies'[i] = Collected(open[i])'
        BY <3>3, <2>2
      <3> QED BY <3>2, <3>3, <3>4
    <2>4. \A i \in 1 .. Len(open) : Bodies'[i] = Bodies[i]
      <3> SUFFICES ASSUME NEW i \in 1 .. Len(open) PROVE Bodies'[i] = Bodies[i]
        OBVIOUS
      <3>1. Bodies'[i] = Collected(open[i])'
        BY <1>1, <2>2
      <3>2. Collected(open[i])' = Collected(open[i])
        BY <1>4
      <3> QED BY <3>1, <3>2, <2>1
    <2>5. PICK S : Bodies \in Seq(S)
      BY <2>1
    <2>6. PICK T : Bodies' \in Seq(T)
      BY <2>2
    <2> QED BY <2>1, <2>2, <2>3, <2>4, <2>5, <2>6, AppendByElements
  <1>7. Bars' = Bars
    <2>1. nodes' = nodes
      BY DEF BeginOK
    <2>2. ASSUME NEW n \in 1 .. Len(nodes) PROVE BodyOf(nodes[n])' = BodyOf(nodes[n])
      <3>0. nodes'[n] = nodes[n] /\ nodes[n].list \in 0 .. Len(new) /\ Len(new) \in Nat
        BY <2>1, <1>0, TypesUnfolded DEF Statements
      <3>1. CASE nodes[n].list = 0
        BY <3>0, <3>1 DEF BodyOf
      <3>2. CASE nodes[n].list # 0
        <4>1. nodes[n].list \in 1 .. Len(new)
          BY <3>0, <3>2
        <4>2. new'[nodes[n].list] = new[nodes[n].list]
          BY <4>1 DEF BeginOK
        <4> QED BY <3>0, <3>2, <4>2 DEF BodyOf
      <3> QED BY <3>1, <3>2
    <2>3. /\ Bars = [n \in 1 .. Len(nodes) |-> BodyOf(nodes[n])]
          /\ Bars' = [n \in 1 .. Len(nodes) |-> BodyOf(nodes[n])']
      <3>1. DOMAIN nodes = 1 .. Len(nodes)
        BY <1>0, TypesUnfolded
      <3> QED BY <3>1, <2>1, Zenon DEF Bars
    <2> QED BY <2>2, <2>3, Zenon
  <1> QED BY <1>6, <1>7, TreeMeaning

(* The actions that open a construct do so. *)
LEMMA Begins ==
    ASSUME ListsInv, Forms = {},
           \/ \E k \in StaticKinds : BeginStatic(k)
           \/ BeginFor \/ BeginFresh
           \/ \E k \in PlainKinds : BeginPlain(k)
    PROVE  ListsInv' /\ Tree!Begin
  <1>0. /\ new \in Seq(Lists) /\ Len(new) \in Nat /\ static \in [StaticKinds -> Lists]
        /\ <<>> \in Lists /\ DOMAIN open = 1 .. Len(open)
    BY TypesUnfolded DEF ListsInv, Lists
  <1>1. ASSUME NEW k \in StaticKinds, BeginStatic(k) PROVE BeginOK(k, 0) /\ MayBegin
    <2>1. k \notin {"for", "fresh"} /\ k \notin PlainKinds
      BY ListsAssumption
    <2>2. /\ MayBegin /\ static' = [static EXCEPT ![k] = <<>>]
          /\ \A i \in DOMAIN open : open[i].kind # k
          /\ open' = Append(open, Construct(k, 0))
          /\ program' = program /\ new' = new /\ newest' = newest /\ nodes' = nodes
      BY <1>1 DEF BeginStatic, MayNest, StartCleared
    <2>3. /\ static' \in [StaticKinds -> Lists] /\ static'[k] = <<>>
          /\ \A j \in StaticKinds : j # k => static'[j] = static[j]
      BY <2>2, <1>0
    <2> QED BY <2>1, <2>2, <2>3, <1>0 DEF BeginOK, Braced, PlainKinds
  <1>2. ASSUME NEW k \in {"for", "fresh"}, NewList(k)
        PROVE  /\ open' = Append(open, Construct(k, Len(new) + 1))
               /\ program' = program /\ static' = static /\ nodes' = nodes
               /\ new' \in Seq(Lists) /\ Len(new') = Len(new) + 1
               /\ \A i \in 1 .. Len(new) : new'[i] = new[i]
               /\ new'[Len(new) + 1] = <<>>
    <2>1. /\ new' = Append(new, <<>>)
          /\ open' = Append(open, Construct(k, Len(new')))
          /\ program' = program /\ static' = static /\ nodes' = nodes
      BY <1>2 DEF NewList
    <2>2. /\ new' \in Seq(Lists) /\ Len(new') = Len(new) + 1
          /\ \A i \in 1 .. Len(new) : new'[i] = new[i]
          /\ new'[Len(new) + 1] = <<>>
      BY <2>1, <1>0, AppendProperties
    <2> QED BY <2>1, <2>2
  <1>3. /\ "for" \notin StaticKinds /\ "fresh" \notin StaticKinds
        /\ PlainKinds \cap StaticKinds = {}
    BY ListsAssumption
  <1>4. ASSUME BeginFor PROVE BeginOK("for", Len(new) + 1) /\ MayBegin
    <2>1. MayBegin /\ NewList("for") /\ newest' = Len(new')
      BY <1>4 DEF BeginFor, MayNest
    <2> QED BY <2>1, <1>0, <1>2, <1>3 DEF BeginOK, Braced, PlainKinds
  <1>5. ASSUME BeginFresh PROVE BeginOK("fresh", Len(new) + 1) /\ MayBegin
    <2>1. MayBegin /\ NewList("fresh") /\ newest' = newest
      BY <1>5 DEF BeginFresh, MayNest
    <2> QED BY <2>1, <1>0, <1>2, <1>3 DEF BeginOK, Braced, PlainKinds
  <1>6. ASSUME NEW k \in PlainKinds, BeginPlain(k) PROVE BeginOK(k, 0) /\ MayBegin
    <2>1. /\ MayBegin /\ open' = Append(open, Construct(k, 0))
          /\ program' = program /\ static' = static /\ new' = new
          /\ newest' = newest /\ nodes' = nodes
          /\ k = "plainIf" \/ \A i \in DOMAIN open :
                                 open[i].kind = "for" => open[i].list # newest
      BY <1>6 DEF BeginPlain, MayNest
    <2>2. k \notin {"for", "fresh"} /\ k \notin StaticKinds
      BY <1>3 DEF PlainKinds
    <2> QED BY <2>1, <2>2, <1>0 DEF BeginOK, PlainKinds
  <1>7. \E k, l : BeginOK(k, l) /\ MayBegin
    BY <1>1, <1>4, <1>5, <1>6, Zenon
  <1> QED BY <1>7, BeginApart, BeginTree

-----------------------------------------------------------------------------
(* The next unit, and a step that changes nothing. *)
LEMMA NextUnits ==
    ASSUME ListsInv, NextUnit
    PROVE  ListsInv' /\ Tree!NextUnit
  <1>0. ListsTypeOK /\ ListsApart
    BY DEF ListsInv
  <1>1. /\ Len(open) = 1 /\ open[1].kind = "program"
        /\ program'.list = <<>> /\ program'.known = program.known
        /\ program' \in [list : Lists, known : SUBSET (1 .. Len(nodes))]
        /\ static' = static /\ new' = new /\ newest' = newest
        /\ open' = open /\ nodes' = nodes
    <2>1. <<>> \in Lists
      BY DEF Lists
    <2> QED BY <2>1, <1>0, TypesUnfolded DEF NextUnit
  <1>2. ListsTypeOK'
    BY <1>0, <1>1, Zenon DEF ListsTypeOK, Lists
  <1>3. ListsApart'
    BY <1>0, <1>1, Zenon DEF ListsApart, OwnLists, NodesApart, SharedOnce
  <1>4. /\ Len(Bodies) = 1 /\ Len(Bodies') = 1 /\ DOMAIN Bodies' = 1 .. 1
        /\ \A i \in 1 .. 1 : Bodies'[i] = Collected(open[i])'
        /\ \E S : Bodies' \in Seq(S)
    BY <1>0, <1>1, <1>2, BodiesAreSequences, NextBodiesAreSequences
  <1>5. Bodies' = << <<>> >>
    <2>1. PICK i : i \in {1}
      OBVIOUS
    <2>2. open[i].kind \notin StaticKinds /\ open[i].kind \notin PlainKinds
      BY <2>1, <1>1, ListsAssumption DEF PlainKinds
    <2>3. Collected(open[i])' = <<>>
      BY <2>1, <2>2, <1>1, Zenon DEF Collected
    <2>4. Bodies'[1] = <<>>
      BY <2>1, <2>3, <1>4
    <2> QED BY <2>4, <1>4
  <1>6. Bars' = Bars
    BY <1>1, Zenon DEF Bars, BodyOf
  <1> QED BY <1>2, <1>3, <1>4, <1>5, <1>6, TreeMeaning DEF ListsInv

LEMMA ListsStutter ==
    ASSUME ListsInv, UNCHANGED listVars
    PROVE  ListsInv' /\ UNCHANGED Tree!treeVars
  <1>1. /\ program' = program /\ static' = static /\ new' = new
        /\ newest' = newest /\ open' = open /\ nodes' = nodes
    BY DEF listVars
  <1>2. ListsInv'
    BY <1>1, Zenon
    DEF ListsInv, ListsTypeOK, ListsApart, OwnLists, NodesApart, SharedOnce
  <1>3. ASSUME NEW i \in DOMAIN open
        PROVE  Collected(open[i])' = Collected(open[i])
    <2>1. CASE open[i].kind = "program"
      <3>1. open[i].kind \notin StaticKinds /\ open[i].kind \notin PlainKinds
        BY <2>1, ListsAssumption DEF PlainKinds
      <3> QED BY <2>1, <3>1, <1>1, Zenon DEF Collected
    <2>2. CASE open[i].kind \in StaticKinds
      <3>1. open[i].kind # "program" /\ open[i].kind \notin PlainKinds
        BY <2>2, ListsAssumption
      <3> QED BY <2>2, <3>1, <1>1, Zenon DEF Collected
    <2>3. CASE open[i].kind \in PlainKinds
      <3>1. open[i].kind # "program" /\ open[i].kind \notin StaticKinds
        BY <2>3, ListsAssumption DEF PlainKinds
      <3> QED BY <2>3, <3>1, <1>1, Zenon DEF Collected
    <2>4. CASE open[i].kind \notin {"program"} \cup StaticKinds \cup PlainKinds
      <3>1. /\ open[i].kind # "program" /\ open[i].kind \notin StaticKinds
            /\ open[i].kind \notin PlainKinds
        BY <2>4
      <3> QED BY <3>1, <1>1, Zenon DEF Collected
    <2> QED BY <2>1, <2>2, <2>3, <2>4
  <1>4. Bodies' = Bodies
    <2>1. Bodies' = [i \in DOMAIN open |-> Collected(open[i])']
      BY <1>1, Zenon DEF Bodies
    <2> QED BY <2>1, <1>3, Zenon DEF Bodies
  <1>5. Bars' = Bars
    BY <1>1, Zenon DEF Bars, BodyOf
  <1> QED BY <1>2, <1>4, <1>5, TreeMeaning

(* Each step keeps the invariant and is a step of the tree, or none. *)
LEMMA ListsStep ==
    ASSUME Forms = {}, ListsInv, [ListsNext]_listVars
    PROVE  ListsInv' /\ [Tree!TreeNext]_(Tree!treeVars)
  <1>1. CASE Statement
    <2>1. MayBegin /\ Reduced(Copy(<<>>), open, new, FALSE)
      BY <1>1 DEF Statement
    <2>2. ReductionOK(Copy(<<>>), open, new) /\ Tree!Statement
      BY <2>1, SimpleReductions
    <2>3. ListsInv'
      BY <2>1, <2>2, ReducedApart
    <2> QED BY <2>2, <2>3 DEF Tree!TreeNext
  <1>2. CASE Declaration
    <2>1. MayBegin /\ Reduced(Copy(<<>>), open, new, TRUE)
      BY <1>2 DEF Declaration
    <2>2. ReductionOK(Copy(<<>>), open, new) /\ Tree!Declaration
      BY <2>1, SimpleReductions
    <2>3. ListsInv'
      BY <2>1, <2>2, ReducedApart
    <2> QED BY <2>2, <2>3 DEF Tree!TreeNext
  <1>3. CASE \/ \E k \in StaticKinds : BeginStatic(k)
             \/ BeginFor \/ BeginFresh
             \/ \E k \in PlainKinds : BeginPlain(k)
    BY <1>3, Begins DEF Tree!TreeNext
  <1>4. CASE EndStatic \/ EndFor \/ EndFresh \/ EndPlainFor \/ EndPlainIf
    BY <1>4, Ends DEF Tree!TreeNext
  <1>5. CASE NextUnit
    BY <1>5, NextUnits DEF Tree!TreeNext
  <1>6. CASE UNCHANGED listVars
    BY <1>6, ListsStutter
  <1> QED BY <1>1, <1>2, <1>3, <1>4, <1>5, <1>6 DEF ListsNext

LEMMA InitIsTree ==
    ASSUME ListsInit
    PROVE  Tree!TreeInit
  <1>1. ListsTypeOK /\ Len(open) = 1 /\ Len(nodes) = 0
    BY InitEstablishes DEF ListsInit, ListsInv
  <1>2. /\ DOMAIN Bodies = 1 .. 1 /\ Len(Bodies) = 1
        /\ Bodies[1] = Collected(open[1]) /\ Len(Bars) = 0
        /\ \E S : Bodies \in Seq(S)
        /\ \E S : Bars \in Seq(S)
    BY <1>1, BodiesAreSequences
  <1>3. Collected(open[1]) = <<>>
    <2>1. /\ open[1].kind = "program" /\ program.list = <<>>
      BY DEF ListsInit, Construct
    <2>2. open[1].kind \notin StaticKinds /\ open[1].kind \notin PlainKinds
      BY <2>1, ListsAssumption DEF PlainKinds
    <2> QED BY <2>1, <2>2, Zenon DEF Collected
  <1>4. Bodies = << <<>> >>
    BY <1>2, <1>3
  <1>5. Bars = <<>>
    BY <1>2
  <1> QED BY <1>4, <1>5, TreeMeaning

(* In programs without the exceptional forms, nobody but the construct it  *)
(* belongs to refers to a list that is cleared or extended, and a static   *)
(* list is in use at most once: the invariant the refinement rests on.     *)
THEOREM ListsInvariant ==
    ASSUME Forms = {}
    PROVE  ListsSpec => []ListsInv
  <1>1. ListsInit => ListsInv
    BY InitEstablishes
  <1>2. ListsInv /\ [ListsNext]_listVars => ListsInv'
    BY ListsStep
  <1> QED BY <1>1, <1>2, PTL DEF ListsSpec

(* The lists hold statements that have ended, the constructs and the nodes *)
(* refer to lists that exist, and the program encloses every construct.    *)
THEOREM ListsTypes ==
    ASSUME Forms = {}
    PROVE  ListsSpec => []ListsTypeOK
  <1>1. ListsInv => ListsTypeOK
    BY DEF ListsInv
  <1> QED BY <1>1, ListsInvariant, PTL

(* In programs without the exceptional forms, whatever their length and    *)
(* depth, each open construct and each node of the tree has exactly the    *)
(* statements written in it, in order, and no later construct or unit      *)
(* takes any away: the builders' lists implement the tree.                 *)
THEOREM ListsImplementTree ==
    ASSUME Forms = {}
    PROVE  ListsSpec => BodiesAsWritten
  <1>1. ListsInit => Tree!TreeInit
    BY InitIsTree
  <1>2. ListsInv /\ [ListsNext]_listVars => [Tree!TreeNext]_(Tree!treeVars)
    BY ListsStep
  <1> QED BY <1>1, <1>2, ListsInvariant, PTL
          DEF ListsSpec, BodiesAsWritten, Tree!TreeSpec
=============================================================================
