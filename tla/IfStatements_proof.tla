-------------------------- MODULE IfStatements_proof --------------------------
(***************************************************************************)
(* For programs of any size and nesting.  Of all programs, whatever forms  *)
(* they take: the type of the trackers and of the graph they draw.  Of the *)
(* programs in which no form is left in (Forms = {}): that they are parsed *)
(* without an error, that each else and else if gets the if it follows,    *)
(* and that the else ifs of an if are linked in order.                     *)
(***************************************************************************)
EXTENDS IfStatements, SequenceTheorems, FiniteSetTheorems, WellFoundedInduction, TLAPS

FrameT ==
    [kind : {"global"} \cup Branches \cup Bodies, braced : BOOLEAN, items : Seq(Nat),
     scope : Nat, key : Nat, body : {"list", "none", "done"}]

NodeT ==
    [kind : Branches, of : Nat, dc : Nat, parent : Nat, elseIfs : Seq(Nat), else : Nat,
     next : Nat, pendElseIf : BOOLEAN, pendElse : BOOLEAN, belongs : Nat]

Nodes == 1..Len(node)
Ifs == {n \in Nodes : node[n].kind = "if"}

StackType ==
    /\ open \in Seq(FrameT) /\ open # <<>> /\ open[1].kind = "global"
    /\ \A i \in 1..Depth : \A k \in 1..Len(open[i].items) : open[i].items[k] <= Len(node)

GraphType ==
    /\ node \in Seq(NodeT)
    /\ \A n \in Nodes : node[n].of <= Len(node) /\ node[n].parent \in Ifs \cup {0}

TrackerType ==
    /\ IL \subseteq Ifs /\ CIF \in Ifs \cup {0} /\ ECIF \in Ifs \cup {0} /\ CEI \in 0..Len(node)
    /\ PendingElseIf \in BOOLEAN /\ PendingElse \in BOOLEAN /\ EIPendingElse \in BOOLEAN
    /\ braces \in [L : 0..1, R : Nat] /\ ISC \in Nat /\ Tokens \subseteq 0..ISC
    /\ scopes \in Nat
    /\ status \in {"ok", "error", "ice", "hang", "undefined"}

TypeInv == StackType /\ GraphType /\ TrackerType

-----------------------------------------------------------------------------
(* An if may be in the list of the i-th construct: no branch but an if, all *)
(* with braces, is around it, and no if is around a loop or a case.        *)
MayHold(i) ==
    \A h \in 1..i :
        /\ open[h].braced /\ open[h].kind \notin {"elseif", "else"}
        /\ open[h].kind \in {"for", "case"} => \A g \in 1..h : open[g].kind \notin Branches

(* One without braces may be there.                                        *)
PlainMayBe(i) == \A h \in 1..i : open[h].kind \notin Branches \cup {"case"}

BodyOpened(i) == IF open[i].braced THEN "list" ELSE "none"

(* How constructs nest.                                                    *)
FrameInv(i) ==
    /\ open[i].kind = "global" <=> i = 1
    /\ open[i].kind = "function" => i = 2
    /\ open[i].kind \notin Branches => open[i].braced
    /\ i < Depth => open[i].body = BodyOpened(i)
    /\ open[i].body \in {BodyOpened(i), "done"}
    /\ open[i].scope <= scopes
    /\ \A j \in 1..Depth : i < j => open[i].scope < open[j].scope
    /\ \A k \in 1..Len(open[i].items) : open[i].items[k] # 0 => MayHold(i)
    /\ i < Depth /\ open[i + 1].kind \in Branches => MayHold(i)
    /\ i < Depth /\ open[i + 1].kind \in Branches /\ ~open[i + 1].braced => PlainMayBe(i)

StackInv == \A i \in 1..Depth : FrameInv(i)

(* An if in a list is followed by its else ifs, in order, and its else;    *)
(* and these follow it only.  Stated of any graph g and list s, as what is *)
(* compared is those before and after a step.                              *)
KindIn(g, n) == IF n = 0 THEN "other" ELSE g[n].kind

IfAt(g, s, p) ==
    LET v == g[s[p]].elseIfs
    IN  /\ p + Len(v) <= Len(s)
        /\ \A k \in 1..Len(v) : s[p + k] = v[k]
        /\ g[s[p]].else # 0 =>
             p + Len(v) + 1 <= Len(s) /\ s[p + Len(v) + 1] = g[s[p]].else

ElseIfAt(g, s, q) ==
    \E p \in 1..(q - 1) :
        /\ KindIn(g, s[p]) = "if" /\ q <= p + Len(g[s[p]].elseIfs)
        /\ g[s[q]].of = s[p]

ElseAt(g, s, q) ==
    \E p \in 1..(q - 1) :
        /\ KindIn(g, s[p]) = "if" /\ q = p + Len(g[s[p]].elseIfs) + 1
        /\ g[s[p]].else = s[q] /\ g[s[q]].of = s[p]

Tidy(g, s) ==
    \A p \in 1..Len(s) :
        /\ KindIn(g, s[p]) = "if" => IfAt(g, s, p)
        /\ KindIn(g, s[p]) = "elseif" => ElseIfAt(g, s, p)
        /\ KindIn(g, s[p]) = "else" => ElseAt(g, s, p)

(* An if knows the scope it is in, and that none is around it.             *)
AtHome(i) ==
    \A p \in 1..Len(open[i].items) : KindIn(node, open[i].items[p]) = "if" =>
        /\ node[open[i].items[p]].dc = open[i].scope
        /\ open[i].kind \in {"global", "function"} => node[open[i].items[p]].parent = 0

(* A node is in one list, once.                                            *)
ItemsApart ==
    \A i, j \in 1..Depth : \A k \in 1..Len(open[i].items), l \in 1..Len(open[j].items) :
        open[i].items[k] # 0 /\ open[i].items[k] = open[j].items[l] => i = j /\ k = l

ListsInv == ItemsApart /\ \A i \in 1..Depth : Tidy(node, open[i].items) /\ AtHome(i)

(* The else ifs of an if are nodes of its own, each once, linked in order. *)
ChainOf(g, n) ==
    LET v == g[n].elseIfs
    IN  \A k \in 1..Len(v) :
          /\ v[k] \in 1..Len(g) /\ g[v[k]].kind = "elseif" /\ g[v[k]].of = n
          /\ \A l \in 1..Len(v) : v[k] = v[l] => k = l
          /\ g[v[k]].next = IF k = Len(v) THEN 0 ELSE v[k + 1]

Sound(g) ==
    \A n \in 1..Len(g) :
        /\ ChainOf(g, n)
        /\ g[n].else # 0 => g[n].else \in 1..Len(g) /\ g[g[n].else].kind = "else"
        /\ g[n].parent # n
        /\ g[n].kind # "if" => g[n].of = g[n].belongs

GraphInv == Sound(node)

(* An else or else if may follow in the list: its last if is the p-th      *)
(* statement, and has no else.                                             *)
ContinuesIn(g, s) == Len(s) # 0 /\ KindIn(g, s[Len(s)]) \in {"if", "elseif"}

Unfinished(g, s, p) ==
    /\ p \in 1..Len(s) /\ KindIn(g, s[p]) = "if"
    /\ Len(s) = p + Len(g[s[p]].elseIfs) /\ g[s[p]].else = 0

(* The trackers tell this if, of the list of the i-th construct.           *)
Current(i) ==
    /\ \E p \in 1..Len(open[i].items) :
         Unfinished(node, open[i].items, p) /\ CIF = open[i].items[p]
    /\ node[CIF].parent = 0 \/ Pending(node[CIF].parent)
    /\ CEI = IF Len(node[CIF].elseIfs) = 0 THEN 0
             ELSE node[CIF].elseIfs[Len(node[CIF].elseIfs)]

PlainCurrent(i) == Current(i) /\ ECIF = CIF /\ IL = {CIF} /\ PlainMayBe(i)

BranchesCurrent ==
    \A i \in 1..(Depth - 1) : open[i + 1].kind \in {"elseif", "else"} =>
        /\ Current(i)
        /\ ~open[i + 1].braced => PlainCurrent(i)
        /\ open[i + 1].kind = "else" =>
             /\ Pending(CIF)
             /\ open[i + 1].braced /\ braces.L < braces.R /\ braces.R % 2 = 1 =>
                  open[i].kind \in {"global", "function"}

NextCurrent ==
    Inner.body = "list" /\ ContinuesIn(node, Inner.items) /\ follow # "other" =>
        Current(Depth) /\ (follow = "free" => PlainCurrent(Depth))

(* An if without braces is opened where the trackers are cleared.          *)
PlainCleared == \A i \in 1..Depth : open[i].kind = "if" /\ ~open[i].braced => CIF = 0 /\ IL = {}

(* A right brace has been seen, and the if before it marked.               *)
BraceSeen ==
    Inner.body = "done" /\ Inner.braced =>
        /\ follow # "free"
        /\ Inner.kind \in {"if", "elseif"} /\ follow # "other" => CIF = 0 \/ Pending(CIF)

TrackerInv == BranchesCurrent /\ NextCurrent /\ PlainCleared /\ BraceSeen

KeysInv ==
    ISC \in Tokens => \E i \in 1..Depth : open[i].kind = "if" /\ ~open[i].braced

PairingInv ==
    TypeInv /\ StackInv /\ ListsInv /\ GraphInv /\ TrackerInv /\ KeysInv /\ status = "ok"

-----------------------------------------------------------------------------
(* Induction, stated on the set of the numbers of which a thing is known;  *)
(* the least and the greatest member of a set of numbers.                  *)
LEMMA LeastThere ==
    ASSUME NEW T \in SUBSET Nat, T # {}
    PROVE  Min(T) \in T /\ \A y \in T : Min(T) <= y
  <1>1. PICK x \in T : \A y \in T : ~ (<<y, x>> \in OpToRel(<, Nat))
    BY NatLessThanWellFounded, WFMin
  <1>2. ASSUME NEW y \in T PROVE x <= y
    <2>1. x \in Nat /\ y \in Nat
      OBVIOUS
    <2>2. y < x => <<y, x>> \in OpToRel(<, Nat)
      BY <2>1 DEF OpToRel
    <2>3. ~(y < x)
      BY <1>1, <2>2, Zenon
    <2> QED BY <2>1, <2>3
  <1> QED BY <1>2 DEF Min

LEMMA Inductive ==
    ASSUME NEW K, 0 \in K, \A n \in Nat : n \in K => n + 1 \in K
    PROVE  Nat \subseteq K
  <1> SUFFICES ASSUME Nat \ K # {} PROVE FALSE
    OBVIOUS
  <1> DEFINE x == Min(Nat \ K)
  <1>1. x \in Nat \ K /\ \A y \in Nat \ K : x <= y
    BY LeastThere
  <1> HIDE DEF x
  <1>2. x # 0 /\ x - 1 \in Nat /\ x - 1 + 1 = x
    BY <1>1
  <1> QED BY <1>1, <1>2

LEMMA GreatestThere ==
    ASSUME NEW T \in SUBSET Nat, T # {}, NEW m \in Nat, \A y \in T : y <= m
    PROVE  Max(T) \in T /\ \A y \in T : y <= Max(T)
  <1> DEFINE U == {m - y : y \in T}
             x == m - Min(U)
  <1>1. U \in SUBSET Nat /\ U # {}
    <2>1. \A y \in T : y \in Nat /\ y <= m /\ m - y \in Nat
      OBVIOUS
    <2> QED BY <2>1
  <1>2. Min(U) \in U /\ \A z \in U : Min(U) <= z
    BY <1>1, LeastThere
  <1>3. PICK y \in T : Min(U) = m - y
    BY <1>2
  <1>4. \A z \in T : Min(U) <= m - z
    BY <1>2
  <1> HIDE DEF U
  <1>5. y \in T /\ \A z \in T : z <= y
    BY <1>3, <1>4
  <1> QED BY <1>5 DEF Max

-----------------------------------------------------------------------------
(* The walk over the parents: it stays among the ifs, and ends at once if  *)
(* it begins at none or at one that is pending.                            *)
UpTo(n, m, u) ==
    /\ u \in [0..m -> Ifs \cup {0}]
    /\ \A k \in 0..m : u[k] = IF k = 0 THEN n
                              ELSE IF u[k - 1] = 0 THEN 0 ELSE node[u[k - 1]].parent

LEMMA UpExtends ==
    ASSUME GraphType, NEW n \in Ifs \cup {0}, NEW m \in Nat, NEW u, UpTo(n, m, u)
    PROVE  \E w : UpTo(n, m + 1, w)
  <1> DEFINE top == IF u[m] = 0 THEN 0 ELSE node[u[m]].parent
             w == [k \in 0..(m + 1) |-> IF k <= m THEN u[k] ELSE top]
  <1>1. u[m] \in Ifs \cup {0} /\ top \in Ifs \cup {0}
    BY DEF UpTo, GraphType, Ifs
  <1>2. \A k \in 0..m : u[k] \in Ifs \cup {0}
    BY DEF UpTo
  <1>3. \A k \in 0..m : u[k] = IF k = 0 THEN n
                               ELSE IF u[k - 1] = 0 THEN 0 ELSE node[u[k - 1]].parent
    BY DEF UpTo
  <1>4. w \in [0..(m + 1) -> Ifs \cup {0}]
    <2> HIDE DEF top
    <2> QED BY <1>1, <1>2
  <1>5. \A k \in 0..m : w[k] = u[k]
    OBVIOUS
  <1>6. w[m + 1] = top
    OBVIOUS
  <1> HIDE DEF w
  <1>7. ASSUME NEW k \in 0..(m + 1)
        PROVE  w[k] = IF k = 0 THEN n
                      ELSE IF w[k - 1] = 0 THEN 0 ELSE node[w[k - 1]].parent
    <2>1. CASE k <= m
      <3>1. k \in 0..m /\ (k # 0 => k - 1 \in 0..m)
        BY <2>1
      <3>2. w[k] = u[k] /\ (k # 0 => w[k - 1] = u[k - 1])
        BY <3>1, <1>5
      <3> QED BY <3>1, <3>2, <1>3, Zenon
    <2>2. CASE k = m + 1
      <3>1. k # 0 /\ k - 1 = m /\ w[m] = u[m]
        BY <2>2, <1>5
      <3> QED BY <3>1, <2>2, <1>6
    <2> QED BY <2>1, <2>2
  <1> QED BY <1>4, <1>7 DEF UpTo

LEMMA UpIsThere ==
    ASSUME GraphType, NEW n \in Ifs \cup {0}
    PROVE  \A m \in Nat : \E u : UpTo(n, m, u)
  <1> DEFINE K == {m \in Nat : \E u : UpTo(n, m, u)}
  <1>1. 0 \in K
    <2> DEFINE u == [k \in 0..0 |-> n]
    <2>1. u \in [0..0 -> Ifs \cup {0}] /\ u[0] = n
      OBVIOUS
    <2> HIDE DEF u
    <2>2. UpTo(n, 0, u)
      BY <2>1 DEF UpTo
    <2> QED BY <2>2
  <1>2. ASSUME NEW m \in Nat, m \in K PROVE m + 1 \in K
    BY <1>2, UpExtends
  <1> HIDE DEF K
  <1>3. Nat \subseteq K
    BY <1>1, <1>2, Inductive
  <1> QED BY <1>3 DEF K

LEMMA AncestorsAreIfs ==
    ASSUME GraphType, NEW n \in Ifs \cup {0}
    PROVE  /\ \A k \in 0..Len(node) : Ancestors(n)[k] \in Ifs \cup {0}
           /\ Ancestors(n)[0] = n
  <1> DEFINE m == Len(node)
             U == CHOOSE e : e = [k \in 0..m |->
                                    IF k = 0 THEN n
                                    ELSE IF e[k - 1] = 0 THEN 0 ELSE node[e[k - 1]].parent]
  <1>0. m \in Nat
    BY DEF GraphType
  <1>1. PICK u : UpTo(n, m, u)
    BY <1>0, UpIsThere
  <1>2. u = [k \in 0..m |-> IF k = 0 THEN n
                            ELSE IF u[k - 1] = 0 THEN 0 ELSE node[u[k - 1]].parent]
    BY <1>1 DEF UpTo
  <1>3. U = [k \in 0..m |-> IF k = 0 THEN n
                            ELSE IF U[k - 1] = 0 THEN 0 ELSE node[U[k - 1]].parent]
    BY <1>2, Zenon
  <1>4. Ancestors(n) = U
    BY DEF Ancestors
  <1> HIDE DEF U, m
  <1>5. \A k \in 0..m : U[k] = IF k = 0 THEN n
                               ELSE IF U[k - 1] = 0 THEN 0 ELSE node[U[k - 1]].parent
    BY <1>3, Zenon
  <1> DEFINE K == {k \in Nat : k <= m => U[k] \in Ifs \cup {0}}
  <1>6. U[0] = n
    BY <1>0, <1>5
  <1>7. 0 \in K
    BY <1>6
  <1>8. ASSUME NEW k \in Nat, k \in K PROVE k + 1 \in K
    <2> SUFFICES ASSUME k + 1 <= m PROVE U[k + 1] \in Ifs \cup {0}
      OBVIOUS
    <2>1. U[k] \in Ifs \cup {0}
      BY <1>0, <1>8
    <2>2. PICK j \in 0..m : j = k + 1
      BY <1>0
    <2>3. j # 0 /\ j - 1 = k
      BY <2>2
    <2>4. U[j] = IF U[k] = 0 THEN 0 ELSE node[U[k]].parent
      BY <1>5, <2>3, Zenon
    <2> QED BY <2>1, <2>2, <2>4 DEF GraphType, Ifs
  <1> HIDE DEF K
  <1>9. Nat \subseteq K
    BY <1>7, <1>8, Inductive
  <1> QED BY <1>0, <1>4, <1>6, <1>9 DEF K, m

LEMMA WalkEnds ==
    ASSUME GraphType, NEW n \in Ifs \cup {0}
    PROVE  /\ ~Circles(n) => FirstPending(n) \in Ifs \cup {0}
           /\ n = 0 \/ Pending(n) => ~Circles(n)
  <1>1. Len(node) \in Nat
    BY DEF GraphType
  <1>2. Ends(n) \in SUBSET Nat
    BY <1>1 DEF Ends
  <1>3. ~Circles(n) => Min(Ends(n)) \in 0..Len(node)
    <2>1. ~Circles(n) => Min(Ends(n)) \in Ends(n)
      BY <1>2, LeastThere DEF Circles
    <2> QED BY <2>1 DEF Ends
  <1>4. n = 0 \/ Pending(n) => 0 \in Ends(n)
    BY <1>1, AncestorsAreIfs DEF Ends
  <1> QED BY <1>3, <1>4, AncestorsAreIfs DEF Circles, FirstPending

-----------------------------------------------------------------------------
(* What the operators make of the stack and of the graph, field by field.  *)
LEMMA StackIs ==
    ASSUME StackType
    PROVE  /\ Depth \in Nat /\ Depth >= 1 /\ Inner = open[Depth] /\ Depth \in 1..Depth
           /\ \A i \in 1..Depth : open[i] \in FrameT
           /\ Inner.kind # "global" => Depth > 1
  BY DEF StackType, Inner, Depth, Last

LEMMA AppendIs ==
    ASSUME NEW s \in Seq(Nat), NEW n \in Nat
    PROVE  /\ Append(s, n) \in Seq(Nat) /\ Len(Append(s, n)) = Len(s) + 1 /\ Len(s) \in Nat
           /\ \A k \in 1..Len(s) : Append(s, n)[k] = s[k] /\ s[k] \in Nat
           /\ Append(s, n)[Len(s) + 1] = n
           /\ \A k \in 1..(Len(s) + 1) : k \in 1..Len(s) \/ k = Len(s) + 1
           /\ 1..Len(s) \subseteq 1..(Len(s) + 1) /\ Len(s) + 1 \in 1..(Len(s) + 1)
  <1>1. Len(s) \in Nat
    OBVIOUS
  <1>2. \A k \in 1..Len(s) : s[k] \in Nat
    BY ElementOfSeq
  <1>3. /\ Append(s, n) \in Seq(Nat) /\ Len(Append(s, n)) = Len(s) + 1
        /\ \A k \in 1..Len(s) : Append(s, n)[k] = s[k]
        /\ Append(s, n)[Len(s) + 1] = n
    BY AppendProperties
  <1> QED BY <1>1, <1>2, <1>3

LEMMA PoppedIs ==
    ASSUME StackType, Depth > 1, NEW n \in Nat
    PROVE  /\ Popped(n) \in Seq(FrameT) /\ Len(Popped(n)) = Depth - 1 /\ Popped(n) # <<>>
           /\ \A i \in 1..(Depth - 2) : Popped(n)[i] = open[i]
           /\ Popped(n)[Depth - 1].kind = Outer.kind
           /\ Popped(n)[Depth - 1].braced = Outer.braced
           /\ Popped(n)[Depth - 1].scope = Outer.scope
           /\ Popped(n)[Depth - 1].key = Outer.key
           /\ Popped(n)[Depth - 1].items = Append(Outer.items, n)
           /\ Popped(n)[Depth - 1].body = IF Outer.braced THEN Outer.body ELSE "done"
           /\ Outer = open[Depth - 1] /\ Outer \in FrameT /\ Outer.items \in Seq(Nat)
  <1>1. Depth \in Nat /\ Depth - 1 \in Nat /\ Depth - 1 \in 1..Depth /\ Depth - 1 \in 1..(Depth - 1)
        /\ \A i \in 1..Depth : open[i] \in FrameT
    BY StackIs
  <1>2. Outer \in FrameT /\ Outer = open[Depth - 1]
    BY <1>1 DEF Outer
  <1>3. Outer.items \in Seq(Nat) /\ Append(Outer.items, n) \in Seq(Nat)
    BY <1>2, AppendProperties DEF FrameT
  <1> DEFINE o == [Outer EXCEPT !.items = Append(@, n),
                                !.body = IF Outer.braced THEN @ ELSE "done"]
  <1>4. /\ o \in FrameT
        /\ o.kind = Outer.kind /\ o.braced = Outer.braced /\ o.scope = Outer.scope
        /\ o.key = Outer.key /\ o.items = Append(Outer.items, n)
        /\ o.body = IF Outer.braced THEN Outer.body ELSE "done"
    BY <1>2, <1>3 DEF FrameT
  <1>5. Popped(n) = [i \in 1..(Depth - 1) |-> IF i = Depth - 1 THEN o ELSE open[i]]
    BY DEF Popped
  <1> HIDE DEF o
  <1> DEFINE f == [i \in 1..(Depth - 1) |-> IF i = Depth - 1 THEN o ELSE open[i]]
  <1>6. f \in [1..(Depth - 1) -> FrameT]
    BY <1>1, <1>4
  <1>7. f[Depth - 1] = o /\ \A i \in 1..(Depth - 2) : f[i] = open[i]
    BY <1>1
  <1>8. f \in Seq(FrameT) /\ Len(f) = Depth - 1
    <2> HIDE DEF f
    <2>1. f \in Seq(FrameT)
      BY <1>1, <1>6
    <2>2. DOMAIN f = 1..(Depth - 1)
      BY <1>6
    <2> QED BY <1>1, <2>1, <2>2, LenProperties
  <1> HIDE DEF f
  <1>9. f # <<>>
    BY <1>1, <1>8
  <1> QED BY <1>2, <1>3, <1>4, <1>5, <1>7, <1>8, <1>9 DEF f

LEMMA FrameIs ==
    ASSUME StackType, scopes \in Nat, NEW kind \in Branches \cup Bodies, NEW braced \in BOOLEAN,
           NEW key \in Nat
    PROVE  LET f == Frame(kind, braced, key)
               t == Append(open, f)
           IN  /\ t \in Seq(FrameT) /\ Len(t) = Depth + 1 /\ t # <<>>
               /\ \A i \in 1..Depth : t[i] = open[i]
               /\ t[Depth + 1] = f
               /\ f.kind = kind /\ f.braced = braced /\ f.items = <<>> /\ f.scope = scopes + 1
               /\ f.key = key /\ f.body = IF braced THEN "list" ELSE "none"
  <1>1. Frame(kind, braced, key) \in FrameT
    <2>1. <<>> \in Seq(Nat) /\ scopes + 1 \in Nat
      OBVIOUS
    <2> QED BY <2>1 DEF Frame, FrameT
  <1>2. open \in Seq(FrameT)
    BY DEF StackType
  <1>3. Append(open, Frame(kind, braced, key)) # <<>>
    BY <1>1, <1>2, AppendProperties
  <1> QED BY <1>1, <1>2, <1>3, AppendProperties DEF Frame, Depth

LEMMA BodyDoneIs ==
    ASSUME StackType
    PROVE  LET t == [open EXCEPT ![Depth].body = "done"]
           IN  /\ t \in Seq(FrameT) /\ Len(t) = Depth /\ t # <<>>
               /\ \A i \in 1..(Depth - 1) : t[i] = open[i]
               /\ t[Depth].kind = Inner.kind /\ t[Depth].braced = Inner.braced
               /\ t[Depth].items = Inner.items /\ t[Depth].scope = Inner.scope
               /\ t[Depth].key = Inner.key /\ t[Depth].body = "done"
  <1>1. open \in Seq(FrameT) /\ Depth \in 1..Depth /\ Inner = open[Depth] /\ Inner \in FrameT
        /\ Depth \in Nat /\ Depth = Len(open)
    BY StackIs DEF StackType, Depth
  <1> DEFINE o == [Inner EXCEPT !.body = "done"]
             t == [open EXCEPT ![Depth] = o]
  <1>2. /\ o \in FrameT /\ o.kind = Inner.kind /\ o.braced = Inner.braced
        /\ o.items = Inner.items /\ o.scope = Inner.scope /\ o.key = Inner.key
        /\ o.body = "done"
    BY <1>1 DEF FrameT
  <1>3. [open EXCEPT ![Depth].body = "done"] = t
    BY <1>1
  <1> HIDE DEF o
  <1>4. /\ t \in Seq(FrameT) /\ Len(t) = Depth /\ t[Depth] = o
        /\ \A i \in 1..(Depth - 1) : t[i] = open[i]
    BY <1>1, <1>2
  <1>5. t # <<>>
    BY <1>1, <1>4
  <1> QED BY <1>2, <1>3, <1>4, <1>5

(* Two nodes are alike but for what is pending and the next of a chain.    *)
SameLinks(a, b) ==
    /\ a.kind = b.kind /\ a.of = b.of /\ a.dc = b.dc /\ a.belongs = b.belongs
    /\ a.elseIfs = b.elseIfs /\ a.else = b.else
SamePending(a, b) == a.pendElseIf = b.pendElseIf /\ a.pendElse = b.pendElse

(* A graph in which only what is pending is another.                       *)
Marked(f) ==
    /\ f \in Seq(NodeT) /\ Len(f) = Len(node)
    /\ \A n \in Nodes : /\ SameLinks(f[n], node[n]) /\ f[n].next = node[n].next
                        /\ f[n].parent = node[n].parent

LEMMA MarksPending ==
    ASSUME GraphType, CIF \in Ifs \cup {0}, NEW f
    PROVE  /\ f = node => Marked(f) /\ \A n \in Nodes : SamePending(f[n], node[n])
           /\ \A a, b \in BOOLEAN :
                  CIF # 0 /\ f = [node EXCEPT ![CIF].pendElseIf = a, ![CIF].pendElse = b] =>
                    /\ Marked(f) /\ f[CIF].pendElseIf = a /\ f[CIF].pendElse = b
                    /\ \A n \in Nodes \ {CIF} : SamePending(f[n], node[n])
           /\ CIF # 0 /\ f = [node EXCEPT ![CIF].pendElseIf = TRUE] =>
                /\ Marked(f) /\ f[CIF].pendElseIf = TRUE
                /\ \A n \in Nodes \ {CIF} : SamePending(f[n], node[n])
           /\ CIF # 0 /\ f = [node EXCEPT ![CIF].pendElse = TRUE] =>
                /\ Marked(f) /\ f[CIF].pendElse = TRUE
                /\ \A n \in Nodes \ {CIF} : SamePending(f[n], node[n])
  <1>1. node \in Seq(NodeT) /\ Len(node) \in Nat /\ \A n \in Nodes : node[n] \in NodeT
    BY DEF GraphType, Nodes
  <1>2. CIF # 0 => CIF \in Nodes /\ node[CIF] \in NodeT
    BY <1>1 DEF Ifs
  <1>3. f = node => Marked(f) /\ \A n \in Nodes : SamePending(f[n], node[n])
    BY <1>1 DEF Marked, SameLinks, SamePending
  <1>4. ASSUME CIF # 0, NEW o \in NodeT, f = [node EXCEPT ![CIF] = o],
               SameLinks(o, node[CIF]), o.next = node[CIF].next, o.parent = node[CIF].parent
        PROVE  /\ Marked(f) /\ f[CIF] = o
               /\ \A n \in Nodes \ {CIF} : SamePending(f[n], node[n])
    <2>1. f \in Seq(NodeT) /\ Len(f) = Len(node) /\ f[CIF] = o
          /\ \A n \in Nodes \ {CIF} : f[n] = node[n]
      BY <1>1, <1>2, <1>4 DEF Nodes
    <2> QED BY <2>1, <1>2, <1>4 DEF Marked, SamePending, SameLinks
  <1>5. ASSUME CIF # 0, NEW a \in BOOLEAN, NEW b \in BOOLEAN,
               f = [node EXCEPT ![CIF].pendElseIf = a, ![CIF].pendElse = b]
        PROVE  /\ Marked(f) /\ f[CIF].pendElseIf = a /\ f[CIF].pendElse = b
               /\ \A n \in Nodes \ {CIF} : SamePending(f[n], node[n])
    <2> DEFINE o == [node[CIF] EXCEPT !.pendElseIf = a, !.pendElse = b]
    <2>1. o \in NodeT /\ SameLinks(o, node[CIF]) /\ o.next = node[CIF].next
          /\ o.parent = node[CIF].parent /\ o.pendElseIf = a /\ o.pendElse = b
      BY <1>2, <1>5 DEF NodeT, SameLinks
    <2>2. f = [node EXCEPT ![CIF] = o]
      BY <1>1, <1>2, <1>5 DEF Nodes
    <2> HIDE DEF o
    <2> QED BY <1>4, <1>5, <2>1, <2>2
  <1>6. ASSUME CIF # 0, f = [node EXCEPT ![CIF].pendElseIf = TRUE]
        PROVE  /\ Marked(f) /\ f[CIF].pendElseIf = TRUE
               /\ \A n \in Nodes \ {CIF} : SamePending(f[n], node[n])
    <2> DEFINE o == [node[CIF] EXCEPT !.pendElseIf = TRUE]
    <2>1. o \in NodeT /\ SameLinks(o, node[CIF]) /\ o.next = node[CIF].next
          /\ o.parent = node[CIF].parent /\ o.pendElseIf = TRUE
      BY <1>2, <1>6 DEF NodeT, SameLinks
    <2>2. f = [node EXCEPT ![CIF] = o]
      BY <1>1, <1>2, <1>6 DEF Nodes
    <2> HIDE DEF o
    <2> QED BY <1>4, <1>6, <2>1, <2>2
  <1>7. ASSUME CIF # 0, f = [node EXCEPT ![CIF].pendElse = TRUE]
        PROVE  /\ Marked(f) /\ f[CIF].pendElse = TRUE
               /\ \A n \in Nodes \ {CIF} : SamePending(f[n], node[n])
    <2> DEFINE o == [node[CIF] EXCEPT !.pendElse = TRUE]
    <2>1. o \in NodeT /\ SameLinks(o, node[CIF]) /\ o.next = node[CIF].next
          /\ o.parent = node[CIF].parent /\ o.pendElse = TRUE
      BY <1>2, <1>7 DEF NodeT, SameLinks
    <2>2. f = [node EXCEPT ![CIF] = o]
      BY <1>1, <1>2, <1>7 DEF Nodes
    <2> HIDE DEF o
    <2> QED BY <1>4, <1>7, <2>1, <2>2
  <1> QED BY <1>3, <1>5, <1>6, <1>7

(* The keyword of a branch marks the current if; so does a right brace     *)
(* before one.                                                             *)
LEMMA KeywordMarks ==
    ASSUME TypeInv, NEW flag \in {"pendElseIf", "pendElse"}, SetPending(flag)
    PROVE  /\ Marked(node') /\ (CIF # 0 => node'[CIF].pendElseIf \/ node'[CIF].pendElse)
           /\ \A n \in Nodes \ {CIF} : SamePending(node'[n], node[n])
  <1>1. GraphType /\ CIF \in Ifs \cup {0}
    BY DEF TypeInv, TrackerType
  <1>2. CASE CIF = 0
    BY <1>1, <1>2, MarksPending DEF SetPending
  <1>3. CASE CIF # 0 /\ flag = "pendElseIf"
    <2>1. node' = [node EXCEPT ![CIF].pendElseIf = TRUE]
      BY <1>3 DEF SetPending
    <2> QED BY <1>1, <1>3, <2>1, MarksPending
  <1>4. CASE CIF # 0 /\ flag = "pendElse"
    <2>1. node' = [node EXCEPT ![CIF].pendElse = TRUE]
      BY <1>4 DEF SetPending
    <2> QED BY <1>1, <1>4, <2>1, MarksPending
  <1> QED BY <1>2, <1>3, <1>4

LEMMA BraceMarks ==
    ASSUME TypeInv, BeforeElseIf \/ BeforeElse \/ BeforeOther
    PROVE  /\ Marked(node') /\ \A n \in Nodes \ {CIF} : SamePending(node'[n], node[n])
           /\ CIF # 0 /\ (BeforeElseIf \/ BeforeElse) =>
                node'[CIF].pendElseIf \/ node'[CIF].pendElse
           /\ BeforeOther /\ Inner.kind # "elseif" => node' = node
           /\ PendingElseIf' \in BOOLEAN /\ PendingElse' \in BOOLEAN /\ EIPendingElse' \in BOOLEAN
           /\ braces' \in [L : 0..1, R : Nat]
           /\ Inner.kind # "if" => braces' = braces
  <1>1. GraphType /\ CIF \in Ifs \cup {0} /\ braces \in [L : 0..1, R : Nat]
        /\ PendingElseIf \in BOOLEAN /\ PendingElse \in BOOLEAN /\ EIPendingElse \in BOOLEAN
    BY DEF TypeInv, TrackerType
  <1>2. CASE BeforeElseIf
    <2>1. node' = IF CIF = 0 THEN node
                  ELSE [node EXCEPT ![CIF].pendElseIf = TRUE, ![CIF].pendElse = FALSE]
      BY <1>2 DEF BeforeElseIf
    <2>2. /\ Marked(node') /\ \A n \in Nodes \ {CIF} : SamePending(node'[n], node[n])
          /\ CIF # 0 => node'[CIF].pendElseIf
      BY <1>1, <2>1, MarksPending
    <2>3. /\ PendingElseIf' \in BOOLEAN /\ PendingElse' = PendingElse
          /\ EIPendingElse' = EIPendingElse /\ braces' = braces
      BY <1>1, <1>2 DEF BeforeElseIf
    <2>4. ~BeforeOther \/ Inner.kind = "elseif" \/ node' = node
      BY DEF BeforeOther
    <2> QED BY <1>1, <2>2, <2>3, <2>4
  <1>3. CASE BeforeElse
    <2>1. node' = IF CIF = 0 THEN node
                  ELSE [node EXCEPT ![CIF].pendElseIf = FALSE, ![CIF].pendElse = TRUE]
      BY <1>3 DEF BeforeElse
    <2>2. /\ Marked(node') /\ \A n \in Nodes \ {CIF} : SamePending(node'[n], node[n])
          /\ CIF # 0 => node'[CIF].pendElse
      BY <1>1, <2>1, MarksPending
    <2>3. /\ PendingElseIf' = PendingElseIf /\ PendingElse' \in BOOLEAN
          /\ EIPendingElse' \in BOOLEAN /\ braces' = braces
      BY <1>1, <1>3 DEF BeforeElse
    <2>4. ~BeforeOther \/ Inner.kind = "elseif" \/ node' = node
      BY DEF BeforeOther
    <2> QED BY <1>1, <2>2, <2>3, <2>4
  <1>4. CASE BeforeOther /\ ~BeforeElseIf /\ ~BeforeElse
    <2>1. node' = IF Inner.kind = "elseif" /\ CIF # 0
                  THEN [node EXCEPT ![CIF].pendElseIf = FALSE, ![CIF].pendElse = FALSE]
                  ELSE node
      BY <1>4 DEF BeforeOther
    <2>2. /\ Marked(node') /\ \A n \in Nodes \ {CIF} : SamePending(node'[n], node[n])
      BY <1>1, <2>1, MarksPending
    <2>3. PendingElseIf' \in BOOLEAN /\ PendingElse' \in BOOLEAN /\ EIPendingElse' \in BOOLEAN
      BY <1>1, <1>4 DEF BeforeOther
    <2>4. braces' = [braces EXCEPT !.R = IF Inner.kind = "if" THEN @ + 1 ELSE @]
      BY <1>4 DEF BeforeOther
    <2>5. braces' \in [L : 0..1, R : Nat] /\ (Inner.kind # "if" => braces' = braces)
      BY <1>1, <2>4
    <2> QED BY <1>4, <2>1, <2>2, <2>3, <2>5
  <1> QED BY <1>2, <1>3, <1>4

(* The last if of a list is a number, and the if after which none is.      *)
LEMMA LastIfIs ==
    ASSUME NEW items \in Seq(Nat), NEW m \in 0..Len(items)
    PROVE  /\ LastIf(items, m) \in Nat
           /\ \A p \in 1..m :
                /\ KindOf(items[p]) = "if"
                /\ \A q \in 1..m : p < q => KindOf(items[q]) # "if"
                => LastIf(items, m) = items[p]
  <1> DEFINE T == {j \in 1..m : KindOf(items[j]) = "if"}
  <1>1. m \in Nat /\ T \in SUBSET Nat /\ T \subseteq 1..m /\ \A y \in T : y <= m
    OBVIOUS
  <1>2. LastIf(items, m) = IF T = {} THEN 0 ELSE items[Max(T)]
    BY DEF LastIf
  <1>3. \A p \in 1..m : p \in T <=> KindOf(items[p]) = "if"
    OBVIOUS
  <1>4. \A i \in 1..m : items[i] \in Nat
    OBVIOUS
  <1> HIDE DEF T
  <1>5. T # {} => Max(T) \in T /\ \A y \in T : y <= Max(T)
    BY <1>1, GreatestThere
  <1>6. LastIf(items, m) \in Nat
    <2>1. T # {} => Max(T) \in 1..m
      BY <1>1, <1>5
    <2>2. T # {} => items[Max(T)] \in Nat
      BY <1>4, <2>1
    <2> QED BY <1>2, <2>2
  <1>7. ASSUME NEW p \in 1..m, KindOf(items[p]) = "if",
               \A q \in 1..m : p < q => KindOf(items[q]) # "if"
        PROVE  LastIf(items, m) = items[p]
    <2>1. p \in T
      BY <1>3, <1>7
    <2>2. Max(T) \in 1..m /\ p <= Max(T) /\ KindOf(items[Max(T)]) = "if"
      BY <2>1, <1>1, <1>3, <1>5
    <2>3. Max(T) = p
      BY <1>1, <1>7, <2>2
    <2> QED BY <2>1, <2>3, <1>2
  <1> QED BY <1>6, <1>7

(* A node is added.                                                        *)
Added(kind, of, parent) == Append(node, NewNode(kind, of, parent))

LEMMA AddedIs ==
    ASSUME TypeInv, Depth > 1, NEW kind \in Branches, NEW of \in Nat, NEW parent \in Nat
    PROVE  LET f == Added(kind, of, parent) IN
           /\ f \in Seq(NodeT) /\ Len(f) = N /\ N \in Nat /\ N \notin Nodes /\ Len(node) \in Nat
           /\ \A n \in Nodes : f[n] = node[n]
           /\ f[N].kind = kind /\ f[N].of = of /\ f[N].parent = parent
           /\ f[N].dc = Outer.scope /\ f[N].elseIfs = <<>> /\ f[N].else = 0 /\ f[N].next = 0
           /\ f[N].belongs = IF kind = "if" THEN 0 ELSE LastIf(Outer.items, Len(Outer.items))
  <1>1. node \in Seq(NodeT) /\ Len(node) \in Nat
    BY DEF TypeInv, GraphType
  <1>2. Outer \in FrameT /\ Outer.scope \in Nat /\ Outer.items \in Seq(Nat)
    BY PoppedIs DEF TypeInv, FrameT
  <1>3. LastIf(Outer.items, Len(Outer.items)) \in Nat
    <2>1. Len(Outer.items) \in 0..Len(Outer.items)
      BY <1>2
    <2> QED BY <1>2, <2>1, LastIfIs
  <1>4. <<>> \in Seq(Nat) /\ PendingElseIf \in BOOLEAN /\ PendingElse \in BOOLEAN
    BY DEF TypeInv, TrackerType
  <1> DEFINE o == NewNode(kind, of, parent)
  <1>5. /\ o \in NodeT
        /\ o.kind = kind /\ o.of = of /\ o.parent = parent
        /\ o.dc = Outer.scope /\ o.elseIfs = <<>> /\ o.else = 0 /\ o.next = 0
        /\ o.belongs = IF kind = "if" THEN 0 ELSE LastIf(Outer.items, Len(Outer.items))
    <2> DEFINE b == IF kind = "if" THEN 0 ELSE LastIf(Outer.items, Len(Outer.items))
               pi == kind = "if" /\ PendingElseIf
               pe == kind = "if" /\ PendingElse
    <2>1. b \in Nat /\ pi \in BOOLEAN /\ pe \in BOOLEAN
      BY <1>3, <1>4
    <2>2. o = [kind |-> kind, of |-> of, dc |-> Outer.scope, parent |-> parent,
               elseIfs |-> <<>>, else |-> 0, next |-> 0,
               pendElseIf |-> pi, pendElse |-> pe, belongs |-> b]
      BY DEF NewNode, o
    <2> HIDE DEF b, pi, pe, o
    <2>3. /\ o \in NodeT
          /\ o.kind = kind /\ o.of = of /\ o.parent = parent
          /\ o.dc = Outer.scope /\ o.elseIfs = <<>> /\ o.else = 0 /\ o.next = 0
          /\ o.belongs = b
      BY <2>1, <2>2, <1>2, <1>4 DEF NodeT
    <2> QED BY <2>3 DEF b
  <1> HIDE DEF o
  <1>6. /\ Append(node, o) \in Seq(NodeT) /\ Len(Append(node, o)) = Len(node) + 1
        /\ Append(node, o)[Len(node) + 1] = o
        /\ \A n \in Nodes : Append(node, o)[n] = node[n]
    BY <1>1, <1>5, AppendProperties DEF Nodes
  <1> QED BY <1>1, <1>5, <1>6 DEF N, Added, o, Nodes

LEMMA BranchAddedIs ==
    ASSUME TypeInv, Depth > 1, NEW kind \in {"elseif", "else"}, NEW c \in Nodes,
           NEW f, f = Added(kind, c, 0)
    PROVE  /\ f \in Seq(NodeT) /\ Len(f) = N /\ N \in Nat /\ N \notin Nodes /\ Len(node) \in Nat
           /\ \A n \in Nodes : f[n] = node[n]
           /\ f[N].kind = kind /\ f[N].of = c /\ f[N].parent = 0 /\ f[N].dc = Outer.scope
           /\ f[N].elseIfs = <<>> /\ f[N].else = 0 /\ f[N].next = 0
           /\ f[N].belongs = LastIf(Outer.items, Len(Outer.items))
  <1>1. kind \in Branches /\ kind # "if" /\ c \in Nat /\ 0 \in Nat
    BY DEF Branches, Nodes
  <1> DEFINE r == Added(kind, c, 0)
  <1>2. /\ r \in Seq(NodeT) /\ Len(r) = N /\ N \in Nat /\ N \notin Nodes /\ Len(node) \in Nat
        /\ \A n \in Nodes : r[n] = node[n]
        /\ r[N].kind = kind /\ r[N].of = c /\ r[N].parent = 0
        /\ r[N].dc = Outer.scope /\ r[N].elseIfs = <<>> /\ r[N].else = 0 /\ r[N].next = 0
        /\ r[N].belongs = IF kind = "if" THEN 0 ELSE LastIf(Outer.items, Len(Outer.items))
    BY <1>1, AddedIs
  <1>3. f = r
    OBVIOUS
  <1> HIDE DEF r
  <1> QED BY <1>1, <1>2, <1>3

(* Else ifs are attached, linked in order and to the next one.             *)
LEMMA AttachedIs ==
    ASSUME NEW f \in Seq(NodeT), NEW c \in 1..Len(f), NEW n \in Nat
    PROVE  LET g == AttachElseIf(f, c, n)
           IN  /\ g \in Seq(NodeT) /\ Len(g) = Len(f)
               /\ \A m \in 1..Len(f) : m # c => g[m] = f[m]
               /\ g[c].elseIfs = Append(f[c].elseIfs, n)
               /\ g[c].kind = f[c].kind /\ g[c].of = f[c].of /\ g[c].dc = f[c].dc
               /\ g[c].belongs = f[c].belongs /\ g[c].else = f[c].else
               /\ g[c].parent = f[c].parent /\ g[c].next = f[c].next
               /\ SamePending(g[c], f[c])
  <1>0. f[c] \in NodeT
    OBVIOUS
  <1>1. f[c] \in NodeT /\ f[c].elseIfs \in Seq(Nat)
    BY <1>0 DEF NodeT
  <1>2. Append(f[c].elseIfs, n) \in Seq(Nat)
    BY <1>1, AppendProperties
  <1> DEFINE v == Append(f[c].elseIfs, n)
             o == [f[c] EXCEPT !.elseIfs = v]
  <1>3. AttachElseIf(f, c, n) = [f EXCEPT ![c] = o]
    BY DEF AttachElseIf
  <1> HIDE DEF v
  <1>4. /\ o \in NodeT /\ o.elseIfs = v
        /\ o.kind = f[c].kind /\ o.of = f[c].of /\ o.dc = f[c].dc
        /\ o.belongs = f[c].belongs /\ o.else = f[c].else
        /\ o.parent = f[c].parent /\ o.next = f[c].next
        /\ SamePending(o, f[c])
    BY <1>1, <1>2 DEF NodeT, SamePending, v
  <1> HIDE DEF o
  <1>5. [f EXCEPT ![c] = o] \in Seq(NodeT) /\ Len([f EXCEPT ![c] = o]) = Len(f)
        /\ [f EXCEPT ![c] = o][c] = o
        /\ \A m \in 1..Len(f) : m # c => [f EXCEPT ![c] = o][m] = f[m]
    BY <1>4
  <1> QED BY <1>3, <1>4, <1>5 DEF v

(* Two graphs differ in the links along chains only.                       *)
Relinked(g, f) ==
    /\ g \in Seq(NodeT) /\ Len(g) = Len(f)
    /\ \A m \in 1..Len(f) : /\ SameLinks(g[m], f[m]) /\ SamePending(g[m], f[m])
                            /\ g[m].parent = f[m].parent

LEMMA NextIs ==
    ASSUME NEW o \in NodeT, NEW n \in Nat
    PROVE  LET r == [o EXCEPT !.next = n]
           IN  r \in NodeT /\ SameLinks(r, o) /\ SamePending(r, o)
               /\ r.parent = o.parent /\ r.next = n
  BY DEF NodeT, SameLinks, SamePending

LEMMA LinkedIs ==
    ASSUME NEW f \in Seq(NodeT), NEW e \in 0..Len(f), NEW n \in Nat
    PROVE  /\ Relinked(Linked(f, e, n), f)
           /\ \A m \in 1..Len(f) :
                Linked(f, e, n)[m].next = IF m = e THEN n ELSE f[m].next
  <1>1. Len(f) \in Nat /\ \A m \in 1..Len(f) : f[m] \in NodeT
    OBVIOUS
  <1>2. CASE e = 0
    <2>1. Linked(f, e, n) = f
      BY <1>2 DEF Linked
    <2> QED BY <1>1, <1>2, <2>1 DEF Relinked, SameLinks, SamePending
  <1>3. CASE e # 0
    <2> DEFINE o == [f[e] EXCEPT !.next = n]
               g == [f EXCEPT ![e] = o]
    <2>1. e \in 1..Len(f) /\ f[e] \in NodeT
      BY <1>1, <1>3
    <2>2. Linked(f, e, n) = g
      BY <1>3, <2>1 DEF Linked
    <2>3. o \in NodeT /\ SameLinks(o, f[e]) /\ SamePending(o, f[e])
          /\ o.parent = f[e].parent /\ o.next = n
      BY <2>1, NextIs
    <2> HIDE DEF o
    <2>4. g \in Seq(NodeT) /\ Len(g) = Len(f) /\ g[e] = o
          /\ \A m \in 1..Len(f) : m # e => g[m] = f[m]
      BY <2>1, <2>3
    <2> HIDE DEF g
    <2> QED BY <2>1, <2>2, <2>3, <2>4, <1>3 DEF Relinked, SameLinks, SamePending
  <1> QED BY <1>2, <1>3

LEMMA NormalizedIs ==
    ASSUME NEW f \in Seq(NodeT), NEW c \in 1..Len(f)
    PROVE  LET g == Normalized(f, c)
               v == f[c].elseIfs
           IN  /\ Relinked(g, f)
               /\ \A m \in 1..Len(f) :
                    (\A k \in 1..Len(v) : v[k] # m) => g[m].next = f[m].next
               /\ \A k \in 1..Len(v) :
                    v[k] \in 1..Len(f) /\ (\A l \in 1..Len(v) : v[k] = v[l] => k = l) =>
                      g[v[k]].next = IF k = Len(v) THEN 0 ELSE v[k + 1]
  <1> DEFINE v == f[c].elseIfs
             At(m) == CHOOSE k \in DOMAIN v : v[k] = m
             to(m) == IF At(m) = Len(v) THEN 0 ELSE v[At(m) + 1]
             g == [m \in DOMAIN f |->
                     IF \E k \in DOMAIN v : v[k] = m THEN [f[m] EXCEPT !.next = to(m)] ELSE f[m]]
  <1>1. Len(f) \in Nat /\ DOMAIN f = 1..Len(f) /\ \A m \in 1..Len(f) : f[m] \in NodeT
    OBVIOUS
  <1>2. v \in Seq(Nat) /\ Len(v) \in Nat /\ DOMAIN v = 1..Len(v)
        /\ \A k \in 1..Len(v) : v[k] \in Nat
    <2>1. v \in Seq(Nat)
      BY <1>1 DEF NodeT
    <2> HIDE DEF v
    <2> QED BY <2>1
  <1>3. Normalized(f, c) = g
    BY DEF Normalized
  <1> HIDE DEF v
  <1>4. ASSUME NEW m, NEW k \in 1..Len(v), v[k] = m
        PROVE  At(m) \in 1..Len(v) /\ v[At(m)] = m /\ to(m) \in Nat
    <2>1. At(m) \in 1..Len(v) /\ v[At(m)] = m
      BY <1>2, <1>4
    <2> HIDE DEF At
    <2>2. At(m) # Len(v) => At(m) + 1 \in 1..Len(v)
      BY <1>2, <2>1
    <2> QED BY <1>2, <2>1, <2>2
  <1> HIDE DEF At
  <1>5. ASSUME NEW m \in 1..Len(f)
        PROVE  /\ g[m] \in NodeT /\ SameLinks(g[m], f[m]) /\ SamePending(g[m], f[m])
               /\ g[m].parent = f[m].parent
               /\ (\A k \in 1..Len(v) : v[k] # m) => g[m].next = f[m].next
               /\ (\E k \in 1..Len(v) : v[k] = m) => g[m].next = to(m)
    <2>1. g[m] = IF \E k \in 1..Len(v) : v[k] = m THEN [f[m] EXCEPT !.next = to(m)] ELSE f[m]
      BY <1>1, <1>2
    <2> HIDE DEF g
    <2>2. CASE \E k \in 1..Len(v) : v[k] = m
      <3>1. to(m) \in Nat
        BY <1>4, <2>2
      <3> HIDE DEF to
      <3>2. LET r == [f[m] EXCEPT !.next = to(m)]
            IN  r \in NodeT /\ SameLinks(r, f[m]) /\ SamePending(r, f[m])
                /\ r.parent = f[m].parent /\ r.next = to(m)
        BY <1>1, <3>1, NextIs
      <3> QED BY <2>1, <2>2, <3>2
    <2>3. CASE ~ \E k \in 1..Len(v) : v[k] = m
      BY <1>1, <2>1, <2>3 DEF SameLinks, SamePending
    <2> QED BY <2>2, <2>3
  <1>6. g \in Seq(NodeT) /\ Len(g) = Len(f)
    <2>1. DOMAIN g = 1..Len(f)
      BY <1>1
    <2>2. \A m \in 1..Len(f) : g[m] \in NodeT
      BY <1>5
    <2>3. g = [m \in 1..Len(f) |-> g[m]]
      BY <1>1
    <2> HIDE DEF g
    <2>4. g \in [1..Len(f) -> NodeT]
      BY <2>2, <2>3
    <2>5. g \in Seq(NodeT)
      BY <1>1, <2>4
    <2> QED BY <1>1, <2>1, <2>5, LenProperties
  <1>7. Relinked(g, f)
    BY <1>5, <1>6 DEF Relinked
  <1> HIDE DEF g
  <1>8. ASSUME NEW k \in 1..Len(v), v[k] \in 1..Len(f), \A l \in 1..Len(v) : v[k] = v[l] => k = l
        PROVE  g[v[k]].next = IF k = Len(v) THEN 0 ELSE v[k + 1]
    <2>1. g[v[k]].next = to(v[k])
      BY <1>5, <1>8
    <2>2. At(v[k]) = k
      BY <1>4, <1>8
    <2> QED BY <2>1, <2>2
  <1> QED BY <1>3, <1>5, <1>7, <1>8 DEF v

(* An else is attached: to an if that is pending, or not.                  *)
ElseOf(g, f, c, n) ==
    /\ g \in Seq(NodeT) /\ Len(g) = Len(f)
    /\ \A m \in 1..Len(f) : m # c => g[m] = f[m]
    /\ g[c].else = n /\ g[c].elseIfs = f[c].elseIfs
    /\ g[c].kind = f[c].kind /\ g[c].of = f[c].of /\ g[c].dc = f[c].dc
    /\ g[c].belongs = f[c].belongs /\ g[c].parent = f[c].parent /\ g[c].next = f[c].next

LEMMA ElseIs ==
    ASSUME NEW f \in Seq(NodeT), NEW c \in 1..Len(f), NEW n \in Nat
    PROVE  /\ ElseOf([f EXCEPT ![c].else = n], f, c, n)
           /\ ElseOf([f EXCEPT ![c].else = n, ![c].pendElseIf = FALSE], f, c, n)
  <1>1. f[c] \in NodeT /\ Len(f) \in Nat
    OBVIOUS
  <1>2. ASSUME NEW o \in NodeT, o.else = n, o.elseIfs = f[c].elseIfs,
               o.kind = f[c].kind, o.of = f[c].of, o.dc = f[c].dc, o.belongs = f[c].belongs,
               o.parent = f[c].parent, o.next = f[c].next
        PROVE  ElseOf([f EXCEPT ![c] = o], f, c, n)
    <2> DEFINE g == [f EXCEPT ![c] = o]
    <2>1. g \in Seq(NodeT) /\ Len(g) = Len(f) /\ g[c] = o
          /\ \A m \in 1..Len(f) : m # c => g[m] = f[m]
      OBVIOUS
    <2> HIDE DEF g
    <2>2. ElseOf(g, f, c, n)
      BY <1>2, <2>1 DEF ElseOf
    <2> QED BY <2>2 DEF g
  <1>3. ElseOf([f EXCEPT ![c].else = n], f, c, n)
    <2> DEFINE o == [f[c] EXCEPT !.else = n]
    <2>1. /\ o \in NodeT /\ o.else = n /\ o.elseIfs = f[c].elseIfs
          /\ o.kind = f[c].kind /\ o.of = f[c].of /\ o.dc = f[c].dc /\ o.belongs = f[c].belongs
          /\ o.parent = f[c].parent /\ o.next = f[c].next
      BY <1>1 DEF NodeT
    <2>2. [f EXCEPT ![c].else = n] = [f EXCEPT ![c] = o]
      OBVIOUS
    <2> HIDE DEF o
    <2> QED BY <2>1, <2>2, <1>2
  <1>4. ElseOf([f EXCEPT ![c].else = n, ![c].pendElseIf = FALSE], f, c, n)
    <2> DEFINE o == [f[c] EXCEPT !.else = n, !.pendElseIf = FALSE]
    <2>1. /\ o \in NodeT /\ o.else = n /\ o.elseIfs = f[c].elseIfs
          /\ o.kind = f[c].kind /\ o.of = f[c].of /\ o.dc = f[c].dc /\ o.belongs = f[c].belongs
          /\ o.parent = f[c].parent /\ o.next = f[c].next
      BY <1>1 DEF NodeT
    <2>2. [f EXCEPT ![c].else = n, ![c].pendElseIf = FALSE] = [f EXCEPT ![c] = o]
      OBVIOUS
    <2> HIDE DEF o
    <2> QED BY <2>1, <2>2, <1>2
  <1> QED BY <1>3, <1>4

(* The ifs of a list are adopted.                                          *)
AdoptedFrom(g, f, items, n) ==
    /\ g \in Seq(NodeT) /\ Len(g) = Len(f)
    /\ \A m \in 1..Len(f) :
         /\ SameLinks(g[m], f[m]) /\ SamePending(g[m], f[m]) /\ g[m].next = f[m].next
         /\ g[m].parent = IF f[m].kind = "if" /\ \E j \in 1..Len(items) : items[j] = m
                          THEN n ELSE f[m].parent

LEMMA AdoptedIs ==
    ASSUME NEW f \in Seq(NodeT), NEW items \in Seq(Nat), NEW n \in Nat
    PROVE  AdoptedFrom(Adopted(f, items, n), f, items, n)
  <1> DEFINE g == [m \in DOMAIN f |->
                     IF f[m].kind = "if" /\ \E j \in DOMAIN items : items[j] = m
                     THEN [f[m] EXCEPT !.parent = n] ELSE f[m]]
  <1>1. /\ Len(f) \in Nat /\ DOMAIN f = 1..Len(f) /\ \A m \in 1..Len(f) : f[m] \in NodeT
        /\ DOMAIN items = 1..Len(items)
    OBVIOUS
  <1>2. Adopted(f, items, n) = g
    BY DEF Adopted
  <1>3. ASSUME NEW m \in 1..Len(f)
        PROVE  /\ g[m] \in NodeT
               /\ SameLinks(g[m], f[m]) /\ SamePending(g[m], f[m]) /\ g[m].next = f[m].next
               /\ g[m].parent = IF f[m].kind = "if" /\ \E j \in 1..Len(items) : items[j] = m
                                THEN n ELSE f[m].parent
    <2> DEFINE P == f[m].kind = "if" /\ \E j \in 1..Len(items) : items[j] = m
               r == [f[m] EXCEPT !.parent = n]
    <2>1. g[m] = IF P THEN r ELSE f[m]
      BY <1>1
    <2> HIDE DEF g
    <2>2. f[m] \in NodeT
      BY <1>1
    <2>3. r \in NodeT /\ SameLinks(r, f[m]) /\ SamePending(r, f[m])
          /\ r.parent = n /\ r.next = f[m].next
      BY <2>2 DEF NodeT, SameLinks, SamePending
    <2> HIDE DEF r
    <2>4. CASE P
      <3>1. g[m] = r
        BY <2>1, <2>4
      <3>2. g[m].parent = n
        BY <2>3, <3>1
      <3> QED BY <2>3, <2>4, <3>1, <3>2
    <2>5. CASE ~P
      <3>1. g[m] = f[m]
        BY <2>1, <2>5
      <3> QED BY <2>2, <2>5, <3>1 DEF SameLinks, SamePending
    <2> QED BY <2>4, <2>5
  <1>4. g \in Seq(NodeT) /\ Len(g) = Len(f)
    <2>1. DOMAIN g = 1..Len(f)
      BY <1>1
    <2>2. \A m \in 1..Len(f) : g[m] \in NodeT
      BY <1>3
    <2>3. g = [m \in 1..Len(f) |-> g[m]]
      BY <1>1
    <2> HIDE DEF g
    <2>4. g \in [1..Len(f) -> NodeT]
      BY <2>2, <2>3
    <2>5. g \in Seq(NodeT)
      BY <1>1, <2>4
    <2> QED BY <1>1, <2>1, <2>5, LenProperties
  <1> HIDE DEF g
  <1>5. AdoptedFrom(g, f, items, n)
    BY <1>3, <1>4 DEF AdoptedFrom
  <1> QED BY <1>2, <1>5

(* The graph grows by an else if, or an else, of c.                        *)
GrownBy(f, kind, c) ==
    /\ f \in Seq(NodeT) /\ Len(f) = N
    /\ \A n \in Nodes :
         /\ f[n].kind = node[n].kind /\ f[n].of = node[n].of /\ f[n].dc = node[n].dc
         /\ f[n].parent = node[n].parent /\ f[n].belongs = node[n].belongs
         /\ f[n].elseIfs = IF kind = "elseif" /\ n = c THEN Append(node[n].elseIfs, N)
                           ELSE node[n].elseIfs
         /\ f[n].else = IF kind = "else" /\ n = c THEN N ELSE node[n].else
    /\ f[N].kind = kind /\ f[N].of = c /\ f[N].dc = Outer.scope /\ f[N].parent = 0
    /\ f[N].elseIfs = <<>> /\ f[N].else = 0
    /\ f[N].belongs = LastIf(Outer.items, Len(Outer.items))

LEMMA GrowsByElseIf ==
    ASSUME TypeInv, Depth > 1, NEW c \in Nodes
    PROVE  LET f == AttachElseIf(Append(node, NewNode("elseif", c, 0)), c, N)
           IN  /\ GrownBy(f, "elseif", c) /\ f[N].next = 0
               /\ \A n \in Nodes : f[n].next = node[n].next /\ SamePending(f[n], node[n])
               /\ \A g : Relinked(g, f) => GrownBy(g, "elseif", c)
                                           /\ \A n \in Nodes : SamePending(g[n], node[n])
  <1> DEFINE b == Append(node, NewNode("elseif", c, 0))
             f == AttachElseIf(b, c, N)
  <1>1. c \in Nat /\ 0 \in Nat /\ "elseif" \in Branches
    BY DEF Branches, Nodes
  <1>2. /\ b \in Seq(NodeT) /\ Len(b) = N /\ N \in Nat /\ N \notin Nodes /\ Len(node) \in Nat
        /\ \A n \in Nodes : b[n] = node[n]
        /\ b[N].kind = "elseif" /\ b[N].of = c /\ b[N].parent = 0 /\ b[N].dc = Outer.scope
        /\ b[N].elseIfs = <<>> /\ b[N].else = 0 /\ b[N].next = 0
        /\ b[N].belongs = LastIf(Outer.items, Len(Outer.items))
    <2>1. b = Added("elseif", c, 0)
      BY DEF Added
    <2> HIDE DEF b
    <2> QED BY <2>1, BranchAddedIs
  <1> HIDE DEF b
  <1>3. c \in 1..Len(b) /\ c # N /\ N \in 1..Len(b) /\ \A n \in Nodes : n \in 1..Len(b)
    BY <1>2 DEF Nodes, N
  <1>4. /\ f \in Seq(NodeT) /\ Len(f) = Len(b)
        /\ \A m \in 1..Len(b) : m # c => f[m] = b[m]
        /\ f[c].elseIfs = Append(b[c].elseIfs, N)
        /\ f[c].kind = b[c].kind /\ f[c].of = b[c].of /\ f[c].dc = b[c].dc
        /\ f[c].belongs = b[c].belongs /\ f[c].else = b[c].else
        /\ f[c].parent = b[c].parent /\ f[c].next = b[c].next
        /\ SamePending(f[c], b[c])
    BY <1>2, <1>3, AttachedIs
  <1> HIDE DEF f
  <1>5. f[N] = b[N] /\ \A n \in Nodes : n # c => f[n] = node[n]
    BY <1>2, <1>3, <1>4
  <1>6. GrownBy(f, "elseif", c)
    <2>1. f \in Seq(NodeT) /\ Len(f) = N
      BY <1>2, <1>4
    <2>2. ASSUME NEW n \in Nodes
          PROVE  /\ f[n].kind = node[n].kind /\ f[n].of = node[n].of /\ f[n].dc = node[n].dc
                 /\ f[n].parent = node[n].parent /\ f[n].belongs = node[n].belongs
                 /\ f[n].else = node[n].else
                 /\ f[n].elseIfs = IF n = c THEN Append(node[n].elseIfs, N) ELSE node[n].elseIfs
      <3>1. CASE n = c
        BY <1>2, <1>4, <3>1
      <3>2. CASE n # c
        BY <1>5, <3>2
      <3> QED BY <3>1, <3>2
    <2>3. /\ f[N].kind = "elseif" /\ f[N].of = c /\ f[N].dc = Outer.scope /\ f[N].parent = 0
          /\ f[N].elseIfs = <<>> /\ f[N].else = 0
          /\ f[N].belongs = LastIf(Outer.items, Len(Outer.items))
      BY <1>2, <1>5
    <2> QED BY <2>1, <2>2, <2>3 DEF GrownBy
  <1>7. \A n \in Nodes : f[n].next = node[n].next /\ SamePending(f[n], node[n])
    BY <1>2, <1>4, <1>5 DEF SamePending
  <1>8. ASSUME NEW g, Relinked(g, f)
        PROVE  GrownBy(g, "elseif", c) /\ \A n \in Nodes : SamePending(g[n], node[n])
    <2>1. /\ g \in Seq(NodeT) /\ Len(g) = N
          /\ \A n \in 1..N : SameLinks(g[n], f[n]) /\ SamePending(g[n], f[n])
                             /\ g[n].parent = f[n].parent
      BY <1>2, <1>4, <1>8 DEF Relinked
    <2>2. N \in 1..N /\ \A n \in Nodes : n \in 1..N
      BY <1>2, <1>3
    <2>3. \A n \in Nodes : SamePending(g[n], node[n])
      BY <1>7, <2>1, <2>2 DEF SamePending
    <2>4. GrownBy(g, "elseif", c)
      BY <1>6, <2>1, <2>2 DEF GrownBy, SameLinks
    <2> QED BY <2>3, <2>4
  <1>9. f[N].next = 0
    BY <1>2, <1>5
  <1> QED BY <1>6, <1>7, <1>8, <1>9 DEF f, b

LEMMA GrowsByElse ==
    ASSUME TypeInv, Depth > 1, NEW c \in Nodes, NEW f,
           ElseOf(f, Append(node, NewNode("else", c, 0)), c, N)
    PROVE  /\ GrownBy(f, "else", c) /\ f[N].next = 0
           /\ \A n \in Nodes : f[n].next = node[n].next
           /\ \A g : Relinked(g, f) => GrownBy(g, "else", c)
  <1> DEFINE b == Append(node, NewNode("else", c, 0))
  <1>1. c \in Nat /\ 0 \in Nat /\ "else" \in Branches
    BY DEF Branches, Nodes
  <1>2. /\ b \in Seq(NodeT) /\ Len(b) = N /\ N \in Nat /\ N \notin Nodes /\ Len(node) \in Nat
        /\ \A n \in Nodes : b[n] = node[n]
        /\ b[N].kind = "else" /\ b[N].of = c /\ b[N].parent = 0 /\ b[N].dc = Outer.scope
        /\ b[N].elseIfs = <<>> /\ b[N].else = 0 /\ b[N].next = 0
        /\ b[N].belongs = LastIf(Outer.items, Len(Outer.items))
    <2>1. b = Added("else", c, 0)
      BY DEF Added
    <2> HIDE DEF b
    <2> QED BY <2>1, BranchAddedIs
  <1>3. ElseOf(f, b, c, N)
    OBVIOUS
  <1> HIDE DEF b
  <1>4. c \in 1..Len(b) /\ c # N /\ N \in 1..Len(b) /\ \A n \in Nodes : n \in 1..Len(b)
    BY <1>2 DEF Nodes, N
  <1>5. f[N] = b[N] /\ \A n \in Nodes : n # c => f[n] = node[n]
    BY <1>2, <1>3, <1>4 DEF ElseOf
  <1>6. GrownBy(f, "else", c)
    BY <1>2, <1>3, <1>4, <1>5 DEF GrownBy, ElseOf
  <1>7. \A n \in Nodes : f[n].next = node[n].next
    BY <1>2, <1>3, <1>5 DEF ElseOf
  <1>8. ASSUME NEW g, Relinked(g, f)
        PROVE  GrownBy(g, "else", c)
    <2>1. /\ g \in Seq(NodeT) /\ Len(g) = N
          /\ \A n \in 1..N : SameLinks(g[n], f[n]) /\ g[n].parent = f[n].parent
      BY <1>6, <1>8 DEF Relinked, GrownBy
    <2>2. N \in 1..N /\ \A n \in Nodes : n \in 1..N
      BY <1>2, <1>4
    <2> QED BY <1>6, <2>1, <2>2 DEF GrownBy, SameLinks
  <1>9. f[N].next = 0
    BY <1>2, <1>5
  <1> QED BY <1>6, <1>7, <1>8, <1>9

-----------------------------------------------------------------------------
(* The types.                                                              *)
LEMMA GraphMarked ==
    ASSUME TypeInv, Marked(node')
    PROVE  GraphType' /\ Ifs' = Ifs /\ Nodes' = Nodes /\ Len(node') = Len(node)
  <1>1. Nodes' = Nodes /\ Len(node') = Len(node) /\ node' \in Seq(NodeT)
    BY DEF Marked, Nodes
  <1>2. \A n \in Nodes : node'[n].kind = node[n].kind /\ node'[n].of = node[n].of
                        /\ node'[n].parent = node[n].parent
    BY DEF Marked, SameLinks
  <1>3. Ifs' = Ifs
    BY <1>1, <1>2 DEF Ifs
  <1> QED BY <1>1, <1>2, <1>3 DEF GraphType, TypeInv

LEMMA GraphGrown ==
    ASSUME TypeInv, node' \in Seq(NodeT), Len(node') = N,
           \A n \in Nodes : /\ node'[n].kind = node[n].kind /\ node'[n].of = node[n].of
                            /\ (node'[n].parent = node[n].parent \/ node'[n].parent \in Ifs' \cup {0}),
           node'[N].of \in 0..N, node'[N].parent \in Ifs' \cup {0}
    PROVE  /\ GraphType' /\ Ifs \subseteq Ifs' /\ Len(node) <= Len(node') /\ Len(node) \in Nat
           /\ node'[N].kind = "if" => N \in Ifs'
           /\ Nodes' = Nodes \cup {N}
  <1>1. Len(node) \in Nat /\ Nodes' = Nodes \cup {N} /\ N \in Nat /\ Len(node) <= N
        /\ N \in Nodes'
    BY DEF TypeInv, GraphType, Nodes, N
  <1>2. Ifs \subseteq Ifs'
    BY <1>1 DEF Ifs
  <1>3. \A n \in Nodes : node[n].of <= Len(node) /\ node[n].parent \in Ifs \cup {0}
                        /\ node[n].of \in Nat
    <2>1. \A n \in Nodes : node[n] \in NodeT
      BY DEF TypeInv, GraphType, Nodes
    <2> QED BY <2>1 DEF TypeInv, GraphType, NodeT
  <1>4. \A n \in Nodes' : node'[n].of <= Len(node') /\ node'[n].parent \in Ifs' \cup {0}
    BY <1>1, <1>2, <1>3
  <1> QED BY <1>1, <1>2, <1>4 DEF GraphType, Ifs

(* A statement n is put into the list around it, as the graph grows or not. *)
LEMMA StackPopped ==
    ASSUME TypeInv, Depth > 1, NEW n \in Nat, open' = Popped(n), n <= Len(node'),
           Len(node) <= Len(node'), Len(node') \in Nat, Len(node) \in Nat
    PROVE  StackType'
  <1>1. StackType /\ Depth \in Nat /\ Depth' = Depth - 1
    BY StackIs, PoppedIs DEF TypeInv, Depth
  <1>2. /\ open' \in Seq(FrameT) /\ open' # <<>>
        /\ \A i \in 1..(Depth - 2) : open'[i] = open[i]
        /\ open'[Depth - 1].kind = Outer.kind
        /\ open'[Depth - 1].items = Append(Outer.items, n)
        /\ Outer = open[Depth - 1] /\ Outer \in FrameT /\ Outer.items \in Seq(Nat)
    BY <1>1, PoppedIs
  <1>3. open'[1].kind = "global"
    BY <1>1, <1>2 DEF StackType
  <1>4. ASSUME NEW i \in 1..(Depth - 1), NEW k \in 1..Len(open'[i].items)
        PROVE  open'[i].items[k] <= Len(node')
    <2>0. i \in 1..Depth /\ Depth - 1 \in 1..Depth
      BY <1>1
    <2>a. open[i] \in FrameT
      BY <2>0, <1>1, StackIs
    <2>1. CASE i < Depth - 1
      <3>1. open'[i] = open[i]
        BY <1>1, <1>2, <2>1
      <3>2. open[i].items[k] <= Len(node) /\ open[i].items[k] \in Nat
        <4>1. k \in 1..Len(open[i].items) /\ open[i].items \in Seq(Nat)
          BY <1>4, <2>a, <3>1 DEF FrameT
        <4>2. open[i].items[k] \in Nat
          BY <4>1, SMTT(30)
        <4> QED BY <1>1, <2>0, <4>1, <4>2 DEF StackType
      <3> QED BY <3>1, <3>2
    <2>2. CASE i = Depth - 1
      <3>1. open'[i].items = Append(Outer.items, n) /\ Outer = open[i]
        BY <1>2, <2>2
      <3>2. /\ k \in 1..(Len(Outer.items) + 1)
            /\ \A l \in 1..Len(Outer.items) : Append(Outer.items, n)[l] = Outer.items[l]
            /\ Append(Outer.items, n)[Len(Outer.items) + 1] = n
        BY <1>2, <1>4, <3>1, AppendProperties
      <3>3. k \in 1..Len(Outer.items) => Outer.items[k] <= Len(node) /\ Outer.items[k] \in Nat
        <4>1. \A l \in 1..Len(open[Depth - 1].items) : open[Depth - 1].items[l] <= Len(node)
          BY <1>1, <2>0 DEF StackType
        <4>2. k \in 1..Len(Outer.items) => Outer.items[k] \in Nat
          <5>1. Outer.items \in Seq(Nat)
            BY <1>2
          <5> QED BY <5>1, ElementOfSeq
        <4> QED BY <1>2, <4>1, <4>2
      <3>4. k \in 1..Len(Outer.items) \/ k = Len(Outer.items) + 1
        BY <1>2, <3>2, SMTT(30)
      <3> QED BY <3>1, <3>2, <3>3, <3>4
    <2> QED BY <1>1, <2>1, <2>2
  <1> QED BY <1>1, <1>2, <1>3, <1>4 DEF StackType

LEMMA StackPushed ==
    ASSUME TypeInv, NEW kind \in Branches \cup Bodies, NEW braced \in BOOLEAN, NEW key \in Nat,
           open' = Append(open, Frame(kind, braced, key)), Len(node') = Len(node)
    PROVE  StackType'
  <1>1. StackType /\ scopes \in Nat /\ Depth \in Nat /\ Depth >= 1
    BY StackIs DEF TypeInv, TrackerType
  <1>2. /\ open' \in Seq(FrameT) /\ open' # <<>> /\ Depth' = Depth + 1
        /\ \A i \in 1..Depth : open'[i] = open[i]
        /\ open'[Depth + 1].items = <<>>
    BY <1>1, FrameIs DEF Depth
  <1>3. open'[1].kind = "global"
    BY <1>1, <1>2 DEF StackType
  <1>4. ASSUME NEW i \in 1..(Depth + 1), NEW k \in 1..Len(open'[i].items)
        PROVE  open'[i].items[k] <= Len(node')
    <2>1. i \in 1..Depth
      <3>1. i # Depth + 1
        <4>1. Len(open'[Depth + 1].items) = 0
          BY <1>2
        <4> SUFFICES ASSUME i = Depth + 1 PROVE FALSE
          OBVIOUS
        <4>2. k \in 1..0
          BY <1>4, <4>1
        <4> QED BY <4>2
      <3> QED BY <1>1, <3>1
    <2> QED BY <1>1, <1>2, <1>4, <2>1 DEF StackType
  <1> QED BY <1>1, <1>2, <1>3, <1>4 DEF StackType

LEMMA StackDone ==
    ASSUME TypeInv, open' = [open EXCEPT ![Depth].body = "done"], Len(node') = Len(node)
    PROVE  StackType'
  <1>1. StackType /\ Depth \in Nat /\ Depth >= 1 /\ Inner = open[Depth]
    BY StackIs DEF TypeInv
  <1>2. /\ open' \in Seq(FrameT) /\ open' # <<>> /\ Depth' = Depth
        /\ \A i \in 1..(Depth - 1) : open'[i] = open[i]
        /\ open'[Depth].items = Inner.items /\ open'[Depth].kind = Inner.kind
    BY <1>1, BodyDoneIs DEF Depth
  <1>3. \A i \in 1..Depth : open'[i].items = open[i].items /\ open'[i].kind = open[i].kind
    <2>1. \A i \in 1..Depth : i \in 1..(Depth - 1) \/ i = Depth
      BY <1>1
    <2> QED BY <1>1, <1>2, <2>1
  <1> QED BY <1>1, <1>2, <1>3 DEF StackType

(* The graph grows by an if, which adopts the ifs of its list.             *)
GrownByIf(f) ==
    /\ f \in Seq(NodeT) /\ Len(f) = N
    /\ \A n \in Nodes :
         /\ SameLinks(f[n], node[n]) /\ SamePending(f[n], node[n]) /\ f[n].next = node[n].next
         /\ f[n].parent = IF n \in Ifs /\ \E j \in 1..Len(Inner.items) : Inner.items[j] = n
                          THEN N ELSE node[n].parent
    /\ f[N].kind = "if" /\ f[N].of = 0 /\ f[N].dc = Outer.scope /\ f[N].parent = ParentOfIf
    /\ f[N].elseIfs = <<>> /\ f[N].else = 0

LEMMA ItemsAre ==
    ASSUME TypeInv, NEW i \in 1..Depth
    PROVE  /\ open[i] \in FrameT /\ open[i].items \in Seq(Nat) /\ Len(open[i].items) \in Nat
           /\ \A k \in 1..Len(open[i].items) : open[i].items[k] \in 0..Len(node)
           /\ Len(node) \in Nat
  <1>1. open[i] \in FrameT
    BY StackIs DEF TypeInv
  <1>2. open[i].items \in Seq(Nat)
    BY <1>1 DEF FrameT
  <1>3. \A k \in 1..Len(open[i].items) : open[i].items[k] \in Nat
    BY <1>2, ElementOfSeq
  <1>4. \A k \in 1..Len(open[i].items) : open[i].items[k] <= Len(node)
    BY DEF TypeInv, StackType
  <1>5. Len(node) \in Nat
    BY DEF TypeInv, GraphType
  <1> QED BY <1>1, <1>2, <1>3, <1>4, <1>5

LEMMA ParentIs == ASSUME TypeInv PROVE ParentOfIf \in Ifs \cup {0} /\ ParentOfIf \in Nat
  <1>1. CIF \in Ifs \cup {0} /\ Ifs \subseteq Nat
    BY DEF TypeInv, TrackerType, Ifs, Nodes
  <1> QED BY <1>1 DEF ParentOfIf

LEMMA GrowsByIf ==
    ASSUME TypeInv, Depth > 1
    PROVE  GrownByIf(Adopted(Append(node, NewNode("if", 0, ParentOfIf)), Inner.items, N))
  <1> DEFINE b == Append(node, NewNode("if", 0, ParentOfIf))
             s == Inner.items
             f == Adopted(b, s, N)
  <1>1. "if" \in Branches /\ ParentOfIf \in Nat /\ 0 \in Nat /\ Depth \in 1..Depth /\ Inner = open[Depth]
    BY ParentIs, StackIs DEF Branches, TypeInv
  <1>2. /\ b \in Seq(NodeT) /\ Len(b) = N /\ N \in Nat /\ N \notin Nodes /\ Len(node) \in Nat
        /\ \A n \in Nodes : b[n] = node[n]
        /\ b[N].kind = "if" /\ b[N].of = 0 /\ b[N].parent = ParentOfIf /\ b[N].dc = Outer.scope
        /\ b[N].elseIfs = <<>> /\ b[N].else = 0
    <2>1. b = Added("if", 0, ParentOfIf)
      BY DEF Added
    <2> HIDE DEF b, f
    <2> QED BY <1>1, <2>1, AddedIs
  <1> HIDE DEF b
  <1>3. s \in Seq(Nat) /\ \A k \in 1..Len(s) : s[k] \in 0..Len(node)
    BY <1>1, ItemsAre
  <1> HIDE DEF s
  <1>4. /\ f \in Seq(NodeT) /\ Len(f) = Len(b)
        /\ \A m \in 1..Len(b) :
             /\ SameLinks(f[m], b[m]) /\ SamePending(f[m], b[m]) /\ f[m].next = b[m].next
             /\ f[m].parent = IF b[m].kind = "if" /\ \E j \in 1..Len(s) : s[j] = m
                              THEN N ELSE b[m].parent
    <2>1. AdoptedFrom(f, b, s, N)
      BY <1>2, <1>3, AdoptedIs
    <2> HIDE DEF f
    <2> QED BY <2>1 DEF AdoptedFrom
  <1> HIDE DEF f
  <1>5. N \in 1..Len(b) /\ \A n \in Nodes : n \in 1..Len(b)
    BY <1>2 DEF Nodes, N
  <1>6. ~ \E j \in 1..Len(s) : s[j] = N
    BY <1>2, <1>3 DEF N
  <1>7. /\ f[N].kind = "if" /\ f[N].of = 0 /\ f[N].dc = Outer.scope /\ f[N].parent = ParentOfIf
        /\ f[N].elseIfs = <<>> /\ f[N].else = 0
    BY <1>2, <1>4, <1>5, <1>6 DEF SameLinks
  <1>8. ASSUME NEW n \in Nodes
        PROVE  /\ SameLinks(f[n], node[n]) /\ SamePending(f[n], node[n])
               /\ f[n].next = node[n].next
               /\ f[n].parent = IF n \in Ifs /\ \E j \in 1..Len(s) : s[j] = n
                                THEN N ELSE node[n].parent
    <2>1. b[n] = node[n] /\ n \in 1..Len(b)
      BY <1>2, <1>5
    <2>2. n \in Ifs <=> b[n].kind = "if"
      BY <2>1 DEF Ifs
    <2> QED BY <1>4, <2>1, <2>2
  <1> QED BY <1>2, <1>4, <1>7, <1>8 DEF GrownByIf, f, b, s

LEMMA TypeStops ==
    ASSUME TypeInv, NEW outcome \in {"error", "hang", "undefined"}, Stop(outcome)
    PROVE  TypeInv'
  BY DEF TypeInv, StackType, GraphType, TrackerType, Stop, tracker, builder, flags, Ifs, Nodes,
         Depth

LEMMA TypeOpenIf ==
    ASSUME TypeInv, NEW braced \in BOOLEAN, OpenIf(braced)
    PROVE  TypeInv'
  <1>1. /\ open' = Append(open, Frame("if", braced, ISC)) /\ node' = node
        /\ "if" \in Branches \cup Bodies /\ ISC \in Nat
    BY DEF OpenIf, TypeInv, TrackerType, Branches
  <1>2. StackType'
    BY <1>1, StackPushed
  <1>3. GraphType' /\ Ifs' = Ifs /\ Len(node') = Len(node)
    BY <1>1 DEF TypeInv, GraphType, Ifs, Nodes
  <1>4. /\ IL' \subseteq Ifs /\ CIF' \in Ifs \cup {0} /\ ECIF' = ECIF /\ CEI' = CEI
        /\ PendingElseIf' \in BOOLEAN /\ PendingElse' \in BOOLEAN /\ EIPendingElse' \in BOOLEAN
    BY DEF OpenIf, CheckIfContext, TypeInv, TrackerType
  <1>5. braces' \in [L : 0..1, R : Nat]
    BY DEF OpenIf, BracesAnew
  <1>6. ISC' \in Nat /\ Tokens' \subseteq 0..ISC'
    <2>1. ISC \in Nat /\ Tokens \subseteq 0..ISC /\ Tokens' = Tokens \cup {ISC}
          /\ (ISC' = ISC \/ ISC' = ISC + 1)
      BY DEF OpenIf, TypeInv, TrackerType
    <2> QED BY <2>1
  <1>7. scopes' \in Nat /\ status' \in {"ok", "error", "ice", "hang", "undefined"}
    BY DEF OpenIf, TypeInv, TrackerType
  <1> QED BY <1>2, <1>3, <1>4, <1>5, <1>6, <1>7 DEF TypeInv, TrackerType

LEMMA TypeOpenElseIf ==
    ASSUME TypeInv, NEW braced \in BOOLEAN, OpenElseIf(braced)
    PROVE  TypeInv'
  <1>1. /\ open' = Append(open, Frame("elseif", braced, 0)) /\ SetPending("pendElseIf")
        /\ "elseif" \in Branches \cup Bodies /\ 0 \in Nat
    BY DEF OpenElseIf, Branches
  <1>2. Marked(node')
    BY <1>1, KeywordMarks
  <1>3. GraphType' /\ Ifs' = Ifs /\ Len(node') = Len(node)
    BY <1>2, GraphMarked
  <1>4. StackType'
    BY <1>1, <1>3, StackPushed
  <1>5. TrackerType'
    BY <1>3 DEF OpenElseIf, TypeInv, TrackerType, builder
  <1> QED BY <1>3, <1>4, <1>5 DEF TypeInv

LEMMA TypeOpenElse ==
    ASSUME TypeInv, NEW braced \in BOOLEAN, OpenElse(braced)
    PROVE  TypeInv'
  <1>1. /\ open' = Append(open, Frame("else", braced, 0)) /\ SetPending("pendElse")
        /\ "else" \in Branches \cup Bodies /\ 0 \in Nat
    BY DEF OpenElse, Branches
  <1>2. Marked(node')
    BY <1>1, KeywordMarks
  <1>3. GraphType' /\ Ifs' = Ifs /\ Len(node') = Len(node)
    BY <1>2, GraphMarked
  <1>4. StackType'
    BY <1>1, <1>3, StackPushed
  <1>5. TrackerType'
    BY <1>3 DEF OpenElse, TypeInv, TrackerType, builder, tracker, flags
  <1> QED BY <1>3, <1>4, <1>5 DEF TypeInv

LEMMA TypeOpenBody ==
    ASSUME TypeInv, NEW kind \in Bodies, OpenBody(kind)
    PROVE  TypeInv'
  <1>1. /\ open' = Append(open, Frame(kind, TRUE, 0)) /\ node' = node
        /\ kind \in Branches \cup Bodies /\ 0 \in Nat /\ TRUE \in BOOLEAN
    BY DEF OpenBody
  <1>2. StackType'
    BY <1>1, StackPushed
  <1>3. GraphType' /\ Ifs' = Ifs /\ Len(node') = Len(node)
    BY <1>1 DEF TypeInv, GraphType, Ifs, Nodes
  <1>4. TrackerType'
    BY <1>3 DEF OpenBody, TypeInv, TrackerType, builder, tracker, flags
  <1> QED BY <1>2, <1>3, <1>4 DEF TypeInv

LEMMA TypeSimple ==
    ASSUME TypeInv, Simple
    PROVE  TypeInv'
  <1>1. open' = [open EXCEPT ![Depth].body = "done"] /\ node' = node
    BY DEF Simple
  <1>2. StackType'
    BY <1>1, StackDone
  <1>3. GraphType' /\ Ifs' = Ifs /\ Len(node') = Len(node)
    BY <1>1 DEF TypeInv, GraphType, Ifs, Nodes
  <1>4. TrackerType'
    BY <1>3 DEF Simple, TypeInv, TrackerType, builder, tracker, flags
  <1> QED BY <1>2, <1>3, <1>4 DEF TypeInv

LEMMA TypeRightBrace ==
    ASSUME TypeInv, RightBrace
    PROVE  TypeInv'
  <1>1. /\ open' = [open EXCEPT ![Depth].body = "done"]
        /\ BeforeElseIf \/ BeforeElse \/ BeforeOther
    BY DEF RightBrace
  <1>2. /\ Marked(node') /\ braces' \in [L : 0..1, R : Nat]
        /\ PendingElseIf' \in BOOLEAN /\ PendingElse' \in BOOLEAN /\ EIPendingElse' \in BOOLEAN
    BY <1>1, BraceMarks
  <1>3. GraphType' /\ Ifs' = Ifs /\ Len(node') = Len(node)
    BY <1>2, GraphMarked
  <1>4. StackType'
    BY <1>1, <1>3, StackDone
  <1>5. TrackerType'
    BY <1>2, <1>3 DEF RightBrace, TypeInv, TrackerType, builder
  <1> QED BY <1>3, <1>4, <1>5 DEF TypeInv

LEMMA TypeReduceIf ==
    ASSUME TypeInv, ReduceIf
    PROVE  TypeInv'
  <1>1. CASE Stop("error")
    BY <1>1, TypeStops
  <1>2. CASE ~Stop("error")
    <2>1. /\ node' = Adopted(Append(node, NewNode("if", 0, ParentOfIf)), Inner.items, N)
          /\ PendingElseIf' = FALSE /\ PendingElse' = FALSE /\ EIPendingElse' = EIPendingElse
          /\ IL' = IL \cup {N} /\ CIF' = N /\ ECIF' = N /\ CEI' = 0
          /\ Tokens' = IF Inner.braced THEN Tokens ELSE Tokens \ {Inner.key}
          /\ ISC' = IF Inner.braced THEN ISC ELSE ISC + 1
          /\ open' = Popped(N)
          /\ braces' = braces /\ follow' = follow /\ scopes' = scopes /\ status' = status
          /\ Inner.kind = "if"
      BY <1>2 DEF ReduceIf, Done
    <2>2. Depth > 1
      BY <2>1, StackIs DEF TypeInv
    <2>3. GrownByIf(node')
      BY <2>1, <2>2, GrowsByIf
    <2>4. N \in Nat /\ Len(node) \in Nat /\ Len(node) <= N
      BY DEF TypeInv, GraphType, N
    <2>5. N \in Ifs'
      BY <2>3, <2>4 DEF GrownByIf, Ifs, Nodes, N
    <2>6. Ifs \subseteq Ifs'
      BY <2>3, <2>4 DEF GrownByIf, Ifs, Nodes, SameLinks
    <2>7. ParentOfIf \in Ifs' \cup {0}
      BY <2>6, ParentIs
    <2>8. GraphType' /\ Nodes' = Nodes \cup {N} /\ Len(node') = N
      <3>1. node' \in Seq(NodeT) /\ Len(node') = N
        BY <2>3 DEF GrownByIf
      <3>2. \A n \in Nodes : /\ node'[n].kind = node[n].kind /\ node'[n].of = node[n].of
                            /\ (node'[n].parent = node[n].parent \/ node'[n].parent \in Ifs' \cup {0})
        BY <2>3, <2>5 DEF GrownByIf, SameLinks
      <3>3. node'[N].of \in 0..N /\ node'[N].parent \in Ifs' \cup {0}
        BY <2>3, <2>4, <2>7 DEF GrownByIf
      <3> QED BY <3>1, <3>2, <3>3, GraphGrown
    <2>9. StackType'
      BY <2>1, <2>2, <2>4, <2>8, StackPopped
    <2>10. ISC' \in Nat /\ Tokens' \subseteq 0..ISC'
      <3>1. ISC \in Nat /\ Tokens \subseteq 0..ISC
        BY DEF TypeInv, TrackerType
      <3>2. ISC' \in {ISC, ISC + 1}
        BY <2>1
      <3>3. ISC' \in Nat /\ 0..ISC \subseteq 0..ISC'
        BY <3>1, <3>2
      <3>4. Tokens' \subseteq Tokens
        BY <2>1
      <3> QED BY <3>1, <3>3, <3>4
    <2>11. TrackerType'
      <3>1. IL' \subseteq Ifs' /\ CIF' \in Ifs' \cup {0} /\ ECIF' \in Ifs' \cup {0}
        BY <2>1, <2>5, <2>6 DEF TypeInv, TrackerType
      <3>2. CEI' \in 0..Len(node')
        BY <2>1, <2>4, <2>8
      <3>3. /\ PendingElseIf' \in BOOLEAN /\ PendingElse' \in BOOLEAN /\ EIPendingElse' \in BOOLEAN
            /\ braces' \in [L : 0..1, R : Nat] /\ scopes' \in Nat
            /\ status' \in {"ok", "error", "ice", "hang", "undefined"}
        BY <2>1 DEF TypeInv, TrackerType
      <3> QED BY <2>10, <3>1, <3>2, <3>3 DEF TrackerType
    <2> QED BY <2>8, <2>9, <2>11 DEF TypeInv
  <1> QED BY <1>1, <1>2

(* The graph has grown by a branch, and the trackers hold nodes of it.     *)
LEMMA TypeGrown ==
    ASSUME TypeInv, Depth > 1, NEW kind, NEW c \in Nodes, GrownBy(node', kind, c),
           open' = Popped(N)
    PROVE  /\ StackType' /\ GraphType' /\ Ifs \subseteq Ifs' /\ N \in 0..Len(node')
           /\ Len(node') = N /\ 0..Len(node) \subseteq 0..Len(node')
  <1>1. Len(node) \in Nat /\ N \in Nat /\ Len(node) <= N /\ c \in 0..N
    BY DEF TypeInv, GraphType, Nodes, N
  <1>2. /\ node' \in Seq(NodeT) /\ Len(node') = N
        /\ \A n \in Nodes : /\ node'[n].kind = node[n].kind /\ node'[n].of = node[n].of
                            /\ node'[n].parent = node[n].parent
        /\ node'[N].of = c /\ node'[N].parent = 0
    BY DEF GrownBy
  <1>3. GraphType' /\ Ifs \subseteq Ifs'
    BY <1>1, <1>2, GraphGrown
  <1>4. StackType'
    BY <1>1, <1>2, StackPopped
  <1> QED BY <1>1, <1>2, <1>3, <1>4

LEMMA TypeReducePlainElseIf ==
    ASSUME TypeInv, ReducePlainElseIf
    PROVE  TypeInv'
  <1>1. CASE Stop("error")
    BY <1>1, TypeStops
  <1>2. CASE ~Stop("error")
    <2> DEFINE f == AttachElseIf(Append(node, NewNode("elseif", CIF, 0)), CIF, N)
    <2>1. /\ ~NoDominator(CIF) /\ Inner.kind = "elseif"
          /\ node' = Linked(f, CEI, N)
          /\ CEI' = N /\ ECIF' = (IF EIPendingElse THEN CIF ELSE ECIF)
          /\ open' = Popped(N)
          /\ IL' = IL /\ CIF' = CIF /\ PendingElseIf' = PendingElseIf /\ PendingElse' = PendingElse
          /\ EIPendingElse' = EIPendingElse /\ braces' = braces /\ ISC' = ISC /\ Tokens' = Tokens
          /\ scopes' = scopes /\ status' = status
      BY <1>2 DEF ReducePlainElseIf, Done, flags, builder
    <2>2. CIF \in Nodes /\ CEI \in 0..Len(node) /\ N \in Nat /\ Len(node) \in Nat /\ Len(node) <= N
      BY <2>1 DEF NoDominator, TypeInv, TrackerType, GraphType, Ifs, N
    <2>3. Depth > 1
      BY <2>1, StackIs DEF TypeInv
    <2>4. /\ GrownBy(f, "elseif", CIF)
          /\ \A g : Relinked(g, f) => GrownBy(g, "elseif", CIF)
      BY <2>2, <2>3, GrowsByElseIf
    <2> HIDE DEF f
    <2>5. GrownBy(node', "elseif", CIF)
      <3>1. f \in Seq(NodeT) /\ CEI \in 0..Len(f)
        BY <2>2, <2>4 DEF GrownBy
      <3> QED BY <2>1, <2>2, <2>4, <3>1, LinkedIs
    <2>6. /\ StackType' /\ GraphType' /\ Ifs \subseteq Ifs' /\ N \in 0..Len(node')
      BY <2>1, <2>2, <2>3, <2>5, TypeGrown
    <2>7. TrackerType'
      BY <2>1, <2>6 DEF TypeInv, TrackerType
    <2> QED BY <2>6, <2>7 DEF TypeInv
  <1> QED BY <1>1, <1>2

LEMMA TypeReduceElseIf ==
    ASSUME TypeInv, ReduceElseIf
    PROVE  TypeInv'
  <1>1. CASE Stop("error") \/ Stop("hang")
    BY <1>1, TypeStops
  <1>2. CASE ~Stop("error") /\ ~Stop("hang")
    <2> DEFINE S == IF Pending(CIF) THEN 0 ELSE FirstPending(node[CIF].parent)
               b == AttachElseIf(Append(node, NewNode("elseif", CIF, 0)), CIF, N)
               f == Normalized(b, CIF)
               e == IF CEI # 0 /\ node[CEI].of = CIF THEN CEI ELSE 0
    <2>1. /\ CIF # 0 /\ Inner.kind = "elseif"
          /\ Pending(CIF) \/ ~Circles(node[CIF].parent)
          /\ node' = Linked(f, e, N)
          /\ CEI' = N /\ CIF' = (IF S = 0 THEN CIF ELSE S)
          /\ ECIF' \in {S, CIF, 0, ECIF}
          /\ open' = Popped(N)
          /\ (UNCHANGED flags \/ (PendingElseIf' = FALSE /\ PendingElse' = FALSE /\ EIPendingElse' = FALSE))
          /\ IL' = IL /\ braces' = braces /\ ISC' = ISC /\ Tokens' = Tokens
          /\ scopes' = scopes /\ status' = status
      <3>1. /\ CIF # 0 /\ Inner.kind = "elseif"
            /\ Pending(CIF) \/ ~Circles(node[CIF].parent)
        BY <1>2 DEF ReduceElseIf, Done
      <3>2. /\ node' = Linked(f, e, N)
            /\ CEI' = N /\ CIF' = (IF S = 0 THEN CIF ELSE S)
            /\ ECIF' = IF S # 0 THEN S
                       ELSE IF EIPendingElse \/ node[CIF].dc = Inner.scope THEN CIF
                       ELSE IF ~Pending(CIF) /\ node[CIF].parent # 0 THEN 0
                       ELSE ECIF
            /\ open' = Popped(N)
            /\ IF S = 0 THEN UNCHANGED flags
               ELSE PendingElseIf' = FALSE /\ PendingElse' = FALSE /\ EIPendingElse' = FALSE
            /\ UNCHANGED <<IL, braces, builder, follow, scopes, status>>
        BY <1>2 DEF ReduceElseIf
      <3> HIDE DEF S, f, e
      <3> QED BY <3>1, <3>2 DEF builder
    <2>2. CIF \in Nodes /\ CEI \in 0..Len(node) /\ N \in Nat /\ Len(node) \in Nat /\ Len(node) <= N
      BY <2>1 DEF TypeInv, TrackerType, GraphType, Ifs, N
    <2>3. Depth > 1
      BY <2>1, StackIs DEF TypeInv
    <2>4. S \in Ifs \cup {0}
      <3>1. node[CIF].parent \in Ifs \cup {0}
        BY <2>2 DEF TypeInv, GraphType
      <3> QED BY <2>1, <3>1, WalkEnds DEF TypeInv
    <2> HIDE DEF S
    <2>5. /\ GrownBy(b, "elseif", CIF)
          /\ \A g : Relinked(g, b) => GrownBy(g, "elseif", CIF)
      BY <2>2, <2>3, GrowsByElseIf
    <2> HIDE DEF b
    <2>6. b \in Seq(NodeT) /\ Len(b) = N /\ CIF \in 1..Len(b) /\ e \in 0..N
      BY <2>2, <2>5 DEF GrownBy, Nodes
    <2>7. Relinked(f, b)
      BY <2>6, NormalizedIs
    <2> HIDE DEF f, e
    <2>8. Relinked(node', f)
      <3>1. f \in Seq(NodeT) /\ e \in 0..Len(f)
        BY <2>6, <2>7 DEF Relinked
      <3> QED BY <2>1, <2>2, <3>1, LinkedIs
    <2>9. GrownBy(node', "elseif", CIF)
      <3>1. Relinked(node', b)
        BY <2>7, <2>8 DEF Relinked, SameLinks, SamePending
      <3> QED BY <2>5, <3>1
    <2>10. /\ StackType' /\ GraphType' /\ Ifs \subseteq Ifs' /\ N \in 0..Len(node')
      BY <2>1, <2>2, <2>3, <2>9, TypeGrown
    <2>11. TrackerType'
      BY <2>1, <2>4, <2>10 DEF TypeInv, TrackerType, flags
    <2> QED BY <2>10, <2>11 DEF TypeInv
  <1> QED BY <1>1, <1>2

LEMMA PopIsAnIf ==
    ASSUME TypeInv, ECIF # 0, ~PopUndefined(ECIF)
    PROVE  PopIf(ECIF) \in Ifs \cup {0}
  <1> DEFINE T == {i \in IL : i < ECIF}
  <1>1. ECIF \in Ifs /\ CIF \in Ifs \cup {0} /\ IL \subseteq Ifs /\ Ifs \subseteq Nat /\ ECIF \in Nat
    BY DEF TypeInv, TrackerType, Ifs, Nodes
  <1>2. node[ECIF].parent \in Ifs \cup {0}
    BY <1>1 DEF TypeInv, GraphType, Ifs
  <1>3. CASE ECIF = CIF /\ ECIF \in IL /\ ~(IL \subseteq {ECIF})
    <2>1. \E i \in IL : ~(ECIF <= i)
      BY <1>1, <1>3 DEF PopUndefined
    <2>2. T # {} /\ T \in SUBSET Nat /\ \A y \in T : y <= ECIF
      <3>1. IL \subseteq Nat
        BY <1>1
      <3>2. \A i \in IL : ~(ECIF <= i) => i < ECIF
        BY <1>1, <3>1
      <3>3. T # {}
        BY <2>1, <3>2
      <3>4. \A y \in T : y \in Nat /\ y <= ECIF
        BY <1>1, <3>1
      <3> QED BY <3>3, <3>4
    <2>3. Max(T) \in T
      <3> HIDE DEF T
      <3> QED BY <1>1, <2>2, GreatestThere
    <2>4. PopIf(ECIF) = Max(T)
      BY <1>3 DEF PopIf
    <2> QED BY <1>1, <2>3, <2>4
  <1>4. CASE ~(ECIF = CIF /\ ECIF \in IL /\ ~(IL \subseteq {ECIF}))
    BY <1>1, <1>2, <1>4 DEF PopIf
  <1> QED BY <1>3, <1>4

LEMMA TypeReducePlainElse ==
    ASSUME TypeInv, ReducePlainElse
    PROVE  TypeInv'
  <1>1. CASE Stop("error") \/ Stop("undefined")
    BY <1>1, TypeStops
  <1>2. CASE ~Stop("error") /\ ~Stop("undefined")
    <2> DEFINE b == Append(node, NewNode("else", ECIF, 0))
    <2>1. /\ ~NoDominator(ECIF) /\ ~PopUndefined(ECIF) /\ Inner.kind = "else"
          /\ node' = [b EXCEPT ![ECIF].else = N]
          /\ CIF' = PopIf(ECIF) /\ ECIF' = 0
          /\ open' = Popped(N)
          /\ IL' = IL /\ PendingElseIf' = PendingElseIf /\ PendingElse' = PendingElse
          /\ EIPendingElse' = EIPendingElse /\ CEI' = CEI /\ braces' = braces /\ ISC' = ISC
          /\ Tokens' = Tokens /\ scopes' = scopes /\ status' = status
      BY <1>2 DEF ReducePlainElse, Done, flags, builder
    <2>2. ECIF # 0 /\ ECIF \in Nodes /\ N \in Nat /\ Len(node) \in Nat /\ Len(node) <= N
      BY <2>1 DEF NoDominator, TypeInv, TrackerType, GraphType, Ifs, N
    <2>3. Depth > 1
      BY <2>1, StackIs DEF TypeInv
    <2>4. ElseOf(node', b, ECIF, N)
      <3>1. b \in Seq(NodeT) /\ ECIF \in 1..Len(b)
        <4>1. b = Added("else", ECIF, 0)
          BY DEF Added
        <4>2. b \in Seq(NodeT) /\ Len(b) = N
          <5> HIDE DEF b
          <5> QED BY <2>2, <2>3, <4>1, BranchAddedIs
        <4> HIDE DEF b
        <4> QED BY <2>2, <4>2 DEF Nodes, N
      <3> HIDE DEF b
      <3> QED BY <2>1, <2>2, <3>1, ElseIs
    <2>5. GrownBy(node', "else", ECIF)
      BY <2>2, <2>3, <2>4, GrowsByElse
    <2>6. /\ StackType' /\ GraphType' /\ Ifs \subseteq Ifs' /\ 0..Len(node) \subseteq 0..Len(node')
      BY <2>1, <2>2, <2>3, <2>5, TypeGrown
    <2>7. CIF' \in Ifs' \cup {0}
      BY <2>1, <2>2, <2>6, PopIsAnIf
    <2>8. TrackerType'
      BY <2>1, <2>6, <2>7 DEF TypeInv, TrackerType
    <2> QED BY <2>6, <2>8 DEF TypeInv
  <1> QED BY <1>1, <1>2

LEMMA TypeReduceElse ==
    ASSUME TypeInv, ReduceElse
    PROVE  TypeInv'
  <1>1. CASE Stop("error") \/ Stop("hang")
    BY <1>1, TypeStops
  <1>2. CASE ~Stop("error") /\ ~Stop("hang")
    <2> DEFINE c == IF braces.L # braces.R THEN DominatorOfElse ELSE CIF
               b == Append(node, NewNode("else", c, 0))
               f == [b EXCEPT ![c].else = N, ![c].pendElseIf = FALSE]
    <2>1. /\ CIF # 0 /\ Inner.kind = "else"
          /\ ~Circles(node[c].parent)
          /\ node' = Normalized(f, c)
          /\ CIF' = FirstPending(node[c].parent) /\ ECIF' = CIF'
          /\ (UNCHANGED flags \/ (PendingElseIf' = FALSE /\ PendingElse' = FALSE /\ EIPendingElse' = FALSE))
          /\ open' = Popped(N)
          /\ IL' = IL /\ CEI' = CEI /\ braces' = braces /\ ISC' = ISC /\ Tokens' = Tokens
          /\ scopes' = scopes /\ status' = status
      BY <1>2 DEF ReduceElse, Done, builder
    <2>2. /\ CIF \in Ifs /\ N \in Nat /\ Len(node) \in Nat /\ Len(node) <= N
          /\ Ifs \subseteq Nodes
      BY <2>1 DEF TypeInv, TrackerType, GraphType, Ifs, N
    <2>3. Depth > 1
      BY <2>1, StackIs DEF TypeInv
    <2>4. c \in Ifs
      <3>1. node[CIF].parent \in Ifs \cup {0}
        BY <2>2 DEF TypeInv, GraphType
      <3> QED BY <2>2, <3>1 DEF DominatorOfElse
    <2>a. c \in Nodes /\ node[c].parent \in Ifs \cup {0}
      BY <2>2, <2>4 DEF TypeInv, GraphType
    <2> HIDE DEF c
    <2>5. b \in Seq(NodeT) /\ c \in 1..Len(b)
      <3>1. b = Added("else", c, 0)
        BY DEF Added
      <3>2. b \in Seq(NodeT) /\ Len(b) = N
        <4> HIDE DEF b
        <4> QED BY <2>a, <2>3, <3>1, BranchAddedIs
      <3> HIDE DEF b
      <3> QED BY <2>2, <2>a, <3>2 DEF Nodes, N
    <2>6. ElseOf(f, b, c, N)
      <3> HIDE DEF b
      <3> QED BY <2>2, <2>5, ElseIs
    <2>7. /\ GrownBy(f, "else", c) /\ \A g : Relinked(g, f) => GrownBy(g, "else", c)
      <3> HIDE DEF f
      <3> QED BY <2>a, <2>3, <2>6, GrowsByElse
    <2> HIDE DEF f, b
    <2>8. GrownBy(node', "else", c)
      <3>1. f \in Seq(NodeT) /\ c \in 1..Len(f)
        BY <2>2, <2>a, <2>7 DEF GrownBy, Nodes
      <3> QED BY <2>1, <2>7, <3>1, NormalizedIs
    <2>9. /\ StackType' /\ GraphType' /\ Ifs \subseteq Ifs' /\ 0..Len(node) \subseteq 0..Len(node')
      BY <2>1, <2>a, <2>3, <2>8, TypeGrown
    <2>10. CIF' \in Ifs' \cup {0}
      BY <2>1, <2>a, <2>9, WalkEnds DEF TypeInv
    <2>11. TrackerType'
      BY <2>1, <2>9, <2>10 DEF TypeInv, TrackerType, flags
    <2> QED BY <2>9, <2>11 DEF TypeInv
  <1> QED BY <1>1, <1>2

LEMMA TypeReduceBody ==
    ASSUME TypeInv, ReduceBody
    PROVE  TypeInv'
  <1> DEFINE erased == {n \in ToSet(Inner.items) : Inner.kind = "case" /\ KindOf(n) = "if"}
  <1>1. /\ Inner.kind \in Bodies /\ open' = Popped(0) /\ node' = node
        /\ IF erased = {} THEN UNCHANGED <<IL, CIF, ECIF>>
           ELSE /\ IL' = IL \ erased /\ ECIF' = 0
                /\ CIF' = IF IL \subseteq erased THEN 0 ELSE Max(IL \ erased)
        /\ PendingElseIf' = PendingElseIf /\ PendingElse' = PendingElse
        /\ EIPendingElse' = EIPendingElse /\ CEI' = CEI /\ braces' = braces /\ ISC' = ISC
        /\ Tokens' = Tokens /\ scopes' = scopes /\ status' = status
    BY DEF ReduceBody, Done, flags, builder
  <1>2. Depth > 1
    BY <1>1, StackIs, IfAssumption DEF TypeInv
  <1>3. Len(node) \in Nat /\ 0 \in Nat /\ 0 <= Len(node')
    BY <1>1 DEF TypeInv, GraphType
  <1>4. StackType'
    BY <1>1, <1>2, <1>3, StackPopped
  <1>5. GraphType' /\ Ifs' = Ifs /\ Len(node') = Len(node)
    BY <1>1 DEF TypeInv, GraphType, Ifs, Nodes
  <1> HIDE DEF erased
  <1>6. IL' \subseteq Ifs /\ CIF' \in Ifs \cup {0} /\ ECIF' \in Ifs \cup {0}
    <2>1. IL \subseteq Ifs /\ CIF \in Ifs \cup {0} /\ ECIF \in Ifs \cup {0}
          /\ Ifs \subseteq Nat /\ \A y \in Ifs : y <= Len(node)
      BY <1>3 DEF TypeInv, TrackerType, Ifs, Nodes
    <2>2. ~(IL \subseteq erased) => Max(IL \ erased) \in IL \ erased
      BY <1>3, <2>1, GreatestThere
    <2> QED BY <1>1, <2>1, <2>2
  <1>7. TrackerType'
    BY <1>1, <1>5, <1>6 DEF TypeInv, TrackerType
  <1> QED BY <1>4, <1>5, <1>7 DEF TypeInv

LEMMA TypeKept == ASSUME TypeInv, [IfNext]_ifVars PROVE TypeInv'
  <1>1. CASE UNCHANGED ifVars
    BY <1>1 DEF TypeInv, StackType, GraphType, TrackerType, ifVars, tracker, builder, flags,
                Ifs, Nodes, Depth
  <1>2. CASE IfNext
    <2>1. ASSUME NEW braced \in BOOLEAN, OpenIf(braced) PROVE TypeInv'
      BY <2>1, TypeOpenIf
    <2>2. ASSUME NEW braced \in BOOLEAN, OpenElseIf(braced) PROVE TypeInv'
      BY <2>2, TypeOpenElseIf
    <2>3. ASSUME NEW braced \in BOOLEAN, OpenElse(braced) PROVE TypeInv'
      BY <2>3, TypeOpenElse
    <2>4. ASSUME NEW kind \in Bodies, OpenBody(kind) PROVE TypeInv'
      BY <2>4, TypeOpenBody
    <2> QED BY <1>2, <2>1, <2>2, <2>3, <2>4, TypeSimple, TypeRightBrace, TypeReduceIf,
               TypeReducePlainElseIf, TypeReduceElseIf, TypeReducePlainElse, TypeReduceElse,
               TypeReduceBody DEF IfNext
  <1> QED BY <1>1, <1>2

LEMMA TypeBegins == IfInit => TypeInv
  <1> SUFFICES ASSUME IfInit PROVE TypeInv
    OBVIOUS
  <1>1. /\ open = <<[kind |-> "global", braced |-> TRUE, items |-> <<>>, scope |-> 0,
                    key |-> 0, body |-> "list"]>>
        /\ node = <<>>
    BY DEF IfInit
  <1>2. StackType
    <2>1. open[1] \in FrameT /\ open[1].kind = "global" /\ open[1].items = <<>>
      BY <1>1 DEF FrameT
    <2>2. open \in Seq(FrameT) /\ open # <<>> /\ Len(open) = 1
      BY <1>1, <2>1
    <2> QED BY <2>1, <2>2 DEF StackType, Depth
  <1>3. GraphType
    BY <1>1 DEF GraphType, Nodes
  <1>4. TrackerType
    <2>1. /\ IL \subseteq Ifs /\ CIF \in Ifs \cup {0} /\ ECIF \in Ifs \cup {0}
          /\ PendingElseIf \in BOOLEAN /\ PendingElse \in BOOLEAN /\ EIPendingElse \in BOOLEAN
          /\ scopes \in Nat /\ status = "ok" /\ ISC \in Nat /\ Tokens \subseteq 0..ISC
      BY DEF IfInit
    <2>2. CEI \in 0..Len(node)
      BY <1>1 DEF IfInit
    <2>3. braces \in [L : 0..1, R : Nat]
      BY DEF IfInit
    <2> QED BY <2>1, <2>2, <2>3 DEF TrackerType
  <1> QED BY <1>2, <1>3, <1>4 DEF TypeInv

LEMMA TypeTold == TypeInv => IfTypeOK
  <1> SUFFICES ASSUME TypeInv PROVE IfTypeOK
    OBVIOUS
  <1>1. DOMAIN node = Nodes /\ Len(node) \in Nat /\ \A n \in Nodes : node[n] \in NodeT
    BY DEF TypeInv, GraphType, Nodes
  <1>2. ASSUME NEW n \in Nodes
        PROVE  /\ node[n].kind \in Branches /\ node[n].of \in 0..Len(node)
               /\ node[n].parent \in 0..Len(node)
               /\ {node[n].pendElseIf, node[n].pendElse} \subseteq BOOLEAN
    <2>1. /\ node[n].kind \in Branches /\ node[n].of \in Nat /\ node[n].parent \in Nat
          /\ node[n].pendElseIf \in BOOLEAN /\ node[n].pendElse \in BOOLEAN
      BY <1>1 DEF NodeT
    <2>2. node[n].of <= Len(node) /\ node[n].parent \in Ifs \cup {0}
      BY DEF TypeInv, GraphType
    <2> QED BY <1>1, <2>1, <2>2 DEF Ifs, Nodes
  <1>3. IL \subseteq Ifs /\ Ifs \subseteq 0..Len(node) /\ \A n \in Ifs : KindOf(n) = "if"
    BY <1>1 DEF TypeInv, TrackerType, Ifs, Nodes, KindOf
  <1> QED BY <1>1, <1>2, <1>3 DEF TypeInv, TrackerType, IfTypeOK

(* Of a program of any form, however far it is parsed: the nodes that the  *)
(* trackers and the graph tell of are there, an if is pushed and nothing   *)
(* else, and the keys of the tokens have been given out.                   *)
THEOREM IfTypesHold == IfSpec => []IfTypeOK
  <1>1. TypeInv /\ [IfNext]_ifVars => TypeInv'
    BY TypeKept
  <1> QED BY <1>1, TypeBegins, TypeTold, PTL DEF IfSpec

-----------------------------------------------------------------------------
(* What a step does to the stack: a construct is opened; its body is over; *)
(* it is put into the list of the one around it.                           *)
Alike(i) ==
    \A h \in 1..i : /\ open'[h].kind = open[h].kind /\ open'[h].braced = open[h].braced
                    /\ open'[h].scope = open[h].scope

SameLists(i) == \A h \in 1..i : open'[h].items = open[h].items /\ open'[h].body = open[h].body

Pushed(kind, braced) ==
    /\ Depth' = Depth + 1 /\ scopes' = scopes + 1
    /\ Alike(Depth) /\ SameLists(Depth)
    /\ open'[Depth + 1].kind = kind /\ open'[Depth + 1].braced = braced
    /\ open'[Depth + 1].items = <<>> /\ open'[Depth + 1].scope = scopes + 1
    /\ open'[Depth + 1].body = IF braced THEN "list" ELSE "none"

Ended ==
    /\ Depth' = Depth /\ scopes' = scopes
    /\ Alike(Depth) /\ SameLists(Depth - 1)
    /\ open'[Depth].items = open[Depth].items /\ open'[Depth].body = "done"

Left(n) ==
    /\ Depth' = Depth - 1 /\ scopes' = scopes
    /\ Alike(Depth - 1) /\ SameLists(Depth - 2)
    /\ open'[Depth - 1].items = Append(open[Depth - 1].items, n)
    /\ open'[Depth - 1].body = IF open[Depth - 1].braced THEN open[Depth - 1].body ELSE "done"

LEMMA StepsOfStack ==
    ASSUME TypeInv
    PROVE  /\ \A kind \in Branches \cup Bodies, braced \in BOOLEAN, key \in Nat :
                open' = Append(open, Frame(kind, braced, key)) /\ scopes' = scopes + 1 =>
                  Pushed(kind, braced)
           /\ open' = [open EXCEPT ![Depth].body = "done"] /\ scopes' = scopes => Ended
           /\ \A n \in Nat : Depth > 1 /\ open' = Popped(n) /\ scopes' = scopes => Left(n)
  <1>1. StackType /\ scopes \in Nat /\ Depth \in Nat /\ Depth >= 1 /\ Inner = open[Depth]
    BY StackIs DEF TypeInv, TrackerType
  <1>2. ASSUME NEW kind \in Branches \cup Bodies, NEW braced \in BOOLEAN, NEW key \in Nat,
               open' = Append(open, Frame(kind, braced, key)), scopes' = scopes + 1
        PROVE  Pushed(kind, braced)
    BY <1>1, <1>2, FrameIs DEF Pushed, Alike, SameLists, Depth
  <1>3. ASSUME open' = [open EXCEPT ![Depth].body = "done"], scopes' = scopes
        PROVE  Ended
    <2>1. /\ Depth' = Depth /\ \A i \in 1..(Depth - 1) : open'[i] = open[i]
          /\ open'[Depth].kind = open[Depth].kind /\ open'[Depth].braced = open[Depth].braced
          /\ open'[Depth].items = open[Depth].items /\ open'[Depth].scope = open[Depth].scope
          /\ open'[Depth].body = "done"
      BY <1>1, <1>3, BodyDoneIs DEF Depth
    <2>2. \A h \in 1..Depth : h = Depth \/ h \in 1..(Depth - 1)
      BY <1>1
    <2> QED BY <1>3, <2>1, <2>2 DEF Ended, Alike, SameLists
  <1>4. ASSUME NEW n \in Nat, Depth > 1, open' = Popped(n), scopes' = scopes
        PROVE  Left(n)
    <2>1. /\ Depth' = Depth - 1 /\ \A i \in 1..(Depth - 2) : open'[i] = open[i]
          /\ open'[Depth - 1].kind = Outer.kind /\ open'[Depth - 1].braced = Outer.braced
          /\ open'[Depth - 1].items = Append(Outer.items, n)
          /\ open'[Depth - 1].scope = Outer.scope
          /\ open'[Depth - 1].body = IF Outer.braced THEN Outer.body ELSE "done"
          /\ Outer = open[Depth - 1]
      BY <1>1, <1>4, PoppedIs DEF Depth
    <2>2. \A h \in 1..(Depth - 1) : h = Depth - 1 \/ h \in 1..(Depth - 2)
      BY <1>1
    <2> QED BY <1>4, <2>1, <2>2 DEF Left, Alike, SameLists
  <1> QED BY <1>2, <1>3, <1>4

LEMMA NestingKept ==
    ASSUME NEW i \in Nat, Alike(i)
    PROVE  MayHold(i)' = MayHold(i) /\ PlainMayBe(i)' = PlainMayBe(i)
  <1>1. \A h \in 1..i : \A g \in 1..h : g \in 1..i
    OBVIOUS
  <1>2. MayHold(i)' = MayHold(i)
    BY <1>1 DEF MayHold, Alike
  <1>3. PlainMayBe(i)' = PlainMayBe(i)
    BY DEF PlainMayBe, Alike
  <1> QED BY <1>2, <1>3

(* An if may be in the list that a branch is put in, and in one that has   *)
(* a branch.                                                               *)
LEMMA NestingIs ==
    ASSUME TypeInv, StackInv
    PROVE  /\ \A i \in 1..Depth : \A h \in 1..i : MayHold(i) => MayHold(h)
           /\ MayHold(Depth) => \A i \in 1..Depth :
                open[i].braced /\ open[i].kind \notin {"elseif", "else"}
           /\ Inner.kind \in Branches => MayHold(Depth - 1)
           /\ Inner.kind \in Branches /\ ~Inner.braced => PlainMayBe(Depth - 1)
  <1>1. Depth \in Nat /\ Depth >= 1 /\ Inner = open[Depth] /\ open[1].kind = "global"
    BY StackIs DEF TypeInv, StackType
  <1>2. ASSUME NEW i \in 1..Depth, NEW h \in 1..i, MayHold(i) PROVE MayHold(h)
    BY <1>1, <1>2 DEF MayHold
  <1>3. MayHold(Depth) => \A i \in 1..Depth :
           open[i].braced /\ open[i].kind \notin {"elseif", "else"}
    BY DEF MayHold
  <1>4. ASSUME Inner.kind \in Branches
        PROVE  MayHold(Depth - 1) /\ (~Inner.braced => PlainMayBe(Depth - 1))
    <2>1. Depth # 1
      BY <1>1, <1>4 DEF Branches
    <2>2. PICK i \in 1..Depth : i = Depth - 1 /\ i + 1 = Depth /\ i < Depth
      BY <1>1, <2>1
    <2>3. FrameInv(i) /\ open[i + 1] = Inner
      BY <1>1, <2>2 DEF StackInv
    <2>4. MayHold(i) /\ (~Inner.braced => PlainMayBe(i))
      BY <1>4, <2>2, <2>3 DEF FrameInv
    <2> QED BY <2>2, <2>4
  <1> QED BY <1>2, <1>3, <1>4

LEMMA StackInvPushed ==
    ASSUME TypeInv, StackInv, NEW kind \in Branches \cup Bodies, NEW braced \in BOOLEAN,
           Pushed(kind, braced), Inner.body # "done",
           kind = "function" => Depth = 1, kind \notin Branches => braced,
           kind \in Branches => MayHold(Depth) /\ (~braced => PlainMayBe(Depth))
    PROVE  StackInv'
  <1>1. Depth \in Nat /\ Depth >= 1 /\ Inner = open[Depth] /\ scopes \in Nat
        /\ \A i \in 1..Depth : open[i].scope \in Nat
    BY StackIs DEF TypeInv, TrackerType, FrameT
  <1>2. kind # "global"
    BY IfAssumption DEF Branches
  <1>3. ASSUME NEW i \in 1..Depth PROVE FrameInv(i)'
    <2>1. FrameInv(i) /\ Alike(i) /\ i \in Nat
      BY <1>1 DEF StackInv, Pushed, Alike
    <2>2. MayHold(i)' = MayHold(i) /\ PlainMayBe(i)' = PlainMayBe(i)
      BY <2>1, NestingKept
    <2>3. /\ open'[i].kind = open[i].kind /\ open'[i].braced = open[i].braced
          /\ open'[i].items = open[i].items /\ open'[i].body = open[i].body
          /\ open'[i].scope = open[i].scope /\ BodyOpened(i)' = BodyOpened(i)
      BY <2>1 DEF Pushed, Alike, SameLists, BodyOpened
    <2>4. open'[i].body = BodyOpened(i)
      <3>1. i = Depth => open[i].body = BodyOpened(i)
        BY <1>1, <2>1 DEF FrameInv
      <3> QED BY <1>1, <2>1, <2>3, <3>1 DEF FrameInv
    <2>5. \A j \in 1..Depth' : i < j => open'[i].scope < open'[j].scope
      <3>1. ASSUME NEW j \in 1..Depth, i < j PROVE open'[i].scope < open'[j].scope
        BY <2>1, <2>3, <3>1 DEF FrameInv, Pushed, Alike
      <3>2. open'[i].scope < open'[Depth + 1].scope
        BY <1>1, <2>1, <2>3 DEF FrameInv, Pushed
      <3>3. \A j \in 1..Depth' : j \in 1..Depth \/ j = Depth + 1
        BY <1>1 DEF Pushed
      <3> QED BY <3>1, <3>2, <3>3
    <2>6. open'[i].scope <= scopes'
      BY <1>1, <2>1, <2>3 DEF FrameInv, Pushed
    <2>7. i < Depth => open'[i + 1].kind = open[i + 1].kind /\ open'[i + 1].braced = open[i + 1].braced
      BY <1>1 DEF Pushed, Alike
    <2>8. i = Depth => open'[i + 1].kind = kind /\ open'[i + 1].braced = braced
      BY DEF Pushed
    <2>9. /\ open'[i + 1].kind \in Branches => MayHold(i)
          /\ open'[i + 1].kind \in Branches /\ ~open'[i + 1].braced => PlainMayBe(i)
      BY <1>1, <2>1, <2>7, <2>8 DEF FrameInv
    <2> QED BY <2>1, <2>2, <2>3, <2>4, <2>5, <2>6, <2>9 DEF FrameInv
  <1>4. ASSUME NEW i \in Nat, i = Depth + 1 PROVE FrameInv(i)'
    <2>1. /\ open'[i].kind = kind /\ open'[i].braced = braced
          /\ open'[i].items = <<>> /\ open'[i].scope = scopes' /\ scopes' \in Nat
          /\ open'[i].body = BodyOpened(i)' /\ Depth' = i
      BY <1>1, <1>4 DEF Pushed, BodyOpened
    <2> QED BY <1>1, <1>2, <1>4, <2>1 DEF FrameInv
  <1>5. \A i \in 1..Depth' : i \in 1..Depth \/ (i \in Nat /\ i = Depth + 1)
    BY <1>1 DEF Pushed
  <1> QED BY <1>3, <1>4, <1>5 DEF StackInv

LEMMA StackInvEnded ==
    ASSUME TypeInv, StackInv, Ended
    PROVE  StackInv'
  <1>1. Depth \in Nat /\ Depth >= 1
    BY StackIs DEF TypeInv
  <1>2. ASSUME NEW i \in 1..Depth PROVE FrameInv(i)'
    <2>1. FrameInv(i) /\ Alike(i) /\ i \in Nat
      BY <1>1 DEF StackInv, Ended, Alike
    <2>2. MayHold(i)' = MayHold(i) /\ PlainMayBe(i)' = PlainMayBe(i)
      BY <2>1, NestingKept
    <2>3. i = Depth \/ i \in 1..(Depth - 1)
      BY <1>1
    <2>4. /\ open'[i].kind = open[i].kind /\ open'[i].braced = open[i].braced
          /\ open'[i].items = open[i].items /\ open'[i].scope = open[i].scope
          /\ BodyOpened(i)' = BodyOpened(i)
          /\ i < Depth => open'[i].body = open[i].body
          /\ i = Depth => open'[i].body = "done"
      BY <1>1, <2>1, <2>3 DEF Ended, Alike, SameLists, BodyOpened
    <2>5. \A j \in 1..Depth' : i < j => open'[i].scope < open'[j].scope
      BY <2>1, <2>4 DEF FrameInv, Ended, Alike
    <2>6. i < Depth => open'[i + 1].kind = open[i + 1].kind /\ open'[i + 1].braced = open[i + 1].braced
      BY <1>1 DEF Ended, Alike
    <2>7. Depth' = Depth /\ scopes' = scopes
      BY DEF Ended
    <2> QED BY <1>1, <2>1, <2>2, <2>3, <2>4, <2>5, <2>6, <2>7 DEF FrameInv
  <1> QED BY <1>2 DEF StackInv, Ended

LEMMA StackInvLeft ==
    ASSUME TypeInv, StackInv, Depth > 1, NEW n \in Nat, Left(n), n # 0 => MayHold(Depth - 1)
    PROVE  StackInv'
  <1>1. Depth \in Nat /\ Depth >= 1 /\ Depth - 1 \in 1..Depth
    BY StackIs DEF TypeInv
  <1>2. ASSUME NEW i \in 1..(Depth - 1) PROVE FrameInv(i)'
    <2>1. FrameInv(i) /\ Alike(i) /\ i \in Nat /\ i \in 1..Depth /\ i < Depth
      BY <1>1 DEF StackInv, Left, Alike
    <2>2. MayHold(i)' = MayHold(i) /\ PlainMayBe(i)' = PlainMayBe(i)
      BY <2>1, NestingKept
    <2>3. i = Depth - 1 \/ i \in 1..(Depth - 2)
      BY <1>1
    <2>4. /\ open'[i].kind = open[i].kind /\ open'[i].braced = open[i].braced
          /\ open'[i].scope = open[i].scope /\ BodyOpened(i)' = BodyOpened(i)
          /\ i < Depth - 1 => open'[i].items = open[i].items /\ open'[i].body = open[i].body
          /\ i = Depth - 1 => open'[i].items = Append(open[i].items, n)
      <3>1. /\ open'[i].kind = open[i].kind /\ open'[i].braced = open[i].braced
            /\ open'[i].scope = open[i].scope
        BY <2>1 DEF Alike
      <3>2. BodyOpened(i)' = BodyOpened(i)
        BY <3>1 DEF BodyOpened
      <3>3. CASE i = Depth - 1
        BY <1>1, <3>1, <3>2, <3>3 DEF Left
      <3>4. CASE i \in 1..(Depth - 2)
        BY <1>1, <3>1, <3>2, <3>4 DEF Left, SameLists
      <3> QED BY <2>3, <3>3, <3>4
    <2>5. open'[i].body \in {BodyOpened(i), "done"} /\ (i < Depth' => open'[i].body = BodyOpened(i))
      BY <1>1, <2>1, <2>3, <2>4 DEF Left, FrameInv, BodyOpened
    <2>6. \A j \in 1..Depth' : i < j => open'[i].scope < open'[j].scope
      <3>1. \A j \in 1..Depth' : j \in 1..Depth /\ open'[j].scope = open[j].scope
        BY <1>1 DEF Left, Alike
      <3> QED BY <2>1, <2>4, <3>1 DEF FrameInv
    <2>7. i < Depth' => open'[i + 1].kind = open[i + 1].kind /\ open'[i + 1].braced = open[i + 1].braced
      BY <1>1 DEF Left, Alike
    <2>8. \A k \in 1..Len(open'[i].items) : open'[i].items[k] # 0 => MayHold(i)
      <3>1. CASE i < Depth - 1
        BY <2>1, <2>4, <3>1 DEF FrameInv
      <3>2. CASE i = Depth - 1
        <4>1. open[i].items \in Seq(Nat)
          BY <2>1, ItemsAre
        <4>2. open'[i].items = Append(open[i].items, n)
          BY <3>2, <2>4
        <4>3. /\ Len(open'[i].items) = Len(open[i].items) + 1
              /\ \A k \in 1..Len(open[i].items) : open'[i].items[k] = open[i].items[k]
              /\ open'[i].items[Len(open[i].items) + 1] = n
              /\ \A k \in 1..(Len(open[i].items) + 1) :
                   k \in 1..Len(open[i].items) \/ k = Len(open[i].items) + 1
          BY <4>1, <4>2, AppendIs
        <4>4. \A k \in 1..Len(open[i].items) : open[i].items[k] # 0 => MayHold(i)
          BY <2>1 DEF FrameInv
        <4>5. n # 0 => MayHold(i)
          BY <3>2
        <4> QED BY <4>3, <4>4, <4>5
      <3> QED BY <1>1, <2>3, <3>1, <3>2
    <2>9. Depth' = Depth - 1 /\ scopes' = scopes
      BY DEF Left
    <2>10. /\ i < Depth' /\ open'[i + 1].kind \in Branches => MayHold(i)
           /\ i < Depth' /\ open'[i + 1].kind \in Branches /\ ~open'[i + 1].braced => PlainMayBe(i)
      BY <2>1, <2>7 DEF FrameInv
    <2>11. /\ open[i].kind = "global" <=> i = 1
           /\ open[i].kind = "function" => i = 2
           /\ open[i].kind \notin Branches => open[i].braced
           /\ open[i].scope <= scopes
      BY <2>1 DEF FrameInv
    <2> QED BY <2>2, <2>4, <2>5, <2>6, <2>8, <2>9, <2>10, <2>11 DEF FrameInv
  <1> QED BY <1>1, <1>2 DEF StackInv, Left

-----------------------------------------------------------------------------
(* Lists, in a graph of nodes: the list of a construct.                    *)
ListIn(g, s) ==
    /\ g \in Seq(NodeT) /\ s \in Seq(Nat)
    /\ \A k \in 1..Len(s) : s[k] <= Len(g)
    /\ \A k, l \in 1..Len(s) : s[k] # 0 /\ s[k] = s[l] => k = l

LEMMA ItemIs ==
    ASSUME NEW g, NEW s, ListIn(g, s), NEW p \in 1..Len(s)
    PROVE  /\ s[p] \in 0..Len(g) /\ Len(s) \in Nat /\ Len(g) \in Nat
           /\ KindIn(g, s[p]) # "other" => s[p] \in 1..Len(g) /\ s[p] # 0
           /\ s[p] # 0 => KindIn(g, s[p]) = g[s[p]].kind /\ Len(g[s[p]].elseIfs) \in Nat
                          /\ g[s[p]] \in NodeT
  <1>1. Len(s) \in Nat /\ Len(g) \in Nat /\ s[p] \in 0..Len(g)
    <2>1. s \in Seq(Nat) /\ g \in Seq(NodeT)
      BY DEF ListIn
    <2>2. s[p] \in Nat /\ s[p] <= Len(g)
      BY <2>1, ElementOfSeq DEF ListIn
    <2> QED BY <2>1, <2>2
  <1>2. s[p] # 0 => g[s[p]] \in NodeT
    BY <1>1 DEF ListIn
  <1>3. s[p] # 0 => Len(g[s[p]].elseIfs) \in Nat
    BY <1>2 DEF NodeT
  <1> QED BY <1>1, <1>2, <1>3 DEF KindIn

(* The last if of a list that may go on, and what follows it.              *)
LEMMA LastStatement ==
    ASSUME NEW g, NEW s, ListIn(g, s), Tidy(g, s), Sound(g), ContinuesIn(g, s)
    PROVE  \E p \in 1..Len(s) : Unfinished(g, s, p)
  <1> DEFINE m == Len(s)
  <1>1. m \in 1..m /\ m \in Nat
    BY DEF ContinuesIn, ListIn
  <1>2. CASE KindIn(g, s[m]) = "if"
    <2>1. IfAt(g, s, m)
      BY <1>1, <1>2 DEF Tidy
    <2>2. Len(g[s[m]].elseIfs) \in Nat
      BY <1>1, <1>2, ItemIs
    <2>3. m + Len(g[s[m]].elseIfs) <= m
          /\ (g[s[m]].else # 0 => m + Len(g[s[m]].elseIfs) + 1 <= m)
      BY <2>1 DEF IfAt
    <2>4. Unfinished(g, s, m)
      BY <1>1, <1>2, <2>2, <2>3 DEF Unfinished
    <2> QED BY <1>1, <2>4
  <1>3. CASE KindIn(g, s[m]) = "elseif"
    <2>1. ElseIfAt(g, s, m)
      BY <1>1, <1>3 DEF Tidy
    <2>2. PICK p \in 1..(m - 1) : KindIn(g, s[p]) = "if" /\ m <= p + Len(g[s[p]].elseIfs)
      BY <2>1 DEF ElseIfAt
    <2>3. p \in 1..m
      BY <1>1
    <2>4. IfAt(g, s, p) /\ Len(g[s[p]].elseIfs) \in Nat
      BY <2>2, <2>3, ItemIs DEF Tidy
    <2>5. p + Len(g[s[p]].elseIfs) <= m
          /\ (g[s[p]].else # 0 => p + Len(g[s[p]].elseIfs) + 1 <= m)
      BY <2>4 DEF IfAt
    <2>a. m = p + Len(g[s[p]].elseIfs) /\ g[s[p]].else = 0
      <3> DEFINE l == Len(g[s[p]].elseIfs)
                 e == g[s[p]].else
      <3>1. m <= p + l /\ p \in Nat /\ m \in Nat /\ l \in Nat /\ p + l <= m
            /\ (e # 0 => p + l + 1 <= m)
        BY <1>1, <2>2, <2>3, <2>4, <2>5
      <3> HIDE DEF l, e, m
      <3>2. m = p + l /\ e = 0
        BY <3>1
      <3> QED BY <3>2 DEF l, e
    <2>6. Unfinished(g, s, p)
      BY <2>2, <2>3, <2>a DEF Unfinished
    <2> QED BY <2>3, <2>6
  <1> QED BY <1>2, <1>3 DEF ContinuesIn

(* Behind an if in a list are its else ifs.                                *)
LEMMA ElseIfsFollow ==
    ASSUME NEW g, NEW s, ListIn(g, s), Tidy(g, s), Sound(g), NEW p \in 1..Len(s),
           KindIn(g, s[p]) = "if", NEW q \in 1..Len(s), p < q, q <= p + Len(g[s[p]].elseIfs)
    PROVE  /\ KindIn(g, s[q]) = "elseif" /\ s[q] = g[s[p]].elseIfs[q - p] /\ g[s[q]].of = s[p]
           /\ q - p \in 1..Len(g[s[p]].elseIfs) /\ s[q] # 0
  <1>1. /\ s[p] \in 1..Len(g) /\ Len(g[s[p]].elseIfs) \in Nat /\ Len(s) \in Nat /\ Len(g) \in Nat
    BY ItemIs
  <1>2. q - p \in 1..Len(g[s[p]].elseIfs) /\ p + (q - p) = q
    BY <1>1
  <1>3. s[q] = g[s[p]].elseIfs[q - p]
    <2>1. \A k \in 1..Len(g[s[p]].elseIfs) : s[p + k] = g[s[p]].elseIfs[k]
      BY DEF Tidy, IfAt
    <2> QED BY <1>2, <2>1
  <1>4. s[q] \in 1..Len(g) /\ g[s[q]].kind = "elseif" /\ g[s[q]].of = s[p]
    <2>1. ChainOf(g, s[p])
      BY <1>1 DEF Sound
    <2> QED BY <1>2, <1>3, <2>1 DEF ChainOf
  <1> QED BY <1>1, <1>2, <1>3, <1>4, SMTT(30) DEF KindIn

(* A list is as tidy in a graph that has the same links between its items. *)
SameIn(f, g, s) ==
    \A k \in 1..Len(s) : s[k] # 0 =>
        /\ f[s[k]].kind = g[s[k]].kind /\ f[s[k]].of = g[s[k]].of
        /\ f[s[k]].elseIfs = g[s[k]].elseIfs /\ f[s[k]].else = g[s[k]].else

LEMMA TidyKept ==
    ASSUME NEW g, NEW f, NEW s, ListIn(g, s), SameIn(f, g, s), Tidy(g, s)
    PROVE  /\ Tidy(f, s)
           /\ \A p \in 1..Len(s) : KindIn(f, s[p]) = KindIn(g, s[p])
           /\ \A p : Unfinished(g, s, p) => Unfinished(f, s, p)
           /\ ContinuesIn(f, s) = ContinuesIn(g, s)
  <1>1. \A p \in 1..Len(s) : KindIn(f, s[p]) = KindIn(g, s[p])
    BY DEF SameIn, KindIn
  <1>2. \A p \in 1..Len(s) : KindIn(g, s[p]) # "other" => s[p] # 0
    BY DEF KindIn
  <1>0. Len(s) \in Nat
    BY DEF ListIn
  <1>3. ASSUME NEW p \in 1..Len(s), KindIn(g, s[p]) = "if" PROVE IfAt(f, s, p)
    <2>1. IfAt(g, s, p)
      BY <1>3 DEF Tidy
    <2>2. f[s[p]].elseIfs = g[s[p]].elseIfs /\ f[s[p]].else = g[s[p]].else
      BY <1>2, <1>3 DEF SameIn
    <2> QED BY <2>1, <2>2 DEF IfAt
  <1>4. ASSUME NEW q \in 1..Len(s), KindIn(g, s[q]) = "elseif" PROVE ElseIfAt(f, s, q)
    <2>1. PICK p \in 1..(q - 1) : /\ KindIn(g, s[p]) = "if" /\ q <= p + Len(g[s[p]].elseIfs)
                                  /\ g[s[q]].of = s[p]
      BY <1>4 DEF Tidy, ElseIfAt
    <2>2. p \in 1..Len(s)
      BY <1>0
    <2>3. f[s[p]].elseIfs = g[s[p]].elseIfs /\ f[s[q]].of = g[s[q]].of
      BY <1>2, <1>4, <2>1, <2>2 DEF SameIn
    <2> QED BY <1>1, <2>1, <2>2, <2>3 DEF ElseIfAt
  <1>5. ASSUME NEW q \in 1..Len(s), KindIn(g, s[q]) = "else" PROVE ElseAt(f, s, q)
    <2>1. PICK p \in 1..(q - 1) : /\ KindIn(g, s[p]) = "if" /\ q = p + Len(g[s[p]].elseIfs) + 1
                                  /\ g[s[p]].else = s[q] /\ g[s[q]].of = s[p]
      BY <1>5 DEF Tidy, ElseAt
    <2>2. p \in 1..Len(s)
      BY <1>0
    <2>3. f[s[p]].elseIfs = g[s[p]].elseIfs /\ f[s[p]].else = g[s[p]].else
          /\ f[s[q]].of = g[s[q]].of
      BY <1>2, <1>5, <2>1, <2>2 DEF SameIn
    <2> QED BY <1>1, <2>1, <2>2, <2>3 DEF ElseAt
  <1>6. ASSUME NEW p, Unfinished(g, s, p) PROVE Unfinished(f, s, p)
    <2>1. p \in 1..Len(s) /\ KindIn(g, s[p]) = "if"
      BY <1>6 DEF Unfinished
    <2>2. f[s[p]].elseIfs = g[s[p]].elseIfs /\ f[s[p]].else = g[s[p]].else
      BY <1>2, <2>1 DEF SameIn
    <2> QED BY <1>1, <1>6, <2>1, <2>2 DEF Unfinished
  <1>7. ContinuesIn(f, s) = ContinuesIn(g, s)
    <2>1. Len(s) # 0 => Len(s) \in 1..Len(s)
      BY <1>0
    <2> QED BY <1>1, <2>1 DEF ContinuesIn
  <1> QED BY <1>1, <1>3, <1>4, <1>5, <1>6, <1>7 DEF Tidy

(* A list whose last if gets an else if, or an else, at its end.           *)
LEMMA TidyElseIf ==
    ASSUME NEW g, NEW s, ListIn(g, s), Tidy(g, s), Sound(g), NEW p, Unfinished(g, s, p),
           NEW n, n = Len(g) + 1, NEW f,
           \A m \in 1..Len(g) :
              /\ f[m].kind = g[m].kind /\ f[m].of = g[m].of /\ f[m].else = g[m].else
              /\ f[m].elseIfs = IF m = s[p] THEN Append(g[m].elseIfs, n) ELSE g[m].elseIfs,
           f[n].kind = "elseif", f[n].of = s[p]
    PROVE  Tidy(f, Append(s, n)) /\ Unfinished(f, Append(s, n), p)
  <1> DEFINE t == Append(s, n)
             v == g[s[p]].elseIfs
  <1>1. /\ p \in 1..Len(s) /\ KindIn(g, s[p]) = "if" /\ Len(s) = p + Len(v) /\ g[s[p]].else = 0
    BY DEF Unfinished
  <1>2. /\ s[p] \in 1..Len(g) /\ Len(s) \in Nat /\ Len(g) \in Nat /\ n \in Nat /\ n # 0
        /\ s \in Seq(Nat) /\ n \notin 1..Len(g) /\ v \in Seq(Nat)
    <2>1. /\ s[p] \in 1..Len(g) /\ Len(s) \in Nat /\ Len(g) \in Nat /\ g[s[p]] \in NodeT
      BY <1>1, ItemIs
    <2>2. v \in Seq(Nat)
      BY <2>1 DEF NodeT
    <2> QED BY <2>1, <2>2 DEF ListIn
  <1>3. /\ Len(t) = Len(s) + 1 /\ t[Len(s) + 1] = n /\ \A k \in 1..Len(s) : t[k] = s[k]
        /\ \A k \in 1..(Len(s) + 1) : k \in 1..Len(s) \/ k = Len(s) + 1
    BY <1>2, AppendIs
  <1>4. /\ Len(Append(v, n)) = Len(v) + 1 /\ Append(v, n)[Len(v) + 1] = n
        /\ \A k \in 1..Len(v) : Append(v, n)[k] = v[k]
        /\ \A k \in 1..(Len(v) + 1) : k \in 1..Len(v) \/ k = Len(v) + 1
        /\ Len(v) \in Nat
    <2> HIDE DEF v
    <2> QED BY <1>2, AppendIs
  <1>5. f[s[p]].elseIfs = Append(v, n) /\ f[s[p]].else = 0
    BY <1>1, <1>2
  <1> HIDE DEF t, v
  <1>6. \A k \in 1..Len(s) : KindIn(f, t[k]) = KindIn(g, s[k])
    BY <1>3, ItemIs DEF KindIn
  <1>7. KindIn(f, n) = "elseif"
    BY <1>2 DEF KindIn
  <1>8. \A k \in 1..Len(s) : k # p /\ s[k] # 0 => s[k] # s[p]
    BY <1>1, <1>2 DEF ListIn
  <1>9. ASSUME NEW k \in 1..Len(s), KindIn(g, s[k]) = "if", k # p
        PROVE  IfAt(f, t, k) /\ f[s[k]].elseIfs = g[s[k]].elseIfs
    <2>1. s[k] \in 1..Len(g) /\ s[k] # s[p] /\ Len(g[s[k]].elseIfs) \in Nat /\ k \in Nat
      BY <1>8, <1>9, ItemIs
    <2>2. f[s[k]].elseIfs = g[s[k]].elseIfs /\ f[s[k]].else = g[s[k]].else
      BY <2>1
    <2> DEFINE w == g[s[k]].elseIfs
    <2>3. /\ k + Len(w) <= Len(s) /\ \A j \in 1..Len(w) : s[k + j] = w[j]
          /\ g[s[k]].else # 0 => k + Len(w) + 1 <= Len(s) /\ s[k + Len(w) + 1] = g[s[k]].else
      BY <1>9 DEF Tidy, IfAt
    <2>4. ASSUME NEW j \in 1..Len(w) PROVE k + j \in 1..Len(s)
      <3>1. Len(w) \in Nat /\ k \in 1..Len(s) /\ k + Len(w) <= Len(s) /\ Len(s) \in Nat
        BY <1>2, <2>1, <2>3
      <3> HIDE DEF w
      <3> QED BY <3>1
    <2>5. g[s[k]].else # 0 => k + Len(w) + 1 \in 1..Len(s)
      <3>1. Len(w) \in Nat /\ k \in 1..Len(s) /\ Len(s) \in Nat
            /\ (g[s[k]].else # 0 => k + Len(w) + 1 <= Len(s))
        BY <1>2, <2>1, <2>3
      <3> HIDE DEF w
      <3> QED BY <3>1
    <2>6. t[k] = s[k]
      BY <1>3
    <2>7. k + Len(w) <= Len(t)
      BY <1>2, <1>3, <2>1, <2>3
    <2>8. \A j \in 1..Len(w) : t[k + j] = w[j]
      BY <1>3, <2>3, <2>4
    <2>9. g[s[k]].else # 0 => k + Len(w) + 1 <= Len(t) /\ t[k + Len(w) + 1] = g[s[k]].else
      BY <1>2, <1>3, <2>1, <2>3, <2>5, SMTT(30)
    <2> HIDE DEF w
    <2> QED BY <2>2, <2>6, <2>7, <2>8, <2>9 DEF IfAt, w
  <1>10. IfAt(f, t, p)
    <2>1. t[p] = s[p] /\ p \in Nat
      BY <1>1, <1>3
    <2>2. \A j \in 1..Len(v) : s[p + j] = v[j] /\ p + j \in 1..Len(s)
      BY <1>1, <1>2, <1>4 DEF Tidy, IfAt, v
    <2>3. \A j \in 1..(Len(v) + 1) : t[p + j] = Append(v, n)[j]
      <3>1. t[p + (Len(v) + 1)] = n
        BY <1>1, <1>3, <1>4, <2>1
      <3> QED BY <1>3, <1>4, <2>2, <3>1
    <2>4. p + (Len(v) + 1) <= Len(t)
      BY <1>1, <1>2, <1>3, <1>4, <2>1
    <2> DEFINE w == f[t[p]].elseIfs
    <2>5. w = Append(v, n) /\ Len(w) = Len(v) + 1 /\ f[t[p]].else = 0
      BY <1>4, <1>5, <2>1
    <2>6. p + Len(w) <= Len(t) /\ \A j \in 1..Len(w) : t[p + j] = w[j]
      <3> HIDE DEF w
      <3> QED BY <2>3, <2>4, <2>5
    <2> QED BY <2>5, <2>6 DEF IfAt
  <1>11. ASSUME NEW q \in 1..Len(s), KindIn(g, s[q]) = "elseif" PROVE ElseIfAt(f, t, q)
    <2>1. PICK k \in 1..(q - 1) : /\ KindIn(g, s[k]) = "if" /\ q <= k + Len(g[s[k]].elseIfs)
                                  /\ g[s[q]].of = s[k]
      BY <1>11 DEF Tidy, ElseIfAt
    <2>2. k \in 1..Len(s) /\ Len(g[s[k]].elseIfs) \in Nat
      <3>1. k \in 1..Len(s)
        BY <1>2
      <3>2. Len(g[s[k]].elseIfs) \in Nat
        BY <2>1, <3>1, ItemIs
      <3> QED BY <3>1, <3>2
    <2>3. Len(f[s[k]].elseIfs) >= Len(g[s[k]].elseIfs) /\ Len(f[s[k]].elseIfs) \in Nat
      <3>1. CASE k = p
        BY <1>4, <1>5, <3>1, SMTT(30) DEF v
      <3>2. CASE k # p
        BY <1>9, <2>1, <2>2, <3>2
      <3> QED BY <3>1, <3>2
    <2>4. f[s[q]].of = s[k]
      BY <1>11, <2>1, ItemIs
    <2>5. q <= k + Len(f[s[k]].elseIfs)
      <3> DEFINE a == Len(g[s[k]].elseIfs)
                 b == Len(f[s[k]].elseIfs)
      <3>1. q \in Nat /\ k \in Nat /\ a \in Nat /\ b \in Nat /\ q <= k + a /\ a <= b
        BY <1>11, <2>1, <2>2, <2>3
      <3> HIDE DEF a, b
      <3>2. q <= k + b
        BY <3>1
      <3> QED BY <3>2 DEF b
    <2>6. t[k] = s[k] /\ t[q] = s[q] /\ KindIn(f, t[k]) = "if"
      BY <1>3, <1>6, <2>1, <2>2
    <2> QED BY <2>4, <2>5, <2>6 DEF ElseIfAt
  <1>12. ASSUME NEW q \in 1..Len(s), KindIn(g, s[q]) = "else" PROVE ElseAt(f, t, q)
    <2>1. PICK k \in 1..(q - 1) : /\ KindIn(g, s[k]) = "if" /\ q = k + Len(g[s[k]].elseIfs) + 1
                                  /\ g[s[k]].else = s[q] /\ g[s[q]].of = s[k]
      BY <1>12 DEF Tidy, ElseAt
    <2>2. k \in 1..Len(s) /\ s[q] # 0 /\ s[q] \in 1..Len(g)
      BY <1>2, <1>12, ItemIs
    <2>3. k # p
      BY <1>1, <2>1, <2>2
    <2>4. f[s[k]].elseIfs = g[s[k]].elseIfs /\ f[s[k]].else = s[q] /\ f[s[q]].of = s[k]
      BY <1>9, <2>1, <2>2, <2>3, ItemIs
    <2>5. t[k] = s[k] /\ t[q] = s[q] /\ KindIn(f, t[k]) = "if"
      BY <1>3, <1>6, <2>1, <2>2
    <2>6. k \in 1..(q - 1) /\ q = k + Len(f[t[k]].elseIfs) + 1 /\ f[t[k]].else = t[q] /\ f[t[q]].of = t[k]
      BY <2>1, <2>4, <2>5
    <2> QED BY <2>5, <2>6 DEF ElseAt
  <1>13. ElseIfAt(f, t, Len(s) + 1)
    <2>1. p \in 1..(Len(s) + 1 - 1)
      BY <1>1, <1>2
    <2>2. t[p] = s[p] /\ KindIn(f, t[p]) = "if" /\ t[Len(s) + 1] = n
      BY <1>1, <1>3, <1>6
    <2>3. Len(s) + 1 <= p + Len(f[s[p]].elseIfs)
      BY <1>1, <1>4, <1>5
    <2>4. Len(s) + 1 <= p + Len(f[t[p]].elseIfs) /\ f[t[Len(s) + 1]].of = t[p]
      BY <1>1, <1>4, <2>2, <2>3
    <2> QED BY <2>1, <2>2, <2>4 DEF ElseIfAt
  <1>14. Unfinished(f, t, p)
    <2>1. p \in 1..Len(t) /\ Len(t) = p + Len(f[s[p]].elseIfs)
      BY <1>1, <1>2, <1>3, <1>4, <1>5
    <2>2. t[p] = s[p] /\ KindIn(f, t[p]) = "if"
      BY <1>1, <1>3, <1>6
    <2> QED BY <1>5, <2>1, <2>2 DEF Unfinished
  <1>15. Tidy(f, t)
    <2>1. ASSUME NEW q \in 1..Len(s)
          PROVE  /\ KindIn(f, t[q]) = "if" => IfAt(f, t, q)
                 /\ KindIn(f, t[q]) = "elseif" => ElseIfAt(f, t, q)
                 /\ KindIn(f, t[q]) = "else" => ElseAt(f, t, q)
      BY <1>6, <1>9, <1>10, <1>11, <1>12
    <2>2. KindIn(f, t[Len(s) + 1]) = "elseif"
      BY <1>3, <1>7
    <2> QED BY <1>3, <1>13, <2>1, <2>2 DEF Tidy
  <1> QED BY <1>14, <1>15 DEF t

LEMMA TidyElse ==
    ASSUME NEW g, NEW s, ListIn(g, s), Tidy(g, s), Sound(g), NEW p, Unfinished(g, s, p),
           NEW n, n = Len(g) + 1, NEW f,
           \A m \in 1..Len(g) :
              /\ f[m].kind = g[m].kind /\ f[m].of = g[m].of /\ f[m].elseIfs = g[m].elseIfs
              /\ f[m].else = IF m = s[p] THEN n ELSE g[m].else,
           f[n].kind = "else", f[n].of = s[p]
    PROVE  Tidy(f, Append(s, n))
  <1> DEFINE t == Append(s, n)
             v == g[s[p]].elseIfs
  <1>1. /\ p \in 1..Len(s) /\ KindIn(g, s[p]) = "if" /\ Len(s) = p + Len(v) /\ g[s[p]].else = 0
    BY DEF Unfinished
  <1>2. /\ s[p] \in 1..Len(g) /\ Len(s) \in Nat /\ Len(g) \in Nat /\ n \in Nat /\ n # 0
        /\ s \in Seq(Nat) /\ n \notin 1..Len(g) /\ v \in Seq(Nat)
    <2>1. /\ s[p] \in 1..Len(g) /\ Len(s) \in Nat /\ Len(g) \in Nat /\ g[s[p]] \in NodeT
      BY <1>1, ItemIs
    <2>2. v \in Seq(Nat)
      BY <2>1 DEF NodeT
    <2> QED BY <2>1, <2>2 DEF ListIn
  <1>3. /\ Len(t) = Len(s) + 1 /\ t[Len(s) + 1] = n /\ \A k \in 1..Len(s) : t[k] = s[k]
        /\ \A k \in 1..(Len(s) + 1) : k \in 1..Len(s) \/ k = Len(s) + 1
    BY <1>2, AppendIs
  <1>4. Len(v) \in Nat
    BY <1>2
  <1>5. f[s[p]].elseIfs = v /\ f[s[p]].else = n
    BY <1>1, <1>2
  <1> HIDE DEF t, v
  <1>6. \A k \in 1..Len(s) : KindIn(f, t[k]) = KindIn(g, s[k])
    BY <1>3, ItemIs DEF KindIn
  <1>7. KindIn(f, n) = "else"
    BY <1>2 DEF KindIn
  <1>8. \A k \in 1..Len(s) : k # p /\ s[k] # 0 => s[k] # s[p]
    BY <1>1, <1>2 DEF ListIn
  <1>9. ASSUME NEW k \in 1..Len(s), KindIn(g, s[k]) = "if", k # p
        PROVE  IfAt(f, t, k) /\ f[s[k]].elseIfs = g[s[k]].elseIfs
    <2>1. s[k] \in 1..Len(g) /\ s[k] # s[p] /\ Len(g[s[k]].elseIfs) \in Nat /\ k \in Nat
      BY <1>8, <1>9, ItemIs
    <2>2. f[s[k]].elseIfs = g[s[k]].elseIfs /\ f[s[k]].else = g[s[k]].else
      BY <2>1
    <2> DEFINE w == g[s[k]].elseIfs
    <2>3. /\ k + Len(w) <= Len(s) /\ \A j \in 1..Len(w) : s[k + j] = w[j]
          /\ g[s[k]].else # 0 => k + Len(w) + 1 <= Len(s) /\ s[k + Len(w) + 1] = g[s[k]].else
      BY <1>9 DEF Tidy, IfAt
    <2>4. ASSUME NEW j \in 1..Len(w) PROVE k + j \in 1..Len(s)
      <3>1. Len(w) \in Nat /\ k \in 1..Len(s) /\ k + Len(w) <= Len(s) /\ Len(s) \in Nat
        BY <1>2, <2>1, <2>3
      <3> HIDE DEF w
      <3> QED BY <3>1
    <2>5. g[s[k]].else # 0 => k + Len(w) + 1 \in 1..Len(s)
      <3>1. Len(w) \in Nat /\ k \in 1..Len(s) /\ Len(s) \in Nat
            /\ (g[s[k]].else # 0 => k + Len(w) + 1 <= Len(s))
        BY <1>2, <2>1, <2>3
      <3> HIDE DEF w
      <3> QED BY <3>1
    <2>6. t[k] = s[k]
      BY <1>3
    <2>7. k + Len(w) <= Len(t)
      BY <1>2, <1>3, <2>1, <2>3
    <2>8. \A j \in 1..Len(w) : t[k + j] = w[j]
      BY <1>3, <2>3, <2>4
    <2>9. g[s[k]].else # 0 => k + Len(w) + 1 <= Len(t) /\ t[k + Len(w) + 1] = g[s[k]].else
      BY <1>2, <1>3, <2>1, <2>3, <2>5, SMTT(30)
    <2> HIDE DEF w
    <2> QED BY <2>2, <2>6, <2>7, <2>8, <2>9 DEF IfAt, w
  <1>10. IfAt(f, t, p)
    <2>1. t[p] = s[p] /\ p \in Nat
      BY <1>1, <1>3
    <2>2. \A j \in 1..Len(v) : s[p + j] = v[j] /\ p + j \in 1..Len(s)
      BY <1>1, <1>2, <1>4 DEF Tidy, IfAt, v
    <2>3. \A j \in 1..Len(v) : t[p + j] = v[j]
      BY <1>3, <2>2
    <2>4. p + Len(v) + 1 = Len(t) /\ p + Len(v) + 1 = Len(s) + 1 /\ p + Len(v) <= Len(t)
      BY <1>1, <1>2, <1>3, <1>4, <2>1
    <2>5. t[p + Len(v) + 1] = n
      BY <1>3, <2>4
    <2>6. p + Len(v) + 1 <= Len(t)
      BY <1>2, <1>3, <2>4
    <2> QED BY <1>5, <2>1, <2>3, <2>4, <2>5, <2>6 DEF IfAt
  <1>11. ASSUME NEW q \in 1..Len(s), KindIn(g, s[q]) = "elseif" PROVE ElseIfAt(f, t, q)
    <2>1. PICK k \in 1..(q - 1) : /\ KindIn(g, s[k]) = "if" /\ q <= k + Len(g[s[k]].elseIfs)
                                  /\ g[s[q]].of = s[k]
      BY <1>11 DEF Tidy, ElseIfAt
    <2>2. k \in 1..Len(s) /\ Len(g[s[k]].elseIfs) \in Nat
      <3>1. k \in 1..Len(s)
        BY <1>2
      <3>2. Len(g[s[k]].elseIfs) \in Nat
        BY <2>1, <3>1, ItemIs
      <3> QED BY <3>1, <3>2
    <2>3. f[s[k]].elseIfs = g[s[k]].elseIfs
      BY <1>5, <1>9, <2>1, <2>2 DEF v
    <2>4. f[s[q]].of = s[k]
      BY <1>11, <2>1, ItemIs
    <2>5. q <= k + Len(f[s[k]].elseIfs)
      <3> DEFINE a == Len(g[s[k]].elseIfs)
                 b == Len(f[s[k]].elseIfs)
      <3>1. q \in Nat /\ k \in Nat /\ a \in Nat /\ b \in Nat /\ q <= k + a /\ a <= b
        BY <1>11, <2>1, <2>2, <2>3
      <3> HIDE DEF a, b
      <3>2. q <= k + b
        BY <3>1
      <3> QED BY <3>2 DEF b
    <2>6. t[k] = s[k] /\ t[q] = s[q] /\ KindIn(f, t[k]) = "if"
      BY <1>3, <1>6, <2>1, <2>2
    <2> QED BY <2>4, <2>5, <2>6 DEF ElseIfAt
  <1>12. ASSUME NEW q \in 1..Len(s), KindIn(g, s[q]) = "else" PROVE ElseAt(f, t, q)
    <2>1. PICK k \in 1..(q - 1) : /\ KindIn(g, s[k]) = "if" /\ q = k + Len(g[s[k]].elseIfs) + 1
                                  /\ g[s[k]].else = s[q] /\ g[s[q]].of = s[k]
      BY <1>12 DEF Tidy, ElseAt
    <2>2. k \in 1..Len(s) /\ s[q] # 0 /\ s[q] \in 1..Len(g)
      BY <1>2, <1>12, ItemIs
    <2>3. k # p
      BY <1>1, <2>1, <2>2
    <2>a. s[k] \in 1..Len(g) /\ s[k] # s[p]
      BY <1>8, <2>1, <2>2, <2>3, ItemIs
    <2>4. f[s[k]].elseIfs = g[s[k]].elseIfs /\ f[s[k]].else = s[q] /\ f[s[q]].of = s[k]
      BY <2>1, <2>2, <2>a
    <2>5. t[k] = s[k] /\ t[q] = s[q] /\ KindIn(f, t[k]) = "if"
      BY <1>3, <1>6, <2>1, <2>2
    <2>6. k \in 1..(q - 1) /\ q = k + Len(f[t[k]].elseIfs) + 1 /\ f[t[k]].else = t[q] /\ f[t[q]].of = t[k]
      BY <2>1, <2>4, <2>5
    <2> QED BY <2>5, <2>6 DEF ElseAt
  <1>13. ElseAt(f, t, Len(s) + 1)
    <2>1. p \in 1..(Len(s) + 1 - 1)
      BY <1>1, <1>2
    <2>2. t[p] = s[p] /\ KindIn(f, t[p]) = "if" /\ t[Len(s) + 1] = n
      BY <1>1, <1>3, <1>6
    <2>3. Len(s) + 1 = p + Len(f[s[p]].elseIfs) + 1
      BY <1>1, <1>4, <1>5
    <2>4. f[t[p]].else = t[Len(s) + 1] /\ f[t[Len(s) + 1]].of = t[p]
      BY <1>5, <2>2
    <2>5. Len(s) + 1 = p + Len(f[t[p]].elseIfs) + 1
      BY <2>2, <2>3
    <2>6. ASSUME NEW q, q = Len(s) + 1 PROVE ElseAt(f, t, q)
      <3>1. /\ p \in 1..(q - 1) /\ KindIn(f, t[p]) = "if" /\ q = p + Len(f[t[p]].elseIfs) + 1
            /\ f[t[p]].else = t[q] /\ f[t[q]].of = t[p]
        BY <2>1, <2>2, <2>4, <2>5, <2>6
      <3> QED BY <3>1, Zenon DEF ElseAt
    <2> QED BY <2>6
  <1>14. Tidy(f, t)
    <2>1. ASSUME NEW q \in 1..Len(s)
          PROVE  /\ KindIn(f, t[q]) = "if" => IfAt(f, t, q)
                 /\ KindIn(f, t[q]) = "elseif" => ElseIfAt(f, t, q)
                 /\ KindIn(f, t[q]) = "else" => ElseAt(f, t, q)
      BY <1>6, <1>9, <1>10, <1>11, <1>12
    <2>2. KindIn(f, t[Len(s) + 1]) = "else"
      BY <1>3, <1>7
    <2> QED BY <1>3, <1>13, <2>1, <2>2 DEF Tidy
  <1> QED BY <1>14 DEF t

(* A list that gets a new if at its end, or no node.                       *)
LEMMA TidyLonger ==
    ASSUME NEW f, NEW s, ListIn(f, s), Tidy(f, s), NEW n \in Nat,
           \/ KindIn(f, n) = "other"
           \/ KindIn(f, n) = "if" /\ f[n].elseIfs = <<>> /\ f[n].else = 0
    PROVE  /\ Tidy(f, Append(s, n))
           /\ KindIn(f, n) = "if" => Unfinished(f, Append(s, n), Len(s) + 1)
  <1> DEFINE t == Append(s, n)
  <1>1. /\ Len(t) = Len(s) + 1 /\ t[Len(s) + 1] = n /\ \A k \in 1..Len(s) : t[k] = s[k]
        /\ \A k \in 1..(Len(s) + 1) : k \in 1..Len(s) \/ k = Len(s) + 1
        /\ Len(s) \in Nat
    BY AppendIs DEF ListIn
  <1> HIDE DEF t
  <1>2. ASSUME NEW k \in 1..Len(s), KindIn(f, t[k]) = "if" PROVE IfAt(f, t, k)
    <2> DEFINE w == f[s[k]].elseIfs
    <2>1. t[k] = s[k]
      BY <1>1
    <2>2. Len(w) \in Nat
      BY <1>2, <2>1, ItemIs
    <2>3. /\ k + Len(w) <= Len(s) /\ \A j \in 1..Len(w) : s[k + j] = w[j]
          /\ f[s[k]].else # 0 => k + Len(w) + 1 <= Len(s) /\ s[k + Len(w) + 1] = f[s[k]].else
      BY <1>2, <2>1 DEF Tidy, IfAt
    <2>4. ASSUME NEW j \in 1..Len(w) PROVE t[k + j] = w[j]
      <3>1. k + j \in 1..Len(s)
        <4> HIDE DEF w
        <4> QED BY <1>1, <2>2, <2>3
      <3> QED BY <1>1, <2>3, <3>1
    <2>5. f[s[k]].else # 0 => k + Len(w) + 1 <= Len(t) /\ t[k + Len(w) + 1] = f[s[k]].else
      <3>1. f[s[k]].else # 0 => k + Len(w) + 1 \in 1..Len(s)
        BY <1>1, <2>2, <2>3
      <3> QED BY <1>1, <2>2, <2>3, <3>1
    <2>6. k + Len(w) <= Len(t)
      BY <1>1, <2>2, <2>3
    <2> QED BY <2>1, <2>4, <2>5, <2>6 DEF IfAt
  <1>3. ASSUME NEW q \in 1..Len(s), KindIn(f, t[q]) = "elseif" PROVE ElseIfAt(f, t, q)
    <2>1. PICK k \in 1..(q - 1) : /\ KindIn(f, s[k]) = "if" /\ q <= k + Len(f[s[k]].elseIfs)
                                  /\ f[s[q]].of = s[k]
      BY <1>1, <1>3 DEF Tidy, ElseIfAt
    <2>2. t[k] = s[k] /\ t[q] = s[q]
      BY <1>1
    <2> QED BY <2>1, <2>2 DEF ElseIfAt
  <1>4. ASSUME NEW q \in 1..Len(s), KindIn(f, t[q]) = "else" PROVE ElseAt(f, t, q)
    <2>1. PICK k \in 1..(q - 1) : /\ KindIn(f, s[k]) = "if" /\ q = k + Len(f[s[k]].elseIfs) + 1
                                  /\ f[s[k]].else = s[q] /\ f[s[q]].of = s[k]
      BY <1>1, <1>4 DEF Tidy, ElseAt
    <2>2. t[k] = s[k] /\ t[q] = s[q]
      BY <1>1
    <2> QED BY <2>1, <2>2 DEF ElseAt
  <1>5. KindIn(f, n) = "if" =>
          IfAt(f, t, Len(s) + 1) /\ Unfinished(f, t, Len(s) + 1)
    <2> SUFFICES ASSUME KindIn(f, n) = "if"
                 PROVE  IfAt(f, t, Len(s) + 1) /\ Unfinished(f, t, Len(s) + 1)
      OBVIOUS
    <2>1. Len(f[n].elseIfs) = 0 /\ f[n].else = 0
      OBVIOUS
    <2>2. Len(s) + 1 + Len(f[n].elseIfs) = Len(t) /\ Len(s) + 1 \in 1..Len(t) /\ Len(t) \in Nat
      BY <1>1, <2>1
    <2> QED BY <1>1, <2>1, <2>2 DEF IfAt, Unfinished
  <1>6. Tidy(f, t)
    BY <1>1, <1>2, <1>3, <1>4, <1>5 DEF Tidy
  <1> QED BY <1>5, <1>6 DEF t

-----------------------------------------------------------------------------
(* The graph stays sound as nodes are marked and as it grows.              *)
LEMMA NodeIs ==
    ASSUME TypeInv, NEW n \in Nodes
    PROVE  /\ node[n] \in NodeT /\ Len(node) \in Nat /\ n \in Nat /\ n # N /\ N \in Nat /\ n \in 1..N
           /\ node[n].elseIfs \in Seq(Nat) /\ Len(node[n].elseIfs) \in Nat /\ N \in 1..N /\ N # 0
  <1>1. Len(node) \in Nat /\ node[n] \in NodeT
    BY DEF TypeInv, GraphType, Nodes
  <1>2. node[n].elseIfs \in Seq(Nat)
    BY <1>1 DEF NodeT
  <1>3. Len(node[n].elseIfs) \in Nat
    BY <1>2
  <1> QED BY <1>1, <1>2, <1>3 DEF Nodes, N

(* The chain of an if that a step leaves alone.                            *)
LEMMA ChainKept ==
    ASSUME NEW g, NEW f, NEW n, ChainOf(g, n), 1..Len(g) \subseteq 1..Len(f),
           f[n].elseIfs = g[n].elseIfs,
           \A m \in 1..Len(g) : f[m].kind = g[m].kind /\ f[m].of = g[m].of,
           \A k \in 1..Len(g[n].elseIfs) : f[g[n].elseIfs[k]].next = g[g[n].elseIfs[k]].next
    PROVE  ChainOf(f, n)
  <1> DEFINE v == g[n].elseIfs
  <1>1. \A k \in 1..Len(v) :
          /\ v[k] \in 1..Len(g) /\ g[v[k]].kind = "elseif" /\ g[v[k]].of = n
          /\ \A l \in 1..Len(v) : v[k] = v[l] => k = l
          /\ g[v[k]].next = IF k = Len(v) THEN 0 ELSE v[k + 1]
    BY DEF ChainOf
  <1>2. \A k \in 1..Len(v) :
          /\ v[k] \in 1..Len(f) /\ f[v[k]].kind = "elseif" /\ f[v[k]].of = n
          /\ f[v[k]].next = g[v[k]].next
    BY <1>1
  <1> HIDE DEF v
  <1>3. f[n].elseIfs = v
    BY DEF v
  <1> QED BY <1>1, <1>2, <1>3 DEF ChainOf

LEMMA SoundMarked ==
    ASSUME TypeInv, Sound(node), NEW f, Marked(f)
    PROVE  Sound(f)
  <1>1. Len(f) = Len(node) /\ \A n \in 1..Len(node) :
           /\ SameLinks(f[n], node[n]) /\ f[n].next = node[n].next
           /\ f[n].parent = node[n].parent
    BY DEF Marked, Nodes
  <1>2. ASSUME NEW n \in 1..Len(node) PROVE ChainOf(f, n)
    <2>1. ChainOf(node, n)
      BY DEF Sound
    <2>2. \A k \in 1..Len(node[n].elseIfs) : node[n].elseIfs[k] \in 1..Len(node)
      BY <2>1 DEF ChainOf
    <2> QED BY <1>1, <2>1, <2>2, ChainKept DEF SameLinks
  <1>3. ASSUME NEW n \in 1..Len(node)
        PROVE  /\ f[n].else # 0 => f[n].else \in 1..Len(f) /\ f[f[n].else].kind = "else"
               /\ f[n].parent # n
               /\ f[n].kind # "if" => f[n].of = f[n].belongs
    BY <1>1 DEF Sound, SameLinks
  <1> QED BY <1>1, <1>2, <1>3 DEF Sound

LEMMA SoundByIf ==
    ASSUME TypeInv, Sound(node), NEW f, GrownByIf(f), \A n \in Nodes : f[n].next = node[n].next
    PROVE  Sound(f)
  <1>1. Len(f) = N /\ Len(node) \in Nat /\ N = Len(node) + 1
    BY DEF GrownByIf, TypeInv, GraphType, N
  <1>2. \A n \in 1..Len(node) : SameLinks(f[n], node[n]) /\ f[n].next = node[n].next
                               /\ f[n].parent \in {N, node[n].parent}
    BY DEF GrownByIf, Nodes
  <1>3. f[N].elseIfs = <<>> /\ f[N].else = 0 /\ f[N].kind = "if" /\ f[N].parent = ParentOfIf
    BY DEF GrownByIf
  <1>4. ASSUME NEW n \in 1..Len(node) PROVE ChainOf(f, n)
    <2>1. ChainOf(node, n)
      BY DEF Sound
    <2>2. \A k \in 1..Len(node[n].elseIfs) : node[n].elseIfs[k] \in 1..Len(node)
      BY <2>1 DEF ChainOf
    <2> QED BY <1>1, <1>2, <2>1, <2>2, ChainKept DEF SameLinks
  <1>5. ASSUME NEW n \in 1..Len(node)
        PROVE  /\ f[n].else # 0 => f[n].else \in 1..Len(f) /\ f[f[n].else].kind = "else"
               /\ f[n].parent # n
               /\ f[n].kind # "if" => f[n].of = f[n].belongs
    <2>1. n # N /\ n \in Nat
      BY <1>1
    <2> QED BY <1>1, <1>2, <2>1 DEF Sound, SameLinks
  <1>6. ChainOf(f, N)
    BY <1>3 DEF ChainOf
  <1>7. ParentOfIf # N
    <2>1. ParentOfIf \in Ifs \cup {0}
      BY ParentIs
    <2> QED BY <1>1, <2>1 DEF Ifs, Nodes
  <1>8. \A n \in 1..Len(f) : n \in 1..Len(node) \/ n = N
    BY <1>1
  <1> QED BY <1>3, <1>4, <1>5, <1>6, <1>7, <1>8 DEF Sound

(* What its else if, the last of the chain, changes about an if.           *)
LEMMA SoundByElseIf ==
    ASSUME TypeInv, Sound(node), NEW c \in Nodes, NEW f, GrownBy(f, "elseif", c),
           c = LastIf(Outer.items, Len(Outer.items)),
           \A k \in 1..Len(f[c].elseIfs) :
              f[f[c].elseIfs[k]].next = IF k = Len(f[c].elseIfs) THEN 0 ELSE f[c].elseIfs[k + 1],
           \A n \in Nodes : node[n].of # c => f[n].next = node[n].next
    PROVE  Sound(f)
  <1>1. Len(f) = N /\ Len(node) \in Nat /\ N = Len(node) + 1 /\ Nodes = 1..Len(node)
    BY DEF GrownBy, TypeInv, GraphType, N, Nodes
  <1>2. \A n \in 1..Len(node) :
           /\ f[n].kind = node[n].kind /\ f[n].of = node[n].of /\ f[n].parent = node[n].parent
           /\ f[n].belongs = node[n].belongs /\ f[n].else = node[n].else
           /\ n # c => f[n].elseIfs = node[n].elseIfs
    BY DEF GrownBy, Nodes
  <1>3. /\ f[N].elseIfs = <<>> /\ f[N].else = 0 /\ f[N].kind = "elseif" /\ f[N].of = c
        /\ f[N].belongs = c /\ f[N].parent = 0
    BY DEF GrownBy
  <1>4. ASSUME NEW n \in 1..Len(node), n # c PROVE ChainOf(f, n)
    <2>1. ChainOf(node, n)
      BY DEF Sound
    <2>2. \A k \in 1..Len(node[n].elseIfs) :
             node[n].elseIfs[k] \in 1..Len(node) /\ node[node[n].elseIfs[k]].of # c
      BY <1>4, <2>1 DEF ChainOf
    <2>3. \A k \in 1..Len(node[n].elseIfs) :
             f[node[n].elseIfs[k]].next = node[node[n].elseIfs[k]].next
      BY <1>1, <2>2
    <2>4. 1..Len(node) \subseteq 1..Len(f)
      BY <1>1
    <2>5. /\ f[n].elseIfs = node[n].elseIfs
          /\ \A m \in 1..Len(node) : f[m].kind = node[m].kind /\ f[m].of = node[m].of
      BY <1>2, <1>4
    <2> QED BY <2>1, <2>3, <2>4, <2>5, ChainKept
  <1>5. ChainOf(f, c)
    <2> DEFINE v == node[c].elseIfs
               w == f[c].elseIfs
    <2>1. ChainOf(node, c) /\ v \in Seq(Nat) /\ N \in Nat
      BY <1>1, NodeIs DEF Sound
    <2>2. w = Append(v, N)
      BY DEF GrownBy
    <2>3. \A k \in 1..Len(v) : /\ v[k] \in 1..Len(node) /\ node[v[k]].kind = "elseif"
                               /\ node[v[k]].of = c /\ \A l \in 1..Len(v) : v[k] = v[l] => k = l
      BY <2>1 DEF ChainOf
    <2> HIDE DEF v
    <2>4. /\ Len(w) = Len(v) + 1 /\ Len(v) \in Nat /\ w[Len(v) + 1] = N
          /\ \A k \in 1..Len(v) : w[k] = v[k]
          /\ \A k \in 1..(Len(v) + 1) : k \in 1..Len(v) \/ k = Len(v) + 1
      BY <2>1, <2>2, AppendIs
    <2>5. \A k \in 1..Len(w) : f[w[k]].next = IF k = Len(w) THEN 0 ELSE w[k + 1]
      OBVIOUS
    <2> HIDE DEF w
    <2>6. ASSUME NEW k \in 1..Len(w)
          PROVE  w[k] \in 1..N /\ f[w[k]].kind = "elseif" /\ f[w[k]].of = c
      <3>1. CASE k \in 1..Len(v)
        BY <1>1, <1>2, <2>3, <2>4, <3>1, SMTT(30)
      <3>2. CASE k = Len(v) + 1
        BY <1>1, <1>3, <2>4, <3>2
      <3> QED BY <2>4, <3>1, <3>2
    <2>7. ASSUME NEW k \in 1..Len(w), NEW l \in 1..Len(w), w[k] = w[l] PROVE k = l
      <3>1. \A j \in 1..Len(v) : w[j] # N
        BY <1>1, <2>3, <2>4, SMTT(30)
      <3>2. CASE k \in 1..Len(v) /\ l \in 1..Len(v)
        BY <2>3, <2>4, <2>7, <3>2
      <3>3. CASE k = Len(v) + 1 \/ l = Len(v) + 1
        BY <2>4, <2>7, <3>1, <3>3
      <3> QED BY <2>4, <3>2, <3>3
    <2> QED BY <1>1, <2>5, <2>6, <2>7 DEF ChainOf, w
  <1>6. ASSUME NEW n \in 1..Len(node)
        PROVE  /\ f[n].else # 0 => f[n].else \in 1..Len(f) /\ f[f[n].else].kind = "else"
               /\ f[n].parent # n
               /\ f[n].kind # "if" => f[n].of = f[n].belongs
    BY <1>1, <1>2 DEF Sound
  <1>7. ChainOf(f, N)
    BY <1>3 DEF ChainOf
  <1>8. \A n \in 1..Len(f) : n \in 1..Len(node) \/ n = N
    BY <1>1
  <1>9. N # 0
    BY <1>1
  <1> QED BY <1>3, <1>4, <1>5, <1>6, <1>7, <1>8, <1>9 DEF Sound

LEMMA SoundByElse ==
    ASSUME TypeInv, Sound(node), NEW c \in Nodes, NEW f, GrownBy(f, "else", c),
           c = LastIf(Outer.items, Len(Outer.items)),
           \A n \in Nodes : f[n].next = node[n].next
    PROVE  Sound(f)
  <1>1. Len(f) = N /\ Len(node) \in Nat /\ N = Len(node) + 1 /\ Nodes = 1..Len(node)
    BY DEF GrownBy, TypeInv, GraphType, N, Nodes
  <1>2. \A n \in 1..Len(node) :
           /\ f[n].kind = node[n].kind /\ f[n].of = node[n].of /\ f[n].parent = node[n].parent
           /\ f[n].belongs = node[n].belongs /\ f[n].elseIfs = node[n].elseIfs
           /\ f[n].else = IF n = c THEN N ELSE node[n].else
    BY DEF GrownBy, Nodes
  <1>3. /\ f[N].elseIfs = <<>> /\ f[N].else = 0 /\ f[N].kind = "else" /\ f[N].of = c
        /\ f[N].belongs = c /\ f[N].parent = 0
    BY DEF GrownBy
  <1>4. ASSUME NEW n \in 1..Len(node) PROVE ChainOf(f, n)
    <2>1. ChainOf(node, n)
      BY DEF Sound
    <2>2. \A k \in 1..Len(node[n].elseIfs) : node[n].elseIfs[k] \in 1..Len(node)
      BY <2>1 DEF ChainOf
    <2>3. \A k \in 1..Len(node[n].elseIfs) :
             f[node[n].elseIfs[k]].next = node[node[n].elseIfs[k]].next
      BY <1>1, <2>2
    <2>4. 1..Len(node) \subseteq 1..Len(f)
      BY <1>1
    <2>5. /\ f[n].elseIfs = node[n].elseIfs
          /\ \A m \in 1..Len(node) : f[m].kind = node[m].kind /\ f[m].of = node[m].of
      BY <1>2
    <2> QED BY <2>1, <2>3, <2>4, <2>5, ChainKept
  <1>6. ASSUME NEW n \in 1..Len(node)
        PROVE  /\ f[n].else # 0 => f[n].else \in 1..Len(f) /\ f[f[n].else].kind = "else"
               /\ f[n].parent # n
               /\ f[n].kind # "if" => f[n].of = f[n].belongs
    <2>1. N \in 1..N
      BY <1>1
    <2> QED BY <1>1, <1>2, <1>3, <2>1 DEF Sound
  <1>7. ChainOf(f, N)
    BY <1>3 DEF ChainOf
  <1>8. \A n \in 1..Len(f) : n \in 1..Len(node) \/ n = N
    BY <1>1
  <1>9. N # 0
    BY <1>1
  <1> QED BY <1>3, <1>4, <1>6, <1>7, <1>8, <1>9 DEF Sound

-----------------------------------------------------------------------------
(* The lists as constructs are opened and ended, and as one is put into    *)
(* the list around it.                                                     *)
LEMMA ListsAre ==
    ASSUME TypeInv, ItemsApart, NEW i \in 1..Depth
    PROVE  ListIn(node, open[i].items)
  <1>1. /\ open[i].items \in Seq(Nat)
        /\ \A k \in 1..Len(open[i].items) : open[i].items[k] <= Len(node)
    BY ItemsAre DEF TypeInv, StackType
  <1>2. node \in Seq(NodeT)
    BY DEF TypeInv, GraphType
  <1> QED BY <1>1, <1>2 DEF ListIn, ItemsApart

LEMMA ListsStay ==
    ASSUME TypeInv, ListsInv, Marked(node'), Alike(Depth),
           \A i \in 1..Depth : open'[i].items = open[i].items,
           Depth' = Depth \/ (Depth' = Depth + 1 /\ open'[Depth + 1].items = <<>>)
    PROVE  ListsInv'
  <1>1. Depth \in Nat
    BY StackIs DEF TypeInv
  <1>2. ASSUME NEW i \in 1..Depth', i \notin 1..Depth PROVE open'[i].items = <<>>
    <2>1. i = Depth + 1
      BY <1>1, <1>2
    <2> QED BY <1>2, <2>1
  <1>3. ItemsApart'
    <2> SUFFICES \A i, j \in 1..Depth' :
                   \A k \in 1..Len(open'[i].items), l \in 1..Len(open'[j].items) :
                     open'[i].items[k] # 0 /\ open'[i].items[k] = open'[j].items[l] => i = j /\ k = l
      BY DEF ItemsApart
    <2> TAKE i, j \in 1..Depth'
    <2> TAKE k \in 1..Len(open'[i].items), l \in 1..Len(open'[j].items)
    <2> HAVE open'[i].items[k] # 0 /\ open'[i].items[k] = open'[j].items[l]
    <2>0. \A m : m \in 1..Len(<<>>) => FALSE
      OBVIOUS
    <2>1. i \in 1..Depth
      <3> SUFFICES ASSUME i \notin 1..Depth PROVE FALSE
        OBVIOUS
      <3>1. open'[i].items = <<>>
        BY <1>2
      <3>2. k \in 1..Len(open'[i].items)
        OBVIOUS
      <3> QED BY <2>0, <3>1, <3>2
    <2>2. j \in 1..Depth
      <3> SUFFICES ASSUME j \notin 1..Depth PROVE FALSE
        OBVIOUS
      <3>1. open'[j].items = <<>>
        BY <1>2
      <3>2. l \in 1..Len(open'[j].items)
        OBVIOUS
      <3> QED BY <2>0, <3>1, <3>2
    <2>3. open'[i].items = open[i].items /\ open'[j].items = open[j].items
      BY <2>1, <2>2
    <2> QED BY <2>1, <2>2, <2>3 DEF ListsInv, ItemsApart
  <1>4. ASSUME NEW i \in 1..Depth' PROVE Tidy(node', open'[i].items) /\ AtHome(i)'
    <2>1. CASE i \in 1..Depth
      <3>1. /\ open'[i].items = open[i].items /\ open'[i].kind = open[i].kind
            /\ open'[i].scope = open[i].scope
        BY <2>1 DEF Alike
      <3>2. ListIn(node, open[i].items) /\ Tidy(node, open[i].items) /\ AtHome(i)
        BY <2>1, ListsAre DEF ListsInv
      <3>3. \A p \in 1..Len(open[i].items) : open[i].items[p] # 0 =>
              /\ SameLinks(node'[open[i].items[p]], node[open[i].items[p]])
              /\ node'[open[i].items[p]].parent = node[open[i].items[p]].parent
        BY <3>2, ItemIs DEF Marked, Nodes
      <3>4. SameIn(node', node, open[i].items)
        BY <3>3 DEF SameIn, SameLinks
      <3>5. Tidy(node', open[i].items)
            /\ \A p \in 1..Len(open[i].items) :
                 KindIn(node', open[i].items[p]) = KindIn(node, open[i].items[p])
        BY <3>2, <3>4, TidyKept
      <3>6. \A p \in 1..Len(open[i].items) : KindIn(node, open[i].items[p]) = "if" =>
               open[i].items[p] # 0
        BY DEF KindIn
      <3> QED BY <3>1, <3>2, <3>3, <3>5, <3>6 DEF AtHome, SameLinks
    <2>2. CASE i \notin 1..Depth
      <3>1. open'[i].items = <<>>
        BY <1>2, <2>2
      <3> QED BY <3>1 DEF Tidy, AtHome
    <2> QED BY <2>1, <2>2
  <1> QED BY <1>3, <1>4 DEF ListsInv

LEMMA ListsLeft ==
    ASSUME TypeInv, ListsInv, Depth > 1, NEW n \in {0, N}, Left(n),
           \A i \in 1..(Depth - 2) : Tidy(node', open[i].items),
           Tidy(node', Append(open[Depth - 1].items, n)),
           \A i \in 1..(Depth - 1) : \A p \in 1..Len(open[i].items) : open[i].items[p] # 0 =>
              /\ node'[open[i].items[p]].kind = node[open[i].items[p]].kind
              /\ node'[open[i].items[p]].dc = node[open[i].items[p]].dc
              /\ node'[open[i].items[p]].parent = node[open[i].items[p]].parent,
           KindIn(node', n) = "if" =>
              /\ node'[n].dc = open[Depth - 1].scope
              /\ open[Depth - 1].kind \in {"global", "function"} => node'[n].parent = 0
    PROVE  ListsInv'
  <1>1. /\ Depth \in Nat /\ Depth - 1 \in 1..Depth /\ N \in Nat /\ N = Len(node) + 1
        /\ Len(node) \in Nat /\ n \in Nat
    BY StackIs DEF TypeInv, GraphType, N
  <1>2. /\ Depth' = Depth - 1 /\ Alike(Depth - 1)
        /\ \A i \in 1..(Depth - 2) : open'[i].items = open[i].items
        /\ open'[Depth - 1].items = Append(open[Depth - 1].items, n)
    BY DEF Left, SameLists
  <1>3. \A i \in 1..(Depth - 1) : i \in 1..(Depth - 2) \/ i = Depth - 1
    BY <1>1
  <1>4. ASSUME NEW i \in 1..(Depth - 1), NEW k \in 1..Len(open'[i].items)
        PROVE  \/ /\ k \in 1..Len(open[i].items)
                  /\ open'[i].items[k] = open[i].items[k] /\ open[i].items[k] \in 0..Len(node)
               \/ i = Depth - 1 /\ k = Len(open[i].items) + 1 /\ open'[i].items[k] = n
    <2>1. open[i].items \in Seq(Nat)
          /\ \A l \in 1..Len(open[i].items) : open[i].items[l] \in 0..Len(node)
      BY <1>1, ItemsAre, SMTT(30)
    <2>2. CASE i \in 1..(Depth - 2)
      BY <1>2, <1>4, <2>1, <2>2
    <2>3. CASE i = Depth - 1
      <3>1. open'[i].items = Append(open[i].items, n)
        BY <1>2, <2>3
      <3>2. /\ Len(open'[i].items) = Len(open[i].items) + 1
            /\ \A l \in 1..Len(open[i].items) : open'[i].items[l] = open[i].items[l]
            /\ open'[i].items[Len(open[i].items) + 1] = n
            /\ \A l \in 1..(Len(open[i].items) + 1) :
                 l \in 1..Len(open[i].items) \/ l = Len(open[i].items) + 1
        <4>1. n \in Nat /\ open[i].items \in Seq(Nat)
          BY <1>1, <2>1
        <4> QED BY <3>1, <4>1, AppendIs
      <3> QED BY <1>4, <2>1, <2>3, <3>2
    <2> QED BY <1>3, <2>2, <2>3
  <1>5. ItemsApart'
    <2> SUFFICES ASSUME NEW i \in 1..Depth', NEW j \in 1..Depth',
                        NEW k \in 1..Len(open'[i].items), NEW l \in 1..Len(open'[j].items),
                        open'[i].items[k] # 0, open'[i].items[k] = open'[j].items[l]
                 PROVE  i = j /\ k = l
      BY DEF ItemsApart
    <2>1. i \in 1..(Depth - 1) /\ j \in 1..(Depth - 1) /\ i \in 1..Depth /\ j \in 1..Depth
      BY <1>1, <1>2
    <2>2. \/ /\ k \in 1..Len(open[i].items)
             /\ open'[i].items[k] = open[i].items[k] /\ open[i].items[k] \in 0..Len(node)
          \/ i = Depth - 1 /\ k = Len(open[i].items) + 1 /\ open'[i].items[k] = n
      BY <1>4, <2>1
    <2>3. \/ /\ l \in 1..Len(open[j].items)
             /\ open'[j].items[l] = open[j].items[l] /\ open[j].items[l] \in 0..Len(node)
          \/ j = Depth - 1 /\ l = Len(open[j].items) + 1 /\ open'[j].items[l] = n
      BY <1>4, <2>1
    <2>4. n = N \/ n = 0
      OBVIOUS
    <2>5. CASE k \in 1..Len(open[i].items) /\ open'[i].items[k] = open[i].items[k]
               /\ l \in 1..Len(open[j].items) /\ open'[j].items[l] = open[j].items[l]
      <3>1. open[i].items[k] # 0 /\ open[i].items[k] = open[j].items[l]
        BY <2>5
      <3> QED BY <2>1, <2>5, <3>1 DEF ListsInv, ItemsApart
    <2>6. CASE /\ i = Depth - 1 /\ k = Len(open[i].items) + 1
               /\ j = Depth - 1 /\ l = Len(open[j].items) + 1
      BY <2>6
    <2>7. N \notin 0..Len(node)
      BY <1>1
    <2> QED BY <2>2, <2>3, <2>4, <2>5, <2>6, <2>7
  <1>6. ASSUME NEW i \in 1..(Depth - 1) PROVE Tidy(node', open'[i].items)
    BY <1>2, <1>3
  <1>7. ASSUME NEW i \in 1..(Depth - 1) PROVE AtHome(i)'
    <2> SUFFICES ASSUME NEW p \in 1..Len(open'[i].items),
                        KindIn(node', open'[i].items[p]) = "if"
                 PROVE  /\ node'[open'[i].items[p]].dc = open'[i].scope
                        /\ open'[i].kind \in {"global", "function"} =>
                             node'[open'[i].items[p]].parent = 0
      BY DEF AtHome
    <2>1. open'[i].scope = open[i].scope /\ open'[i].kind = open[i].kind /\ i \in 1..Depth
      BY <1>1, <1>2 DEF Alike
    <2>2. CASE p \in 1..Len(open[i].items) /\ open'[i].items[p] = open[i].items[p]
      <3>1. open[i].items[p] # 0
        BY <2>2 DEF KindIn
      <3>2. KindIn(node, open[i].items[p]) = "if"
        BY <2>2, <3>1 DEF KindIn
      <3>3. AtHome(i)
        BY <2>1 DEF ListsInv
      <3> QED BY <2>1, <2>2, <3>1, <3>2, <3>3 DEF AtHome
    <2>3. CASE i = Depth - 1 /\ open'[i].items[p] = n
      BY <2>1, <2>3
    <2> QED BY <1>4, <2>2, <2>3
  <1> QED BY <1>2, <1>5, <1>6, <1>7 DEF ListsInv

-----------------------------------------------------------------------------
(* A tidy list passes the checks of the productions.                       *)
LEMMA TidyPasses ==
    ASSUME TypeInv, GraphInv, NEW s, ListIn(node, s), Tidy(node, s)
    PROVE  ListOK(s) /\ ElsesInList(s)
  <1>1. /\ Len(s) \in Nat /\ DOMAIN s = 1..Len(s) /\ s \in Seq(Nat) /\ Sound(node)
        /\ \A n : KindOf(n) = KindIn(node, n)
    BY DEF ListIn, GraphInv, KindOf, KindIn
  <1>2. ASSUME NEW i \in 1..Len(s), NEW p \in 1..(i - 1), KindIn(node, s[p]) = "if",
               \A q \in 1..Len(s) : p < q /\ q <= i => KindIn(node, s[q]) # "if"
        PROVE  LastIf(s, i) = s[p]
    <2>1. i \in 0..Len(s) /\ p \in 1..i
      BY <1>1
    <2>2. \A q \in 1..i : p < q => KindOf(s[q]) # "if"
      BY <1>1, <1>2
    <2> QED BY <1>1, <1>2, <2>1, <2>2, LastIfIs
  <1>3. ASSUME NEW i \in 1..Len(s), KindIn(node, s[i]) = "elseif"
        PROVE  LET h == LastIf(s, i)
                   k == Cardinality({j \in 1..i : KindOf(s[j]) = "elseif"
                                                  /\ node[s[j]].belongs = h})
               IN  /\ node[s[i]].of = h /\ k <= Len(node[h].elseIfs)
                   /\ node[h].elseIfs[k] = s[i]
    <2>1. PICK p \in 1..(i - 1) : /\ KindIn(node, s[p]) = "if"
                                  /\ i <= p + Len(node[s[p]].elseIfs) /\ node[s[i]].of = s[p]
      BY <1>3 DEF Tidy, ElseIfAt
    <2> DEFINE v == node[s[p]].elseIfs
    <2>2. p \in 1..Len(s) /\ Len(v) \in Nat /\ s[p] # 0 /\ p < i
      <3>1. p \in 1..Len(s) /\ p < i
        BY <1>1
      <3> QED BY <2>1, <3>1, ItemIs
    <2>3. \A q \in 1..Len(s) : p < q /\ q <= i =>
             /\ KindIn(node, s[q]) = "elseif" /\ s[q] = v[q - p] /\ node[s[q]].of = s[p]
             /\ s[q] # 0
      <3> SUFFICES ASSUME NEW q \in 1..Len(s), p < q, q <= i
                   PROVE  /\ KindIn(node, s[q]) = "elseif" /\ s[q] = v[q - p]
                          /\ node[s[q]].of = s[p] /\ s[q] # 0
        OBVIOUS
      <3>1. q <= p + Len(v)
        BY <1>1, <2>1, <2>2
      <3> QED BY <1>1, <2>1, <2>2, <3>1, ElseIfsFollow
    <2>4. LastIf(s, i) = s[p]
      BY <1>2, <2>1, <2>3
    <2>5. \A q \in 1..Len(s) : KindIn(node, s[q]) = "elseif" =>
             s[q] \in 1..Len(node) /\ node[s[q]].belongs = node[s[q]].of
      <3> SUFFICES ASSUME NEW q \in 1..Len(s), KindIn(node, s[q]) = "elseif"
                   PROVE  s[q] \in 1..Len(node) /\ node[s[q]].belongs = node[s[q]].of
        OBVIOUS
      <3>1. s[q] \in 1..Len(node) /\ node[s[q]].kind = "elseif"
        BY ItemIs DEF KindIn
      <3> QED BY <1>1, <3>1 DEF Sound
    <2> DEFINE T == {j \in 1..i : KindOf(s[j]) = "elseif" /\ node[s[j]].belongs = s[p]}
    <2>6. T = (p + 1)..i
      <3>1. ASSUME NEW j \in 1..i, p < j PROVE j \in T
        <4>1. j \in 1..Len(s)
          BY <1>1
        <4> QED BY <1>1, <2>3, <2>5, <3>1, <4>1
      <3>2. ASSUME NEW j \in 1..i, j \in T PROVE p < j
        <4>1. j \in 1..Len(s) /\ KindIn(node, s[j]) = "elseif" /\ node[s[j]].of = s[p]
          <5>1. j \in 1..Len(s)
            BY <1>1
          <5> QED BY <1>1, <2>5, <3>2, <5>1
        <4>2. PICK r \in 1..(j - 1) : node[s[j]].of = s[r]
          BY <4>1 DEF Tidy, ElseIfAt
        <4>3. r \in 1..Len(s) /\ s[r] = s[p]
          BY <1>1, <4>1, <4>2
        <4>4. r = p
          BY <2>2, <4>3 DEF ListIn
        <4> QED BY <4>2, <4>4
      <3>3. \A j \in (p + 1)..i : j \in 1..i /\ p < j
        BY <2>2
      <3>4. \A j \in 1..i : p < j => j \in (p + 1)..i
        BY <2>2
      <3>5. T \subseteq 1..i
        OBVIOUS
      <3> HIDE DEF T
      <3> QED BY <3>1, <3>2, <3>3, <3>4, <3>5
    <2>7. Cardinality(T) = i - p
      <3>1. p + 1 \in Int /\ i \in Int /\ ~(p + 1 > i) /\ i - (p + 1) + 1 = i - p
        BY <2>2
      <3> HIDE DEF T
      <3> QED BY <2>6, <3>1, FS_Interval
    <2>8. i - p <= Len(v) /\ s[i] = v[i - p]
      BY <2>1, <2>2, <2>3
    <2>9. Cardinality({j \in 1..i : KindOf(s[j]) = "elseif" /\ node[s[j]].belongs = LastIf(s, i)})
            = i - p
      BY <2>4, <2>7
    <2> HIDE DEF T
    <2> QED BY <2>1, <2>4, <2>8, <2>9
  <1>4. ASSUME NEW i \in 1..Len(s), KindIn(node, s[i]) = "else"
        PROVE  node[s[i]].of = LastIf(s, i) /\ node[LastIf(s, i)].else = s[i]
    <2>1. PICK p \in 1..(i - 1) : /\ KindIn(node, s[p]) = "if"
                                  /\ i = p + Len(node[s[p]].elseIfs) + 1
                                  /\ node[s[p]].else = s[i] /\ node[s[i]].of = s[p]
      BY <1>4 DEF Tidy, ElseAt
    <2>2. p \in 1..Len(s) /\ Len(node[s[p]].elseIfs) \in Nat
      <3>1. p \in 1..Len(s)
        BY <1>1
      <3> QED BY <2>1, <3>1, ItemIs
    <2>3. \A q \in 1..Len(s) : p < q /\ q <= i => KindIn(node, s[q]) # "if"
      <3> SUFFICES ASSUME NEW q \in 1..Len(s), p < q, q <= i
                   PROVE  KindIn(node, s[q]) # "if"
        OBVIOUS
      <3>1. CASE q = i
        BY <1>4, <3>1
      <3>2. CASE q # i
        <4>1. q <= p + Len(node[s[p]].elseIfs)
          BY <1>1, <2>1, <2>2, <3>2
        <4>2. KindIn(node, s[q]) = "elseif"
          BY <1>1, <2>1, <2>2, <4>1, ElseIfsFollow
        <4> QED BY <4>2
      <3> QED BY <3>1, <3>2
    <2>4. LastIf(s, i) = s[p]
      BY <1>2, <2>1, <2>3
    <2> QED BY <2>1, <2>4
  <1>5. ListOK(s)
    BY <1>1, <1>3, <1>4 DEF ListOK
  <1>6. ElsesInList(s)
    <2> SUFFICES ASSUME NEW i \in 1..Len(s), KindIn(node, s[i]) = "if", node[s[i]].else # 0
                 PROVE  \E j \in 1..Len(s) : s[j] = node[s[i]].else
      BY <1>1 DEF ElsesInList
    <2>1. /\ i + Len(node[s[i]].elseIfs) + 1 <= Len(s)
          /\ s[i + Len(node[s[i]].elseIfs) + 1] = node[s[i]].else
      BY DEF Tidy, IfAt
    <2>2. Len(node[s[i]].elseIfs) \in Nat
      BY ItemIs DEF KindIn
    <2>3. i + Len(node[s[i]].elseIfs) + 1 \in 1..Len(s)
      BY <1>1, <2>1, <2>2
    <2> QED BY <2>1, <2>3
  <1> QED BY <1>5, <1>6

(* The last if of a list that may go on is the one the scan for it finds.  *)
LEMMA UnfinishedIsLast ==
    ASSUME TypeInv, GraphInv, NEW s, ListIn(node, s), Tidy(node, s), NEW p, Unfinished(node, s, p)
    PROVE  LastIf(s, Len(s)) = s[p] /\ s[p] \in Ifs /\ p \in 1..Len(s) /\ s[p] # 0
  <1>1. /\ Len(s) \in Nat /\ s \in Seq(Nat) /\ Sound(node) /\ Len(s) \in 0..Len(s)
        /\ \A n : KindOf(n) = KindIn(node, n)
    BY DEF ListIn, GraphInv, KindOf, KindIn
  <1>2. p \in 1..Len(s) /\ KindIn(node, s[p]) = "if" /\ Len(s) = p + Len(node[s[p]].elseIfs)
    BY DEF Unfinished
  <1>3. \A q \in 1..Len(s) : p < q => KindOf(s[q]) # "if"
    <2> SUFFICES ASSUME NEW q \in 1..Len(s), p < q PROVE KindIn(node, s[q]) # "if"
      BY <1>1
    <2>1. q <= p + Len(node[s[p]].elseIfs)
      BY <1>2
    <2>2. KindIn(node, s[q]) = "elseif"
      BY <1>1, <1>2, <2>1, ElseIfsFollow
    <2> QED BY <2>2
  <1>4. s[p] \in Ifs /\ s[p] # 0
    BY <1>2, ItemIs DEF Ifs, Nodes, KindIn
  <1> QED BY <1>1, <1>2, <1>3, <1>4, LastIfIs

-----------------------------------------------------------------------------
(* The programs of which the rest is proved: no form is left in.           *)
NoFormLeftIn == Forms = {}

LEMMA Standing ==
    ASSUME PairingInv
    PROVE  /\ TypeInv /\ StackInv /\ ItemsApart /\ ListsInv /\ GraphInv /\ TrackerInv /\ KeysInv
           /\ status = "ok" /\ Sound(node)
           /\ Depth \in Nat /\ Depth >= 1 /\ Depth \in 1..Depth /\ Inner = open[Depth]
           /\ \A i \in 1..Depth : open[i].braced \in BOOLEAN /\ open[i].scope \in Nat
                                  /\ open[i].key \in Nat
           /\ Inner.kind \in Branches => Depth > 1
           /\ Len(node) \in Nat /\ N \in Nat /\ N = Len(node) + 1 /\ ISC \in Nat
           /\ Tokens \subseteq 0..ISC /\ scopes \in Nat
  <1>1. TypeInv /\ StackType
    BY DEF PairingInv, TypeInv
  <1>2. /\ Depth \in Nat /\ Depth >= 1 /\ Depth \in 1..Depth /\ Inner = open[Depth]
        /\ Inner.kind # "global" => Depth > 1
        /\ \A i \in 1..Depth : open[i].braced \in BOOLEAN /\ open[i].scope \in Nat
                               /\ open[i].key \in Nat
    BY <1>1, StackIs DEF FrameT
  <1>3. Len(node) \in Nat /\ N \in Nat /\ N = Len(node) + 1 /\ ISC \in Nat
        /\ Tokens \subseteq 0..ISC /\ scopes \in Nat
    BY <1>1 DEF TypeInv, GraphType, TrackerType, N
  <1> QED BY <1>1, <1>2, <1>3 DEF PairingInv, ListsInv, GraphInv, Branches

LEMMA InnerNext == Inner' = open'[Depth']
  BY DEF Inner, Depth, Last

(* Where an if begins, it may be.                                          *)
LEMMA IfMayBe ==
    ASSUME NoFormLeftIn, TypeInv, StackInv, IfAllowed
    PROVE  MayHold(Depth)
  <1>1. /\ Depth \in Nat /\ Depth \in 1..Depth /\ Inner = open[Depth]
        /\ \A i \in 1..Depth : FrameInv(i)
        /\ \A i \in 1..Depth : open[i].kind \in {"global"} \cup Branches \cup Bodies
    BY StackIs DEF TypeInv, StackInv, FrameT
  <1>2. Inner.braced /\ Inner.kind \notin {"elseif", "else"}
    BY DEF NoFormLeftIn, IfAllowed
  <1>3. \A i \in 1..Depth : open[i].kind \in {"for", "case"} =>
           \A j \in 1..i : open[j].kind \notin Branches
    BY DEF NoFormLeftIn, IfAllowed
  <1>4. ASSUME NEW h \in 1..Depth, h < Depth
        PROVE  open[h].braced /\ open[h].kind \notin {"elseif", "else"}
    <2>1. h + 1 \in 1..Depth /\ h \in 1..(h + 1) /\ h \in 1..h
      BY <1>1, <1>4
    <2>2. CASE open[h + 1].kind \in Branches
      <3>1. MayHold(h)
        BY <1>1, <1>4, <2>2 DEF FrameInv
      <3> QED BY <2>1, <3>1 DEF MayHold
    <2>3. CASE open[h + 1].kind \notin Branches
      <3>1. open[h].kind \notin Branches
        <4>1. open[h + 1].kind \in {"global", "function", "for", "case"}
          BY <1>1, <2>1, <2>3, IfAssumption
        <4>2. open[h + 1].kind = "global" => h + 1 = 1
          BY <1>1, <2>1 DEF FrameInv
        <4>3. open[h + 1].kind = "function" => h + 1 = 2
          BY <1>1, <2>1 DEF FrameInv
        <4>4. h = 1 => open[h].kind = "global"
          BY <1>1 DEF FrameInv
        <4>5. "global" \notin Branches
          BY DEF Branches
        <4> QED BY <1>3, <1>4, <2>1, <4>1, <4>2, <4>3, <4>4, <4>5
      <3> QED BY <1>1, <3>1 DEF FrameInv, Branches
    <2> QED BY <2>2, <2>3
  <1>5. \A h \in 1..Depth : h = Depth \/ h < Depth
    BY <1>1
  <1> QED BY <1>1, <1>2, <1>3, <1>4, <1>5 DEF MayHold

(* A statement is put into a list in which an if may be.                   *)
LEMMA TrackersLeft ==
    ASSUME PairingInv, Depth > 1, MayHold(Depth - 1), NEW n, Left(n), NEW d, d = Depth - 1,
           ContinuesIn(node', open'[d].items) /\ follow' # "other" =>
              Current(d)' /\ (follow' = "free" => PlainCurrent(d)')
    PROVE  TrackerInv'
  <1>1. Depth \in Nat /\ d \in 1..Depth /\ d \in 1..d /\ d < Depth /\ Depth' = d /\ d \in Nat
        /\ StackInv
    BY Standing DEF Left
  <1>2. \A h \in 1..d : open'[h].braced /\ open'[h].kind \notin {"elseif", "else"}
    BY DEF Left, Alike, MayHold
  <1>3. Inner' = open'[d] /\ open'[d].body = "list"
    <2>1. open[d].braced /\ open[d].body = "list"
      <3>1. open[d].braced
        BY <1>1 DEF MayHold
      <3>2. FrameInv(d)
        BY <1>1 DEF StackInv
      <3> QED BY <1>1, <3>1, <3>2 DEF FrameInv, BodyOpened
    <2> QED BY <1>1, <2>1, InnerNext DEF Left
  <1>4. BranchesCurrent'
    <2>1. \A i \in 1..(Depth' - 1) : i + 1 \in 1..d
      BY <1>1
    <2> QED BY <1>2, <2>1 DEF BranchesCurrent
  <1>5. NextCurrent'
    BY <1>1, <1>3 DEF NextCurrent
  <1>6. PlainCleared'
    BY <1>1, <1>2 DEF PlainCleared
  <1>7. BraceSeen'
    BY <1>3 DEF BraceSeen
  <1> QED BY <1>4, <1>5, <1>6, <1>7 DEF TrackerInv

LEMMA KeysLeft ==
    ASSUME PairingInv, Depth > 1, NEW n, Left(n), Inner.kind # "if", ISC' = ISC, Tokens' = Tokens
    PROVE  KeysInv'
  <1> SUFFICES ASSUME ISC \in Tokens
               PROVE  \E i \in 1..Depth' : open'[i].kind = "if" /\ ~open'[i].braced
    BY DEF KeysInv
  <1>1. PICK i \in 1..Depth : open[i].kind = "if" /\ ~open[i].braced
    BY Standing DEF KeysInv
  <1>2. i \in 1..(Depth - 1)
    BY <1>1, Standing
  <1> QED BY <1>1, <1>2 DEF Left, Alike

LEMMA PairingOpenIf ==
    ASSUME NoFormLeftIn, PairingInv, NEW braced \in BOOLEAN, OpenIf(braced)
    PROVE  PairingInv'
  <1>1. /\ open' = Append(open, Frame("if", braced, ISC)) /\ node' = node
        /\ scopes' = scopes + 1 /\ IfAllowed /\ Ready /\ CheckIfContext(Inner.kind)
        /\ status' = IF ISC \in Tokens THEN "ice" ELSE status
        /\ Tokens' = Tokens \cup {ISC} /\ ISC' = IF braced THEN ISC + 1 ELSE ISC
        /\ ~braced => \A i \in 1..Depth : open[i].kind \notin Branches \cup {"case"}
    BY DEF OpenIf, NoFormLeftIn
  <1>2. MayHold(Depth) /\ (~braced => PlainMayBe(Depth))
    BY <1>1, Standing, IfMayBe DEF PlainMayBe
  <1>3. "if" \in Branches /\ "if" # "function" /\ ISC \in Nat
    BY Standing DEF Branches
  <1>4. Pushed("if", braced)
    BY <1>1, <1>3, Standing, StepsOfStack
  <1>5. Inner.body # "done"
    BY <1>1 DEF Ready
  <1>6. TypeInv'
    BY Standing, TypeOpenIf
  <1>7. StackInv'
    BY <1>2, <1>3, <1>4, <1>5, Standing, StackInvPushed
  <1>8. GraphInv'
    BY <1>1, Standing DEF GraphInv
  <1>9. ListsInv'
    <2>1. Marked(node')
      BY <1>1, Standing, MarksPending DEF TypeInv, TrackerType
    <2> QED BY <1>4, <2>1, Standing, ListsStay DEF Pushed, SameLists
  <1>10. \A i \in 1..Depth : open'[i].braced /\ open'[i].kind \notin {"elseif", "else"}
    BY <1>2, <1>4 DEF MayHold, Pushed, Alike
  <1>11. /\ Depth' = Depth + 1 /\ open'[Depth + 1].kind = "if" /\ open'[Depth + 1].braced = braced
         /\ open'[Depth + 1].items = <<>> /\ Inner' = open'[Depth + 1]
         /\ Inner'.body # "done" /\ Depth \in Nat
         /\ \A i \in 1..(Depth + 1) : i \in 1..Depth \/ i = Depth + 1
    BY <1>4, Standing, InnerNext DEF Pushed
  <1>12. BranchesCurrent'
    <2>1. \A i \in 1..(Depth' - 1) : i + 1 \in 1..Depth \/ i + 1 = Depth + 1
      BY <1>11
    <2> QED BY <1>10, <1>11, <2>1 DEF BranchesCurrent
  <1>13. NextCurrent' /\ BraceSeen'
    BY <1>11 DEF NextCurrent, BraceSeen, ContinuesIn
  <1>14. PlainCleared'
    <2>1. ~braced => CIF' = 0 /\ IL' = {}
      <3> SUFFICES ASSUME ~braced PROVE CIF' = 0 /\ IL' = {}
        OBVIOUS
      <3>1. Inner.kind \notin Branches \cup {"case"}
        BY <1>1, Standing
      <3>2. Inner.kind \in {"global"} \cup Branches \cup Bodies
        BY Standing, StackIs DEF TypeInv, FrameT
      <3>3. ClearsTrackers(Inner.kind)
        BY <3>1, <3>2, IfAssumption DEF ClearsTrackers
      <3> QED BY <1>1, <3>3 DEF CheckIfContext
    <2> QED BY <1>10, <1>11, <2>1 DEF PlainCleared
  <1>15. ISC \notin Tokens
    BY <1>2, Standing DEF KeysInv, MayHold
  <1>16. KeysInv'
    <2>1. CASE braced
      <3>1. ISC' = ISC + 1 /\ ISC + 1 \notin Tokens'
        BY <1>1, <2>1, Standing
      <3> QED BY <3>1 DEF KeysInv
    <2>2. CASE ~braced
      BY <1>11, <2>2 DEF KeysInv
    <2> QED BY <2>1, <2>2
  <1>17. status' = "ok"
    BY <1>1, <1>15, Standing
  <1> QED BY <1>6, <1>7, <1>8, <1>9, <1>12, <1>13, <1>14, <1>16, <1>17 DEF PairingInv, TrackerInv

(* An else or else if is opened where the trackers tell its if.            *)
LEMMA BranchMayBe ==
    ASSUME NoFormLeftIn, PairingInv, NEW kind \in {"elseif", "else"}, NEW braced \in BOOLEAN,
           Ready, BranchAllowed(kind, braced)
    PROVE  /\ MayHold(Depth) /\ Current(Depth) /\ CIF # 0
           /\ ~braced => PlainCurrent(Depth) /\ PlainMayBe(Depth)
  <1>1. /\ Inner.braced /\ Continues(Inner.items)
        /\ follow # "other" /\ (~braced => follow = "free")
    BY DEF BranchAllowed, FollowsBrace, NoFormLeftIn
  <1>2. Inner.body = "list"
    <2>1. FrameInv(Depth) /\ Inner = open[Depth]
      BY Standing DEF StackInv
    <2> QED BY <1>1, <2>1 DEF FrameInv, BodyOpened, Ready
  <1>3. Inner.items \in Seq(Nat) /\ Len(Inner.items) \in 1..Len(Inner.items)
        /\ Inner.items[Len(Inner.items)] # 0 /\ ContinuesIn(node, Inner.items)
    <2>1. Inner.items \in Seq(Nat)
      BY Standing, ItemsAre
    <2>2. Inner.items # <<>> /\ Last(Inner.items) = Inner.items[Len(Inner.items)]
      BY <1>1 DEF Continues, Last
    <2>3. Len(Inner.items) \in 1..Len(Inner.items)
      BY <2>1, <2>2
    <2>4. \A n : KindOf(n) = KindIn(node, n)
      BY DEF KindOf, KindIn
    <2> QED BY <1>1, <2>1, <2>2, <2>3, <2>4 DEF Continues, ContinuesIn, KindOf
  <1>4. MayHold(Depth)
    BY <1>3, Standing DEF StackInv, FrameInv
  <1>5. Current(Depth) /\ (~braced => PlainCurrent(Depth))
    BY <1>1, <1>2, <1>3, Standing DEF TrackerInv, NextCurrent
  <1>6. CIF # 0
    BY <1>5 DEF Current, Unfinished, KindIn
  <1> QED BY <1>4, <1>5, <1>6 DEF PlainCurrent

LEMMA CurrentMarked ==
    ASSUME PairingInv, NEW i \in 1..Depth, Current(i), Marked(node'),
           \A n \in Nodes \ {CIF} : SamePending(node'[n], node[n]),
           open'[i].items = open[i].items, CIF' = CIF, CEI' = CEI
    PROVE  /\ Current(i)'
           /\ PlainCurrent(i) /\ Alike(i) /\ ECIF' = ECIF /\ IL' = IL => PlainCurrent(i)'
  <1>1. PICK p \in 1..Len(open[i].items) :
           Unfinished(node, open[i].items, p) /\ CIF = open[i].items[p]
    BY DEF Current
  <1>2. ListIn(node, open[i].items) /\ Tidy(node, open[i].items)
    BY Standing, ListsAre DEF ListsInv
  <1>3. CIF \in Nodes /\ CIF \in Ifs
    BY <1>1, <1>2, Standing, UnfinishedIsLast DEF Ifs
  <1>4. /\ SameLinks(node'[CIF], node[CIF]) /\ node'[CIF].parent = node[CIF].parent
        /\ \A n \in Nodes : SameLinks(node'[n], node[n])
    BY <1>3 DEF Marked
  <1>5. SameIn(node', node, open[i].items)
    <2>1. \A k \in 1..Len(open[i].items) : open[i].items[k] # 0 => open[i].items[k] \in Nodes
      BY <1>2, ItemIs DEF Nodes
    <2> QED BY <1>4, <2>1 DEF SameIn, SameLinks
  <1>6. Unfinished(node', open[i].items, p)
    BY <1>1, <1>2, <1>5, TidyKept
  <1>7. node'[CIF].parent = 0 \/ Pending(node[CIF].parent)'
    <2>1. node[CIF].parent = 0 \/ Pending(node[CIF].parent)
      BY DEF Current
    <2>2. node[CIF].parent # 0 => node[CIF].parent \in Nodes \ {CIF}
      <3>1. node[CIF].parent \in Ifs \cup {0}
        BY <1>3, Standing DEF TypeInv, GraphType
      <3>2. node[CIF].parent # CIF
        BY <1>3, Standing DEF Sound, Nodes
      <3> QED BY <3>1, <3>2 DEF Ifs
    <2> QED BY <1>4, <2>1, <2>2 DEF Pending, SamePending
  <1>8. Current(i)'
    BY <1>1, <1>4, <1>6, <1>7 DEF Current, SameLinks
  <1>9. ASSUME PlainCurrent(i), Alike(i), ECIF' = ECIF, IL' = IL PROVE PlainCurrent(i)'
    BY <1>8, <1>9, NestingKept DEF PlainCurrent
  <1> QED BY <1>8, <1>9

LEMMA BranchOpens ==
    ASSUME NoFormLeftIn, PairingInv, NEW kind \in {"elseif", "else"}, NEW braced \in BOOLEAN,
           NEW flag \in {"pendElseIf", "pendElse"},
           Ready, BranchAllowed(kind, braced), SetPending(flag),
           open' = Append(open, Frame(kind, braced, 0)), scopes' = scopes + 1,
           IL' = IL, CIF' = CIF, ECIF' = ECIF, CEI' = CEI, braces' = braces,
           ISC' = ISC, Tokens' = Tokens, status' = status,
           kind = "else" /\ braced /\ braces.L < braces.R /\ braces.R % 2 = 1 =>
              Inner.kind \in {"global", "function"},
           TypeInv'
    PROVE  PairingInv'
  <1>1. /\ MayHold(Depth) /\ Current(Depth) /\ CIF # 0
        /\ ~braced => PlainCurrent(Depth) /\ PlainMayBe(Depth)
    BY BranchMayBe
  <1>2. /\ Marked(node') /\ (node'[CIF].pendElseIf \/ node'[CIF].pendElse)
        /\ \A n \in Nodes \ {CIF} : SamePending(node'[n], node[n])
    BY <1>1, Standing, KeywordMarks
  <1>3. kind \in Branches /\ kind # "function" /\ 0 \in Nat
    BY DEF Branches
  <1>4. Pushed(kind, braced)
    BY <1>3, Standing, StepsOfStack
  <1>5. StackInv'
    BY <1>1, <1>3, <1>4, Standing, StackInvPushed DEF Ready
  <1>6. GraphInv'
    BY <1>2, Standing, SoundMarked DEF GraphInv
  <1>7. ListsInv'
    BY <1>2, <1>4, Standing, ListsStay DEF Pushed, SameLists
  <1>8. \A i \in 1..Depth : open'[i].braced /\ open'[i].kind \notin {"elseif", "else"}
                           /\ open'[i].items = open[i].items /\ open'[i].kind = open[i].kind
    BY <1>1, <1>4 DEF MayHold, Pushed, Alike, SameLists
  <1>9. /\ Depth' = Depth + 1 /\ open'[Depth + 1].kind = kind /\ open'[Depth + 1].braced = braced
        /\ open'[Depth + 1].items = <<>> /\ Inner' = open'[Depth + 1]
        /\ Inner'.body # "done" /\ Depth \in Nat
        /\ \A i \in 1..(Depth + 1) : i \in 1..Depth \/ i = Depth + 1
    <2>1. Depth \in Nat
      BY Standing
    <2>2. /\ Depth' = Depth + 1 /\ open'[Depth + 1].kind = kind
          /\ open'[Depth + 1].braced = braced /\ open'[Depth + 1].items = <<>>
          /\ open'[Depth + 1].body = IF braced THEN "list" ELSE "none"
      BY <1>4 DEF Pushed
    <2>3. Inner' = open'[Depth + 1]
      BY <2>2, InnerNext
    <2>4. open'[Depth + 1].body # "done"
      BY <2>2
    <2>5. \A i \in 1..(Depth + 1) : i \in 1..Depth \/ i = Depth + 1
      BY <2>1
    <2> QED BY <2>1, <2>2, <2>3, <2>4, <2>5, Zenon
  <1>10. BranchesCurrent'
    <2> SUFFICES ASSUME NEW i \in 1..(Depth' - 1), open'[i + 1].kind \in {"elseif", "else"}
                 PROVE  /\ Current(i)'
                        /\ ~open'[i + 1].braced => PlainCurrent(i)'
                        /\ open'[i + 1].kind = "else" =>
                             /\ Pending(CIF)'
                             /\ open'[i + 1].braced /\ braces'.L < braces'.R /\ braces'.R % 2 = 1 =>
                                  open'[i].kind \in {"global", "function"}
      BY DEF BranchesCurrent
    <2>1. i = Depth /\ i \in 1..Depth
      <3>1. i + 1 \notin 1..Depth
        BY <1>8
      <3> QED BY <1>9, <3>1
    <2>2. Current(i)' /\ (~braced => PlainCurrent(i)')
      BY <1>1, <1>2, <1>4, <1>8, <2>1, CurrentMarked DEF Pushed
    <2>3. Pending(CIF)'
      BY <1>2 DEF Pending
    <2>4. open'[i + 1].kind = kind /\ open'[i + 1].braced = braced /\ open'[i].kind = Inner.kind
      BY <1>8, <1>9, <2>1, Standing
    <2> QED BY <2>2, <2>3, <2>4
  <1>11. NextCurrent' /\ BraceSeen'
    BY <1>9 DEF NextCurrent, BraceSeen, ContinuesIn
  <1>12. PlainCleared'
    BY <1>8, <1>9 DEF PlainCleared
  <1>13. KeysInv'
    BY <1>1, Standing DEF KeysInv, MayHold
  <1> QED BY <1>5, <1>6, <1>7, <1>10, <1>11, <1>12, <1>13, Standing DEF PairingInv, TrackerInv

LEMMA PairingOpenElseIf ==
    ASSUME NoFormLeftIn, PairingInv, NEW braced \in BOOLEAN, OpenElseIf(braced)
    PROVE  PairingInv'
  <1>1. TypeInv'
    BY Standing, TypeOpenElseIf
  <1> QED BY <1>1, BranchOpens DEF OpenElseIf, builder

LEMMA PairingOpenElse ==
    ASSUME NoFormLeftIn, PairingInv, NEW braced \in BOOLEAN, OpenElse(braced)
    PROVE  PairingInv'
  <1>1. TypeInv'
    BY Standing, TypeOpenElse
  <1> QED BY <1>1, BranchOpens DEF OpenElse, builder, tracker, NoFormLeftIn

LEMMA PairingOpenBody ==
    ASSUME NoFormLeftIn, PairingInv, NEW kind \in Bodies, OpenBody(kind)
    PROVE  PairingInv'
  <1>1. /\ open' = Append(open, Frame(kind, TRUE, 0)) /\ node' = node /\ scopes' = scopes + 1
        /\ kind \in Branches \cup Bodies /\ kind \notin Branches /\ 0 \in Nat /\ TRUE \in BOOLEAN
        /\ Inner.body # "done" /\ (kind = "function" => Depth = 1) /\ follow' = "other"
    BY IfAssumption DEF OpenBody, Ready, Branches
  <1>2. Pushed(kind, TRUE)
    BY <1>1, Standing, StepsOfStack
  <1>3. Marked(node')
    BY <1>1, Standing, MarksPending DEF TypeInv, TrackerType
  <1>4. TypeInv'
    BY Standing, TypeOpenBody
  <1>5. StackInv'
    BY <1>1, <1>2, Standing, StackInvPushed
  <1>6. GraphInv'
    BY <1>1, Standing DEF GraphInv
  <1>7. ListsInv'
    BY <1>2, <1>3, Standing, ListsStay DEF Pushed, SameLists
  <1>8. /\ Depth' = Depth + 1 /\ open'[Depth + 1].kind = kind
        /\ open'[Depth + 1].items = <<>> /\ Inner' = open'[Depth + 1]
        /\ Inner'.body # "done" /\ Depth \in Nat
        /\ \A i \in 1..(Depth + 1) : i \in 1..Depth \/ i = Depth + 1
    BY <1>2, Standing, InnerNext DEF Pushed
  <1>9. /\ IL' = IL /\ CIF' = CIF /\ ECIF' = ECIF /\ CEI' = CEI /\ braces' = braces
        /\ ISC' = ISC /\ Tokens' = Tokens /\ status' = status
    BY DEF OpenBody, tracker, builder
  <1>10. \A i \in 1..Depth : open'[i].braced = open[i].braced /\ open'[i].kind = open[i].kind
                            /\ open'[i].items = open[i].items
    BY <1>2 DEF Pushed, Alike, SameLists
  <1>11. ASSUME NEW i \in 1..Depth
         PROVE  (Current(i) => Current(i)') /\ (PlainCurrent(i) => PlainCurrent(i)')
    <2>1. Alike(i) /\ i \in Nat
      BY <1>2, Standing DEF Pushed, Alike
    <2>2. Current(i)' = Current(i)
      BY <1>1, <1>9, <1>10 DEF Current, Pending
    <2> QED BY <1>9, <2>1, <2>2, NestingKept DEF PlainCurrent
  <1>12. BranchesCurrent'
    <2> SUFFICES ASSUME NEW i \in 1..(Depth' - 1), open'[i + 1].kind \in {"elseif", "else"}
                 PROVE  /\ Current(i)'
                        /\ ~open'[i + 1].braced => PlainCurrent(i)'
                        /\ open'[i + 1].kind = "else" =>
                             /\ Pending(CIF)'
                             /\ open'[i + 1].braced /\ braces'.L < braces'.R /\ braces'.R % 2 = 1 =>
                                  open'[i].kind \in {"global", "function"}
      BY DEF BranchesCurrent
    <2>1. i \in 1..(Depth - 1) /\ i + 1 \in 1..Depth /\ i \in 1..Depth
      <3>1. i # Depth
        BY <1>1, <1>8 DEF Branches
      <3> QED BY <1>8, <3>1
    <2> QED BY <1>1, <1>9, <1>10, <1>11, <2>1, Standing DEF BranchesCurrent, TrackerInv, Pending
  <1>13. NextCurrent' /\ BraceSeen'
    BY <1>8 DEF NextCurrent, BraceSeen, ContinuesIn
  <1>14. PlainCleared'
    <2>1. kind # "if"
      BY <1>1 DEF Branches
    <2> QED BY <1>8, <1>9, <1>10, <2>1, Standing DEF PlainCleared, TrackerInv
  <1>15. KeysInv'
    <2>1. \A i \in 1..Depth : i \in 1..Depth'
      BY <1>8
    <2>2. ISC \in Tokens => \E i \in 1..Depth : open[i].kind = "if" /\ ~open[i].braced
      BY Standing DEF KeysInv
    <2>3. ISC \in Tokens => \E i \in 1..Depth' : open'[i].kind = "if" /\ ~open'[i].braced
      BY <1>10, <2>1, <2>2
    <2> QED BY <1>9, <2>3 DEF KeysInv
  <1> QED BY <1>4, <1>5, <1>6, <1>7, <1>9, <1>12, <1>13, <1>14, <1>15, Standing
          DEF PairingInv, TrackerInv

(* A body is over; the nodes may have been marked.                         *)
LEMMA BodyEnds ==
    ASSUME PairingInv, Ended, TypeInv', Marked(node'),
           \A n \in Nodes \ {CIF} : SamePending(node'[n], node[n]),
           IL' = IL, CIF' = CIF, ECIF' = ECIF, CEI' = CEI, ISC' = ISC, Tokens' = Tokens,
           status' = status,
           (\E i \in 1..Depth : open[i].kind = "else") =>
              braces' = braces /\ (Pending(CIF) => Pending(CIF)'),
           BraceSeen'
    PROVE  PairingInv'
  <1>1. /\ Depth' = Depth /\ Inner' = open'[Depth] /\ open'[Depth].body = "done"
        /\ \A i \in 1..Depth : /\ open'[i].kind = open[i].kind /\ open'[i].braced = open[i].braced
                               /\ open'[i].items = open[i].items
    <2>1. Depth \in Nat /\ \A i \in 1..Depth : i \in 1..(Depth - 1) \/ i = Depth
      BY Standing
    <2> QED BY <2>1, InnerNext DEF Ended, Alike, SameLists
  <1>2. StackInv'
    BY Standing, StackInvEnded
  <1>3. GraphInv'
    BY Standing, SoundMarked DEF GraphInv
  <1>4. ListsInv'
    BY <1>1, Standing, ListsStay DEF Ended
  <1>5. BranchesCurrent'
    <2> SUFFICES ASSUME NEW i \in 1..(Depth' - 1), open'[i + 1].kind \in {"elseif", "else"}
                 PROVE  /\ Current(i)'
                        /\ ~open'[i + 1].braced => PlainCurrent(i)'
                        /\ open'[i + 1].kind = "else" =>
                             /\ Pending(CIF)'
                             /\ open'[i + 1].braced /\ braces'.L < braces'.R /\ braces'.R % 2 = 1 =>
                                  open'[i].kind \in {"global", "function"}
      BY DEF BranchesCurrent
    <2>1. i \in 1..(Depth - 1) /\ i \in 1..Depth /\ i + 1 \in 1..Depth
      BY <1>1, Standing
    <2>2. /\ open'[i + 1].kind = open[i + 1].kind /\ open'[i + 1].braced = open[i + 1].braced
          /\ open'[i].kind = open[i].kind /\ open'[i].items = open[i].items
      BY <1>1, <2>1
    <2>3. /\ Current(i)
          /\ ~open[i + 1].braced => PlainCurrent(i)
          /\ open[i + 1].kind = "else" =>
               /\ Pending(CIF)
               /\ open[i + 1].braced /\ braces.L < braces.R /\ braces.R % 2 = 1 =>
                    open[i].kind \in {"global", "function"}
      BY <2>1, <2>2, Standing DEF BranchesCurrent, TrackerInv
    <2>4. Alike(i)
      BY <2>1, Standing DEF Ended, Alike
    <2>5. Current(i)' /\ (~open[i + 1].braced => PlainCurrent(i)')
      BY <2>1, <2>2, <2>3, <2>4, CurrentMarked
    <2>6. open[i + 1].kind = "else" => braces' = braces /\ (Pending(CIF) => Pending(CIF)')
      BY <2>1
    <2> QED BY <2>2, <2>3, <2>5, <2>6
  <1>6. NextCurrent'
    BY <1>1 DEF NextCurrent
  <1>7. PlainCleared'
    BY <1>1, Standing DEF PlainCleared, TrackerInv
  <1>8. KeysInv'
    BY <1>1, Standing DEF KeysInv
  <1> QED BY <1>2, <1>3, <1>4, <1>5, <1>6, <1>7, <1>8, Standing DEF PairingInv, TrackerInv

LEMMA PairingSimple ==
    ASSUME PairingInv, Simple
    PROVE  PairingInv'
  <1>1. /\ open' = [open EXCEPT ![Depth].body = "done"] /\ scopes' = scopes /\ node' = node
        /\ ~Inner.braced
        /\ IL' = IL /\ CIF' = CIF /\ ECIF' = ECIF /\ CEI' = CEI /\ braces' = braces
        /\ ISC' = ISC /\ Tokens' = Tokens /\ status' = status
    BY DEF Simple, tracker, builder
  <1>2. Ended
    BY <1>1, Standing, StepsOfStack
  <1>3. Marked(node') /\ \A n \in Nodes \ {CIF} : SamePending(node'[n], node[n])
    BY <1>1, Standing, MarksPending DEF TypeInv, TrackerType
  <1>4. TypeInv'
    BY Standing, TypeSimple
  <1>5. BraceSeen'
    <2>1. Inner' = open'[Depth] /\ open'[Depth].braced = open[Depth].braced
      BY <1>2, Standing, InnerNext DEF Ended, Alike
    <2>2. ~Inner'.braced
      BY <1>1, <2>1, Standing
    <2> QED BY <2>2 DEF BraceSeen
  <1>6. Pending(CIF)' = Pending(CIF)
    BY <1>1 DEF Pending
  <1> QED BY <1>1, <1>2, <1>3, <1>4, <1>5, <1>6, BodyEnds

LEMMA PairingRightBrace ==
    ASSUME PairingInv, RightBrace
    PROVE  PairingInv'
  <1>1. /\ open' = [open EXCEPT ![Depth].body = "done"] /\ scopes' = scopes
        /\ IL' = IL /\ CIF' = CIF /\ ECIF' = ECIF /\ CEI' = CEI
        /\ ISC' = ISC /\ Tokens' = Tokens /\ status' = status
        /\ \/ follow' = "elseif" /\ BeforeElseIf
           \/ follow' = "else" /\ BeforeElse
           \/ follow' = "other" /\ BeforeOther
    BY DEF RightBrace, builder
  <1>2. Ended
    BY <1>1, Standing, StepsOfStack
  <1>3. TypeInv'
    BY Standing, TypeRightBrace
  <1>4. /\ Marked(node') /\ \A n \in Nodes \ {CIF} : SamePending(node'[n], node[n])
        /\ CIF # 0 /\ (BeforeElseIf \/ BeforeElse) => Pending(CIF)'
        /\ BeforeOther /\ Inner.kind # "elseif" => node' = node
        /\ Inner.kind # "if" => braces' = braces
    BY <1>1, Standing, BraceMarks DEF Pending
  <1>5. ASSUME NEW i \in 1..Depth, open[i].kind = "else"
        PROVE  braces' = braces /\ (Pending(CIF) => Pending(CIF)')
    <2>1. Inner.kind \notin {"if", "elseif"}
      <3> SUFFICES ASSUME Inner.kind \in {"if", "elseif"} PROVE FALSE
        OBVIOUS
      <3>1. MayHold(Depth - 1)
        BY Standing, NestingIs DEF Branches
      <3>2. i \in 1..(Depth - 1)
        BY <1>5, Standing
      <3> QED BY <1>5, <3>1, <3>2 DEF MayHold
    <2>2. CIF # 0
      <3>1. PICK j \in 1..(Depth - 1) : i = j + 1
        <4>1. i # 1
          BY <1>5, Standing DEF StackInv, FrameInv
        <4>2. i - 1 \in 1..(Depth - 1) /\ i = (i - 1) + 1
          BY <4>1, Standing
        <4> QED BY <4>2
      <3>2. Current(j)
        BY <1>5, <3>1, Standing DEF BranchesCurrent, TrackerInv
      <3> QED BY <3>2 DEF Current, Unfinished, KindIn
    <2>3. BeforeOther => (Pending(CIF) => Pending(CIF)')
      BY <1>1, <1>4, <2>1 DEF Pending
    <2> QED BY <1>1, <1>4, <2>1, <2>2, <2>3
  <1>6. BraceSeen'
    <2> SUFFICES ASSUME follow' # "other" PROVE CIF' = 0 \/ Pending(CIF)'
      BY <1>1 DEF BraceSeen
    <2> QED BY <1>1, <1>4
  <1> QED BY <1>1, <1>2, <1>3, <1>4, <1>5, <1>6, BodyEnds

(* A list with no node at its end does not go on.                          *)
LEMMA OtherEndsChain ==
    ASSUME NEW g, NEW s \in Seq(Nat)
    PROVE  ~ContinuesIn(g, Append(s, 0))
  <1>1. Len(Append(s, 0)) = Len(s) + 1 /\ Append(s, 0)[Len(s) + 1] = 0
    BY AppendIs
  <1> QED BY <1>1 DEF ContinuesIn, KindIn

LEMMA PairingReduceBody ==
    ASSUME PairingInv, ReduceBody
    PROVE  PairingInv'
  <1> DEFINE erased == {n \in ToSet(Inner.items) : Inner.kind = "case" /\ KindOf(n) = "if"}
             d == Depth - 1
  <1>1. /\ Inner.kind \in Bodies /\ open' = Popped(0) /\ node' = node /\ scopes' = scopes
        /\ erased = {} => IL' = IL /\ CIF' = CIF /\ ECIF' = ECIF
        /\ CEI' = CEI /\ braces' = braces /\ ISC' = ISC /\ Tokens' = Tokens /\ status' = status
        /\ follow' = follow
    BY DEF ReduceBody, Done, builder
  <1>2. Inner.kind \notin Branches /\ Inner.kind # "global" /\ Depth > 1 /\ Depth \in Nat
        /\ d \in 1..Depth /\ 0 \in {0, N} /\ 0 \in Nat
        /\ \A i \in 1..d : i \in 1..(Depth - 2) \/ i = d
    BY <1>1, Standing, StackIs, IfAssumption DEF Branches, TypeInv
  <1>3. Left(0)
    BY <1>1, <1>2, Standing, StepsOfStack
  <1>4. TypeInv'
    BY Standing, TypeReduceBody
  <1>5. StackInv'
    BY <1>2, <1>3, Standing, StackInvLeft
  <1>6. GraphInv'
    BY <1>1, Standing DEF GraphInv
  <1>7. open[d].items \in Seq(Nat) /\ ListIn(node, open[d].items) /\ Tidy(node, open[d].items)
    BY <1>2, Standing, ItemsAre, ListsAre DEF ListsInv
  <1>8. ~ContinuesIn(node', open'[d].items)
    BY <1>3, <1>7, OtherEndsChain DEF Left
  <1>9. ListsInv'
    <2>1. Tidy(node', Append(open[Depth - 1].items, 0))
      BY <1>1, <1>2, <1>7, TidyLonger DEF KindIn
    <2>2. \A i \in 1..(Depth - 2) : Tidy(node', open[i].items)
      BY <1>1, <1>2, Standing DEF ListsInv
    <2>3. KindIn(node', 0) # "if"
      BY DEF KindIn
    <2> HIDE DEF erased, d
    <2> QED BY <1>1, <1>2, <1>3, <2>1, <2>2, <2>3, Standing, ListsLeft
  <1>10. ASSUME erased # {} PROVE TrackerInv'
    <2>1. PICK n \in ToSet(Inner.items) : KindOf(n) = "if"
      BY <1>10
    <2>2. \E k \in 1..Len(Inner.items) : Inner.items[k] # 0
      <3>1. Inner.items \in Seq(Nat) /\ n # 0
        BY <2>1, Standing, ItemsAre DEF KindOf
      <3> QED BY <3>1 DEF ToSet
    <2>3. MayHold(Depth)
      BY <2>2, Standing DEF StackInv, FrameInv
    <2>4. MayHold(Depth - 1)
      BY <1>2, <2>3 DEF MayHold
    <2> HIDE DEF erased
    <2> HIDE DEF d
    <2>5. ASSUME NEW i, i = Depth - 1 PROVE TrackerInv'
      <3>1. ~ContinuesIn(node', open'[i].items)
        BY <1>8, <2>5 DEF d
      <3> QED BY <1>2, <1>3, <2>4, <2>5, <3>1, TrackersLeft
    <2> QED BY <2>5
  <1>11. ASSUME erased = {} PROVE TrackerInv'
    <2>1. IL' = IL /\ CIF' = CIF /\ ECIF' = ECIF
      BY <1>1, <1>11
    <2> HIDE DEF erased
    <2>2. /\ Depth' = d /\ Inner' = open'[d]
          /\ \A i \in 1..d : open'[i].kind = open[i].kind /\ open'[i].braced = open[i].braced
          /\ \A i \in 1..(Depth - 2) : open'[i].items = open[i].items
          /\ open'[d].body = IF open[d].braced THEN open[d].body ELSE "done"
      BY <1>3, InnerNext DEF Left, Alike, SameLists
    <2>3. BranchesCurrent'
      <3> SUFFICES ASSUME NEW i \in 1..(Depth' - 1), open'[i + 1].kind \in {"elseif", "else"}
                   PROVE  /\ Current(i)'
                          /\ ~open'[i + 1].braced => PlainCurrent(i)'
                          /\ open'[i + 1].kind = "else" =>
                               /\ Pending(CIF)'
                               /\ open'[i + 1].braced /\ braces'.L < braces'.R /\ braces'.R % 2 = 1 =>
                                    open'[i].kind \in {"global", "function"}
        BY DEF BranchesCurrent
      <3>1. i \in 1..(Depth - 2) /\ i \in 1..d /\ i + 1 \in 1..d /\ i \in 1..(Depth - 1) /\ i \in Nat
        BY <1>2, <2>2
      <3>2. /\ Current(i)
            /\ ~open[i + 1].braced => PlainCurrent(i)
            /\ open[i + 1].kind = "else" =>
                 /\ Pending(CIF)
                 /\ open[i + 1].braced /\ braces.L < braces.R /\ braces.R % 2 = 1 =>
                      open[i].kind \in {"global", "function"}
        BY <2>2, <3>1, Standing DEF BranchesCurrent, TrackerInv
      <3>3. Current(i)' = Current(i) /\ Pending(CIF)' = Pending(CIF)
        BY <1>1, <2>1, <2>2, <3>1 DEF Current, Pending
      <3>4. Alike(i)
        BY <1>3, <3>1, <1>2 DEF Left, Alike
      <3>5. ~open[i + 1].braced => PlainCurrent(i)'
        BY <2>1, <3>1, <3>2, <3>3, <3>4, NestingKept DEF PlainCurrent
      <3> QED BY <1>1, <2>2, <3>1, <3>2, <3>3, <3>5
    <2>4. NextCurrent'
      BY <1>8, <2>2 DEF NextCurrent
    <2>5. PlainCleared'
      BY <1>2, <2>1, <2>2, Standing, SMTT(30) DEF PlainCleared, TrackerInv
    <2>6. BraceSeen'
      <3>1. open[d].braced => open[d].body = "list"
        BY <1>2, Standing DEF StackInv, FrameInv, BodyOpened
      <3>2. d \in 1..d
        BY <1>2
      <3>3. Inner'.braced => Inner'.body = "list"
        BY <2>2, <3>1, <3>2
      <3> QED BY <3>3 DEF BraceSeen
    <2> QED BY <2>3, <2>4, <2>5, <2>6 DEF TrackerInv
  <1>12. KeysInv'
    <2>1. Inner.kind # "if"
      BY <1>2 DEF Branches
    <2> HIDE DEF erased, d
    <2> QED BY <1>1, <1>2, <1>3, <2>1, KeysLeft
  <1>13. TrackerInv'
    <2> HIDE DEF erased
    <2> QED BY <1>10, <1>11
  <1> QED BY <1>1, <1>4, <1>5, <1>6, <1>9, <1>12, <1>13, Standing DEF PairingInv

LEMMA PairingReduceIf ==
    ASSUME PairingInv, ReduceIf
    PROVE  PairingInv'
  <1> DEFINE d == Depth - 1
             s == open[d].items
             t == Append(s, N)
  <1>1. /\ Inner.kind = "if" /\ Inner.body = "done" /\ MayHold(Depth - 1) /\ Depth > 1
        /\ ~Inner.braced => PlainMayBe(Depth - 1)
        /\ Depth \in Nat /\ d \in 1..Depth /\ N \in {0, N} /\ N # 0 /\ d \in Nat
        /\ Outer = open[d] /\ d < Depth
    <2>1. Inner.kind = "if" /\ Inner.body = "done"
      BY DEF ReduceIf, Done
    <2> QED BY <2>1, Standing, NestingIs DEF Branches, Outer
  <1>2. ListOK(Inner.items) /\ ElsesInList(Inner.items)
    BY Standing, ListsAre, TidyPasses DEF ListsInv
  <1>3. /\ node' = Adopted(Append(node, NewNode("if", 0, ParentOfIf)), Inner.items, N)
        /\ IL' = IL \cup {N} /\ CIF' = N /\ ECIF' = N /\ CEI' = 0
        /\ Tokens' = IF Inner.braced THEN Tokens ELSE Tokens \ {Inner.key}
        /\ ISC' = IF Inner.braced THEN ISC ELSE ISC + 1
        /\ open' = Popped(N) /\ scopes' = scopes /\ status' = status /\ follow' = follow
    BY <1>2 DEF ReduceIf
  <1>4. Left(N)
    BY <1>1, <1>3, Standing, StepsOfStack
  <1>5. GrownByIf(node')
    BY <1>1, <1>3, Standing, GrowsByIf
  <1>6. /\ node' \in Seq(NodeT) /\ Len(node') = N
        /\ \A n \in Nodes :
             /\ SameLinks(node'[n], node[n]) /\ SamePending(node'[n], node[n])
             /\ node'[n].next = node[n].next
             /\ node'[n].parent = IF n \in Ifs /\ \E j \in 1..Len(Inner.items) : Inner.items[j] = n
                                  THEN N ELSE node[n].parent
        /\ node'[N].kind = "if" /\ node'[N].dc = open[d].scope /\ node'[N].parent = ParentOfIf
        /\ node'[N].elseIfs = <<>> /\ node'[N].else = 0
    BY <1>1, <1>5 DEF GrownByIf
  <1>7. TypeInv'
    BY Standing, TypeReduceIf
  <1>8. StackInv'
    BY <1>1, <1>4, Standing, StackInvLeft
  <1>9. GraphInv'
    BY <1>5, <1>6, Standing, SoundByIf DEF GraphInv
  <1>10. ASSUME NEW i \in 1..d, NEW p \in 1..Len(open[i].items), open[i].items[p] # 0
         PROVE  LET m == open[i].items[p]
                IN  /\ SameLinks(node'[m], node[m]) /\ node'[m].parent = node[m].parent
    <2>1. i \in 1..Depth /\ i # Depth /\ Depth \in 1..Depth
      BY <1>1
    <2>2. open[i].items[p] \in Nodes
      <3>1. open[i].items[p] \in 0..Len(node) /\ Len(node) \in Nat
        BY <2>1, ItemsAre, Standing
      <3> QED BY <1>10, <3>1 DEF Nodes
    <2>3. ~\E j \in 1..Len(Inner.items) : Inner.items[j] = open[i].items[p]
      BY <1>10, <2>1, Standing, SMTT(30) DEF ItemsApart
    <2> QED BY <1>6, <2>2, <2>3
  <1>11. ASSUME NEW i \in 1..d PROVE Tidy(node', open[i].items) /\ ListIn(node', open[i].items)
    <2>1. i \in 1..Depth
      BY <1>1
    <2>2. ListIn(node, open[i].items) /\ Tidy(node, open[i].items)
      BY <2>1, Standing, ListsAre DEF ListsInv
    <2>3. SameIn(node', node, open[i].items)
      BY <1>10 DEF SameIn, SameLinks
    <2>4. Tidy(node', open[i].items)
      BY <2>2, <2>3, TidyKept
    <2>5. \A k \in 1..Len(open[i].items) : open[i].items[k] <= Len(node')
      <3>1. \A k \in 1..Len(open[i].items) : open[i].items[k] \in 0..Len(node)
        BY <2>1, Standing, ItemsAre
      <3>2. N = Len(node) + 1 /\ Len(node) \in Nat /\ Len(node') = N
        BY <1>6, Standing DEF N, TypeInv, GraphType
      <3> QED BY <3>1, <3>2
    <2> QED BY <1>6, <2>2, <2>4, <2>5 DEF ListIn
  <1>12. KindIn(node', N) = "if"
    BY <1>1, <1>6 DEF KindIn
  <1>13. Tidy(node', t) /\ Unfinished(node', t, Len(s) + 1) /\ s \in Seq(Nat)
    <2>1. d \in 1..d
      BY <1>1
    <2>2. Tidy(node', s) /\ ListIn(node', s)
      BY <1>11, <2>1
    <2> HIDE DEF d, s
    <2> QED BY <1>6, <1>12, <2>2, Standing, TidyLonger DEF ListIn
  <1>14. open'[d].items = t
    BY <1>4 DEF Left
  <1>15. ListsInv'
    <2>1. Tidy(node', Append(open[Depth - 1].items, N))
      BY <1>13
    <2>2. \A i \in 1..(Depth - 2) : Tidy(node', open[i].items)
      BY <1>1, <1>11
    <2>3. \A i \in 1..(Depth - 1) : \A p \in 1..Len(open[i].items) : open[i].items[p] # 0 =>
              /\ node'[open[i].items[p]].kind = node[open[i].items[p]].kind
              /\ node'[open[i].items[p]].dc = node[open[i].items[p]].dc
              /\ node'[open[i].items[p]].parent = node[open[i].items[p]].parent
      BY <1>10 DEF SameLinks
    <2>4. /\ node'[N].dc = open[Depth - 1].scope
          /\ open[Depth - 1].kind \in {"global", "function"} => node'[N].parent = 0
      BY <1>1, <1>6 DEF ParentOfIf
    <2> HIDE DEF d, s, t
    <2> QED BY <1>1, <1>4, <2>1, <2>2, <2>3, <2>4, Standing, ListsLeft
  <1>16. ASSUME follow # "other"
         PROVE  ParentOfIf = 0 \/ node'[ParentOfIf].pendElseIf \/ node'[ParentOfIf].pendElse
    <2>1. CIF = 0 \/ Pending(CIF)
      <3>1. Inner.braced => CIF = 0 \/ Pending(CIF)
        BY <1>1, <1>16, Standing DEF TrackerInv, BraceSeen
      <3>2. ~Inner.braced => CIF = 0
        BY <1>1, Standing DEF TrackerInv, PlainCleared
      <3> QED BY <3>1, <3>2
    <2>2. CIF # 0 => CIF \in Nodes
      BY Standing DEF TypeInv, TrackerType, Ifs
    <2>3. CIF # 0 => SamePending(node'[CIF], node[CIF])
      BY <1>6, <2>2
    <2>4. CASE ParentOfIf = 0
      BY <2>4
    <2>5. CASE ParentOfIf # 0
      <3>1. ParentOfIf = CIF /\ CIF # 0
        BY <2>5 DEF ParentOfIf
      <3>2. node'[CIF].pendElseIf \/ node'[CIF].pendElse
        BY <2>1, <2>3, <3>1 DEF Pending, SamePending
      <3> QED BY <3>1, <3>2
    <2> QED BY <2>4, <2>5
  <1>17. ASSUME NEW i, i = d, follow # "other"
         PROVE  Current(i)' /\ (follow = "free" => PlainCurrent(i)')
    <2>1. open'[i].items = t /\ t[Len(s) + 1] = N /\ Len(s) + 1 \in 1..Len(t)
      BY <1>13, <1>14, <1>17, Standing, AppendIs
    <2>2. Len(node'[N].elseIfs) = 0
      BY <1>6
    <2> HIDE DEF t
    <2>3. Current(i)'
      <3>1. \E p \in 1..Len(open'[i].items) :
              Unfinished(node', open'[i].items, p) /\ CIF' = open'[i].items[p]
        BY <1>3, <1>13, <2>1
      <3>2. node'[CIF'].parent = 0 \/ Pending(node[CIF].parent)'
        BY <1>3, <1>6, <1>16, <1>17 DEF Pending
      <3>3. CEI' = IF Len(node'[CIF'].elseIfs) = 0 THEN 0
                   ELSE node'[CIF'].elseIfs[Len(node'[CIF'].elseIfs)]
        BY <1>3, <2>2
      <3> QED BY <3>1, <3>2, <3>3 DEF Current
    <2>4. follow = "free" => PlainCurrent(i)'
      <3> SUFFICES ASSUME follow = "free" PROVE PlainCurrent(i)'
        OBVIOUS
      <3>1. ~Inner.braced
        BY <1>1, Standing DEF TrackerInv, BraceSeen
      <3>2. IL' = {N}
        BY <1>1, <1>3, <3>1, Standing DEF TrackerInv, PlainCleared
      <3>3. Alike(i) /\ i \in Nat /\ PlainMayBe(i)
        BY <1>1, <1>4, <1>17, <3>1 DEF Left
      <3>4. PlainMayBe(i)'
        BY <3>3, NestingKept
      <3> QED BY <1>3, <2>3, <3>2, <3>4 DEF PlainCurrent
    <2> QED BY <2>3, <2>4
  <1>18. TrackerInv'
    <2> HIDE DEF s, t
    <2>1. ASSUME NEW i, i = Depth - 1 PROVE TrackerInv'
      <3>1. follow' # "other" => Current(i)' /\ (follow' = "free" => PlainCurrent(i)')
        BY <1>3, <1>17, <2>1
      <3> HIDE DEF d
      <3> QED BY <1>1, <1>4, <2>1, <3>1, TrackersLeft
    <2> QED BY <2>1
  <1>19. KeysInv'
    <2>1. CASE Inner.braced
      <3>1. \A i \in 1..Depth : open[i].braced
        <4>1. \A i \in 1..Depth : i \in 1..(Depth - 1) \/ i = Depth
          BY <1>1
        <4> QED BY <1>1, <2>1, <4>1, Standing DEF MayHold
      <3> QED BY <1>3, <2>1, <3>1, Standing DEF KeysInv
    <2>2. CASE ~Inner.braced
      <3>1. ISC' = ISC + 1 /\ ISC + 1 \notin Tokens'
        BY <1>3, <2>2, Standing
      <3> QED BY <3>1 DEF KeysInv
    <2> QED BY <2>1, <2>2
  <1> QED BY <1>3, <1>7, <1>8, <1>9, <1>15, <1>18, <1>19, Standing DEF PairingInv

(* The current if, for an else or else if that follows.                    *)
LEMMA CurrentIs ==
    ASSUME PairingInv, NEW i \in 1..Depth, Current(i)
    PROVE  /\ CIF \in Ifs /\ CIF \in Nodes /\ CIF # 0
           /\ CIF = LastIf(open[i].items, Len(open[i].items))
           /\ node[CIF].else = 0 /\ node[CIF].dc = open[i].scope
           /\ open[i].kind \in {"global", "function"} => node[CIF].parent = 0
           /\ ~Circles(node[CIF].parent)
           /\ node[CIF].parent = 0 \/ node[CIF].parent \in Nodes
  <1>1. PICK p \in 1..Len(open[i].items) :
          Unfinished(node, open[i].items, p) /\ CIF = open[i].items[p]
    BY DEF Current
  <1>2. ListIn(node, open[i].items) /\ Tidy(node, open[i].items) /\ AtHome(i)
    BY Standing, ListsAre DEF ListsInv
  <1>3. LastIf(open[i].items, Len(open[i].items)) = open[i].items[p] /\ CIF \in Ifs /\ CIF # 0
    BY <1>1, <1>2, Standing, UnfinishedIsLast
  <1>4. node[CIF].else = 0 /\ KindIn(node, open[i].items[p]) = "if"
    BY <1>1 DEF Unfinished
  <1>5. node[CIF].parent \in Ifs \cup {0} /\ GraphType /\ Ifs \subseteq Nodes
    BY <1>3, Standing DEF TypeInv, GraphType, Ifs
  <1>6. ~Circles(node[CIF].parent)
    <2>1. node[CIF].parent = 0 \/ Pending(node[CIF].parent)
      BY DEF Current
    <2> QED BY <1>5, <2>1, WalkEnds
  <1> QED BY <1>1, <1>2, <1>3, <1>4, <1>5, <1>6 DEF AtHome

(* An else or else if joins the list of the current if: every list is      *)
(* tidy again, and after an else if the current if is still unfinished.    *)
LEMMA BranchJoins ==
    ASSUME PairingInv, Depth > 1, NEW d, d = Depth - 1, Current(d),
           NEW kind \in {"elseif", "else"}, GrownBy(node', kind, CIF), Left(N)
    PROVE  /\ ListsInv'
           /\ kind = "elseif" => \E p \in 1..Len(open'[d].items) :
                Unfinished(node', open'[d].items, p) /\ CIF = open'[d].items[p]
           /\ kind = "else" => ~ContinuesIn(node', open'[d].items)
  <1> DEFINE s == open[d].items
             t == Append(s, N)
  <1>1. /\ d \in 1..Depth /\ d \in Nat /\ d < Depth /\ Depth \in Nat /\ N \in Nat /\ N # 0
        /\ N = Len(node) + 1 /\ open'[d].items = t /\ Sound(node) /\ CIF \in Nodes
    BY Standing, CurrentIs DEF Left
  <1>2. PICK p \in 1..Len(s) : Unfinished(node, s, p) /\ CIF = s[p]
    BY DEF Current
  <1>3. ListIn(node, s) /\ Tidy(node, s) /\ s \in Seq(Nat)
    BY <1>1, Standing, ListsAre, ItemsAre DEF ListsInv
  <1>4. Len(t) = Len(s) + 1 /\ Len(s) \in Nat /\ t[Len(s) + 1] = N /\ p \in 1..Len(t) /\ t[p] = s[p]
    BY <1>1, <1>3, AppendIs, SMTT(30)
  <1>5. /\ node'[N].kind = kind /\ node'[N].of = CIF
        /\ \A n \in Nodes :
             /\ node'[n].kind = node[n].kind /\ node'[n].of = node[n].of
             /\ node'[n].dc = node[n].dc /\ node'[n].parent = node[n].parent
             /\ node'[n].elseIfs = IF kind = "elseif" /\ n = CIF THEN Append(node[n].elseIfs, N)
                                   ELSE node[n].elseIfs
             /\ node'[n].else = IF kind = "else" /\ n = CIF THEN N ELSE node[n].else
    BY DEF GrownBy
  <1>6. /\ Tidy(node', t)
        /\ kind = "elseif" => Unfinished(node', t, p)
    <2> HIDE DEF s, t
    <2>1. CASE kind = "elseif"
      <3>1. \A m \in 1..Len(node) :
              /\ node'[m].kind = node[m].kind /\ node'[m].of = node[m].of
              /\ node'[m].else = node[m].else
              /\ node'[m].elseIfs = IF m = s[p] THEN Append(node[m].elseIfs, N) ELSE node[m].elseIfs
        BY <1>2, <1>5, <2>1 DEF Nodes
      <3>2. node'[N].kind = "elseif" /\ node'[N].of = s[p]
        BY <1>2, <1>5, <2>1
      <3> QED BY <1>1, <1>2, <1>3, <2>1, <3>1, <3>2, TidyElseIf, SMTT(30) DEF t
    <2>2. CASE kind = "else"
      <3>1. \A m \in 1..Len(node) :
              /\ node'[m].kind = node[m].kind /\ node'[m].of = node[m].of
              /\ node'[m].elseIfs = node[m].elseIfs
              /\ node'[m].else = IF m = s[p] THEN N ELSE node[m].else
        BY <1>2, <1>5, <2>2 DEF Nodes
      <3>2. node'[N].kind = "else" /\ node'[N].of = s[p]
        BY <1>2, <1>5, <2>2
      <3> QED BY <1>1, <1>2, <1>3, <2>2, <3>1, <3>2, TidyElse, SMTT(30) DEF t
    <2> QED BY <2>1, <2>2
  <1>7. ASSUME NEW i \in 1..(Depth - 2) PROVE Tidy(node', open[i].items)
    <2>1. i \in 1..Depth /\ i # d
      BY <1>1
    <2>2. ListIn(node, open[i].items) /\ Tidy(node, open[i].items)
      BY <2>1, Standing, ListsAre DEF ListsInv
    <2>3. ASSUME NEW k \in 1..Len(open[i].items), open[i].items[k] # 0
          PROVE  open[i].items[k] \in Nodes \ {CIF}
      <3>1. open[i].items[k] # CIF
        BY <1>1, <1>2, <2>1, <2>3, Standing DEF ItemsApart
      <3>2. open[i].items[k] \in 0..Len(node) /\ Len(node) \in Nat
        BY <2>1, Standing, ItemsAre
      <3> QED BY <2>3, <3>1, <3>2 DEF Nodes
    <2>4. SameIn(node', node, open[i].items)
      BY <1>5, <2>3 DEF SameIn
    <2> QED BY <2>2, <2>4, TidyKept
  <1>8. ListsInv'
    <2>1. \A i \in 1..(Depth - 1) : \A k \in 1..Len(open[i].items) : open[i].items[k] # 0 =>
              open[i].items[k] \in Nodes
      <3> TAKE i \in 1..(Depth - 1)
      <3>1. i \in 1..Depth
        BY <1>1
      <3>2. Len(node) \in Nat /\ \A k \in 1..Len(open[i].items) : open[i].items[k] \in 0..Len(node)
        BY <3>1, Standing, ItemsAre
      <3> QED BY <3>2 DEF Nodes
    <2>2. KindIn(node', N) # "if"
      BY <1>1, <1>5 DEF KindIn
    <2>3. Tidy(node', Append(open[Depth - 1].items, N))
      BY <1>6
    <2>4. \A i \in 1..(Depth - 1) : \A k \in 1..Len(open[i].items) : open[i].items[k] # 0 =>
              /\ node'[open[i].items[k]].kind = node[open[i].items[k]].kind
              /\ node'[open[i].items[k]].dc = node[open[i].items[k]].dc
              /\ node'[open[i].items[k]].parent = node[open[i].items[k]].parent
      BY <1>5, <2>1
    <2> HIDE DEF s, t
    <2> QED BY <1>1, <1>7, <2>2, <2>3, <2>4, Standing, ListsLeft
  <1>9. kind = "else" => ~ContinuesIn(node', t)
    BY <1>1, <1>4, <1>5 DEF ContinuesIn, KindIn
  <1> QED BY <1>1, <1>2, <1>4, <1>6, <1>8, <1>9

(* The chain v of an if, and w, the chain with the next else if at its end.*)
Chained(c, v, w) ==
    /\ v \in Seq(Nat) /\ Len(v) \in Nat /\ Len(w) = Len(v) + 1 /\ w[Len(v) + 1] = N
    /\ \A k \in 1..Len(v) :
         /\ w[k] = v[k] /\ v[k] \in Nodes /\ v[k] # N /\ node[v[k]].of = c
         /\ node[v[k]].next = IF k = Len(v) THEN 0 ELSE v[k + 1]
    /\ \A k, l \in 1..Len(v) : v[k] = v[l] => k = l
    /\ \A k, l \in 1..Len(w) : w[k] = w[l] => k = l
    /\ \A k \in 1..Len(w) : w[k] \in 1..N /\ (k \in 1..Len(v) \/ k = Len(v) + 1)

LEMMA LongerChain ==
    ASSUME PairingInv, NEW c \in Nodes
    PROVE  Chained(c, node[c].elseIfs, Append(node[c].elseIfs, N))
  <1> DEFINE v == node[c].elseIfs
             w == Append(v, N)
  <1>1. v \in Seq(Nat) /\ Len(v) \in Nat /\ N \in Nat /\ N = Len(node) + 1 /\ Len(node) \in Nat
    BY Standing, NodeIs
  <1>2. /\ Len(w) = Len(v) + 1 /\ w[Len(v) + 1] = N /\ \A k \in 1..Len(v) : w[k] = v[k]
        /\ \A k \in 1..(Len(v) + 1) : k \in 1..Len(v) \/ k = Len(v) + 1
    BY <1>1, AppendIs
  <1>3. \A k \in 1..Len(v) :
          /\ v[k] \in Nodes /\ node[v[k]].of = c
          /\ \A l \in 1..Len(v) : v[k] = v[l] => k = l
          /\ node[v[k]].next = IF k = Len(v) THEN 0 ELSE v[k + 1]
    <2>1. ChainOf(node, c)
      BY Standing DEF Sound, Nodes
    <2> QED BY <2>1 DEF ChainOf, Nodes
  <1>4. \A k \in 1..Len(v) : v[k] # N /\ v[k] \in 1..N
    BY <1>1, <1>3 DEF Nodes
  <1>5. N \in 1..N
    BY <1>1
  <1> HIDE DEF v, w
  <1>6. \A k, l \in 1..Len(w) : w[k] = w[l] => k = l
    BY <1>2, <1>3, <1>4
  <1>7. \A k \in 1..Len(w) : w[k] \in 1..N /\ (k \in 1..Len(v) \/ k = Len(v) + 1)
    BY <1>2, <1>4, <1>5
  <1>8. Chained(c, v, w)
    BY <1>1, <1>2, <1>3, <1>4, <1>6, <1>7 DEF Chained
  <1> QED BY <1>8 DEF v, w

LEMMA PairingReducePlainElseIf ==
    ASSUME PairingInv, ReducePlainElseIf
    PROVE  PairingInv'
  <1> DEFINE F == AttachElseIf(Append(node, NewNode("elseif", CIF, 0)), CIF, N)
             v == node[CIF].elseIfs
             w == Append(v, N)
             d == Depth - 1
  <1>1. Inner.kind = "elseif" /\ Inner.body = "done" /\ ~Inner.braced
    BY DEF ReducePlainElseIf, Done
  <1>2. /\ Depth > 1 /\ Depth \in Nat /\ d \in 1..Depth /\ d < Depth /\ d \in Nat /\ d \in 1..(Depth - 1)
        /\ Outer = open[d] /\ N \in Nat /\ d + 1 = Depth /\ MayHold(Depth - 1)
    BY <1>1, Standing, NestingIs DEF Branches, Outer
  <1>3. PlainCurrent(d) /\ Current(d)
    BY <1>1, <1>2, Standing DEF TrackerInv, BranchesCurrent, PlainCurrent
  <1>4. /\ CIF \in Ifs /\ CIF \in Nodes /\ CIF # 0
        /\ CIF = LastIf(Outer.items, Len(Outer.items)) /\ node[CIF].dc = Outer.scope
        /\ node[CIF].parent = 0 \/ node[CIF].parent \in Nodes
    BY <1>2, <1>3, CurrentIs
  <1>5. ~NoDominator(CIF)
    <2>1. open[d].scope < open[Depth].scope
      BY <1>2, Standing DEF StackInv, FrameInv
    <2>2. node[CIF].dc # Inner.scope
      BY <1>2, <1>4, <2>1, Standing
    <2> QED BY <1>4, <2>2 DEF NoDominator
  <1>6. /\ node' = Linked(F, CEI, N) /\ CEI' = N /\ open' = Popped(N) /\ scopes' = scopes
        /\ ECIF' = IF EIPendingElse THEN CIF ELSE ECIF
        /\ IL' = IL /\ CIF' = CIF /\ follow' = follow /\ status' = status
        /\ ISC' = ISC /\ Tokens' = Tokens
    BY <1>1, <1>5 DEF ReducePlainElseIf, builder
  <1>7. Left(N)
    BY <1>2, <1>6, Standing, StepsOfStack
  <1>8. /\ GrownBy(F, "elseif", CIF) /\ F[N].next = 0 /\ F \in Seq(NodeT) /\ Len(F) = N
        /\ \A n \in Nodes : F[n].next = node[n].next
        /\ \A g : Relinked(g, F) => GrownBy(g, "elseif", CIF)
                                    /\ \A n \in Nodes : SamePending(g[n], node[n])
    <2>1. /\ GrownBy(F, "elseif", CIF) /\ F[N].next = 0
          /\ \A n \in Nodes : F[n].next = node[n].next
          /\ \A g : Relinked(g, F) => GrownBy(g, "elseif", CIF)
                                      /\ \A n \in Nodes : SamePending(g[n], node[n])
      BY <1>2, <1>4, Standing, GrowsByElseIf
    <2> HIDE DEF F
    <2>2. F \in Seq(NodeT) /\ Len(F) = N
      BY <2>1 DEF GrownBy
    <2> QED BY <2>1, <2>2
  <1>9. /\ v \in Seq(Nat) /\ Len(v) \in Nat /\ Len(w) = Len(v) + 1 /\ w[Len(v) + 1] = N
        /\ \A k \in 1..Len(v) :
             /\ w[k] = v[k] /\ v[k] \in Nodes /\ v[k] # N /\ node[v[k]].of = CIF
             /\ node[v[k]].next = IF k = Len(v) THEN 0 ELSE v[k + 1]
        /\ \A k, l \in 1..Len(v) : v[k] = v[l] => k = l
        /\ \A k \in 1..Len(w) : w[k] \in 1..N /\ (k \in 1..Len(v) \/ k = Len(v) + 1)
    <2>1. Chained(CIF, v, w)
      BY <1>4, LongerChain
    <2> HIDE DEF v, w
    <2> QED BY <2>1 DEF Chained
  <1>10. CEI = IF Len(v) = 0 THEN 0 ELSE v[Len(v)]
    BY <1>3 DEF Current
  <1>11. CEI # N /\ (CEI # 0 => CEI \in Nodes /\ node[CEI].of = CIF) /\ CEI \in 0..N
    <2> HIDE DEF v, w
    <2>1. CASE Len(v) = 0
      BY <1>2, <1>10, <2>1, Standing
    <2>2. CASE Len(v) # 0
      <3>1. Len(v) \in 1..Len(v)
        BY <1>9, <2>2
      <3>2. CEI \in Nodes /\ CEI # N /\ node[CEI].of = CIF
        BY <1>9, <1>10, <2>2, <3>1
      <3>3. CEI \in 0..N
        BY <3>2, Standing DEF Nodes
      <3> QED BY <3>2, <3>3
    <2> QED BY <2>1, <2>2
  <1>12. Relinked(node', F) /\ \A m \in 1..N : node'[m].next = IF m = CEI THEN N ELSE F[m].next
    <2> HIDE DEF F
    <2> QED BY <1>2, <1>6, <1>8, <1>11, LinkedIs
  <1>13. GrownBy(node', "elseif", CIF) /\ \A n \in Nodes : SamePending(node'[n], node[n])
    <2> HIDE DEF F
    <2> QED BY <1>8, <1>12
  <1>14. node'[CIF].elseIfs = w /\ node'[CIF].parent = node[CIF].parent
    BY <1>4, <1>13 DEF GrownBy
  <1>15. GraphInv'
    <2> HIDE DEF F, v
    <2>1. N \in 1..N /\ Nodes \subseteq 1..N
      BY <1>2, Standing DEF Nodes
    <2>2. ASSUME NEW k \in 1..Len(w)
          PROVE  node'[w[k]].next = IF k = Len(w) THEN 0 ELSE w[k + 1]
      <3> HIDE DEF w
      <3>1. CASE k = Len(v) + 1
        BY <1>8, <1>9, <1>11, <1>12, <2>1, <3>1
      <3>2. CASE k \in 1..Len(v) /\ k = Len(v)
        BY <1>9, <1>10, <1>12, <2>1, <3>2
      <3>3. CASE k \in 1..Len(v) /\ k # Len(v)
        <4>1. k + 1 \in 1..Len(v) /\ Len(v) \in 1..Len(v) /\ Len(v) # 0 /\ k # Len(w)
          BY <1>9, <3>3
        <4>2. w[k] = v[k] /\ v[k] # CEI /\ v[k] \in 1..N /\ v[k] \in Nodes /\ w[k + 1] = v[k + 1]
          BY <1>9, <1>10, <2>1, <3>3, <4>1
        <4>3. node'[v[k]].next = node[v[k]].next
          BY <1>8, <1>12, <4>2
        <4> QED BY <1>9, <3>3, <4>1, <4>2, <4>3
      <3> QED BY <1>9, <3>1, <3>2, <3>3
    <2>3. \A n \in Nodes : node[n].of # CIF => node'[n].next = node[n].next
      BY <1>8, <1>11, <1>12, <2>1
    <2> HIDE DEF w
    <2>4. Sound(node')
      BY <1>4, <1>13, <1>14, <2>2, <2>3, Standing, SoundByElseIf
    <2> QED BY <2>4 DEF GraphInv
  <1>16. TypeInv'
    BY Standing, TypeReducePlainElseIf
  <1>17. StackInv'
    BY <1>2, <1>7, Standing, StackInvLeft
  <1>18. ASSUME NEW i, i = Depth - 1
         PROVE  /\ ListsInv'
                /\ \E p \in 1..Len(open'[i].items) :
                     Unfinished(node', open'[i].items, p) /\ CIF = open'[i].items[p]
    BY <1>2, <1>3, <1>7, <1>13, <1>18, BranchJoins
  <1>19. ASSUME NEW i, i = Depth - 1 PROVE PlainCurrent(i)' /\ Current(i)'
    <2>1. \E p \in 1..Len(open'[i].items) :
            Unfinished(node', open'[i].items, p) /\ CIF' = open'[i].items[p]
      BY <1>6, <1>18, <1>19
    <2>2. node'[CIF'].parent = 0 \/ Pending(node[CIF].parent)'
      <3>1. node[CIF].parent = 0 \/ Pending(node[CIF].parent)
        BY <1>3 DEF Current
      <3>2. node'[CIF'].parent = node[CIF].parent
        BY <1>6, <1>14
      <3>3. node[CIF].parent = 0 \/ (node'[node[CIF].parent].pendElseIf \/ node'[node[CIF].parent].pendElse)
        BY <1>4, <1>13, <3>1 DEF Pending, SamePending
      <3> QED BY <3>2, <3>3 DEF Pending
    <2>3. CEI' = IF Len(node'[CIF'].elseIfs) = 0 THEN 0
                 ELSE node'[CIF'].elseIfs[Len(node'[CIF'].elseIfs)]
      <3> HIDE DEF v, w
      <3>1. node'[CIF'].elseIfs = w /\ Len(w) # 0 /\ w[Len(w)] = N
        BY <1>6, <1>9, <1>14
      <3> QED BY <1>6, <3>1
    <2>4. Current(i)'
      BY <2>1, <2>2, <2>3 DEF Current
    <2>5. ECIF' = CIF' /\ IL' = {CIF'} /\ PlainMayBe(i) /\ Alike(i) /\ i \in Nat
      BY <1>2, <1>3, <1>6, <1>7, <1>19 DEF PlainCurrent, Left
    <2>6. PlainMayBe(i)'
      BY <2>5, NestingKept
    <2> QED BY <2>4, <2>5, <2>6 DEF PlainCurrent
  <1> HIDE DEF d, F, v, w
  <1>20. ASSUME NEW i, i = Depth - 1 PROVE TrackerInv' /\ ListsInv'
    <2>1. PlainCurrent(i)' /\ Current(i)'
      BY <1>19, <1>20
    <2> QED BY <1>2, <1>7, <1>18, <1>20, <2>1, TrackersLeft
  <1>21. KeysInv'
    BY <1>1, <1>2, <1>6, <1>7, KeysLeft
  <1> QED BY <1>6, <1>15, <1>16, <1>17, <1>20, <1>21, Standing DEF PairingInv

LEMMA PairingReduceElseIf ==
    ASSUME PairingInv, ReduceElseIf
    PROVE  PairingInv'
  <1> DEFINE F == AttachElseIf(Append(node, NewNode("elseif", CIF, 0)), CIF, N)
             G == Normalized(F, CIF)
             v == node[CIF].elseIfs
             w == Append(v, N)
             d == Depth - 1
             S == IF Pending(CIF) THEN 0 ELSE FirstPending(node[CIF].parent)
  <1>1. Inner.kind = "elseif" /\ Inner.body = "done" /\ Inner.braced
    BY DEF ReduceElseIf, Done
  <1>2. /\ Depth > 1 /\ Depth \in Nat /\ d \in 1..Depth /\ d < Depth /\ d \in Nat /\ d \in 1..(Depth - 1)
        /\ Outer = open[d] /\ N \in Nat /\ d + 1 = Depth /\ MayHold(Depth - 1)
    BY <1>1, Standing, NestingIs DEF Branches, Outer
  <1>3. Current(d)
    BY <1>1, <1>2, Standing DEF TrackerInv, BranchesCurrent
  <1>4. /\ CIF \in Ifs /\ CIF \in Nodes /\ CIF # 0
        /\ CIF = LastIf(Outer.items, Len(Outer.items))
        /\ node[CIF].parent = 0 \/ node[CIF].parent \in Nodes
        /\ ~Circles(node[CIF].parent)
    BY <1>2, <1>3, CurrentIs
  <1>5. ListOK(Inner.items)
    BY Standing, ListsAre, TidyPasses DEF ListsInv
  <1>6. /\ GrownBy(F, "elseif", CIF) /\ F[N].next = 0 /\ F \in Seq(NodeT) /\ Len(F) = N
        /\ \A n \in Nodes : F[n].next = node[n].next
        /\ \A g : Relinked(g, F) => GrownBy(g, "elseif", CIF)
                                    /\ \A n \in Nodes : SamePending(g[n], node[n])
    <2>1. /\ GrownBy(F, "elseif", CIF) /\ F[N].next = 0
          /\ \A n \in Nodes : F[n].next = node[n].next
          /\ \A g : Relinked(g, F) => GrownBy(g, "elseif", CIF)
                                      /\ \A n \in Nodes : SamePending(g[n], node[n])
      BY <1>2, <1>4, Standing, GrowsByElseIf
    <2> HIDE DEF F
    <2>2. F \in Seq(NodeT) /\ Len(F) = N
      BY <2>1 DEF GrownBy
    <2> QED BY <2>1, <2>2
  <1>7. /\ v \in Seq(Nat) /\ Len(v) \in Nat /\ Len(w) = Len(v) + 1 /\ w[Len(v) + 1] = N
        /\ \A k \in 1..Len(v) : w[k] = v[k] /\ v[k] \in Nodes /\ v[k] # N /\ node[v[k]].of = CIF
        /\ \A k, l \in 1..Len(v) : v[k] = v[l] => k = l
        /\ \A k, l \in 1..Len(w) : w[k] = w[l] => k = l
        /\ \A k \in 1..Len(w) : w[k] \in 1..N /\ (k \in 1..Len(v) \/ k = Len(v) + 1)
    <2>1. Chained(CIF, v, w)
      BY <1>4, LongerChain
    <2> HIDE DEF v, w
    <2> QED BY <2>1 DEF Chained
  <1>8. CEI = IF Len(v) = 0 THEN 0 ELSE v[Len(v)]
    BY <1>3 DEF Current
  <1>9. CEI # N /\ (CEI # 0 => CEI \in Nodes /\ node[CEI].of = CIF) /\ CEI \in 0..N
    <2> HIDE DEF v, w
    <2>1. CASE Len(v) = 0
      BY <1>2, <1>8, <2>1, Standing
    <2>2. CASE Len(v) # 0
      <3>1. Len(v) \in 1..Len(v)
        BY <1>7, <2>2
      <3>2. CEI \in Nodes /\ CEI # N /\ node[CEI].of = CIF
        BY <1>7, <1>8, <2>2, <3>1
      <3>3. CEI \in 0..N
        BY <3>2, Standing DEF Nodes
      <3> QED BY <3>2, <3>3
    <2> QED BY <2>1, <2>2
  <1>10. (IF CEI # 0 /\ node[CEI].of = CIF THEN CEI ELSE 0) = CEI
    BY <1>9
  <1>11. /\ node' = Linked(G, CEI, N) /\ CEI' = N /\ open' = Popped(N) /\ scopes' = scopes
         /\ CIF' = IF S = 0 THEN CIF ELSE S
         /\ follow' = follow /\ status' = status /\ ISC' = ISC /\ Tokens' = Tokens
    <2>1. ~(~ListOK(Inner.items) \/ CIF = 0) /\ ~(~Pending(CIF) /\ Circles(node[CIF].parent))
      BY <1>4, <1>5
    <2> HIDE DEF G, F
    <2>2. /\ node' = Linked(G, IF CEI # 0 /\ node[CEI].of = CIF THEN CEI ELSE 0, N)
          /\ CEI' = N /\ open' = Popped(N) /\ scopes' = scopes
          /\ CIF' = IF S = 0 THEN CIF ELSE S
          /\ follow' = follow /\ status' = status /\ ISC' = ISC /\ Tokens' = Tokens
      BY <2>1, Zenon DEF ReduceElseIf, builder, F, G
    <2> HIDE DEF S
    <2> QED BY <1>10, <2>2
  <1> HIDE DEF S
  <1>12. Left(N)
    BY <1>2, <1>11, Standing, StepsOfStack
  <1>13. F[CIF].elseIfs = w /\ CIF \in 1..Len(F)
    <2>1. CIF \in 1..N
      BY <1>4, Standing DEF Nodes
    <2> QED BY <1>4, <1>6, <2>1 DEF GrownBy
  <1>14. /\ Relinked(G, F) /\ G \in Seq(NodeT) /\ Len(G) = N
         /\ \A m \in 1..N : (\A k \in 1..Len(w) : w[k] # m) => G[m].next = F[m].next
         /\ \A k \in 1..Len(w) : G[w[k]].next = IF k = Len(w) THEN 0 ELSE w[k + 1]
    <2> HIDE DEF F, w, v
    <2>1. Relinked(G, F)
      BY <1>6, <1>13, NormalizedIs
    <2>2. \A m \in 1..N : (\A k \in 1..Len(w) : w[k] # m) => G[m].next = F[m].next
      BY <1>6, <1>13, NormalizedIs
    <2>3. \A k \in 1..Len(w) : G[w[k]].next = IF k = Len(w) THEN 0 ELSE w[k + 1]
      <3>1. \A k \in 1..Len(w) : w[k] \in 1..Len(F) /\ (\A l \in 1..Len(w) : w[k] = w[l] => k = l)
        BY <1>6, <1>7
      <3> TAKE k \in 1..Len(w)
      <3>2. w[k] \in 1..Len(F) /\ (\A l \in 1..Len(w) : w[k] = w[l] => k = l)
        BY <3>1
      <3>3. Normalized(F, CIF)[w[k]].next = IF k = Len(w) THEN 0 ELSE w[k + 1]
        <4>1. F \in Seq(NodeT) /\ CIF \in 1..Len(F) /\ F[CIF].elseIfs = w
          BY <1>6, <1>13
        <4> QED BY <3>2, <4>1, NormalizedIs
      <3> QED BY <3>3
    <2> HIDE DEF G
    <2> QED BY <1>6, <2>1, <2>2, <2>3 DEF Relinked
  <1>15. Relinked(node', G) /\ \A m \in 1..N : node'[m].next = IF m = CEI THEN N ELSE G[m].next
    <2> HIDE DEF F, G
    <2> QED BY <1>2, <1>9, <1>11, <1>14, LinkedIs
  <1>16. Relinked(node', F)
    <2> HIDE DEF F, G
    <2> QED BY <1>14, <1>15, <1>6 DEF Relinked, SameLinks, SamePending
  <1>17. GrownBy(node', "elseif", CIF) /\ \A n \in Nodes : SamePending(node'[n], node[n])
    <2> HIDE DEF F, G
    <2> QED BY <1>6, <1>16
  <1>18. node'[CIF].elseIfs = w /\ node'[CIF].parent = node[CIF].parent
    BY <1>4, <1>17 DEF GrownBy
  <1>19. GraphInv'
    <2> HIDE DEF F, G, v
    <2>1. N \in 1..N /\ Nodes \subseteq 1..N
      BY <1>2, Standing DEF Nodes
    <2>2. ASSUME NEW k \in 1..Len(w)
          PROVE  node'[w[k]].next = IF k = Len(w) THEN 0 ELSE w[k + 1]
      <3> HIDE DEF w
      <3>1. CASE w[k] = CEI
        <4>1. k = Len(v) /\ k + 1 = Len(w) /\ k # Len(w)
          BY <1>7, <1>8, <1>9, <3>1
        <4> QED BY <1>7, <1>15, <3>1, <4>1
      <3>2. CASE w[k] # CEI
        BY <1>7, <1>14, <1>15, <3>2
      <3> QED BY <3>1, <3>2
    <2>3. ASSUME NEW n \in Nodes, node[n].of # CIF PROVE node'[n].next = node[n].next
      <3> HIDE DEF w
      <3>1. n # CEI /\ n # N
        BY <1>9, <2>3, NodeIs, Standing
      <3>2. \A k \in 1..Len(w) : w[k] # n
        BY <1>7, <2>3, <3>1
      <3> QED BY <1>6, <1>14, <1>15, <2>1, <3>1, <3>2
    <2> HIDE DEF w
    <2>4. Sound(node')
      BY <1>4, <1>17, <1>18, <2>2, <2>3, Standing, SoundByElseIf
    <2> QED BY <2>4 DEF GraphInv
  <1>20. TypeInv'
    BY Standing, TypeReduceElseIf
  <1>21. StackInv'
    BY <1>2, <1>12, Standing, StackInvLeft
  <1>22. ASSUME NEW i, i = Depth - 1
         PROVE  /\ ListsInv'
                /\ \E p \in 1..Len(open'[i].items) :
                     Unfinished(node', open'[i].items, p) /\ CIF = open'[i].items[p]
    BY <1>2, <1>3, <1>12, <1>17, <1>22, BranchJoins
  <1>23. ASSUME NEW i, i = Depth - 1, follow # "other" PROVE Current(i)' /\ follow # "free"
    <2>1. follow # "free" /\ Pending(CIF)
      BY <1>1, <1>4, <1>23, Standing DEF TrackerInv, BraceSeen
    <2>2. CIF' = CIF
      BY <1>11, <2>1 DEF S
    <2>3. \E p \in 1..Len(open'[i].items) :
            Unfinished(node', open'[i].items, p) /\ CIF' = open'[i].items[p]
      BY <2>2, <1>22, <1>23
    <2>4. node'[CIF'].parent = 0 \/ Pending(node[CIF].parent)'
      <3>1. node[CIF].parent = 0 \/ Pending(node[CIF].parent)
        BY <1>3 DEF Current
      <3>2. node'[CIF'].parent = node[CIF].parent
        BY <2>2, <1>18
      <3>3. node[CIF].parent = 0 \/ (node'[node[CIF].parent].pendElseIf \/ node'[node[CIF].parent].pendElse)
        BY <1>4, <1>17, <3>1 DEF Pending, SamePending
      <3> QED BY <3>2, <3>3 DEF Pending
    <2>5. CEI' = IF Len(node'[CIF'].elseIfs) = 0 THEN 0
                 ELSE node'[CIF'].elseIfs[Len(node'[CIF'].elseIfs)]
      <3> HIDE DEF v, w
      <3>1. node'[CIF'].elseIfs = w /\ Len(w) # 0 /\ w[Len(w)] = N
        BY <2>2, <1>7, <1>18
      <3> QED BY <1>11, <3>1
    <2> QED BY <2>1, <2>3, <2>4, <2>5 DEF Current
  <1> HIDE DEF d, F, G, v, w
  <1>24. ASSUME NEW i, i = Depth - 1 PROVE TrackerInv' /\ ListsInv'
    <2>1. follow' # "other" => Current(i)' /\ follow' # "free"
      BY <1>11, <1>23, <1>24
    <2> QED BY <1>2, <1>12, <1>22, <1>24, <2>1, TrackersLeft
  <1>25. KeysInv'
    BY <1>1, <1>2, <1>11, <1>12, KeysLeft
  <1> QED BY <1>11, <1>19, <1>20, <1>21, <1>24, <1>25, Standing DEF PairingInv

LEMMA PairingReducePlainElse ==
    ASSUME PairingInv, ReducePlainElse
    PROVE  PairingInv'
  <1> DEFINE F == [Append(node, NewNode("else", ECIF, 0)) EXCEPT ![ECIF].else = N]
             d == Depth - 1
  <1>1. Inner.kind = "else" /\ Inner.body = "done" /\ ~Inner.braced
    BY DEF ReducePlainElse, Done
  <1>2. /\ Depth > 1 /\ Depth \in Nat /\ d \in 1..Depth /\ d < Depth /\ d \in Nat /\ d \in 1..(Depth - 1)
        /\ Outer = open[d] /\ N \in Nat /\ d + 1 = Depth /\ MayHold(Depth - 1)
    BY <1>1, Standing, NestingIs DEF Branches, Outer
  <1>3. PlainCurrent(d) /\ Current(d)
    BY <1>1, <1>2, Standing DEF TrackerInv, BranchesCurrent, PlainCurrent
  <1>4. /\ CIF \in Nodes /\ CIF # 0 /\ ECIF = CIF /\ IL = {CIF}
        /\ CIF = LastIf(Outer.items, Len(Outer.items)) /\ node[CIF].dc = Outer.scope
    BY <1>2, <1>3, CurrentIs DEF PlainCurrent
  <1>5. ~NoDominator(ECIF) /\ ~PopUndefined(ECIF)
    <2>1. open[d].scope < open[Depth].scope
      BY <1>2, Standing DEF StackInv, FrameInv
    <2>2. node[CIF].dc # Inner.scope
      BY <1>2, <1>4, <2>1, Standing
    <2> QED BY <1>4, <2>2 DEF NoDominator, PopUndefined
  <1>6. /\ node' = F /\ open' = Popped(N) /\ scopes' = scopes
        /\ follow' = follow /\ status' = status /\ ISC' = ISC /\ Tokens' = Tokens
    BY <1>1, <1>5 DEF ReducePlainElse, builder
  <1>7. Left(N)
    BY <1>2, <1>6, Standing, StepsOfStack
  <1>8. GrownBy(node', "else", CIF) /\ \A n \in Nodes : node'[n].next = node[n].next
    <2> DEFINE A == Append(node, NewNode("else", CIF, 0))
    <2>1. A \in Seq(NodeT) /\ Len(A) = N /\ CIF \in 1..N
      <3>1. A = Added("else", CIF, 0)
        BY DEF Added
      <3> HIDE DEF A
      <3>2. A \in Seq(NodeT) /\ Len(A) = N
        BY <1>2, <1>4, <3>1, Standing, BranchAddedIs
      <3>3. CIF \in 1..N
        BY <1>4, Standing, NodeIs
      <3> QED BY <3>2, <3>3
    <2>2. ElseOf(node', A, CIF, N)
      <3> HIDE DEF A
      <3>1. node' = [A EXCEPT ![CIF].else = N]
        BY <1>4, <1>6 DEF A
      <3> QED BY <1>2, <2>1, <3>1, ElseIs
    <2> QED BY <1>2, <1>4, <2>2, Standing, GrowsByElse
  <1>9. GraphInv'
    <2>1. Sound(node')
      BY <1>4, <1>8, Standing, SoundByElse
    <2> QED BY <2>1 DEF GraphInv
  <1>10. TypeInv'
    BY Standing, TypeReducePlainElse
  <1>11. StackInv'
    BY <1>2, <1>7, Standing, StackInvLeft
  <1> HIDE DEF F
  <1>12. ASSUME NEW i, i = Depth - 1 PROVE ListsInv' /\ TrackerInv'
    <2>1. Current(i)
      BY <1>3, <1>12
    <2> HIDE DEF d
    <2>2. ListsInv' /\ ~ContinuesIn(node', open'[i].items)
      BY <1>2, <1>7, <1>8, <1>12, <2>1, BranchJoins
    <2> QED BY <1>2, <1>7, <1>12, <2>2, TrackersLeft
  <1>13. KeysInv'
    BY <1>1, <1>2, <1>6, <1>7, KeysLeft
  <1> HIDE DEF d
  <1> QED BY <1>6, <1>9, <1>10, <1>11, <1>12, <1>13, Standing DEF PairingInv

LEMMA PairingReduceElse ==
    ASSUME PairingInv, ReduceElse
    PROVE  PairingInv'
  <1> DEFINE A == Append(node, NewNode("else", CIF, 0))
             F == [A EXCEPT ![CIF].else = N, ![CIF].pendElseIf = FALSE]
             v == node[CIF].elseIfs
             d == Depth - 1
  <1>1. Inner.kind = "else" /\ Inner.body = "done" /\ Inner.braced
    BY DEF ReduceElse, Done
  <1>2. /\ Depth > 1 /\ Depth \in Nat /\ d \in 1..Depth /\ d < Depth /\ d \in Nat /\ d \in 1..(Depth - 1)
        /\ Outer = open[d] /\ N \in Nat /\ d + 1 = Depth /\ MayHold(Depth - 1)
    BY <1>1, Standing, NestingIs DEF Branches, Outer
  <1>3. /\ Current(d) /\ Pending(CIF)
        /\ braces.L < braces.R /\ braces.R % 2 = 1 => open[d].kind \in {"global", "function"}
    BY <1>1, <1>2, Standing DEF TrackerInv, BranchesCurrent
  <1>4. /\ CIF \in Nodes /\ CIF # 0 /\ CIF = LastIf(Outer.items, Len(Outer.items))
        /\ node[CIF].else = 0 /\ ~Circles(node[CIF].parent)
        /\ open[d].kind \in {"global", "function"} => node[CIF].parent = 0
    BY <1>2, <1>3, CurrentIs
  <1>5. ListOK(Inner.items)
    BY Standing, ListsAre, TidyPasses DEF ListsInv
  <1>6. (IF braces.L # braces.R THEN DominatorOfElse ELSE CIF) = CIF
    BY <1>3, <1>4 DEF DominatorOfElse
  <1>7. /\ node' = Normalized(F, CIF) /\ open' = Popped(N) /\ scopes' = scopes
        /\ follow' = follow /\ status' = status /\ ISC' = ISC /\ Tokens' = Tokens
    <2> DEFINE c == IF braces.L # braces.R THEN DominatorOfElse ELSE CIF
               H == [Append(node, NewNode("else", c, 0)) EXCEPT ![c].else = N,
                                                                ![c].pendElseIf = FALSE]
    <2>1. ~(~ListOK(Inner.items) \/ CIF = 0) /\ ~(braces.L = braces.R /\ ~Pending(CIF))
      BY <1>3, <1>4, <1>5
    <2>2. ~Circles(node[c].parent)
      BY <1>4, <1>6
    <2>3. /\ node' = Normalized(H, c) /\ open' = Popped(N) /\ scopes' = scopes
          /\ follow' = follow /\ status' = status /\ ISC' = ISC /\ Tokens' = Tokens
      BY <2>1, <2>2 DEF ReduceElse, builder
    <2>4. c = CIF
      BY <1>6
    <2> HIDE DEF c
    <2>5. H = F
      BY <2>4
    <2> HIDE DEF H, F
    <2> QED BY <2>3, <2>4, <2>5
  <1>8. Left(N)
    BY <1>2, <1>7, Standing, StepsOfStack
  <1>9. /\ A \in Seq(NodeT) /\ Len(A) = N /\ CIF \in 1..N /\ Nodes \subseteq 1..N
        /\ A[CIF].elseIfs = v
    <2>1. A = Added("else", CIF, 0)
      BY DEF Added
    <2> HIDE DEF A
    <2>2. A \in Seq(NodeT) /\ Len(A) = N /\ A[CIF] = node[CIF]
      BY <1>2, <1>4, <2>1, Standing, BranchAddedIs
    <2>3. CIF \in 1..N /\ Nodes \subseteq 1..N
      BY <1>4, Standing, NodeIs
    <2> QED BY <2>2, <2>3
  <1>10. ElseOf(F, A, CIF, N)
    <2> HIDE DEF A
    <2> QED BY <1>2, <1>9, ElseIs
  <1>11. /\ \A n \in Nodes : F[n].next = node[n].next
         /\ \A g : Relinked(g, F) => GrownBy(g, "else", CIF)
    <2> HIDE DEF F
    <2> QED BY <1>2, <1>4, <1>10, Standing, GrowsByElse
  <1>12. F \in Seq(NodeT) /\ Len(F) = N /\ F[CIF].elseIfs = v
    <2> HIDE DEF A, F
    <2> QED BY <1>9, <1>10 DEF ElseOf
  <1>13. /\ Len(v) \in Nat
         /\ \A k \in 1..Len(v) : /\ v[k] \in Nodes
                                  /\ node[v[k]].next = IF k = Len(v) THEN 0 ELSE v[k + 1]
         /\ \A k, l \in 1..Len(v) : v[k] = v[l] => k = l
    <2> DEFINE w == Append(v, N)
    <2>1. Chained(CIF, v, w)
      BY <1>4, LongerChain
    <2> HIDE DEF v, w
    <2> QED BY <2>1 DEF Chained
  <1> HIDE DEF A, F, v
  <1>14. Relinked(node', F)
    BY <1>7, <1>9, <1>12, NormalizedIs
  <1>15. ASSUME NEW n \in Nodes PROVE node'[n].next = node[n].next
    <2>1. n \in 1..N
      BY <1>9
    <2>2. CASE \A k \in 1..Len(v) : v[k] # n
      BY <1>7, <1>9, <1>11, <1>12, <2>1, <2>2, NormalizedIs
    <2>3. CASE \E k \in 1..Len(v) : v[k] = n
      <3>1. PICK k \in 1..Len(v) : v[k] = n
        BY <2>3
      <3>2. v[k] \in 1..Len(F) /\ (\A l \in 1..Len(v) : v[k] = v[l] => k = l)
        BY <1>9, <1>12, <1>13
      <3>3. Normalized(F, CIF)[v[k]].next = IF k = Len(v) THEN 0 ELSE v[k + 1]
        <4>1. F \in Seq(NodeT) /\ CIF \in 1..Len(F) /\ F[CIF].elseIfs = v
          BY <1>9, <1>12
        <4> QED BY <3>2, <4>1, NormalizedIs
      <3> QED BY <1>7, <1>13, <3>1, <3>3
    <2> QED BY <2>2, <2>3
  <1>16. GrownBy(node', "else", CIF)
    BY <1>11, <1>14
  <1>17. GraphInv'
    <2>1. Sound(node')
      BY <1>4, <1>15, <1>16, Standing, SoundByElse
    <2> QED BY <2>1 DEF GraphInv
  <1>18. TypeInv'
    BY Standing, TypeReduceElse
  <1>19. StackInv'
    BY <1>2, <1>8, Standing, StackInvLeft
  <1>20. ASSUME NEW i, i = Depth - 1 PROVE ListsInv' /\ TrackerInv'
    <2>1. Current(i)
      BY <1>3, <1>20
    <2> HIDE DEF d
    <2>2. ListsInv' /\ ~ContinuesIn(node', open'[i].items)
      BY <1>2, <1>8, <1>16, <1>20, <2>1, BranchJoins
    <2> QED BY <1>2, <1>8, <1>20, <2>2, TrackersLeft
  <1>21. KeysInv'
    BY <1>1, <1>2, <1>7, <1>8, KeysLeft
  <1> HIDE DEF d
  <1> QED BY <1>7, <1>17, <1>18, <1>19, <1>20, <1>21, Standing DEF PairingInv

-----------------------------------------------------------------------------
(* Every action keeps the trackers, the lists and the graph in agreement.  *)
LEMMA PairingKept == ASSUME NoFormLeftIn, PairingInv, [IfNext]_ifVars PROVE PairingInv'
  <1>1. CASE UNCHANGED ifVars
    <2>1. /\ open' = open /\ node' = node /\ IL' = IL /\ CIF' = CIF /\ CEI' = CEI /\ ECIF' = ECIF
          /\ PendingElseIf' = PendingElseIf /\ PendingElse' = PendingElse
          /\ EIPendingElse' = EIPendingElse /\ braces' = braces /\ ISC' = ISC /\ Tokens' = Tokens
          /\ follow' = follow /\ scopes' = scopes /\ status' = status
          /\ Depth' = Depth /\ Inner' = Inner
      BY <1>1 DEF ifVars, tracker, flags, builder, Depth, Inner
    <2> HIDE <1>1
    <2>2. TypeInv'
      BY <1>1, Standing, TypeKept
    <2>3. StackInv'
      <3>1. \A i : MayHold(i)' = MayHold(i) /\ PlainMayBe(i)' = PlainMayBe(i)
                   /\ BodyOpened(i)' = BodyOpened(i)
        BY <2>1 DEF MayHold, PlainMayBe, BodyOpened
      <3>2. \A i : FrameInv(i)' = FrameInv(i)
        BY <2>1, <3>1 DEF FrameInv
      <3> QED BY <2>1, <3>2, Standing DEF StackInv
    <2>4. ListsInv' /\ GraphInv'
      <3>1. ItemsApart' = ItemsApart /\ \A i : AtHome(i)' = AtHome(i)
        BY <2>1 DEF ItemsApart, AtHome
      <3> QED BY <2>1, <3>1, Standing DEF ListsInv, GraphInv
    <2>5. \A i : Current(i)' = Current(i) /\ PlainCurrent(i)' = PlainCurrent(i)
      BY <2>1 DEF Current, PlainCurrent, PlainMayBe, Pending
    <2>6. TrackerInv'
      <3>1. \A i : Pending(i)' = Pending(i)
        BY <2>1 DEF Pending
      <3>2. BranchesCurrent' = BranchesCurrent
        BY <2>1, <2>5, <3>1 DEF BranchesCurrent, Pending
      <3>3. NextCurrent' = NextCurrent
        BY <2>1, <2>5 DEF NextCurrent
      <3>4. PlainCleared' = PlainCleared /\ BraceSeen' = BraceSeen
        BY <2>1, <3>1 DEF PlainCleared, BraceSeen, Pending
      <3> QED BY <3>2, <3>3, <3>4, Standing DEF TrackerInv
    <2>7. KeysInv'
      BY <2>1, Standing DEF KeysInv
    <2> QED BY <2>1, <2>2, <2>3, <2>4, <2>6, <2>7, Standing DEF PairingInv
  <1>2. CASE \E braced \in BOOLEAN : OpenIf(braced) \/ OpenElseIf(braced) \/ OpenElse(braced)
    BY <1>2, PairingOpenIf, PairingOpenElseIf, PairingOpenElse
  <1>3. CASE \E k \in Bodies : OpenBody(k)
    BY <1>3, PairingOpenBody
  <1>4. CASE Simple \/ RightBrace
    BY <1>4, PairingSimple, PairingRightBrace
  <1>5. CASE ReduceIf \/ ReduceBody
    BY <1>5, PairingReduceIf, PairingReduceBody
  <1>6. CASE ReducePlainElseIf \/ ReduceElseIf
    BY <1>6, PairingReducePlainElseIf, PairingReduceElseIf
  <1>7. CASE ReducePlainElse \/ ReduceElse
    BY <1>7, PairingReducePlainElse, PairingReduceElse
  <1> QED BY <1>1, <1>2, <1>3, <1>4, <1>5, <1>6, <1>7 DEF IfNext

LEMMA PairingBegins == IfInit => PairingInv
  <1> SUFFICES ASSUME IfInit PROVE PairingInv
    OBVIOUS
  <1>1. /\ Depth = 1 /\ open[1].kind = "global" /\ open[1].braced /\ open[1].items = <<>>
        /\ open[1].scope = 0 /\ open[1].body = "list" /\ Inner = open[1]
        /\ \A i \in 1..Depth : i = 1 /\ Len(open[1].items) = 0
    <2>1. Depth = 1 /\ open[1].kind = "global" /\ open[1].braced /\ open[1].items = <<>>
          /\ open[1].scope = 0 /\ open[1].body = "list"
      BY DEF IfInit, Depth
    <2> QED BY <2>1, StackIs, TypeBegins DEF TypeInv
  <1>2. node = <<>> /\ Len(node) = 0 /\ Tokens = {} /\ scopes = 0 /\ status = "ok"
    BY DEF IfInit
  <1>3. TypeInv
    BY TypeBegins
  <1>4. StackInv
    BY <1>1, <1>2 DEF StackInv, FrameInv, BodyOpened
  <1>5. ListsInv
    BY <1>1 DEF ListsInv, ItemsApart, Tidy, AtHome
  <1>6. GraphInv
    BY <1>2 DEF GraphInv, Sound
  <1>7. TrackerInv
    BY <1>1 DEF TrackerInv, BranchesCurrent, NextCurrent, PlainCleared, BraceSeen, ContinuesIn
  <1>8. KeysInv
    BY <1>2 DEF KeysInv
  <1> QED BY <1>2, <1>3, <1>4, <1>5, <1>6, <1>7, <1>8 DEF PairingInv

LEMMA PairingTold == PairingInv => BranchBelongs /\ NoSpuriousError /\ ChainInOrder
  <1> SUFFICES ASSUME PairingInv PROVE BranchBelongs /\ NoSpuriousError /\ ChainInOrder
    OBVIOUS
  <1>1. node \in Seq(NodeT) /\ DOMAIN node = 1..Len(node) /\ Sound(node)
    BY Standing DEF TypeInv, GraphType
  <1>2. BranchBelongs
    BY <1>1 DEF Sound, BranchBelongs
  <1>3. NoSpuriousError
    BY Standing DEF NoSpuriousError
  <1>4. ChainInOrder
    <2> SUFFICES ASSUME NEW n \in DOMAIN node, NEW k \in DOMAIN node[n].elseIfs
                 PROVE  node[node[n].elseIfs[k]].next = IF k = Len(node[n].elseIfs) THEN 0
                                                        ELSE node[n].elseIfs[k + 1]
      BY DEF ChainInOrder
    <2>1. n \in Nodes /\ n \in 1..Len(node) /\ ChainOf(node, n)
      BY <1>1 DEF Nodes, Sound
    <2>2. k \in 1..Len(node[n].elseIfs)
      BY <2>1, Standing, NodeIs
    <2> QED BY <2>1, <2>2 DEF ChainOf
  <1> QED BY <1>2, <1>3, <1>4

LEMMA PairingHolds == ASSUME NoFormLeftIn PROVE IfSpec => []PairingInv
  <1>1. IfInit => PairingInv
    BY PairingBegins
  <1>2. PairingInv /\ [IfNext]_ifVars => PairingInv'
    BY PairingKept
  <1> QED BY <1>1, <1>2, PTL DEF IfSpec

(* Every else and else if is attached to the if that precedes it in its    *)
(* own list of statements, however deep ifs with braces are nested in one  *)
(* another, in functions and in loops: the current if the trackers tell    *)
(* when ProductionRule_3010, 3011, 3020 or 3021 runs is that if.           *)
THEOREM BranchesBelong == ASSUME NoFormLeftIn PROVE IfSpec => []BranchBelongs
  <1>1. PairingInv => BranchBelongs
    BY PairingTold
  <1> QED BY <1>1, PairingHolds, PTL

(* Such a program is parsed without an error: no production finds the list *)
(* of a body out of order or no if for its else, none pops an if that was  *)
(* not pushed, none walks parents in a circle, and no key of a token is    *)
(* taken twice.                                                            *)
THEOREM ParsedWithoutError == ASSUME NoFormLeftIn PROVE IfSpec => []NoSpuriousError
  <1>1. PairingInv => NoSpuriousError
    BY PairingTold
  <1> QED BY <1>1, PairingHolds, PTL

(* The else ifs of an if are linked in the order of the program, and the   *)
(* last one to none, whichever of them have braces: the link that          *)
(* ProductionRule_3010 and 3011 make and NormalizeElseIf remakes agree.    *)
THEOREM ChainsInOrder == ASSUME NoFormLeftIn PROVE IfSpec => []ChainInOrder
  <1>1. PairingInv => ChainInOrder
    BY PairingTold
  <1> QED BY <1>1, PairingHolds, PTL
=============================================================================
