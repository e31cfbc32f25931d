-------------------------- MODULE Preprocessor_proof --------------------------
(***************************************************************************)
(* For any texts, any include directory, any number of units and passes,   *)
(* and wherever the opening of a file fails: what becomes of the temporary *)
(* files, that lines stay lines, and that a file is inserted once.  For    *)
(* texts whose directives are apart, and a handler that exits on an error: *)
(* that the passes carry out the expansion IncludeExpansion describes, and *)
(* that what they arrive at is the unit with every directive replaced, and *)
(* that they do so after a bounded number of passes.                       *)
(***************************************************************************)
EXTENDS Preprocessor, SequenceTheorems, FiniteSetTheorems, WellFoundedInduction, TLAPS

(* The static vector of streams counts the passes of the unit.             *)
StreamsInStep ==
    /\ pc \in {"open", "header", "expand"} => Pass = Tmpfiles
    /\ pc \in {"idle", "exited"} => Tmpfiles = 0

(* Between units no name is listed; within one the list names, each once,  *)
(* files that exist and are not the cleaner's, one of them at least from   *)
(* the first pass on; and every other file is the cleaner's or lost.       *)
NamesListed ==
    /\ TmpFilenames \in Seq(1 .. (fresh - 1)) /\ fresh \in Nat \ {0}
    /\ pc \in {"idle", "exited"} => TmpFilenames = <<>>
    /\ pc \in {"open", "header", "expand"} => TmpFilenames # <<>>
    /\ \A i, j \in 1 .. Len(TmpFilenames) :
           TmpFilenames[i] = TmpFilenames[j] => i = j
    /\ \A i \in 1 .. Len(TmpFilenames) : TmpFilenames[i] \in disk
    /\ disk \subseteq 1 .. (fresh - 1)
    /\ kept \subseteq 1 .. (fresh - 1)

FilesAccounted ==
    /\ pc # "exited" => disk \subseteq kept \cup lost \cup ToSet(TmpFilenames)
    /\ pc = "exited" /\ ~KeepTemps => disk \subseteq lost

FilesInv ==
    /\ Pass \in Nat /\ Tmpfiles \in Nat
    /\ pc \in {"idle", "open", "header", "expand", "exited"}
    /\ StreamsInStep /\ NamesListed /\ FilesAccounted /\ ResultExists

-----------------------------------------------------------------------------
LEMMA SetOfList ==
    ASSUME NEW S, NEW s \in Seq(S)
    PROVE  /\ \A x : x \in ToSet(s) <=> \E i \in 1 .. Len(s) : x = s[i]
           /\ ToSet(s) \subseteq S
  BY DEF ToSet

LEMMA LastOfList ==
    ASSUME NEW S, NEW s \in Seq(S), s # <<>>
    PROVE  /\ Front(s) \in Seq(S) /\ Len(Front(s)) = Len(s) - 1
           /\ \A i \in 1 .. (Len(s) - 1) : Front(s)[i] = s[i]
           /\ Last(s) = s[Len(s)] /\ Len(s) \in 1 .. Len(s)
           /\ Len(s) \in Nat /\ s[Len(s)] \in S
  <1>1. /\ Len(s) \in Nat \ {0} /\ \A i \in 1 .. (Len(s) - 1) : s[i] \in S
        /\ s[Len(s)] \in S
    OBVIOUS
  <1> DEFINE m == Len(s) - 1
  <1>2. 1 \in Int /\ m \in Int /\ m >= 0 /\ m - 1 + 1 = m
    BY <1>1
  <1>3. \A i \in 1 .. m : s[i] \in S
    BY <1>1
  <1> HIDE DEF m
  <1>4. /\ SubSeq(s, 1, m) \in Seq(S)
        /\ Len(SubSeq(s, 1, m)) = IF 1 <= m THEN m - 1 + 1 ELSE 0
        /\ \A i \in 1 .. m - 1 + 1 : SubSeq(s, 1, m)[i] = s[1 + i - 1]
    BY <1>2, <1>3, SubSeqProperties
  <1>5. Front(s) = SubSeq(s, 1, m)
    BY DEF Front, m
  <1>6. Len(Front(s)) = m
    BY <1>2, <1>4, <1>5
  <1>7. \A i \in 1 .. m : Front(s)[i] = s[i]
    BY <1>2, <1>4, <1>5
  <1> QED BY <1>1, <1>4, <1>5, <1>6, <1>7 DEF m, Last

(* A file that was just made is named at the end of the list.              *)
LEMMA NameAdded ==
    ASSUME NamesListed, NEW n \in {fresh}
    PROVE  /\ Append(TmpFilenames, n) \in Seq(1 .. fresh)
           /\ Append(TmpFilenames, n) # <<>>
           /\ \A i, j \in 1 .. Len(Append(TmpFilenames, n)) :
                  Append(TmpFilenames, n)[i] = Append(TmpFilenames, n)[j] => i = j
           /\ \A i \in 1 .. Len(Append(TmpFilenames, n)) :
                  Append(TmpFilenames, n)[i] \in disk \cup {n}
           /\ ToSet(Append(TmpFilenames, n)) = ToSet(TmpFilenames) \cup {n}
  <1> DEFINE s == TmpFilenames
             t == Append(TmpFilenames, n)
  <1>1. /\ s \in Seq(1 .. (fresh - 1)) /\ fresh \in Nat \ {0} /\ n = fresh
        /\ \A i, j \in 1 .. Len(s) : s[i] = s[j] => i = j
        /\ \A i \in 1 .. Len(s) : s[i] \in disk
    BY DEF NamesListed
  <1>2. s \in Seq(1 .. fresh) /\ n \in 1 .. fresh
    <2>1. 1 .. (fresh - 1) \subseteq 1 .. fresh
      BY <1>1
    <2> QED BY <2>1, <1>1, SeqMonotonic
  <1>3. /\ t \in Seq(1 .. fresh) /\ Len(t) = Len(s) + 1 /\ t[Len(s) + 1] = n
        /\ \A i \in 1 .. Len(s) : t[i] = s[i]
    BY <1>2, AppendProperties
  <1>4. /\ Len(s) \in Nat /\ \A i \in 1 .. Len(s) : s[i] \in 1 .. (fresh - 1)
        /\ \A i \in 1 .. Len(t) : i \in 1 .. Len(s) \/ i = Len(s) + 1
    BY <1>1, <1>3
  <1>a. t # <<>>
    BY <1>3, <1>4
  <1>b. \A x : x \in ToSet(s) <=> \E i \in 1 .. Len(s) : x = s[i]
    BY <1>1, SetOfList
  <1>c. \A x : x \in ToSet(t) <=> \E i \in 1 .. Len(t) : x = t[i]
    BY <1>3, SetOfList
  <1> HIDE DEF s, t
  <1>5. ASSUME NEW i \in 1 .. Len(t), NEW j \in 1 .. Len(t), t[i] = t[j]
        PROVE  i = j
    <2>1. ASSUME NEW k \in 1 .. Len(s) PROVE t[k] = s[k] /\ t[k] # n
      <3>1. s[k] \in 1 .. (fresh - 1) /\ t[k] = s[k]
        BY <1>3, <1>4
      <3> QED BY <3>1, <1>1
    <2>2. CASE i \in 1 .. Len(s) /\ j \in 1 .. Len(s)
      BY <2>1, <2>2, <1>1, <1>5
    <2>3. CASE i \notin 1 .. Len(s) \/ j \notin 1 .. Len(s)
      BY <2>1, <2>3, <1>3, <1>4, <1>5
    <2> QED BY <2>2, <2>3
  <1>6. \A i \in 1 .. Len(t) : t[i] \in disk \cup {n}
    BY <1>1, <1>3, <1>4
  <1>7. ToSet(t) = ToSet(s) \cup {n}
    <2>1. \A i \in 1 .. Len(s) : i \in 1 .. Len(t)
      BY <1>3, <1>4
    <2>2. Len(s) + 1 \in 1 .. Len(t)
      BY <1>3, <1>4
    <2> QED BY <2>1, <2>2, <1>b, <1>c, <1>3, <1>4
  <1> QED BY <1>a, <1>3, <1>5, <1>6, <1>7 DEF s, t

-----------------------------------------------------------------------------
LEMMA FilesInit == PPInit => FilesInv
  BY DEF PPInit, FilesInv, StreamsInStep, NamesListed, FilesAccounted, ResultExists, ToSet

(* The preprocessor takes a unit in, with one name or two.                 *)
LEMMA BeginKeeps ==
    ASSUME FilesInv, Begin
    PROVE  FilesInv'
  <1>1. PICK created \in 1 .. 2 :
           /\ TmpFilenames' = TmpFilenames \o [i \in 1 .. created |-> fresh + i - 1]
           /\ disk' = disk \cup fresh .. (fresh + created - 1)
           /\ fresh' = fresh + created
    BY DEF Begin
  <1>2. /\ pc = "idle" /\ pc' = "open" /\ result' = "none" /\ Pass' = 0
        /\ Tmpfiles' = Tmpfiles /\ kept' = kept /\ lost' = lost
    BY DEF Begin, GoesOn
  <1>3. /\ fresh \in Nat \ {0} /\ TmpFilenames = <<>> /\ Tmpfiles = 0
        /\ disk \subseteq 1 .. (fresh - 1) /\ kept \subseteq 1 .. (fresh - 1)
        /\ disk \subseteq kept \cup lost \cup ToSet(TmpFilenames)
    BY <1>2 DEF FilesInv, NamesListed, StreamsInStep, FilesAccounted
  <1> DEFINE S == 1 .. (fresh' - 1)
             f == [i \in 1 .. created |-> fresh + i - 1]
  <1>4. /\ f \in Seq(S) /\ Len(f) = created /\ f # <<>>
        /\ \A i \in 1 .. created : f[i] = fresh + i - 1
    <2>1. \A i \in 1 .. created : fresh + i - 1 \in S
      BY <1>1, <1>3
    <2> HIDE DEF S
    <2>2. f \in [1 .. created -> S]
      BY <2>1
    <2>3. created \in Nat /\ created # 0
      BY <1>1
    <2>4. f \in Seq(S) /\ Len(f) = created
      BY <2>2, <2>3
    <2>5. f # <<>>
      BY <2>3, <2>4
    <2>6. \A i \in 1 .. created : f[i] = fresh + i - 1
      OBVIOUS
    <2> QED BY <2>4, <2>5, <2>6
  <1>5. TmpFilenames' = f
    <2>1. <<>> \o f = f
      BY <1>4, ConcatEmptySeq
    <2> QED BY <2>1, <1>1, <1>3
  <1>6. S \in SUBSET Nat /\ 1 .. (fresh - 1) \subseteq S
    BY <1>1, <1>3
  <1>7. NamesListed'
    <2>1. \A i, j \in 1 .. created : f[i] = f[j] => i = j
      BY <1>3, <1>4
    <2>2. \A i \in 1 .. created : f[i] \in disk'
      BY <1>1, <1>3, <1>4
    <2>3. disk' \subseteq S
      BY <1>1, <1>3
    <2>4. fresh' \in Nat \ {0} /\ kept' \subseteq S
      BY <1>1, <1>2, <1>3, <1>6
    <2>5. /\ TmpFilenames' \in Seq(S) /\ Len(TmpFilenames') = created
          /\ TmpFilenames' # <<>>
      BY <1>4, <1>5
    <2> HIDE DEF f, S
    <2>6. \A i, j \in 1 .. Len(TmpFilenames') :
             TmpFilenames'[i] = TmpFilenames'[j] => i = j
      BY <2>1, <2>5, <1>5
    <2>7. \A i \in 1 .. Len(TmpFilenames') : TmpFilenames'[i] \in disk'
      BY <2>2, <2>5, <1>5
    <2> QED BY <2>3, <2>4, <2>5, <2>6, <2>7, <1>2, Zenon DEF NamesListed, S
  <1>8. FilesAccounted'
    <2>1. \A x : x \in ToSet(f) <=> \E i \in 1 .. Len(f) : x = f[i]
      BY <1>4, SetOfList
    <2>2. ASSUME NEW x \in fresh .. (fresh + created - 1) PROVE x \in ToSet(f)
      <3>1. x - fresh + 1 \in 1 .. created /\ fresh + (x - fresh + 1) - 1 = x
        BY <1>1, <1>3
      <3>2. f[x - fresh + 1] = x
        BY <3>1, <1>4
      <3> QED BY <3>1, <3>2, <2>1, <1>4
    <2>3. ToSet(TmpFilenames) = {}
      BY <1>3 DEF ToSet
    <2> HIDE DEF f
    <2> QED BY <2>2, <2>3, <1>1, <1>2, <1>3, <1>5 DEF FilesAccounted
  <1>9. StreamsInStep' /\ ResultExists'
    BY <1>2, <1>3 DEF StreamsInStep, ResultExists
  <1> QED BY <1>2, <1>3, <1>7, <1>8, <1>9 DEF FilesInv

LEMMA NoneListed ==
    ASSUME NamesListed, TmpFilenames' = <<>>, fresh' = fresh, pc' = "idle",
           disk' \subseteq 1 .. (fresh - 1), kept' \subseteq 1 .. (fresh - 1)
    PROVE  NamesListed'
  <1>1. fresh \in Nat \ {0}
    BY DEF NamesListed
  <1>2. <<>> \in Seq(1 .. (fresh - 1))
    OBVIOUS
  <1>3. Len(TmpFilenames') = 0
    OBVIOUS
  <1>4. 1 .. Len(TmpFilenames') = {}
    BY <1>3
  <1>5. /\ \A i, j \in 1 .. Len(TmpFilenames') :
               TmpFilenames'[i] = TmpFilenames'[j] => i = j
        /\ \A i \in 1 .. Len(TmpFilenames') : TmpFilenames'[i] \in disk'
    BY <1>4, Zenon
  <1>6. pc' \notin {"open", "header", "expand"}
    OBVIOUS
  <1> QED BY <1>1, <1>2, <1>5, <1>6, Zenon DEF NamesListed

(* However a unit fails before its last pass has ended, the files on the   *)
(* list are removed.                                                       *)
LEMMA CleanupKeeps ==
    ASSUME FilesInv, CleanupTemporaryFiles, pc # "exited", pc' = "idle",
           result' = "failed", UNCHANGED <<Pass, kept, lost, fresh>>
    PROVE  FilesInv'
  <1>1. /\ Tmpfiles' = 0 /\ disk' = disk \ ToSet(TmpFilenames) /\ TmpFilenames' = <<>>
        /\ Pass' = Pass /\ kept' = kept /\ lost' = lost /\ fresh' = fresh
    BY DEF CleanupTemporaryFiles
  <1>2. /\ Pass \in Nat /\ fresh \in Nat \ {0}
        /\ disk \subseteq 1 .. (fresh - 1) /\ kept \subseteq 1 .. (fresh - 1)
        /\ disk \subseteq kept \cup lost \cup ToSet(TmpFilenames)
    BY DEF FilesInv, NamesListed, FilesAccounted
  <1>4. NamesListed'
    BY <1>1, <1>2, NoneListed DEF FilesInv
  <1>5. StreamsInStep' /\ FilesAccounted' /\ ResultExists'
    BY <1>1, <1>2 DEF StreamsInStep, FilesAccounted, ResultExists
  <1> QED BY <1>1, <1>2, <1>4, <1>5 DEF FilesInv

LEMMA OpenPassKeeps ==
    ASSUME FilesInv, OpenPass
    PROVE  FilesInv'
  <1>1. /\ pc = "open" /\ pc' = "header" /\ result' = result
        /\ Tmpfiles' = Tmpfiles + 1 /\ Pass' = Pass + 1
        /\ TmpFilenames' = Append(TmpFilenames, fresh)
        /\ disk' = disk \cup {fresh} /\ fresh' = fresh + 1
        /\ kept' = kept /\ lost' = lost
    BY DEF OpenPass
  <1>2. /\ Pass \in Nat /\ Tmpfiles = Pass /\ fresh \in Nat \ {0} /\ NamesListed
        /\ disk \subseteq 1 .. (fresh - 1) /\ kept \subseteq 1 .. (fresh - 1)
        /\ disk \subseteq kept \cup lost \cup ToSet(TmpFilenames)
    BY <1>1 DEF FilesInv, NamesListed, StreamsInStep, FilesAccounted
  <1> DEFINE t == Append(TmpFilenames, fresh)
  <1>3. /\ t \in Seq(1 .. fresh) /\ t # <<>>
        /\ \A i, j \in 1 .. Len(t) : t[i] = t[j] => i = j
        /\ \A i \in 1 .. Len(t) : t[i] \in disk \cup {fresh}
        /\ ToSet(t) = ToSet(TmpFilenames) \cup {fresh}
    BY <1>2, NameAdded
  <1> HIDE DEF t
  <1>4. TmpFilenames' = t
    BY <1>1 DEF t
  <1>5. /\ fresh' - 1 = fresh /\ fresh' \in Nat \ {0}
        /\ disk' \subseteq 1 .. fresh /\ kept' \subseteq 1 .. fresh
    BY <1>1, <1>2
  <1>6. NamesListed'
    BY <1>1, <1>3, <1>4, <1>5 DEF NamesListed
  <1>7. FilesAccounted'
    BY <1>1, <1>2, <1>3, <1>4 DEF FilesAccounted
  <1>8. StreamsInStep' /\ ResultExists'
    BY <1>1, <1>2 DEF StreamsInStep, ResultExists
  <1> QED BY <1>1, <1>2, <1>6, <1>7, <1>8 DEF FilesInv

(* The lines of a pass leave the files alone.                              *)
LEMMA LinesKeep ==
    ASSUME FilesInv, UNCHANGED <<Pass, fileVars, result>>,
           \/ pc \in {"open", "header", "expand"} /\ pc' \in {"open", "header", "expand"}
           \/ pc' = pc
    PROVE  FilesInv'
  <1>1. /\ Pass' = Pass /\ result' = result /\ Tmpfiles' = Tmpfiles
        /\ TmpFilenames' = TmpFilenames /\ disk' = disk /\ kept' = kept
        /\ lost' = lost /\ fresh' = fresh
    BY DEF fileVars
  <1>2. CASE pc' = pc
    BY <1>1, <1>2 DEF FilesInv, StreamsInStep, NamesListed, FilesAccounted, ResultExists
  <1>3. CASE /\ pc \in {"open", "header", "expand"}
             /\ pc' \in {"open", "header", "expand"}
    BY <1>1, <1>3 DEF FilesInv, StreamsInStep, NamesListed, FilesAccounted, ResultExists
  <1> QED BY <1>2, <1>3

(* The last name on the list is that of the file the parser reads.         *)
LEMMA LastName ==
    ASSUME NamesListed, TmpFilenames # <<>>
    PROVE  /\ Last(TmpFilenames) \in disk /\ Last(TmpFilenames) \in 1 .. (fresh - 1)
           /\ Last(TmpFilenames) \notin ToSet(FinishNames)
           /\ ToSet(TmpFilenames) = ToSet(FinishNames) \cup {Last(TmpFilenames)}
  <1> DEFINE s == TmpFilenames
             g == Front(s)
             m == Len(s)
  <1>1. /\ s \in Seq(1 .. (fresh - 1)) /\ s # <<>>
        /\ \A i, j \in 1 .. m : s[i] = s[j] => i = j
        /\ \A i \in 1 .. m : s[i] \in disk
    BY DEF NamesListed
  <1>2. /\ g \in Seq(1 .. (fresh - 1)) /\ Len(g) = m - 1
        /\ \A i \in 1 .. (m - 1) : g[i] = s[i]
        /\ Last(s) = s[m] /\ m \in 1 .. m
    BY <1>1, LastOfList
  <1>3. /\ \A x : x \in ToSet(s) <=> \E i \in 1 .. m : x = s[i]
        /\ \A x : x \in ToSet(g) <=> \E i \in 1 .. Len(g) : x = g[i]
    BY <1>1, <1>2, SetOfList
  <1>4. m \in Nat /\ s[m] \in 1 .. (fresh - 1)
    BY <1>1, LastOfList
  <1>5. FinishNames = g
    BY DEF FinishNames
  <1> HIDE DEF g, m, s
  <1>6. \A i \in 1 .. m : i = m \/ i \in 1 .. (m - 1)
    BY <1>4
  <1>7. \A i \in 1 .. (m - 1) : i \in 1 .. m /\ i # m
    BY <1>4
  <1>8. s[m] \notin ToSet(g)
    BY <1>1, <1>2, <1>3, <1>7
  <1>9. ToSet(s) = ToSet(g) \cup {s[m]}
    BY <1>2, <1>3, <1>6, <1>7
  <1> QED BY <1>1, <1>2, <1>4, <1>5, <1>8, <1>9 DEF s

LEMMA FinishKeeps ==
    ASSUME FilesInv, Finish \/ FinishFails
    PROVE  FilesInv'
  <1>1. /\ pc = "expand" /\ pc' = "idle" /\ Pass' = Pass /\ fresh' = fresh
        /\ disk' = disk \ ToSet(FinishNames)
        /\ Tmpfiles' = 0 /\ TmpFilenames' = <<>>
        /\ \/ /\ kept' = kept \cup {Last(TmpFilenames)} /\ lost' = lost
           \/ /\ kept' = kept /\ lost' = lost \cup {Last(TmpFilenames)}
              /\ result' = "failed"
    BY DEF Finish, FinishFails, LastPass
  <1>2. /\ Pass \in Nat /\ fresh \in Nat \ {0} /\ NamesListed /\ TmpFilenames # <<>>
        /\ disk \subseteq 1 .. (fresh - 1) /\ kept \subseteq 1 .. (fresh - 1)
        /\ disk \subseteq kept \cup lost \cup ToSet(TmpFilenames)
    BY <1>1 DEF FilesInv, NamesListed, FilesAccounted
  <1> DEFINE l == Last(TmpFilenames)
  <1>3. /\ l \in disk /\ l \in 1 .. (fresh - 1) /\ l \notin ToSet(FinishNames)
        /\ ToSet(TmpFilenames) = ToSet(FinishNames) \cup {l}
    BY <1>2, LastName
  <1>4. <<>> \in Seq(1 .. (fresh - 1)) /\ Len(<<>>) = 0 /\ ToSet(<<>>) = {}
    BY DEF ToSet
  <1>5. NamesListed'
    <2>1. disk' \subseteq 1 .. (fresh - 1) /\ kept' \subseteq 1 .. (fresh - 1)
      BY <1>1, <1>2, <1>3
    <2> QED BY <2>1, <1>1, <1>2, NoneListed
  <1>6. FilesAccounted'
    BY <1>1, <1>2, <1>3 DEF FilesAccounted
  <1>7. ResultExists'
    BY <1>1, <1>3, <1>4 DEF ResultExists
  <1>8. StreamsInStep'
    BY <1>1 DEF StreamsInStep
  <1> QED BY <1>1, <1>2, <1>5, <1>6, <1>7, <1>8 DEF FilesInv

LEMMA ExitKeeps ==
    ASSUME FilesInv, Exit
    PROVE  FilesInv'
  <1>1. /\ pc = "idle" /\ pc' = "exited" /\ Pass' = Pass /\ Tmpfiles' = Tmpfiles
        /\ disk' = IF KeepTemps THEN disk ELSE disk \ kept
        /\ TmpFilenames' = TmpFilenames /\ kept' = kept /\ lost' = lost
        /\ fresh' = fresh
    BY DEF Exit
  <1>2. TmpFilenames = <<>> /\ disk \subseteq kept \cup lost \cup ToSet(TmpFilenames)
    BY <1>1 DEF FilesInv, NamesListed, FilesAccounted
  <1>3. ToSet(TmpFilenames) = {} /\ Len(TmpFilenames) = 0
    BY <1>2 DEF ToSet
  <1> QED BY <1>1, <1>2, <1>3
          DEF FilesInv, StreamsInStep, NamesListed, FilesAccounted, ResultExists

LEMMA FilesStep ==
    ASSUME FilesInv, [PPNext]_ppVars
    PROVE  FilesInv'
  <1>1. CASE BeginFails \/ OpenPassFails \/ IncludeFails \/ AnotherPassFails
    <2>1. /\ CleanupTemporaryFiles /\ pc # "exited" /\ pc' = "idle"
          /\ result' = "failed" /\ UNCHANGED <<Pass, kept, lost, fresh>>
      BY <1>1 DEF BeginFails, GoesOn, OpenPassFails, IncludeFails, Directive,
         AnotherPassFails, Fail
    <2> QED BY <2>1, CleanupKeeps
  <1>2. CASE \/ HeaderLine \/ HeaderEnds \/ CopyLine \/ IncludeFile \/ IncludeAgain
             \/ AnotherPass \/ UNCHANGED ppVars
    <2>1. UNCHANGED <<Pass, fileVars, result>>
      BY <1>2 DEF HeaderLine, HeaderEnds, CopyLine, IncludeFile, IncludeAgain,
         AnotherPass, ppVars
    <2>2. \/ pc \in {"open", "header", "expand"} /\ pc' \in {"open", "header", "expand"}
          \/ pc' = pc
      BY <1>2 DEF HeaderLine, HeaderEnds, CopyLine, IncludeFile, IncludeAgain,
         AnotherPass, ppVars, Directive
    <2> QED BY <2>1, <2>2, LinesKeep
  <1>3. CASE Begin
    BY <1>3, BeginKeeps
  <1>4. CASE OpenPass
    BY <1>4, OpenPassKeeps
  <1>5. CASE Finish \/ FinishFails
    BY <1>5, FinishKeeps
  <1>6. CASE Exit
    BY <1>6, ExitKeeps
  <1> QED BY <1>1, <1>2, <1>3, <1>4, <1>5, <1>6, Zenon DEF PPNext, Preprocess

(* The invariant of the temporary files.                                   *)
THEOREM FilesInvariant == PPSpec => []FilesInv
  <1> QED BY FilesInit, FilesStep, PTL DEF PPSpec

(* The stream a pass opens is the one it has just pushed, in every unit of *)
(* a process, whatever became of the units before it.                      *)
THEOREM StreamIsLast == PPSpec => []PassIsLastStream
  <1>1. FilesInv => PassIsLastStream
    BY DEF FilesInv, StreamsInStep, PassIsLastStream
  <1> QED BY <1>1, FilesInvariant, PTL

(* However the preprocessor returns, the temporary files left are those    *)
(* the file cleaner removes, but for those whose name was lost.            *)
THEOREM TemporariesRemoved == PPSpec => []NoTempLeft
  <1>1. ASSUME FilesInv PROVE NoTempLeft
    <2>1. pc = "idle" => ToSet(TmpFilenames) = {}
      BY <1>1 DEF FilesInv, NamesListed, ToSet
    <2> QED BY <2>1, <1>1 DEF FilesInv, FilesAccounted, NoTempLeft
  <1> QED BY <1>1, FilesInvariant, PTL

(* The file handed to the parser exists, is left to the file cleaner, and  *)
(* is not one of those to be cleaned up.                                   *)
THEOREM ResultIsThere == PPSpec => []ResultExists
  <1>1. FilesInv => ResultExists
    BY DEF FilesInv
  <1> QED BY <1>1, FilesInvariant, PTL

-----------------------------------------------------------------------------
(* Types: lines stay lines whatever is inserted, dropped or copied.        *)
DirOK == \A f \in Files : dir[f] \in Texts[f]

CountsOK == IC \in Nat /\ Pass \in 0 .. MaxPasses /\ AlreadySeen \subseteq Files

TextsOK ==
    /\ work \in Seq(Lines) /\ out \in Seq(Lines)
    /\ CountsOK
    /\ OQF \in BOOLEAN /\ CCS \in BOOLEAN /\ HOP \in BOOLEAN
    /\ DirOK

AnswersOK ==
    /\ result = "none" <=> Running \/ units = 0
    /\ Running => units # 0
    /\ result \in {"none", "ok", "failed"} /\ units \in Nat

LEMMA LinesAreLines ==
    /\ Lines # {} /\ \A k \in LineKinds : Line(k) \in Lines
    /\ \A l \in Lines : l.kind = "include" => l.file \in Files
    /\ <<Line("blank")>> \in Seq(Lines) /\ <<>> \in Seq(Lines)
  <1>1. \A k \in LineKinds : Line(k) \in Lines
    BY DEF Lines
  <1>2. Line("blank") \in Lines
    BY <1>1 DEF LineKinds
  <1>3. ASSUME NEW l \in Lines, l.kind = "include" PROVE l.file \in Files
    BY <1>3 DEF Lines, Line, Include, Text, LineKinds
  <1> QED BY <1>1, <1>2, <1>3

LEMMA HeadAndTail ==
    ASSUME NEW S, NEW s \in Seq(S), s # <<>>
    PROVE  Head(s) \in S /\ Tail(s) \in Seq(S)
  BY HeadTailProperties

LEMMA DirStays ==
    ASSUME [PPNext]_ppVars
    PROVE  dir' = dir
  BY Zenon DEF PPNext, Preprocess, Begin, BeginFails, OpenPass, OpenPassFails, HeaderLine,
     HeaderEnds, CopyLine, IncludeFile, IncludeAgain, IncludeFails, AnotherPass,
     AnotherPassFails, Finish, FinishFails, Exit, Fail, ppVars

LEMMA TextsStep ==
    ASSUME TextsOK, [PPNext]_ppVars
    PROVE  TextsOK'
  <1>0. /\ work \in Seq(Lines) /\ out \in Seq(Lines)
        /\ IC \in Nat /\ Pass \in 0 .. MaxPasses /\ AlreadySeen \subseteq Files
        /\ OQF \in BOOLEAN /\ CCS \in BOOLEAN /\ HOP \in BOOLEAN
    BY DEF TextsOK, CountsOK
  <1>a. dir' = dir
    BY DirStays
  <1>d. DirOK'
    BY <1>a DEF TextsOK, DirOK
  <1>b. work # <<>> => Next1 \in Lines /\ Tail(work) \in Seq(Lines)
    BY <1>0, HeadAndTail DEF Next1
  <1>1. CASE Begin
    <2>1. PICK text \in Units, tail \in {<<>>, <<Line("blank")>>} : work' = text \o tail
      BY <1>1 DEF Begin
    <2>2. text \in Seq(Lines) /\ tail \in Seq(Lines)
      BY TextsAssumption, LinesAreLines DEF TextsOf
    <2>3. work' \in Seq(Lines)
      BY <2>1, <2>2, ConcatProperties
    <2>4. /\ out' = <<>> /\ IC' = 0 /\ OQF' = FALSE /\ AlreadySeen' = {} /\ Pass' = 0
          /\ CCS' = CCS /\ HOP' = HOP
      BY <1>1 DEF Begin
    <2>5. CountsOK'
      BY <2>4, PreprocessorAssumption DEF CountsOK
    <2>6. out' \in Seq(Lines)
      BY <2>4, LinesAreLines
    <2> QED BY <2>3, <2>4, <2>5, <2>6, <1>0, <1>d DEF TextsOK
  <1>2. CASE \/ BeginFails \/ OpenPassFails \/ AnotherPassFails \/ Finish \/ FinishFails
             \/ Exit \/ HeaderEnds \/ UNCHANGED ppVars
    <2>1. UNCHANGED <<Pass, textVars>>
      BY <1>2 DEF BeginFails, OpenPassFails, AnotherPassFails, Finish, FinishFails,
         Exit, HeaderEnds, Fail, ppVars
    <2>2. CountsOK'
      BY <2>1, <1>0 DEF textVars, CountsOK
    <2> QED BY <2>1, <2>2, <1>0, <1>d DEF textVars, TextsOK
  <1>3. CASE OpenPass
    <2>1. /\ Pass < MaxPasses /\ Pass' = Pass + 1 /\ out' = <<>> /\ IC' = 0
          /\ work' = work /\ OQF' = OQF /\ AlreadySeen' = AlreadySeen
          /\ CCS' = CCS /\ HOP' = HOP
      BY <1>3 DEF OpenPass
    <2>2. CountsOK'
      BY <2>1, <1>0, PreprocessorAssumption DEF CountsOK
    <2>3. out' \in Seq(Lines)
      BY <2>1, LinesAreLines
    <2> QED BY <2>1, <2>2, <2>3, <1>0, <1>d DEF TextsOK
  <1>4. CASE HeaderLine
    <2>1. /\ work # <<>> /\ work' = Tail(work) /\ CCS' = CommentAfter(Next1, CCS)
          /\ IC' = IC /\ AlreadySeen' = AlreadySeen /\ Pass' = Pass /\ HOP' = HOP
          /\ \/ out' = Append(out, Next1) /\ OQF' = OQF
             \/ out' = out /\ OQF' = OQF
             \/ out' = out \o HeaderWritten(Next1) /\ OQF' = TRUE
      BY <1>4 DEF HeaderLine, Copied
    <2>2. HeaderWritten(Next1) \in Seq(Lines)
      <3>1. Line("version") \in Lines /\ Line("mark") \in Lines /\ Next1 \in Lines
        BY <2>1, <1>b, LinesAreLines DEF LineKinds
      <3> QED BY <3>1 DEF HeaderWritten
    <2>3. out' \in Seq(Lines) /\ OQF' \in BOOLEAN
      <3>1. Next1 \in Lines
        BY <2>1, <1>b
      <3>2. CASE out' = Append(out, Next1) /\ OQF' = OQF
        BY <3>1, <3>2, <1>0, AppendProperties
      <3>3. CASE out' = out /\ OQF' = OQF
        BY <3>3, <1>0
      <3>4. CASE out' = out \o HeaderWritten(Next1) /\ OQF' = TRUE
        BY <3>4, <2>2, <1>0, ConcatProperties
      <3> QED BY <2>1, <3>2, <3>3, <3>4
    <2>4. CCS' \in BOOLEAN
      BY <2>1 DEF CommentAfter
    <2>5. CountsOK' /\ HOP' \in BOOLEAN
      BY <2>1, <1>0 DEF CountsOK
    <2>6. work' \in Seq(Lines)
      BY <2>1, <1>b
    <2> QED BY <2>3, <2>4, <2>5, <2>6, <1>d DEF TextsOK
  <1>5. CASE CopyLine
    <2>1. /\ work # <<>> /\ work' = Tail(work) /\ out' = Append(out, Next1)
          /\ CCS' = CommentAfter(Next1, InComment) /\ HOP' = FALSE
          /\ IC' = IC /\ OQF' = OQF /\ AlreadySeen' = AlreadySeen /\ Pass' = Pass
      BY <1>5 DEF CopyLine, Copied
    <2>2. CCS' \in BOOLEAN /\ HOP' \in BOOLEAN /\ OQF' \in BOOLEAN
      BY <2>1, <1>0 DEF CommentAfter
    <2>3. work' \in Seq(Lines) /\ out' \in Seq(Lines)
      BY <2>1, <1>0, <1>b, AppendProperties
    <2>4. CountsOK'
      BY <2>1, <1>0 DEF CountsOK
    <2> QED BY <2>2, <2>3, <2>4, <1>d DEF TextsOK
  <1>6. CASE IncludeFile
    <2>1. /\ work # <<>> /\ Next1.kind = "include" /\ work' = Tail(work)
          /\ out' = out \o Inserted(Next1)
          /\ Next1.file \notin AlreadySeen /\ ~NotFound
          /\ AlreadySeen' = AlreadySeen \cup {Next1.file} /\ IC' = IC + 1
          /\ HOP' = (Next1.trail = "open") /\ CCS' = (Next1.trail = "open")
          /\ OQF' = OQF /\ Pass' = Pass
      BY <1>6 DEF IncludeFile, Directive, SeenAfter, HOPAfter
    <2>2. Next1.file \in Files
      BY <2>1, <1>b, LinesAreLines
    <2>3. dir[Next1.file] \in Seq(Lines)
      <3>1. dir[Next1.file] # Missing
        BY <2>1 DEF NotFound
      <3> QED BY <3>1, <2>2, TextsAssumption DEF TextsOK, DirOK, TextsOf
    <2>4. Inserted(Next1) \in Seq(Lines)
      <3>1. Line("mark") \in Lines /\ Line("open") \in Lines
        BY LinesAreLines DEF LineKinds
      <3>2. <<Line("mark")>> \in Seq(Lines) /\ Comment(Next1) \in Seq(Lines)
        BY <3>1 DEF Comment
      <3> DEFINE a == <<Line("mark")>>
                 b == dir[Next1.file]
                 e == Comment(Next1)
      <3>3. a \in Seq(Lines) /\ b \in Seq(Lines) /\ e \in Seq(Lines)
        BY <3>2, <2>3
      <3> HIDE DEF a, b, e
      <3>4. a \o b \in Seq(Lines)
        BY <3>3, ConcatProperties
      <3>5. (a \o b) \o a \in Seq(Lines)
        BY <3>3, <3>4, ConcatProperties
      <3>6. ((a \o b) \o a) \o e \in Seq(Lines)
        BY <3>3, <3>5, ConcatProperties
      <3> QED BY <3>6, Zenon DEF Inserted, a, b, e
    <2>5. out' \in Seq(Lines)
      BY <2>1, <2>4, <1>0, ConcatProperties
    <2>6. HOP' \in BOOLEAN /\ CCS' \in BOOLEAN /\ OQF' \in BOOLEAN
      BY <2>1, <1>0
    <2>7. CountsOK'
      <3>1. AlreadySeen' \subseteq Files
        BY <2>1, <2>2, <1>0
      <3>2. IC' \in Nat /\ Pass' \in 0 .. MaxPasses
        BY <2>1, <1>0
      <3> QED BY <3>1, <3>2 DEF CountsOK
    <2>8. work' \in Seq(Lines)
      BY <2>1, <1>b
    <2> QED BY <2>5, <2>6, <2>7, <2>8, <1>d DEF TextsOK
  <1>7. CASE IncludeAgain
    <2>1. /\ work # <<>> /\ work' = Tail(work) /\ out' = out /\ IC' = IC + 1
          /\ HOP' = (Next1.trail = "open") /\ CCS' = FALSE
          /\ OQF' = OQF /\ AlreadySeen' = AlreadySeen /\ Pass' = Pass
      BY <1>7 DEF IncludeAgain, Directive, HOPAfter
    <2>2. HOP' \in BOOLEAN /\ CCS' \in BOOLEAN /\ OQF' \in BOOLEAN
      BY <2>1, <1>0
    <2>3. CountsOK'
      BY <2>1, <1>0 DEF CountsOK
    <2>4. work' \in Seq(Lines) /\ out' \in Seq(Lines)
      BY <2>1, <1>0, <1>b
    <2> QED BY <2>2, <2>3, <2>4, <1>d DEF TextsOK
  <1>8. CASE IncludeFails
    <2>1. /\ work' = work /\ out' = out /\ IC' = IC + 1
          /\ HOP' = (Next1.trail = "open") /\ CCS' = FALSE
          /\ OQF' = OQF /\ AlreadySeen' = AlreadySeen /\ Pass' = Pass
      BY <1>8 DEF IncludeFails, Fail, HOPAfter
    <2>2. HOP' \in BOOLEAN /\ CCS' \in BOOLEAN /\ OQF' \in BOOLEAN
      BY <2>1, <1>0
    <2>3. CountsOK'
      BY <2>1, <1>0 DEF CountsOK
    <2> QED BY <2>1, <2>2, <2>3, <1>0, <1>d DEF TextsOK
  <1>9. CASE AnotherPass
    <2>1. /\ work' = Append(out, Line("blank")) /\ out' = <<>> /\ IC' = IC
          /\ HOP' = HOP /\ CCS' = CCS /\ OQF' = OQF /\ AlreadySeen' = AlreadySeen
          /\ Pass' = Pass
      BY <1>9 DEF AnotherPass
    <2>2. Line("blank") \in Lines
      BY LinesAreLines DEF LineKinds
    <2>3. work' \in Seq(Lines) /\ out' \in Seq(Lines)
      BY <2>1, <2>2, <1>0, AppendProperties, LinesAreLines
    <2>4. CountsOK'
      BY <2>1, <1>0 DEF CountsOK
    <2> QED BY <2>1, <2>3, <2>4, <1>0, <1>d DEF TextsOK
  <1> QED BY <1>1, <1>2, <1>3, <1>4, <1>5, <1>6, <1>7, <1>8, <1>9, Zenon
          DEF PPNext, Preprocess

LEMMA AnswersStep ==
    ASSUME AnswersOK, FilesInv, [PPNext]_ppVars
    PROVE  AnswersOK'
  <1>0. /\ result = "none" <=> Running \/ units = 0
        /\ Running => units # 0
        /\ result \in {"none", "ok", "failed"} /\ units \in Nat
    BY DEF AnswersOK
  <1>1. CASE Begin \/ BeginFails
    <2>1. /\ units' = units + 1
          /\ \/ pc' = "open" /\ result' = "none"
             \/ pc' = "idle" /\ result' = "failed"
      BY <1>1 DEF Begin, BeginFails, GoesOn
    <2>2. units' \in Nat /\ units' # 0
      BY <2>1, <1>0
    <2> QED BY <2>1, <2>2 DEF AnswersOK, Running
  <1>2. CASE \/ OpenPass \/ HeaderLine \/ HeaderEnds \/ CopyLine \/ IncludeFile
             \/ IncludeAgain \/ AnotherPass
    <2>1. Running /\ Running' /\ result' = result /\ units' = units
      BY <1>2 DEF OpenPass, HeaderLine, HeaderEnds, CopyLine, IncludeFile,
         IncludeAgain, AnotherPass, Directive, Running
    <2> QED BY <2>1, <1>0 DEF AnswersOK
  <1>3. CASE OpenPassFails \/ IncludeFails \/ AnotherPassFails \/ Finish \/ FinishFails
    <2>1. /\ Running /\ pc' = "idle" /\ result' \in {"ok", "failed"} /\ units' = units
      BY <1>3 DEF OpenPassFails, IncludeFails, AnotherPassFails, Finish, FinishFails,
         Fail, Directive, LastPass, Running
    <2> QED BY <2>1, <1>0 DEF AnswersOK, Running
  <1>4. CASE Exit \/ UNCHANGED ppVars
    <2>1. (Running' <=> Running) /\ result' = result /\ units' = units
      BY <1>4 DEF Exit, Running, ppVars
    <2> QED BY <2>1, <1>0 DEF AnswersOK
  <1> QED BY <1>1, <1>2, <1>3, <1>4, Zenon DEF PPNext, Preprocess

LEMMA PreprocessorInit == PPInit => TextsOK /\ AnswersOK
  <1> SUFFICES ASSUME PPInit PROVE TextsOK /\ AnswersOK
    OBVIOUS
  <1>1. DirOK
    BY DEF PPInit, DirOK
  <1>2. CountsOK
    BY PreprocessorAssumption DEF PPInit, CountsOK
  <1>3. /\ work = <<>> /\ out = <<>> /\ OQF = FALSE /\ CCS = FALSE /\ HOP = FALSE
        /\ result = "none" /\ units = 0 /\ pc = "idle"
    BY DEF PPInit
  <1>4. TextsOK
    BY <1>1, <1>2, <1>3, LinesAreLines DEF TextsOK
  <1>5. AnswersOK
    BY <1>3 DEF AnswersOK, Running
  <1> QED BY <1>4, <1>5

(* Texts stay sequences of lines through all passes, a unit has an answer  *)
(* as soon as it is no longer being read and never before, and names and   *)
(* counters are in their ranges.                                           *)
THEOREM PreprocessorTypes == PPSpec => []PPTypeOK
  <1>1. PPInit => TextsOK /\ AnswersOK
    BY PreprocessorInit
  <1>2. ASSUME FilesInv, TextsOK, AnswersOK PROVE PPTypeOK
    <2>1. ToSet(TmpFilenames) \subseteq 1 .. (fresh - 1)
      BY <1>2, SetOfList DEF FilesInv, NamesListed
    <2>2. Tmpfiles \in 0 .. MaxPasses
      BY <1>2, PreprocessorAssumption DEF FilesInv, StreamsInStep, TextsOK, CountsOK
    <2> QED BY <2>1, <2>2, <1>2 DEF FilesInv, NamesListed, TextsOK, CountsOK, AnswersOK, PPTypeOK
  <1>3. FilesInv /\ TextsOK /\ AnswersOK /\ [PPNext]_ppVars => (TextsOK /\ AnswersOK)'
    BY TextsStep, AnswersStep
  <1> QED BY <1>1, <1>2, <1>3, FilesInvariant, PTL DEF PPSpec

-----------------------------------------------------------------------------
(* The code of a text, as the provers can use it: by the equation it        *)
(* solves, line after line and text after text.                            *)
(* Induction, stated on the set of the numbers of which a thing is known.  *)
LEMMA Inductive ==
    ASSUME NEW K, 0 \in K, \A n \in Nat : n \in K => n + 1 \in K
    PROVE  Nat \subseteq K
  <1> DEFINE T == Nat \ K
  <1> SUFFICES ASSUME T # {} PROVE FALSE
    OBVIOUS
  <1>0. T \subseteq Nat
    OBVIOUS
  <1>1. \E x \in T : \A y \in T : ~ (<<y, x>> \in OpToRel(<, Nat))
    <2> HIDE DEF T
    <2> QED BY <1>0, NatLessThanWellFounded, WFMin
  <1>2. PICK x \in T : \A y \in T : ~ (<<y, x>> \in OpToRel(<, Nat))
    BY <1>1, Zenon
  <1>3. x - 1 \in Nat /\ x - 1 < x /\ x - 1 + 1 = x
    <2>1. x \in Nat /\ x # 0
      OBVIOUS
    <2> QED BY <2>1
  <1>4. <<x - 1, x>> \in OpToRel(<, Nat)
    BY <1>3 DEF OpToRel
  <1>5. x - 1 \in K
    BY <1>2, <1>3, <1>4
  <1> QED BY <1>2, <1>3, <1>5

(* The function Code applies, told from the equation that defines it.      *)
CodeUpTo(t, n, c) ==
    /\ c \in [0 .. n -> Seq(Lines)]
    /\ \A i \in 0 .. n :
          c[i] = IF i = 0 THEN <<>>
                 ELSE IF IsCode(t[i]) THEN Append(c[i - 1], t[i]) ELSE c[i - 1]

LEMMA CodeNext ==
    ASSUME NEW t, NEW n \in Nat, NEW c, CodeUpTo(t, n, c),
           NEW i \in Nat, NEW j \in 0 .. n, j = i + 1
    PROVE  c[j] = IF IsCode(t[j]) THEN Append(c[i], t[j]) ELSE c[i]
  <1>1. j # 0 /\ j - 1 = i
    OBVIOUS
  <1>2. c[j] = IF j = 0 THEN <<>>
               ELSE IF IsCode(t[j]) THEN Append(c[j - 1], t[j]) ELSE c[j - 1]
    BY DEF CodeUpTo
  <1> QED BY <1>1, <1>2, Zenon

LEMMA CodeExtends ==
    ASSUME NEW t \in Seq(Lines), NEW n \in Nat, n < Len(t), NEW c, CodeUpTo(t, n, c)
    PROVE  \E d : CodeUpTo(t, n + 1, d)
  <1>1. t[n + 1] \in Lines /\ n \in 0 .. n /\ c[n] \in Seq(Lines)
    BY DEF CodeUpTo
  <1> DEFINE last == IF IsCode(t[n + 1]) THEN Append(c[n], t[n + 1]) ELSE c[n]
             d == [i \in 0 .. (n + 1) |-> IF i <= n THEN c[i] ELSE last]
  <1>2. last \in Seq(Lines)
    BY <1>1, AppendProperties
  <1> HIDE DEF last
  <1>3. d \in [0 .. (n + 1) -> Seq(Lines)]
    <2>1. \A i \in 0 .. (n + 1) : i <= n => c[i] \in Seq(Lines)
      BY DEF CodeUpTo
    <2> QED BY <1>2, <2>1
  <1>4. ASSUME NEW i \in 0 .. (n + 1)
        PROVE  d[i] = IF i = 0 THEN <<>>
                      ELSE IF IsCode(t[i]) THEN Append(d[i - 1], t[i]) ELSE d[i - 1]
    <2>1. CASE i <= n
      <3>1. d[i] = c[i] /\ (i # 0 => d[i - 1] = c[i - 1])
        BY <2>1
      <3> HIDE DEF d
      <3>2. i \in 0 .. n
        BY <2>1
      <3>3. c[i] = IF i = 0 THEN <<>>
                   ELSE IF IsCode(t[i]) THEN Append(c[i - 1], t[i]) ELSE c[i - 1]
        BY <3>2 DEF CodeUpTo
      <3> QED BY <3>1, <3>3, Zenon
    <2>2. CASE i = n + 1
      <3>1. d[i] = last /\ d[i - 1] = c[n] /\ i # 0
        <4>1. i \in 0 .. (n + 1) /\ ~(i <= n) /\ i - 1 = n /\ n \in 0 .. (n + 1) /\ n <= n
          BY <2>2
        <4>2. d[i] = last /\ d[n] = c[n]
          BY <4>1
        <4> HIDE DEF d
        <4> QED BY <4>1, <4>2
      <3> HIDE DEF d
      <3> QED BY <2>2, <3>1 DEF last
    <2> QED BY <2>1, <2>2
  <1> HIDE DEF d
  <1> QED BY <1>3, <1>4 DEF CodeUpTo

LEMMA CodeIsThere ==
    ASSUME NEW t \in Seq(Lines)
    PROVE  \A n \in Nat : n <= Len(t) => \E c : CodeUpTo(t, n, c)
  <1> DEFINE K == {n \in Nat : n <= Len(t) => \E c : CodeUpTo(t, n, c)}
  <1>1. 0 \in K
    <2> DEFINE c == [i \in 0 .. 0 |-> <<>>]
    <2>1. c \in [0 .. 0 -> Seq(Lines)] /\ c[0] = <<>>
      OBVIOUS
    <2> HIDE DEF c
    <2>2. CodeUpTo(t, 0, c)
      BY <2>1 DEF CodeUpTo
    <2> QED BY <2>2
  <1>2. ASSUME NEW n \in Nat, n \in K PROVE n + 1 \in K
    <2> SUFFICES ASSUME n + 1 <= Len(t) PROVE \E c : CodeUpTo(t, n + 1, c)
      OBVIOUS
    <2>1. n < Len(t)
      OBVIOUS
    <2>2. PICK c : CodeUpTo(t, n, c)
      BY <1>2, <2>1
    <2> QED BY <2>1, <2>2, CodeExtends
  <1> HIDE DEF K
  <1>3. Nat \subseteq K
    BY <1>1, <1>2, Inductive
  <1> QED BY <1>3 DEF K

(* The equation has one solution.                                          *)
LEMMA CodeIsUnique ==
    ASSUME NEW t \in Seq(Lines), NEW m \in Nat, NEW n \in Nat, m <= n, n <= Len(t),
           NEW c, CodeUpTo(t, m, c), NEW d, CodeUpTo(t, n, d)
    PROVE  \A i \in 0 .. m : c[i] = d[i]
  <1> DEFINE K == {i \in Nat : i <= m => c[i] = d[i]}
  <1>1. 0 \in K
    BY DEF CodeUpTo
  <1>2. ASSUME NEW i \in Nat, i \in K PROVE i + 1 \in K
    <2> SUFFICES ASSUME i + 1 <= m PROVE c[i + 1] = d[i + 1]
      OBVIOUS
    <2>1. c[i] = d[i] /\ i + 1 \in 0 .. m /\ i + 1 \in 0 .. n
      BY <1>2
    <2>2. c[i + 1] = IF IsCode(t[i + 1]) THEN Append(c[i], t[i + 1]) ELSE c[i]
      BY <2>1, CodeNext
    <2>3. d[i + 1] = IF IsCode(t[i + 1]) THEN Append(d[i], t[i + 1]) ELSE d[i]
      BY <2>1, CodeNext
    <2> QED BY <2>1, <2>2, <2>3
  <1> HIDE DEF K
  <1>3. Nat \subseteq K
    BY <1>1, <1>2, Inductive
  <1> QED BY <1>3 DEF K

LEMMA CodeIsIt ==
    ASSUME NEW t \in Seq(Lines), NEW c, CodeUpTo(t, Len(t), c)
    PROVE  Code(t) = c[Len(t)] /\ Code(t) \in Seq(Lines)
  <1> DEFINE C == CHOOSE e : e = [i \in 0 .. Len(t) |->
                                 IF i = 0 THEN <<>>
                                 ELSE IF IsCode(t[i]) THEN Append(e[i - 1], t[i]) ELSE e[i - 1]]
  <1>1. c = [i \in 0 .. Len(t) |->
                 IF i = 0 THEN <<>>
                 ELSE IF IsCode(t[i]) THEN Append(c[i - 1], t[i]) ELSE c[i - 1]]
    BY DEF CodeUpTo
  <1>2. C = [i \in 0 .. Len(t) |->
                 IF i = 0 THEN <<>>
                 ELSE IF IsCode(t[i]) THEN Append(C[i - 1], t[i]) ELSE C[i - 1]]
    BY <1>1, Zenon
  <1>3. Code(t) = C[Len(t)]
    BY DEF Code
  <1> HIDE DEF C
  <1>4. Len(t) \in Nat
    OBVIOUS
  <1>5. \A i \in 0 .. Len(t) : C[i] = IF i = 0 THEN <<>>
              ELSE IF IsCode(t[i]) THEN Append(C[i - 1], t[i]) ELSE C[i - 1]
    BY <1>2, Zenon
  <1> DEFINE K == {i \in Nat : i <= Len(t) => C[i] = c[i]}
  <1>6. 0 \in K
    BY <1>4, <1>5 DEF CodeUpTo
  <1>7. ASSUME NEW i \in Nat, i \in K PROVE i + 1 \in K
    <2> SUFFICES ASSUME i + 1 <= Len(t) PROVE C[i + 1] = c[i + 1]
      OBVIOUS
    <2>1. c[i] = C[i] /\ i + 1 \in 0 .. Len(t)
      BY <1>4, <1>7
    <2>2. c[i + 1] = IF IsCode(t[i + 1]) THEN Append(c[i], t[i + 1]) ELSE c[i]
      BY <1>4, <2>1, CodeNext
    <2>3. PICK j \in 0 .. Len(t) : j = i + 1
      BY <2>1
    <2>4. j # 0 /\ j - 1 = i
      BY <2>3
    <2>5. C[j] = IF IsCode(t[j]) THEN Append(C[i], t[j]) ELSE C[i]
      BY <1>5, <2>4, Zenon
    <2> QED BY <2>1, <2>2, <2>3, <2>5
  <1> HIDE DEF K
  <1>8. Nat \subseteq K
    BY <1>6, <1>7, Inductive
  <1>9. C[Len(t)] = c[Len(t)] /\ c[Len(t)] \in Seq(Lines)
    BY <1>4, <1>8 DEF K, CodeUpTo
  <1> QED BY <1>3, <1>9

LEMMA CodeOfNone == Code(<<>>) = <<>>
  <1>1. <<>> \in Seq(Lines) /\ Len(<<>>) = 0
    OBVIOUS
  <1> DEFINE c == [i \in 0 .. 0 |-> <<>>]
  <1>2. c \in [0 .. 0 -> Seq(Lines)] /\ c[0] = <<>>
    OBVIOUS
  <1> HIDE DEF c
  <1>3. CodeUpTo(<<>>, 0, c)
    BY <1>2 DEF CodeUpTo
  <1> QED BY <1>1, <1>2, <1>3, CodeIsIt

(* Line after line.                                                        *)
LEMMA CodeOfAppended ==
    ASSUME NEW t \in Seq(Lines), NEW l \in Lines
    PROVE  Code(Append(t, l)) = IF IsCode(l) THEN Append(Code(t), l) ELSE Code(t)
  <1> DEFINE u == Append(t, l)
             n == Len(t)
  <1>1. /\ u \in Seq(Lines) /\ Len(u) = n + 1 /\ n \in Nat /\ u[n + 1] = l
        /\ \A i \in 1 .. n : u[i] = t[i]
    BY AppendProperties
  <1> HIDE DEF u
  <1>2. PICK c : CodeUpTo(u, n + 1, c)
    BY <1>1, CodeIsThere
  <1>3. Code(u) = c[n + 1]
    BY <1>1, <1>2, CodeIsIt
  <1>4. PICK d : CodeUpTo(t, n, d)
    BY <1>1, CodeIsThere
  <1>5. Code(t) = d[n]
    BY <1>4, CodeIsIt
  <1>6. CodeUpTo(u, n, d)
    <2>1. d \in [0 .. n -> Seq(Lines)]
      BY <1>4 DEF CodeUpTo
    <2>2. ASSUME NEW i \in 0 .. n
          PROVE  d[i] = IF i = 0 THEN <<>>
                        ELSE IF IsCode(u[i]) THEN Append(d[i - 1], u[i]) ELSE d[i - 1]
      <3>1. CASE i = 0
        BY <1>4, <3>1 DEF CodeUpTo
      <3>2. CASE i # 0
        <4>1. i \in 1 .. n
          BY <1>1, <3>2
        <4>2. u[i] = t[i]
          BY <4>1, <1>1
        <4> QED BY <1>4, <3>2, <4>2 DEF CodeUpTo
      <3> QED BY <3>1, <3>2
    <2> QED BY <2>1, <2>2 DEF CodeUpTo
  <1>7. d[n] = c[n]
    BY <1>1, <1>2, <1>6, CodeIsUnique
  <1>8. c[n + 1] = IF IsCode(l) THEN Append(c[n], l) ELSE c[n]
    <2>1. n + 1 \in 0 .. (n + 1) /\ n + 1 \in Nat
      BY <1>1
    <2>2. c[n + 1] = IF IsCode(u[n + 1]) THEN Append(c[n], u[n + 1]) ELSE c[n]
      BY <1>1, <1>2, <2>1, CodeNext
    <2> QED BY <1>1, <2>2
  <1> QED BY <1>3, <1>5, <1>7, <1>8 DEF u

LEMMA CodeTyped ==
    ASSUME NEW t \in Seq(Lines)
    PROVE  Code(t) \in Seq(Lines)
  <1>1. Len(t) \in Nat
    OBVIOUS
  <1>2. PICK c : CodeUpTo(t, Len(t), c)
    BY <1>1, CodeIsThere
  <1> QED BY <1>2, CodeIsIt

LEMMA LineAfterLines ==
    ASSUME NEW a \in Seq(Lines), NEW b \in Seq(Lines), NEW l \in Lines
    PROVE  Append(a \o b, l) = a \o Append(b, l)
  BY Z3

(* Text after text.                                                        *)
LEMMA CodeOfJoined ==
    ASSUME NEW s \in Seq(Lines), NEW t \in Seq(Lines)
    PROVE  Code(s \o t) = Code(s) \o Code(t)
  <1> DEFINE K == {n \in Nat : \A u \in Seq(Lines) :
                      Len(u) = n => Code(s \o u) = Code(s) \o Code(u)}
  <1>0. Code(s) \in Seq(Lines)
    BY CodeTyped
  <1>1. 0 \in K
    <2> SUFFICES ASSUME NEW u \in Seq(Lines), Len(u) = 0
                 PROVE  Code(s \o u) = Code(s) \o Code(u)
      OBVIOUS
    <2>1. u = <<>>
      BY EmptySeq
    <2>2. s \o u = s /\ Code(u) = <<>>
      BY <2>1, ConcatEmptySeq, CodeOfNone
    <2> QED BY <2>2, <1>0, ConcatEmptySeq
  <1>2. ASSUME NEW n \in Nat, n \in K PROVE n + 1 \in K
    <2> SUFFICES ASSUME NEW u \in Seq(Lines), Len(u) = n + 1
                 PROVE  Code(s \o u) = Code(s) \o Code(u)
      OBVIOUS
    <2> DEFINE v == SubSeq(u, 1, n)
               l == u[n + 1]
    <2>1. v \in Seq(Lines) /\ Len(v) = n /\ l \in Lines
      OBVIOUS
    <2>2. u = Append(v, l)
      OBVIOUS
    <2> HIDE DEF v, l
    <2>3. s \o u = Append(s \o v, l) /\ s \o v \in Seq(Lines)
      <3>1. s \o v \in Seq(Lines)
        BY <2>1, ConcatProperties
      <3> QED BY <2>1, <2>2, <3>1
    <2>4. Code(s \o v) = Code(s) \o Code(v) /\ Code(v) \in Seq(Lines)
      BY <1>2, <2>1, CodeTyped
    <2>5. Code(u) = IF IsCode(l) THEN Append(Code(v), l) ELSE Code(v)
      BY <2>1, <2>2, CodeOfAppended
    <2>6. Code(s \o u) = IF IsCode(l) THEN Append(Code(s \o v), l) ELSE Code(s \o v)
      BY <2>1, <2>3, CodeOfAppended
    <2>8. Append(Code(s) \o Code(v), l) = Code(s) \o Append(Code(v), l)
      <3> DEFINE a == Code(s)
                 b == Code(v)
      <3>1. a \in Seq(Lines) /\ b \in Seq(Lines)
        BY <1>0, <2>4
      <3> HIDE DEF a, b
      <3>2. Append(a \o b, l) = a \o Append(b, l)
        BY <2>1, <3>1, LineAfterLines, Zenon
      <3> QED BY <3>2 DEF a, b
    <2> QED BY <2>4, <2>5, <2>6, <2>8
  <1> HIDE DEF K
  <1>3. Nat \subseteq K
    BY <1>1, <1>2, Inductive
  <1>4. Len(t) \in K
    BY <1>3
  <1> QED BY <1>4 DEF K

-----------------------------------------------------------------------------
(* Counting lines.                                                         *)
Places(l, t) == {i \in 1 .. Len(t) : t[i] = l}

LEMMA PlacesFinite ==
    ASSUME NEW t \in Seq(Lines), NEW l
    PROVE  /\ IsFiniteSet(Places(l, t)) /\ Occurrences(l, t) = Cardinality(Places(l, t))
           /\ Occurrences(l, t) \in Nat
  <1>1. 1 \in Int /\ Len(t) \in Int
    OBVIOUS
  <1>2. IsFiniteSet(1 .. Len(t))
    BY <1>1, FS_Interval
  <1>3. Places(l, t) \in SUBSET (1 .. Len(t))
    BY DEF Places
  <1>4. IsFiniteSet(Places(l, t))
    BY <1>2, <1>3, FS_Subset
  <1>5. Cardinality(Places(l, t)) \in Nat
    BY <1>4, FS_CardinalityType
  <1>6. Occurrences(l, t) = Cardinality(Places(l, t))
    BY Zenon DEF Occurrences, Places
  <1> QED BY <1>4, <1>5, <1>6

LEMMA NotThere ==
    ASSUME NEW t \in Seq(Lines), NEW l, \A i \in 1 .. Len(t) : t[i] # l
    PROVE  Occurrences(l, t) = 0
  <1>1. Places(l, t) = {}
    BY DEF Places
  <1> QED BY <1>1, PlacesFinite, FS_EmptySet

LEMMA NothingThere == \A l : Occurrences(l, <<>>) = 0
  <1> SUFFICES ASSUME NEW l PROVE Occurrences(l, <<>>) = 0
    OBVIOUS
  <1>1. <<>> \in Seq(Lines) /\ 1 .. Len(<<>>) = {}
    OBVIOUS
  <1>2. Places(l, <<>>) = {}
    BY <1>1, Zenon DEF Places
  <1> QED BY <1>1, <1>2, PlacesFinite, FS_EmptySet

LEMMA OccurrencesJoined ==
    ASSUME NEW s \in Seq(Lines), NEW t \in Seq(Lines), NEW l
    PROVE  Occurrences(l, s \o t) = Occurrences(l, s) + Occurrences(l, t)
  <1> DEFINE m == Len(s)
             n == Len(t)
             u == s \o t
             A == Places(l, s)
             B == Places(l, t)
             f == [i \in B |-> i + m]
             C == {i \in (m + 1) .. (m + n) : u[i] = l}
  <1>1. /\ m \in Nat /\ n \in Nat /\ u \in Seq(Lines) /\ Len(u) = m + n
        /\ \A i \in 1 .. m : u[i] = s[i]
        /\ \A i \in 1 .. n : u[i + m] = t[i]
    OBVIOUS
  <1>2. /\ IsFiniteSet(A) /\ Occurrences(l, s) = Cardinality(A)
        /\ IsFiniteSet(B) /\ Occurrences(l, t) = Cardinality(B)
        /\ Occurrences(l, u) = Cardinality(Places(l, u))
        /\ Cardinality(A) \in Nat /\ Cardinality(B) \in Nat
    BY <1>1, PlacesFinite
  <1> HIDE DEF u, m, n
  <1>3. f \in Bijection(B, C)
    <2>1. \A i \in B : i \in 1 .. n /\ t[i] = l
      BY DEF Places, n
    <2>2. ASSUME NEW i \in B PROVE f[i] \in C /\ f[i] = i + m
      BY <2>1, <1>1
    <2>3. \A i, j \in B : f[i] = f[j] => i = j
      <3> TAKE i, j \in B
      <3>1. i \in Nat /\ j \in Nat /\ f[i] = i + m /\ f[j] = j + m
        BY <2>1, <2>2
      <3> HIDE DEF f
      <3> QED BY <3>1, <1>1
    <2>4. ASSUME NEW k \in C PROVE \E i \in B : f[i] = k
      <3>1. k - m \in 1 .. n /\ (k - m) + m = k /\ u[k] = l
        BY <1>1
      <3>2. t[k - m] = l
        BY <3>1, <1>1
      <3>3. k - m \in B
        BY <3>1, <3>2 DEF Places, n
      <3> QED BY <3>1, <3>3, <2>2
    <2>5. f \in [B -> C]
      BY <2>2
    <2>6. f \in Injection(B, C)
      BY <2>3, <2>5 DEF Injection, IsInjective
    <2>7. f \in Surjection(B, C)
      BY <2>4, <2>5 DEF Surjection
    <2> QED BY <2>6, <2>7 DEF Bijection
  <1>4. IsFiniteSet(C) /\ Cardinality(C) = Cardinality(B)
    <2>1. ExistsBijection(B, C)
      BY <1>3 DEF ExistsBijection
    <2> QED BY <1>2, <2>1, FS_Bijection
  <1>5. Places(l, u) = A \cup C
    <2>1. Places(l, u) = {i \in 1 .. (m + n) : u[i] = l}
      BY <1>1 DEF Places
    <2>2. A = {i \in 1 .. m : s[i] = l}
      BY DEF Places, m
    <2>3. \A i : i \in 1 .. (m + n) <=> i \in 1 .. m \/ i \in (m + 1) .. (m + n)
      BY <1>1
    <2> QED BY <2>1, <2>2, <2>3, <1>1
  <1>6. A \cap C = {}
    <2>1. \A i \in A : i \in 1 .. m
      BY DEF Places, m
    <2>2. \A i \in C : i \notin 1 .. m
      BY <1>1
    <2> QED BY <2>1, <2>2
  <1> HIDE DEF A, B, C, f
  <1>7. Cardinality(A \cup C) = Cardinality(A) + Cardinality(C) - Cardinality(A \cap C)
    BY <1>2, <1>4, FS_Union
  <1>8. Cardinality(A \cap C) = 0
    BY <1>6, FS_EmptySet
  <1>9. Cardinality(Places(l, u)) = Cardinality(A) + Cardinality(B)
    BY <1>2, <1>4, <1>5, <1>7, <1>8
  <1> QED BY <1>2, <1>9 DEF u

LEMMA OccurrencesAppended ==
    ASSUME NEW t \in Seq(Lines), NEW x \in Lines, NEW l
    PROVE  Occurrences(l, Append(t, x)) = Occurrences(l, t) + Occurrences(l, <<x>>)
  <1> DEFINE e == <<x>>
  <1>1. e \in Seq(Lines) /\ Append(t, x) = t \o e
    BY AppendIsConcat
  <1> HIDE DEF e
  <1>2. Occurrences(l, Append(t, x)) = Occurrences(l, t) + Occurrences(l, e)
    BY <1>1, OccurrencesJoined
  <1> QED BY <1>2 DEF e

LEMMA OccurrencesOfHead ==
    ASSUME NEW t \in Seq(Lines), t # <<>>, NEW l
    PROVE  Occurrences(l, t) = Occurrences(l, <<Head(t)>>) + Occurrences(l, Tail(t))
  <1> DEFINE e == <<Head(t)>>
             r == Tail(t)
  <1>1. e \in Seq(Lines) /\ r \in Seq(Lines) /\ t = e \o r
    OBVIOUS
  <1> HIDE DEF e, r
  <1>2. Occurrences(l, e \o r) = Occurrences(l, e) + Occurrences(l, r)
    BY <1>1, OccurrencesJoined
  <1> QED BY <1>1, <1>2 DEF e, r

LEMMA NoText ==
    ASSUME NEW x \in Lines, x.kind # "text", NEW f
    PROVE  Occurrences(Text(f), <<x>>) = 0
  <1> DEFINE e == <<x>>
  <1>1. e \in Seq(Lines) /\ \A i \in 1 .. Len(e) : e[i] = x
    OBVIOUS
  <1>2. x # Text(f)
    BY DEF Text
  <1> HIDE DEF e
  <1>3. Occurrences(Text(f), e) = 0
    BY <1>1, <1>2, NotThere
  <1> QED BY <1>3 DEF e

(* The text of one file has none of another.                               *)
LEMMA TextOfAnother ==
    ASSUME NEW g, NEW t \in TextsOf(g), NEW f, f # g
    PROVE  Occurrences(Text(f), t) = 0
  <1>1. t \in Seq(Lines) /\ \A i \in 1 .. Len(t) : t[i] # Text(f)
    BY DEF TextsOf, Text
  <1> QED BY <1>1, NotThere

LEMMA MarkAndOpen ==
    /\ Line("mark") \in Lines /\ Line("open") \in Lines /\ Line("blank") \in Lines
    /\ Line("version") \in Lines
    /\ \A k : Line(k).kind = k
  BY LinesAreLines DEF LineKinds, Line

LEMMA OccurrencesInHeader ==
    ASSUME NEW x \in Lines, NEW f
    PROVE  /\ HeaderWritten(x) \in Seq(Lines)
           /\ Occurrences(Text(f), HeaderWritten(x)) = Occurrences(Text(f), <<x>>)
  <1> DEFINE l == Text(f)
             m == <<Line("mark")>>
             v == <<Line("version")>>
             e == <<x>>
  <1>1. m \in Seq(Lines) /\ v \in Seq(Lines) /\ e \in Seq(Lines)
    BY MarkAndOpen
  <1>2. Occurrences(l, m) = 0 /\ Occurrences(l, v) = 0 /\ Occurrences(l, e) \in Nat
    BY <1>1, MarkAndOpen, NoText, PlacesFinite
  <1>3. HeaderWritten(x) \in {e \o m, e, (v \o m) \o e}
    BY DEF HeaderWritten
  <1> HIDE DEF l, m, v, e
  <1>4. v \o m \in Seq(Lines)
    BY <1>1, ConcatProperties
  <1>5. e \o m \in Seq(Lines) /\ (v \o m) \o e \in Seq(Lines)
    BY <1>1, <1>4, ConcatProperties
  <1>6. /\ Occurrences(l, e \o m) = Occurrences(l, e) + Occurrences(l, m)
        /\ Occurrences(l, v \o m) = Occurrences(l, v) + Occurrences(l, m)
        /\ Occurrences(l, (v \o m) \o e) = Occurrences(l, v \o m) + Occurrences(l, e)
    BY <1>1, <1>4, OccurrencesJoined
  <1>7. Occurrences(l, HeaderWritten(x)) = Occurrences(l, e)
    <2>1. CASE HeaderWritten(x) = e \o m
      <3>1. Occurrences(l, HeaderWritten(x)) = Occurrences(l, e \o m)
        BY <2>1, Zenon
      <3> QED BY <3>1, <1>2, <1>6
    <2>2. CASE HeaderWritten(x) = e
      BY <2>2, Zenon
    <2>3. CASE HeaderWritten(x) = (v \o m) \o e
      <3>1. Occurrences(l, HeaderWritten(x)) = Occurrences(l, (v \o m) \o e)
        BY <2>3, Zenon
      <3> QED BY <3>1, <1>2, <1>6
    <2> QED BY <2>1, <2>2, <2>3, <1>3, Zenon
  <1> QED BY <1>1, <1>3, <1>5, <1>7 DEF l, e

LEMMA OccurrencesInserted ==
    ASSUME NEW x \in Lines, dir[x.file] \in Seq(Lines), NEW f
    PROVE  /\ Inserted(x) \in Seq(Lines)
           /\ Occurrences(Text(f), Inserted(x)) = Occurrences(Text(f), dir[x.file])
  <1> DEFINE l == Text(f)
             m == <<Line("mark")>>
             d == dir[x.file]
             e == Comment(x)
  <1>1. m \in Seq(Lines) /\ d \in Seq(Lines) /\ e \in Seq(Lines)
    BY MarkAndOpen DEF Comment
  <1>2. Occurrences(l, m) = 0
    BY MarkAndOpen, NoText
  <1>3. Occurrences(l, e) = 0
    <2>1. \A i \in 1 .. Len(e) : e[i] = Line("open")
      BY DEF Comment
    <2>2. l # Line("open")
      BY DEF Line, Text
    <2> QED BY <1>1, <2>1, <2>2, NotThere
  <1>4. Inserted(x) = ((m \o d) \o m) \o e
    BY DEF Inserted
  <1> HIDE DEF l, m, d, e
  <1>5. m \o d \in Seq(Lines)
    BY <1>1, ConcatProperties
  <1>6. (m \o d) \o m \in Seq(Lines)
    BY <1>1, <1>5, ConcatProperties
  <1>7. ((m \o d) \o m) \o e \in Seq(Lines)
    BY <1>1, <1>6, ConcatProperties
  <1>8. /\ Occurrences(l, m \o d) = Occurrences(l, m) + Occurrences(l, d)
        /\ Occurrences(l, (m \o d) \o m) = Occurrences(l, m \o d) + Occurrences(l, m)
        /\ Occurrences(l, ((m \o d) \o m) \o e)
               = Occurrences(l, (m \o d) \o m) + Occurrences(l, e)
    BY <1>1, <1>5, <1>6, OccurrencesJoined
  <1>9. Occurrences(l, d) \in Nat
    BY <1>1, PlacesFinite
  <1> QED BY <1>2, <1>3, <1>4, <1>7, <1>8, <1>9 DEF l, d

-----------------------------------------------------------------------------
(* No text of a file that was not inserted yet, and no more of one that    *)
(* was than it has, in the two files of a pass together.                   *)
OnceOf(f) ==
    dir[f] # Missing =>
        Occurrences(Text(f), out) + Occurrences(Text(f), work)
            <= IF f \in AlreadySeen THEN Occurrences(Text(f), dir[f]) ELSE 0

OnceInv == \A f \in Files : OnceOf(f)

LEMMA OnceStep ==
    ASSUME TextsOK, OnceInv, [PPNext]_ppVars, NEW f \in Files
    PROVE  OnceOf(f)'
  <1> DEFINE l == Text(f)
             N(t) == Occurrences(l, t)
             bound == IF f \in AlreadySeen THEN N(dir[f]) ELSE 0
  <1>1. work \in Seq(Lines) /\ out \in Seq(Lines) /\ <<>> \in Seq(Lines)
    BY DEF TextsOK
  <1>2. \A t \in Seq(Lines) : N(t) \in Nat
    BY PlacesFinite
  <1>3. N(<<>>) = 0
    BY NothingThere
  <1>4. SUFFICES ASSUME dir[f] # Missing
                 PROVE  N(out') + N(work') <= IF f \in AlreadySeen' THEN N(dir[f]) ELSE 0
    BY DirStays DEF OnceOf
  <1>5. N(out) + N(work) <= bound
    BY <1>4 DEF OnceInv, OnceOf
  <1>6. dir[f] \in Seq(Lines) /\ dir[f] \in TextsOf(f) /\ N(dir[f]) \in Nat
    BY <1>2, <1>4, TextsAssumption DEF TextsOK, DirOK, TextsOf
  <1>7. work # <<>> => /\ Next1 \in Lines /\ Tail(work) \in Seq(Lines)
                       /\ <<Next1>> \in Seq(Lines)
                       /\ N(work) = N(<<Next1>>) + N(Tail(work))
    BY <1>1, HeadAndTail, OccurrencesOfHead DEF Next1
  <1> HIDE DEF l, N
  <1>a. CASE Begin
    <2>1. PICK text \in Units, tail \in {<<>>, <<Line("blank")>>} : work' = text \o tail
      BY <1>a DEF Begin
    <2>2. text \in TextsOf(Main) /\ text \in Seq(Lines) /\ tail \in Seq(Lines)
      BY TextsAssumption, LinesAreLines DEF TextsOf
    <2>3. N(text) = 0
      BY <2>2, PreprocessorAssumption, TextOfAnother DEF N, l
    <2>4. N(tail) = 0
      BY <1>3, MarkAndOpen, NoText DEF N, l
    <2>5. N(work') = N(text) + N(tail)
      BY <2>1, <2>2, OccurrencesJoined DEF N
    <2>6. out' = <<>> /\ AlreadySeen' = {}
      BY <1>a DEF Begin
    <2> QED BY <2>3, <2>4, <2>5, <2>6, <1>3
  <1>b. CASE \/ BeginFails \/ OpenPass \/ OpenPassFails \/ AnotherPassFails \/ Finish
             \/ FinishFails \/ Exit \/ HeaderEnds \/ IncludeFails \/ UNCHANGED ppVars
    <2>1. out' \in {out, <<>>} /\ work' = work /\ AlreadySeen' = AlreadySeen
      BY <1>b DEF BeginFails, OpenPass, OpenPassFails, AnotherPassFails, Finish, FinishFails,
         Exit, HeaderEnds, IncludeFails, Fail, ppVars, textVars
    <2>2. N(out') = N(out) \/ N(out') = 0
      BY <2>1, <1>3, Zenon
    <2>3. N(out) \in Nat /\ N(work) \in Nat /\ N(work') = N(work)
      BY <2>1, <1>1, <1>2, Zenon
    <2>4. N(out') + N(work') <= N(out) + N(work)
      BY <2>2, <2>3
    <2>5. N(out') \in Nat
      BY <2>2, <2>3
    <2> QED BY <2>1, <2>3, <2>4, <2>5, <1>5, <1>6
  <1>c. CASE HeaderLine \/ CopyLine
    <2>1. /\ work # <<>> /\ work' = Tail(work) /\ AlreadySeen' = AlreadySeen
          /\ out' \in {Append(out, Next1), out, out \o HeaderWritten(Next1)}
      BY <1>c DEF HeaderLine, CopyLine, Copied
    <2>2. /\ N(Append(out, Next1)) = N(out) + N(<<Next1>>)
          /\ HeaderWritten(Next1) \in Seq(Lines)
          /\ N(HeaderWritten(Next1)) = N(<<Next1>>)
      BY <2>1, <1>1, <1>7, OccurrencesAppended, OccurrencesInHeader DEF N, l
    <2>3. N(out \o HeaderWritten(Next1)) = N(out) + N(<<Next1>>)
      BY <2>2, <1>1, OccurrencesJoined DEF N
    <2>4. N(out') = N(out) \/ N(out') = N(out) + N(<<Next1>>)
      BY <2>1, <2>2, <2>3, Zenon
    <2>5. /\ N(out) \in Nat /\ N(<<Next1>>) \in Nat /\ N(Tail(work)) \in Nat
          /\ N(work') = N(Tail(work)) /\ N(work) = N(<<Next1>>) + N(Tail(work))
      BY <2>1, <1>1, <1>2, <1>7, Zenon
    <2> QED BY <2>1, <2>4, <2>5, <1>5, <1>6
  <1>d. CASE IncludeFile
    <2> DEFINE g == Next1.file
    <2>1. /\ work # <<>> /\ Next1.kind = "include" /\ work' = Tail(work)
          /\ out' = out \o Inserted(Next1)
          /\ g \notin AlreadySeen /\ dir[g] # Missing
          /\ AlreadySeen' = AlreadySeen \cup {g}
      BY <1>d DEF IncludeFile, Directive, SeenAfter, NotFound
    <2>2. g \in Files
      BY <2>1, <1>7, LinesAreLines
    <2>3. dir[g] \in TextsOf(g) /\ dir[g] \in Seq(Lines)
      BY <2>1, <2>2, TextsAssumption DEF TextsOK, DirOK, TextsOf
    <2>4. Inserted(Next1) \in Seq(Lines) /\ N(Inserted(Next1)) = N(dir[g])
      BY <2>1, <2>3, <1>7, OccurrencesInserted DEF N, l
    <2>5. N(out') = N(out) + N(dir[g])
      BY <2>1, <2>4, <1>1, OccurrencesJoined DEF N
    <2>6. f # g => N(dir[g]) = 0
      BY <2>3, TextOfAnother DEF N, l
    <2>7. /\ N(work') \in Nat /\ N(work') <= N(work) /\ N(out) \in Nat /\ N(work) \in Nat
          /\ N(dir[g]) \in Nat
      <3>1. /\ N(out) \in Nat /\ N(dir[g]) \in Nat
            /\ N(<<Next1>>) \in Nat /\ N(Tail(work)) \in Nat
            /\ N(work') = N(Tail(work)) /\ N(work) = N(<<Next1>>) + N(Tail(work))
        BY <2>1, <2>3, <1>1, <1>2, <1>7, Zenon
      <3> QED BY <3>1
    <2> HIDE DEF g
    <2>8. CASE f = g
      <3>1. N(out) + N(work) <= 0
        BY <2>1, <2>8, <1>5
      <3> QED BY <3>1, <2>1, <2>5, <2>7, <2>8
    <2>9. CASE f # g
      BY <2>1, <2>5, <2>6, <2>7, <2>9, <1>5, <1>6
    <2> QED BY <2>8, <2>9
  <1>e. CASE IncludeAgain
    <2>1. /\ work # <<>> /\ work' = Tail(work) /\ AlreadySeen' = AlreadySeen /\ out' = out
      BY <1>e DEF IncludeAgain, Directive
    <2>2. /\ N(out) \in Nat /\ N(<<Next1>>) \in Nat /\ N(Tail(work)) \in Nat
          /\ N(work') = N(Tail(work)) /\ N(work) = N(<<Next1>>) + N(Tail(work))
          /\ N(out') = N(out)
      BY <2>1, <1>1, <1>2, <1>7, Zenon
    <2> QED BY <2>1, <2>2, <1>5, <1>6
  <1>f. CASE AnotherPass
    <2>1. /\ work' = Append(out, Line("blank")) /\ out' = <<>>
          /\ AlreadySeen' = AlreadySeen
      BY <1>f DEF AnotherPass
    <2>2. N(work') = N(out) + N(<<Line("blank")>>)
      BY <2>1, <1>1, MarkAndOpen, OccurrencesAppended DEF N
    <2>3. N(<<Line("blank")>>) = 0
      BY MarkAndOpen, NoText DEF N, l
    <2> QED BY <2>1, <2>2, <2>3, <1>1, <1>2, <1>3, <1>5, <1>6
  <1> QED BY <1>a, <1>b, <1>c, <1>d, <1>e, <1>f, Zenon DEF PPNext, Preprocess

(* A file is inserted once in a unit, even by directives of other files and *)
(* in other passes, whatever the texts, and wherever opening a file fails.  *)
THEOREM InsertedOnce == PPSpec => []EachFileOnce
  <1>1. ASSUME PPInit PROVE TextsOK /\ OnceInv
    <2>1. TextsOK
      BY <1>1, PreprocessorInit
    <2>2. out = <<>> /\ work = <<>> /\ AlreadySeen = {} /\ <<>> \in Seq(Lines)
      BY <1>1 DEF PPInit
    <2>3. \A f : Occurrences(Text(f), <<>>) = 0
      BY NothingThere
    <2> QED BY <2>1, <2>2, <2>3 DEF OnceInv, OnceOf
  <1>2. TextsOK /\ OnceInv /\ [PPNext]_ppVars => (TextsOK /\ OnceInv)'
    <2> SUFFICES ASSUME TextsOK, OnceInv, [PPNext]_ppVars
                 PROVE  TextsOK' /\ OnceInv'
      OBVIOUS
    <2>1. \A f \in Files : OnceOf(f)'
      BY OnceStep
    <2> QED BY <2>1, TextsStep DEF OnceInv
  <1>3. ASSUME TextsOK, OnceInv PROVE EachFileOnce
    <2> SUFFICES ASSUME NEW f \in Files, dir[f] # Missing
                 PROVE  Occurrences(Text(f), out \o work) <= Occurrences(Text(f), dir[f])
      BY DEF EachFileOnce
    <2>1. out \in Seq(Lines) /\ work \in Seq(Lines) /\ dir[f] \in Seq(Lines)
      BY <1>3, TextsAssumption DEF TextsOK, DirOK, TextsOf
    <2>2. Occurrences(Text(f), out \o work)
              = Occurrences(Text(f), out) + Occurrences(Text(f), work)
      BY <2>1, OccurrencesJoined
    <2>3. OnceOf(f)
      BY <1>3 DEF OnceInv
    <2>4. /\ Occurrences(Text(f), out) \in Nat /\ Occurrences(Text(f), work) \in Nat
          /\ Occurrences(Text(f), dir[f]) \in Nat
      BY <2>1, PlacesFinite
    <2> QED BY <2>2, <2>3, <2>4 DEF OnceOf
  <1> QED BY <1>1, <1>2, <1>3, PTL DEF PPSpec

-----------------------------------------------------------------------------
(* Directives, version lines and the ends of comments in texts put together. *)
HasVersion(t) == \E k \in 1 .. Len(t) : t[k].kind = "version"
NoInclude(t) == \A i \in 1 .. Len(t) : ~IsInclude(t[i])
EndsSoon(t) ==
    \E k \in 1 .. Len(t) : Closes(t[k]) /\ \A j \in 1 .. (k - 1) : ~IsInclude(t[j])

LEMMA NoneToClose ==
    ASSUME NEW t, NoInclude(t)
    PROVE  Closed(t) /\ VersionFirst(t)
  BY DEF NoInclude, Closed, VersionFirst

LEMMA JoinedLines ==
    ASSUME NEW s \in Seq(Lines), NEW t \in Seq(Lines)
    PROVE  /\ s \o t \in Seq(Lines) /\ Len(s \o t) = Len(s) + Len(t)
           /\ Len(s) \in Nat /\ Len(t) \in Nat
           /\ \A i \in 1 .. Len(s) : (s \o t)[i] = s[i]
           /\ \A i \in 1 .. Len(t) : (s \o t)[i + Len(s)] = t[i]
           /\ \A i \in 1 .. (Len(s) + Len(t)) :
                  i \in 1 .. Len(s) \/ \E j \in 1 .. Len(t) : i = j + Len(s)
  <1>1. /\ s \o t \in Seq(Lines) /\ Len(s \o t) = Len(s) + Len(t)
        /\ Len(s) \in Nat /\ Len(t) \in Nat
        /\ \A i \in 1 .. Len(s) : (s \o t)[i] = s[i]
        /\ \A i \in 1 .. Len(t) : (s \o t)[i + Len(s)] = t[i]
    OBVIOUS
  <1>2. ASSUME NEW i \in 1 .. (Len(s) + Len(t)), i \notin 1 .. Len(s)
        PROVE  \E j \in 1 .. Len(t) : i = j + Len(s)
    <2>1. i - Len(s) \in 1 .. Len(t) /\ i = (i - Len(s)) + Len(s)
      BY <1>1, <1>2
    <2> QED BY <2>1
  <1> QED BY <1>1, <1>2

LEMMA TailLines ==
    ASSUME NEW t \in Seq(Lines), t # <<>>
    PROVE  /\ Head(t) = t[1] /\ Tail(t) \in Seq(Lines) /\ Len(Tail(t)) = Len(t) - 1
           /\ Len(t) \in Nat \ {0} /\ 1 \in 1 .. Len(t) /\ Head(t) \in Lines
           /\ \A i \in 1 .. (Len(t) - 1) : Tail(t)[i] = t[i + 1]
  OBVIOUS

LEMMA NoIncludeJoined ==
    ASSUME NEW s \in Seq(Lines), NEW t \in Seq(Lines), NoInclude(s), NoInclude(t)
    PROVE  NoInclude(s \o t)
  <1> DEFINE u == s \o t
  <1> USE JoinedLines
  <1>1. /\ Len(u) = Len(s) + Len(t)
        /\ \A i \in 1 .. Len(s) : u[i] = s[i]
        /\ \A i \in 1 .. Len(t) : u[i + Len(s)] = t[i]
        /\ \A i \in 1 .. (Len(s) + Len(t)) :
                  i \in 1 .. Len(s) \/ \E j \in 1 .. Len(t) : i = j + Len(s)
    OBVIOUS
  <1> HIDE DEF u
  <1> QED BY <1>1 DEF NoInclude, u

LEMMA HasVersionJoined ==
    ASSUME NEW s \in Seq(Lines), NEW t \in Seq(Lines), HasVersion(s)
    PROVE  HasVersion(s \o t)
  <1>1. PICK k \in 1 .. Len(s) : s[k].kind = "version"
    BY DEF HasVersion
  <1>2. k \in 1 .. Len(s \o t) /\ (s \o t)[k] = s[k]
    BY JoinedLines
  <1> QED BY <1>1, <1>2, Zenon DEF HasVersion

LEMMA VersionFirstJoined ==
    ASSUME NEW s \in Seq(Lines), NEW t \in Seq(Lines), VersionFirst(s),
           HasVersion(s) \/ NoInclude(t)
    PROVE  VersionFirst(s \o t)
  <1> DEFINE u == s \o t
  <1>1. /\ Len(u) = Len(s) + Len(t) /\ Len(s) \in Nat /\ Len(t) \in Nat
        /\ \A i \in 1 .. Len(s) : u[i] = s[i]
        /\ \A i \in 1 .. Len(t) : u[i + Len(s)] = t[i]
        /\ \A i \in 1 .. (Len(s) + Len(t)) :
                  i \in 1 .. Len(s) \/ \E j \in 1 .. Len(t) : i = j + Len(s)
    BY JoinedLines
  <1> HIDE DEF u
  <1>2. ASSUME NEW i \in 1 .. Len(u), IsInclude(u[i])
        PROVE  \E k \in 1 .. (i - 1) : u[k].kind = "version"
    <2>1. CASE i \in 1 .. Len(s)
      <3>1. PICK k \in 1 .. (i - 1) : s[k].kind = "version"
        BY <2>1, <1>1, <1>2 DEF VersionFirst
      <3>2. u[k] = s[k]
        BY <2>1, <1>1
      <3> QED BY <3>1, <3>2
    <2>2. CASE \E j \in 1 .. Len(t) : i = j + Len(s)
      <3>1. PICK j \in 1 .. Len(t) : i = j + Len(s)
        BY <2>2
      <3>2. ~NoInclude(t)
        BY <3>1, <1>1, <1>2 DEF NoInclude
      <3>3. PICK k \in 1 .. Len(s) : s[k].kind = "version"
        BY <3>2 DEF HasVersion
      <3>4. k \in 1 .. (i - 1) /\ u[k] = s[k]
        BY <3>1, <1>1
      <3> QED BY <3>3, <3>4
    <2> QED BY <2>1, <2>2, <1>1
  <1> QED BY <1>2 DEF VersionFirst, u

LEMMA VersionFirstTail ==
    ASSUME NEW t \in Seq(Lines), t # <<>>, VersionFirst(t)
    PROVE  /\ ~IsInclude(Head(t))
           /\ Head(t).kind # "version" => VersionFirst(Tail(t))
  <1> DEFINE r == Tail(t)
  <1>1. /\ Head(t) = t[1] /\ Len(r) = Len(t) - 1
        /\ Len(t) \in Nat \ {0} /\ 1 \in 1 .. Len(t)
        /\ \A i \in 1 .. (Len(t) - 1) : r[i] = t[i + 1]
    BY TailLines
  <1> HIDE DEF r
  <1>2. ~IsInclude(t[1])
    BY <1>1 DEF VersionFirst
  <1>3. ASSUME t[1].kind # "version", NEW i \in 1 .. Len(r), IsInclude(r[i])
        PROVE  \E k \in 1 .. (i - 1) : r[k].kind = "version"
    <2>1. i + 1 \in 1 .. Len(t) /\ r[i] = t[i + 1]
      BY <1>1
    <2>2. PICK k \in 1 .. i : t[k].kind = "version"
      <3>1. \E k \in 1 .. (i + 1 - 1) : t[k].kind = "version"
        BY <2>1, <1>3 DEF VersionFirst
      <3> QED BY <3>1
    <2>3. k # 1
      BY <2>2, <1>3
    <2>4. k - 1 \in 1 .. (i - 1) /\ k - 1 \in 1 .. (Len(t) - 1) /\ (k - 1) + 1 = k
      BY <2>3, <1>1
    <2>5. r[k - 1] = t[k]
      BY <2>4, <1>1
    <2> QED BY <2>2, <2>4, <2>5
  <1> QED BY <1>1, <1>2, <1>3 DEF VersionFirst, r

LEMMA ClosedJoined ==
    ASSUME NEW s \in Seq(Lines), NEW t \in Seq(Lines), Closed(s), Closed(t)
    PROVE  Closed(s \o t)
  <1> DEFINE u == s \o t
  <1>1. /\ Len(u) = Len(s) + Len(t) /\ Len(s) \in Nat /\ Len(t) \in Nat
        /\ \A i \in 1 .. Len(s) : u[i] = s[i]
        /\ \A i \in 1 .. Len(t) : u[i + Len(s)] = t[i]
        /\ \A i \in 1 .. (Len(s) + Len(t)) :
                  i \in 1 .. Len(s) \/ \E j \in 1 .. Len(t) : i = j + Len(s)
    BY JoinedLines
  <1> HIDE DEF u
  <1>2. ASSUME NEW i \in 1 .. Len(u), IsInclude(u[i]), u[i].trail = "open"
        PROVE  \E k \in (i + 1) .. Len(u) :
                   Closes(u[k]) /\ \A j \in (i + 1) .. (k - 1) : ~IsInclude(u[j])
    <2>1. CASE i \in 1 .. Len(s)
      <3>1. PICK k \in (i + 1) .. Len(s) :
                Closes(s[k]) /\ \A j \in (i + 1) .. (k - 1) : ~IsInclude(s[j])
        BY <2>1, <1>1, <1>2 DEF Closed
      <3>2. k \in (i + 1) .. Len(u) /\ k \in 1 .. Len(s) /\ u[k] = s[k]
        BY <2>1, <1>1
      <3>3. \A j \in (i + 1) .. (k - 1) : u[j] = s[j]
        BY <2>1, <3>2, <1>1
      <3> QED BY <3>1, <3>2, <3>3
    <2>2. CASE \E j \in 1 .. Len(t) : i = j + Len(s)
      <3>1. PICK n \in 1 .. Len(t) : i = n + Len(s)
        BY <2>2
      <3>2. u[i] = t[n]
        BY <3>1, <1>1
      <3>3. PICK k \in (n + 1) .. Len(t) :
                Closes(t[k]) /\ \A j \in (n + 1) .. (k - 1) : ~IsInclude(t[j])
        BY <3>2, <1>2 DEF Closed
      <3>4. k + Len(s) \in (i + 1) .. Len(u) /\ k \in 1 .. Len(t)
        BY <3>1, <1>1
      <3>5. u[k + Len(s)] = t[k]
        BY <3>4, <1>1
      <3>6. ASSUME NEW j \in (i + 1) .. (k + Len(s) - 1) PROVE ~IsInclude(u[j])
        <4>1. /\ j - Len(s) \in (n + 1) .. (k - 1) /\ j - Len(s) \in 1 .. Len(t)
              /\ (j - Len(s)) + Len(s) = j
          BY <3>1, <3>4, <1>1
        <4>2. u[j] = t[j - Len(s)]
          BY <4>1, <1>1
        <4> QED BY <4>1, <4>2, <3>3
      <3> QED BY <3>3, <3>4, <3>5, <3>6
    <2> QED BY <2>1, <2>2, <1>1
  <1> QED BY <1>2 DEF Closed, u

LEMMA ClosedTail ==
    ASSUME NEW t \in Seq(Lines), t # <<>>, Closed(t)
    PROVE  /\ Closed(Tail(t))
           /\ IsInclude(Head(t)) /\ Head(t).trail = "open" => EndsSoon(Tail(t))
  <1> DEFINE r == Tail(t)
  <1>1. /\ Head(t) = t[1] /\ Len(r) = Len(t) - 1
        /\ Len(t) \in Nat \ {0} /\ 1 \in 1 .. Len(t)
        /\ \A i \in 1 .. (Len(t) - 1) : r[i] = t[i + 1]
    BY TailLines
  <1> HIDE DEF r
  <1>2. ASSUME NEW n \in 1 .. Len(t), IsInclude(t[n]), t[n].trail = "open"
        PROVE  \E k \in n .. Len(r) :
                   Closes(r[k]) /\ \A j \in n .. (k - 1) : ~IsInclude(r[j])
    <2>1. PICK k \in (n + 1) .. Len(t) :
              Closes(t[k]) /\ \A j \in (n + 1) .. (k - 1) : ~IsInclude(t[j])
      BY <1>2 DEF Closed
    <2>2. k - 1 \in n .. Len(r) /\ k - 1 \in 1 .. (Len(t) - 1) /\ (k - 1) + 1 = k
      BY <1>1
    <2>3. r[k - 1] = t[k]
      BY <2>2, <1>1
    <2>4. ASSUME NEW j \in n .. (k - 1 - 1) PROVE ~IsInclude(r[j])
      <3>1. j + 1 \in (n + 1) .. (k - 1) /\ j \in 1 .. (Len(t) - 1)
        BY <1>1
      <3> QED BY <3>1, <2>1, <1>1
    <2> QED BY <2>1, <2>2, <2>3, <2>4
  <1>3. IsInclude(t[1]) /\ t[1].trail = "open" => EndsSoon(r)
    BY <1>1, <1>2 DEF EndsSoon
  <1>4. ASSUME NEW i \in 1 .. Len(r), IsInclude(r[i]), r[i].trail = "open"
        PROVE  \E k \in (i + 1) .. Len(r) :
                   Closes(r[k]) /\ \A j \in (i + 1) .. (k - 1) : ~IsInclude(r[j])
    <2>1. i + 1 \in 1 .. Len(t) /\ r[i] = t[i + 1]
      BY <1>1
    <2> QED BY <2>1, <1>2, <1>4
  <1> QED BY <1>1, <1>3, <1>4 DEF Closed, r

LEMMA EndsSoonTail ==
    ASSUME NEW t \in Seq(Lines), EndsSoon(t)
    PROVE  /\ t # <<>> /\ ~IsInclude(Head(t))
           /\ Closes(Head(t)) \/ EndsSoon(Tail(t))
  <1>1. PICK k \in 1 .. Len(t) : Closes(t[k]) /\ \A j \in 1 .. (k - 1) : ~IsInclude(t[j])
    BY DEF EndsSoon
  <1>2. t # <<>>
    <2>1. Len(t) \in Nat /\ Len(t) # 0
      BY <1>1
    <2> QED BY <2>1
  <1> DEFINE r == Tail(t)
  <1>3. /\ Head(t) = t[1] /\ Len(r) = Len(t) - 1
        /\ Len(t) \in Nat \ {0} /\ 1 \in 1 .. Len(t)
        /\ \A i \in 1 .. (Len(t) - 1) : r[i] = t[i + 1]
    BY <1>2, TailLines
  <1> HIDE DEF r
  <1>4. CASE k = 1
    BY <1>1, <1>2, <1>3, <1>4 DEF Closes, IsInclude
  <1>5. CASE k # 1
    <2>1. 1 \in 1 .. (k - 1) /\ ~IsInclude(t[1])
      BY <1>1, <1>5
    <2>2. /\ k - 1 \in 1 .. Len(r) /\ k - 1 \in 1 .. (Len(t) - 1) /\ (k - 1) + 1 = k
      BY <1>3, <1>5
    <2>3. r[k - 1] = t[k]
      BY <2>2, <1>3
    <2>4. ASSUME NEW j \in 1 .. (k - 1 - 1) PROVE ~IsInclude(r[j])
      <3>1. j + 1 \in 1 .. (k - 1) /\ j \in 1 .. (Len(t) - 1)
        BY <1>3
      <3> QED BY <3>1, <1>1, <1>3
    <2>5. EndsSoon(r)
      BY <1>1, <2>2, <2>3, <2>4 DEF EndsSoon
    <2> QED BY <1>2, <1>3, <2>1, <2>5 DEF r
  <1> QED BY <1>4, <1>5

-----------------------------------------------------------------------------
(* Up to the version line nothing has been carried out and no comment is   *)
(* open; below it every directive has a version line before it and the end *)
(* of its comment behind it, in what is written as in what is left to read, *)
(* and an open comment ends before the next directive.                     *)
HeadClear == VersionFirst(work) /\ Closed(work) /\ NoInclude(out) /\ ~CCS /\ ~HOP

VersionAhead == VersionFirst(out) /\ (NoInclude(work) \/ HasVersion(out))

CommentsApart ==
    /\ Closed(out) /\ Closed(work)
    /\ InComment => EndsSoon(work)

CommentsInv ==
    /\ pc \in {"open", "header"} => HeadClear
    /\ pc = "open" => out = <<>>
    /\ pc = "expand" => VersionAhead /\ CommentsApart /\ (IC = 0 => NoInclude(out))
    /\ pc = "idle" /\ result # "failed" => ~CCS /\ ~HOP
    /\ pc = "idle" /\ result = "ok" => NoInclude(out)

LEMMA OneLine ==
    ASSUME NEW x \in Lines, ~IsInclude(x)
    PROVE  /\ <<x>> \in Seq(Lines) /\ NoInclude(<<x>>) /\ Closed(<<x>>)
           /\ VersionFirst(<<x>>)
  <1>1. <<x>> \in Seq(Lines) /\ NoInclude(<<x>>)
    BY DEF NoInclude
  <1> QED BY <1>1, NoneToClose

LEMMA NoLine == <<>> \in Seq(Lines) /\ NoInclude(<<>>) /\ Closed(<<>>) /\ VersionFirst(<<>>)
  <1>1. <<>> \in Seq(Lines) /\ NoInclude(<<>>)
    BY DEF NoInclude
  <1> QED BY <1>1, NoneToClose

LEMMA PlainLines ==
    \A k \in {"mark", "open", "blank", "version"} :
        Line(k) \in Lines /\ ~IsInclude(Line(k)) /\ Line(k).kind = k
  BY MarkAndOpen DEF IsInclude, Line

LEMMA BeginApart ==
    ASSUME DirectivesApart, ExitOnError, TextsOK, CommentsInv, Begin
    PROVE  CommentsInv'
  <1>1. PICK text \in Units, tail \in {<<>>, <<Line("blank")>>} : work' = text \o tail
    BY DEF Begin
  <1>2. /\ pc = "idle" /\ result # "failed" /\ pc' = "open" /\ out' = <<>>
        /\ CCS' = CCS /\ HOP' = HOP
    BY DEF Begin, GoesOn
  <1>3. ~CCS' /\ ~HOP'
    BY <1>2 DEF CommentsInv
  <1>4. text \in Seq(Lines) /\ VersionFirst(text) /\ Closed(text)
    BY TextsAssumption DEF DirectivesApart, TextsOf
  <1>5. tail \in Seq(Lines) /\ NoInclude(tail) /\ Closed(tail)
    BY OneLine, NoLine, PlainLines
  <1>6. VersionFirst(work') /\ Closed(work')
    BY <1>1, <1>4, <1>5, VersionFirstJoined, ClosedJoined
  <1> QED BY <1>2, <1>3, <1>6, NoLine DEF CommentsInv, HeadClear

LEMMA HeaderLineApart ==
    ASSUME TextsOK, CommentsInv, HeaderLine
    PROVE  CommentsInv'
  <1>1. /\ pc = "header" /\ work # <<>> /\ work' = Tail(work) /\ HOP' = HOP
        /\ CCS' = CommentAfter(Next1, CCS)
    BY DEF HeaderLine
  <1>2. /\ HeadClear /\ work \in Seq(Lines) /\ out \in Seq(Lines)
    BY <1>1 DEF CommentsInv, TextsOK
  <1>3. /\ ~CCS' /\ ~HOP'
    BY <1>1, <1>2 DEF HeadClear, CommentAfter
  <1>4. /\ Next1 \in Lines /\ ~IsInclude(Next1)
        /\ Next1.kind # "version" => VersionFirst(work')
        /\ Closed(work') /\ work' \in Seq(Lines)
    BY <1>1, <1>2, VersionFirstTail, ClosedTail, TailLines DEF HeadClear, Next1
  <1>5. /\ HeaderWritten(Next1) \in Seq(Lines) /\ NoInclude(HeaderWritten(Next1))
        /\ Next1.kind = "version" => HasVersion(HeaderWritten(Next1))
    <2> DEFINE m == Line("mark")
               v == Line("version")
    <2>1. /\ m \in Lines /\ v \in Lines /\ ~IsInclude(m) /\ ~IsInclude(v)
      BY PlainLines
    <2>2. HeaderWritten(Next1) \in {<<Next1, m>>, <<Next1>>, <<v, m, Next1>>}
      BY DEF HeaderWritten
    <2>3. Next1.kind = "version" => HeaderWritten(Next1) = <<Next1, m>>
      BY DEF HeaderWritten
    <2> HIDE DEF m, v
    <2>4. CASE HeaderWritten(Next1) = <<Next1, m>>
      BY <1>4, <2>1, <2>4 DEF NoInclude, HasVersion
    <2>5. CASE HeaderWritten(Next1) = <<Next1>>
      BY <1>4, <2>1, <2>3, <2>5 DEF NoInclude
    <2>6. CASE HeaderWritten(Next1) = <<v, m, Next1>>
      BY <1>4, <2>1, <2>3, <2>6 DEF NoInclude
    <2> QED BY <2>2, <2>4, <2>5, <2>6
  <1>6. NoInclude(out') /\ out' \in Seq(Lines)
    <2>1. CASE out' = out
      BY <2>1, <1>2 DEF HeadClear
    <2>2. CASE out' = Append(out, Next1)
      <3>1. Append(out, Next1) = out \o <<Next1>>
        BY <1>2, <1>4, AppendIsConcat
      <3> QED BY <2>2, <3>1, <1>2, <1>4, OneLine, NoIncludeJoined, JoinedLines DEF HeadClear
    <2>3. CASE out' = out \o HeaderWritten(Next1)
      BY <2>3, <1>2, <1>5, NoIncludeJoined, JoinedLines DEF HeadClear
    <2> QED BY <2>1, <2>2, <2>3 DEF HeaderLine, Copied
  <1>7. CASE pc' = "header" /\ Next1.kind # "version"
    BY <1>3, <1>4, <1>6, <1>7 DEF CommentsInv, HeadClear
  <1>8. CASE pc' = "expand" /\ Next1.kind = "version" /\ out' = out \o HeaderWritten(Next1)
    <2>1. HasVersion(out')
      <3>1. PICK k \in 1 .. Len(HeaderWritten(Next1)) :
                HeaderWritten(Next1)[k].kind = "version"
        BY <1>5, <1>8 DEF HasVersion
      <3>2. /\ k + Len(out) \in 1 .. Len(out')
            /\ out'[k + Len(out)] = HeaderWritten(Next1)[k]
        BY <1>2, <1>5, <1>8, JoinedLines
      <3> QED BY <3>1, <3>2, Zenon DEF HasVersion
    <2>2. VersionFirst(out') /\ Closed(out')
      BY <1>6, NoneToClose
    <2>3. ~InComment'
      BY <1>3 DEF InComment
    <2> QED BY <2>1, <2>2, <2>3, <1>4, <1>6, <1>8
            DEF CommentsInv, VersionAhead, CommentsApart
  <1>9. \/ pc' = "header" /\ Next1.kind # "version"
        \/ pc' = "expand" /\ Next1.kind = "version" /\ out' = out \o HeaderWritten(Next1)
    <2>1. ~CCS
      BY <1>2 DEF HeadClear
    <2>2. IsComment(Next1, CCS) => Next1.kind # "version"
      BY <2>1 DEF IsComment
    <2> QED BY <2>2, <1>1 DEF HeaderLine
  <1> QED BY <1>7, <1>8, <1>9

LEMMA HeaderEndsApart ==
    ASSUME TextsOK, CommentsInv, HeaderEnds
    PROVE  CommentsInv'
  <1>1. /\ pc = "header" /\ work = <<>> /\ pc' = "expand" /\ work' = work /\ out' = out
        /\ CCS' = CCS /\ HOP' = HOP /\ IC' = IC
    BY DEF HeaderEnds, textVars
  <1>2. HeadClear
    BY <1>1 DEF CommentsInv
  <1>3. VersionFirst(out') /\ Closed(out') /\ Closed(work') /\ NoInclude(work') /\ NoInclude(out')
    BY <1>1, <1>2, NoneToClose, NoLine DEF HeadClear
  <1>4. ~InComment'
    BY <1>1, <1>2 DEF HeadClear, InComment
  <1> QED BY <1>1, <1>3, <1>4 DEF CommentsInv, VersionAhead, CommentsApart

LEMMA NoIncludeTail ==
    ASSUME NEW t \in Seq(Lines), t # <<>>, NoInclude(t)
    PROVE  NoInclude(Tail(t)) /\ ~IsInclude(Head(t))
  <1> DEFINE r == Tail(t)
  <1>1. /\ Head(t) = t[1] /\ Len(r) = Len(t) - 1
        /\ Len(t) \in Nat \ {0} /\ 1 \in 1 .. Len(t)
        /\ \A i \in 1 .. (Len(t) - 1) : r[i] = t[i + 1]
    BY TailLines
  <1> HIDE DEF r
  <1>2. ASSUME NEW i \in 1 .. Len(r) PROVE ~IsInclude(r[i])
    <2>1. i + 1 \in 1 .. Len(t) /\ r[i] = t[i + 1]
      BY <1>1
    <2> QED BY <2>1 DEF NoInclude
  <1> QED BY <1>1, <1>2 DEF NoInclude, r

(* A directive is not copied: it is carried out, or in a comment that ends *)
(* before it.                                                              *)
LEMMA CopyLineApart ==
    ASSUME TextsOK, CommentsInv, CopyLine
    PROVE  CommentsInv' /\ ~IsInclude(Next1)
  <1>1. /\ pc = "expand" /\ pc' = "expand" /\ work # <<>> /\ ~Directive
        /\ work' = Tail(work) /\ out' = Append(out, Next1) /\ IC' = IC
        /\ CCS' = CommentAfter(Next1, InComment) /\ HOP' = FALSE
    BY DEF CopyLine, Copied
  <1>2. /\ VersionAhead /\ CommentsApart /\ (IC = 0 => NoInclude(out))
        /\ work \in Seq(Lines) /\ out \in Seq(Lines)
    BY <1>1 DEF CommentsInv, TextsOK
  <1>3. Next1 = Head(work) /\ Next1 \in Lines /\ work' \in Seq(Lines)
    BY <1>1, <1>2, TailLines DEF Next1
  <1>4. InComment => ~IsInclude(Next1) /\ (Closes(Next1) \/ EndsSoon(work'))
    BY <1>1, <1>2, <1>3, EndsSoonTail DEF CommentsApart
  <1>5. ~IsInclude(Next1)
    <2>1. CASE InComment
      BY <1>4, <2>1
    <2>2. CASE ~InComment
      BY <1>1, <2>2 DEF Directive, IsComment, IsInclude
    <2> QED BY <2>1, <2>2
  <1>6. InComment' => EndsSoon(work')
    BY <1>1, <1>4 DEF InComment, CommentAfter, Closes, EndsComment
  <1>7. out' = out \o <<Next1>>
    BY <1>1, <1>2, <1>3, AppendIsConcat
  <1>8. /\ <<Next1>> \in Seq(Lines) /\ NoInclude(<<Next1>>) /\ Closed(<<Next1>>)
    BY <1>3, <1>5, OneLine
  <1>9. /\ VersionFirst(out') /\ Closed(out') /\ Closed(work')
        /\ NoInclude(out) => NoInclude(out')
        /\ HasVersion(out) => HasVersion(out')
        /\ NoInclude(work) => NoInclude(work')
    <2> DEFINE e == <<Next1>>
    <2>1. e \in Seq(Lines) /\ NoInclude(e) /\ Closed(e) /\ out' = out \o e
      BY <1>7, <1>8
    <2> HIDE DEF e
    <2> QED BY <2>1, <1>1, <1>2, VersionFirstJoined, ClosedJoined, ClosedTail, NoIncludeJoined,
             HasVersionJoined, NoIncludeTail DEF VersionAhead, CommentsApart
  <1> QED BY <1>1, <1>2, <1>5, <1>6, <1>9 DEF CommentsInv, VersionAhead, CommentsApart

LEMMA DirectiveApart ==
    ASSUME TextsOK, CommentsInv, pc = "expand", work # <<>>, IsInclude(Next1)
    PROVE  /\ HasVersion(out) /\ ~InComment
           /\ Next1.trail = "open" => EndsSoon(Tail(work))
           /\ Closed(Tail(work)) /\ (NoInclude(work) => NoInclude(Tail(work)))
           /\ Next1 \in Lines /\ Next1.file \in Files
  <1>1. /\ VersionAhead /\ CommentsApart
        /\ work \in Seq(Lines) /\ out \in Seq(Lines) /\ Next1 = Head(work)
    BY DEF CommentsInv, TextsOK, Next1
  <1>2. HasVersion(out)
    BY <1>1, NoIncludeTail DEF VersionAhead
  <1>3. ~InComment
    BY <1>1, EndsSoonTail DEF CommentsApart
  <1>4. /\ Next1.trail = "open" => EndsSoon(Tail(work))
        /\ Closed(Tail(work))
    BY <1>1, ClosedTail DEF CommentsApart
  <1>5. NoInclude(work) => NoInclude(Tail(work))
    BY <1>1, NoIncludeTail
  <1>6. Next1 \in Lines /\ Next1.file \in Files
    BY <1>1, TailLines, LinesAreLines DEF IsInclude
  <1> QED BY <1>2, <1>3, <1>4, <1>5, <1>6

LEMMA IncludeFileApart ==
    ASSUME DirectivesApart, TextsOK, CommentsInv, IncludeFile
    PROVE  CommentsInv'
  <1>1. /\ pc = "expand" /\ pc' = "expand" /\ work # <<>> /\ IsInclude(Next1)
        /\ work' = Tail(work) /\ out' = out \o Inserted(Next1) /\ IC' = IC + 1
        /\ CCS' = (Next1.trail = "open") /\ HOP' = (Next1.trail = "open")
        /\ dir[Next1.file] # Missing
    BY DEF IncludeFile, Directive, HOPAfter, NotFound, IsInclude
  <1>2. /\ VersionAhead /\ CommentsApart /\ IC \in Nat
        /\ work \in Seq(Lines) /\ out \in Seq(Lines)
    BY <1>1 DEF CommentsInv, TextsOK, CountsOK
  <1>3. /\ HasVersion(out) /\ Next1 \in Lines /\ Next1.file \in Files
        /\ Next1.trail = "open" => EndsSoon(work')
        /\ Closed(work')
    BY <1>1, DirectiveApart
  <1> DEFINE d == dir[Next1.file]
             m == <<Line("mark")>>
             e == Comment(Next1)
  <1>4. d \in Seq(Lines) /\ Closed(Append(d, Line("mark")))
    BY <1>1, <1>3, TextsAssumption DEF TextsOK, DirOK, TextsOf, DirectivesApart
  <1>5. d \o m = Append(d, Line("mark"))
    BY <1>4, PlainLines, AppendIsConcat
  <1>6. m \in Seq(Lines) /\ NoInclude(m) /\ Closed(m)
    BY OneLine, PlainLines
  <1>7. e \in Seq(Lines) /\ Closed(e)
    BY OneLine, NoLine, PlainLines DEF Comment
  <1>8. Inserted(Next1) = ((m \o d) \o m) \o e
    BY DEF Inserted
  <1> HIDE DEF d, m, e
  <1>9. d \o m \in Seq(Lines) /\ Closed(d \o m)
    BY <1>4, <1>5, <1>6, JoinedLines
  <1>10. (m \o d) \o m = m \o (d \o m)
    BY <1>4, <1>6, ConcatAssociative
  <1>11. (m \o d) \o m \in Seq(Lines) /\ Closed((m \o d) \o m)
    BY <1>6, <1>9, <1>10, JoinedLines, ClosedJoined
  <1>12. Inserted(Next1) \in Seq(Lines) /\ Closed(Inserted(Next1))
    BY <1>7, <1>8, <1>11, JoinedLines, ClosedJoined
  <1>13. VersionFirst(out') /\ Closed(out') /\ HasVersion(out')
    BY <1>1, <1>2, <1>3, <1>12, VersionFirstJoined, ClosedJoined, HasVersionJoined
       DEF VersionAhead, CommentsApart
  <1>14. InComment' => EndsSoon(work')
    BY <1>1, <1>3 DEF InComment
  <1>15. IC' # 0
    BY <1>1, <1>2
  <1> QED BY <1>1, <1>3, <1>13, <1>14, <1>15 DEF CommentsInv, VersionAhead, CommentsApart

LEMMA IncludeAgainApart ==
    ASSUME TextsOK, CommentsInv, IncludeAgain
    PROVE  CommentsInv'
  <1>1. /\ pc = "expand" /\ pc' = "expand" /\ work # <<>> /\ IsInclude(Next1)
        /\ work' = Tail(work) /\ out' = out /\ IC' = IC + 1
        /\ CCS' = FALSE /\ HOP' = (Next1.trail = "open")
    BY DEF IncludeAgain, Directive, HOPAfter, IsInclude
  <1>2. VersionAhead /\ CommentsApart /\ IC \in Nat
    BY <1>1 DEF CommentsInv, TextsOK, CountsOK
  <1>3. /\ HasVersion(out) /\ (Next1.trail = "open" => EndsSoon(work')) /\ Closed(work')
    BY <1>1, DirectiveApart
  <1>4. InComment' => EndsSoon(work')
    BY <1>1, <1>3 DEF InComment
  <1>5. IC' # 0
    BY <1>1, <1>2
  <1> QED BY <1>1, <1>2, <1>3, <1>4, <1>5 DEF CommentsInv, VersionAhead, CommentsApart

LEMMA PassEnds ==
    ASSUME CommentsInv, pc = "expand", work = <<>>
    PROVE  ~CCS /\ ~HOP
  <1>1. ~EndsSoon(<<>>)
    BY DEF EndsSoon
  <1> QED BY <1>1 DEF CommentsInv, CommentsApart, InComment

LEMMA AnotherPassApart ==
    ASSUME TextsOK, CommentsInv, AnotherPass
    PROVE  CommentsInv'
  <1>1. /\ pc = "expand" /\ pc' = "open" /\ work = <<>> /\ out' = <<>>
        /\ work' = Append(out, Line("blank")) /\ CCS' = CCS /\ HOP' = HOP
    BY DEF AnotherPass
  <1>2. VersionAhead /\ CommentsApart /\ out \in Seq(Lines)
    BY <1>1 DEF CommentsInv, TextsOK
  <1>3. ~CCS' /\ ~HOP'
    BY <1>1, PassEnds
  <1> DEFINE b == <<Line("blank")>>
  <1>4. /\ b \in Seq(Lines) /\ NoInclude(b) /\ Closed(b) /\ work' = out \o b
    BY <1>1, <1>2, OneLine, PlainLines, AppendIsConcat
  <1> HIDE DEF b
  <1>5. VersionFirst(work') /\ Closed(work')
    BY <1>2, <1>4, VersionFirstJoined, ClosedJoined DEF VersionAhead, CommentsApart
  <1> QED BY <1>1, <1>3, <1>5, NoLine DEF CommentsInv, HeadClear

LEMMA CommentsStep ==
    ASSUME DirectivesApart, ExitOnError, TextsOK, CommentsInv, [PPNext]_ppVars
    PROVE  CommentsInv'
  <1>1. CASE Begin
    BY <1>1, BeginApart
  <1>2. CASE BeginFails \/ OpenPassFails \/ AnotherPassFails \/ FinishFails \/ IncludeFails
    <2>1. pc' = "idle" /\ result' = "failed"
      BY <1>2 DEF BeginFails, GoesOn, OpenPassFails, AnotherPassFails, FinishFails,
         IncludeFails, Fail
    <2> QED BY <2>1 DEF CommentsInv
  <1>3. CASE OpenPass
    <2>1. /\ pc = "open" /\ pc' = "header" /\ work' = work /\ out' = <<>>
          /\ CCS' = CCS /\ HOP' = HOP
      BY <1>3 DEF OpenPass
    <2> QED BY <2>1, NoLine DEF CommentsInv, HeadClear
  <1>4. CASE HeaderLine
    BY <1>4, HeaderLineApart
  <1>5. CASE HeaderEnds
    BY <1>5, HeaderEndsApart
  <1>6. CASE CopyLine
    BY <1>6, CopyLineApart
  <1>7. CASE IncludeFile
    BY <1>7, IncludeFileApart
  <1>8. CASE IncludeAgain
    BY <1>8, IncludeAgainApart
  <1>9. CASE AnotherPass
    BY <1>9, AnotherPassApart
  <1>10. CASE Finish
    <2>1. /\ pc = "expand" /\ work = <<>> /\ IC = 0 /\ pc' = "idle" /\ result' = "ok"
          /\ out' = out /\ CCS' = CCS /\ HOP' = HOP
      BY <1>10 DEF Finish, LastPass, textVars
    <2>2. ~CCS' /\ ~HOP' /\ NoInclude(out')
      BY <2>1, PassEnds DEF CommentsInv
    <2> QED BY <2>1, <2>2 DEF CommentsInv
  <1>11. CASE Exit
    <2>1. pc' = "exited"
      BY <1>11 DEF Exit
    <2> QED BY <2>1 DEF CommentsInv
  <1>12. CASE UNCHANGED ppVars
    <2>1. /\ pc' = pc /\ result' = result /\ work' = work /\ out' = out /\ IC' = IC
          /\ CCS' = CCS /\ HOP' = HOP
      BY <1>12 DEF ppVars, textVars
    <2> QED BY <2>1 DEF CommentsInv, HeadClear, VersionAhead, CommentsApart, InComment
  <1> QED BY <1>1, <1>2, <1>3, <1>4, <1>5, <1>6, <1>7, <1>8, <1>9, <1>10, <1>11, <1>12,
             Zenon DEF PPNext, Preprocess

-----------------------------------------------------------------------------
(* The invariant of the directives.                                        *)
LEMMA CommentsInvariant ==
    ASSUME DirectivesApart, ExitOnError
    PROVE  PPSpec => [](TextsOK /\ AnswersOK /\ CommentsInv)
  <1>1. ASSUME PPInit PROVE CommentsInv
    <2>1. /\ pc = "idle" /\ result = "none" /\ CCS = FALSE /\ HOP = FALSE
      BY <1>1 DEF PPInit
    <2> QED BY <2>1 DEF CommentsInv
  <1>2. ASSUME TextsOK, AnswersOK, CommentsInv, FilesInv, [PPNext]_ppVars
        PROVE  TextsOK' /\ AnswersOK' /\ CommentsInv'
    BY <1>2, TextsStep, AnswersStep, CommentsStep
  <1> QED BY <1>1, <1>2, PreprocessorInit, FilesInvariant, PTL DEF PPSpec

(* What the parser is given has no directive left, when every directive is *)
(* below a version line and the comment behind one ends before the next.   *)
THEOREM DirectivesHandled ==
    ASSUME DirectivesApart, ExitOnError
    PROVE  PPSpec => []IncludesHandled
  <1>1. CommentsInv => IncludesHandled
    BY DEF CommentsInv, NoInclude, IsInclude, IncludesHandled
  <1> QED BY <1>1, CommentsInvariant, PTL

(* And the flags that remember an open comment, static as they are, are    *)
(* down again when the next unit is begun.                                 *)
THEOREM FlagsAreDown ==
    ASSUME DirectivesApart, ExitOnError
    PROVE  PPSpec => []FreshStart
  <1>1. CommentsInv => FreshStart
    BY DEF CommentsInv, FreshStart
  <1> QED BY <1>1, CommentsInvariant, PTL

-----------------------------------------------------------------------------
(* The code in what is written and copied.                                 *)
LEMMA CodeOfLine ==
    ASSUME NEW x \in Lines
    PROVE  Code(<<x>>) = IF IsCode(x) THEN <<x>> ELSE <<>>
  <1>1. <<>> \in Seq(Lines) /\ Append(<<>>, x) = <<x>>
    OBVIOUS
  <1>2. Code(Append(<<>>, x)) = IF IsCode(x) THEN Append(Code(<<>>), x) ELSE Code(<<>>)
    BY <1>1, CodeOfAppended
  <1> QED BY <1>1, <1>2, CodeOfNone

LEMMA CodeOfPlain ==
    \A k \in {"mark", "open", "blank", "version"} :
        Line(k) \in Lines /\ <<Line(k)>> \in Seq(Lines) /\ Code(<<Line(k)>>) = <<>>
  <1> SUFFICES ASSUME NEW k \in {"mark", "open", "blank", "version"}
               PROVE  /\ Line(k) \in Lines /\ <<Line(k)>> \in Seq(Lines)
                      /\ Code(<<Line(k)>>) = <<>>
    OBVIOUS
  <1>1. Line(k) \in Lines /\ ~IsCode(Line(k))
    BY PlainLines DEF IsCode
  <1> QED BY <1>1, CodeOfLine

LEMMA CodeOfHead ==
    ASSUME NEW t \in Seq(Lines), t # <<>>
    PROVE  Code(t) = Code(<<Head(t)>>) \o Code(Tail(t))
  <1> DEFINE e == <<Head(t)>>
             r == Tail(t)
  <1>1. e \in Seq(Lines) /\ r \in Seq(Lines) /\ t = e \o r
    OBVIOUS
  <1> HIDE DEF e, r
  <1>2. Code(e \o r) = Code(e) \o Code(r)
    BY <1>1, CodeOfJoined
  <1> QED BY <1>1, <1>2 DEF e, r

LEMMA CodeInHeader ==
    ASSUME NEW x \in Lines
    PROVE  /\ HeaderWritten(x) \in Seq(Lines) /\ <<x>> \in Seq(Lines)
           /\ Code(HeaderWritten(x)) = Code(<<x>>)
  <1> DEFINE m == <<Line("mark")>>
             v == <<Line("version")>>
             e == <<x>>
  <1>1. /\ m \in Seq(Lines) /\ v \in Seq(Lines) /\ e \in Seq(Lines)
        /\ Code(m) = <<>> /\ Code(v) = <<>>
    BY CodeOfPlain
  <1>2. HeaderWritten(x) \in {e \o m, e, (v \o m) \o e}
    BY DEF HeaderWritten
  <1> HIDE DEF m, v, e
  <1>3. /\ v \o m \in Seq(Lines) /\ e \o m \in Seq(Lines) /\ Code(e) \in Seq(Lines)
    BY <1>1, JoinedLines, CodeTyped
  <1>4. (v \o m) \o e \in Seq(Lines)
    BY <1>1, <1>3, JoinedLines
  <1>5. Code(e \o m) = Code(e)
    <2>1. Code(e \o m) = Code(e) \o Code(m)
      BY <1>1, CodeOfJoined
    <2> QED BY <2>1, <1>1, <1>3, ConcatEmptySeq
  <1>6. Code((v \o m) \o e) = Code(e)
    <2>1. Code((v \o m) \o e) = Code(v \o m) \o Code(e) /\ Code(v \o m) = Code(v) \o Code(m)
      BY <1>1, <1>3, CodeOfJoined
    <2>2. <<>> \o <<>> = <<>>
      OBVIOUS
    <2> QED BY <2>1, <2>2, <1>1, <1>3, ConcatEmptySeq
  <1> QED BY <1>1, <1>2, <1>3, <1>4, <1>5, <1>6, Zenon DEF e

LEMMA CodeInserted ==
    ASSUME NEW x \in Lines, dir[x.file] \in Seq(Lines)
    PROVE  Inserted(x) \in Seq(Lines) /\ Code(Inserted(x)) = Code(dir[x.file])
  <1> DEFINE m == <<Line("mark")>>
             d == dir[x.file]
             e == Comment(x)
  <1>1. /\ m \in Seq(Lines) /\ d \in Seq(Lines) /\ e \in Seq(Lines)
        /\ Code(m) = <<>> /\ Code(e) = <<>>
    BY CodeOfPlain, CodeOfNone DEF Comment
  <1>2. Inserted(x) = ((m \o d) \o m) \o e
    BY DEF Inserted
  <1> HIDE DEF m, d, e
  <1>3. m \o d \in Seq(Lines) /\ Code(d) \in Seq(Lines)
    BY <1>1, JoinedLines, CodeTyped
  <1>4. (m \o d) \o m \in Seq(Lines)
    BY <1>1, <1>3, JoinedLines
  <1>5. ((m \o d) \o m) \o e \in Seq(Lines)
    BY <1>1, <1>4, JoinedLines
  <1>6. Code(m \o d) = Code(d)
    <2>1. Code(m \o d) = Code(m) \o Code(d)
      BY <1>1, CodeOfJoined
    <2> QED BY <2>1, <1>1, <1>3, ConcatEmptySeq
  <1>7. Code((m \o d) \o m) = Code(d)
    <2>1. Code((m \o d) \o m) = Code(m \o d) \o Code(m)
      BY <1>1, <1>3, CodeOfJoined
    <2> QED BY <2>1, <1>1, <1>3, <1>6, ConcatEmptySeq
  <1>8. Code(((m \o d) \o m) \o e) = Code(d)
    <2>1. Code(((m \o d) \o m) \o e) = Code((m \o d) \o m) \o Code(e)
      BY <1>1, <1>4, CodeOfJoined
    <2> QED BY <2>1, <1>1, <1>3, <1>7, ConcatEmptySeq
  <1> QED BY <1>2, <1>5, <1>8, Zenon DEF d

(* The code of a text without directives has none.                         *)
LEMMA NoIncludeInCode ==
    ASSUME NEW t \in Seq(Lines), NoInclude(t)
    PROVE  NoInclude(Code(t))
  <1> DEFINE K == {n \in Nat : \A u \in Seq(Lines) :
                      Len(u) = n /\ NoInclude(u) => NoInclude(Code(u))}
  <1>1. 0 \in K
    <2> SUFFICES ASSUME NEW u \in Seq(Lines), Len(u) = 0 PROVE NoInclude(Code(u))
      OBVIOUS
    <2>1. u = <<>>
      BY EmptySeq
    <2> QED BY <2>1, CodeOfNone, NoLine
  <1>2. ASSUME NEW n \in Nat, n \in K PROVE n + 1 \in K
    <2> SUFFICES ASSUME NEW u \in Seq(Lines), Len(u) = n + 1, NoInclude(u)
                 PROVE  NoInclude(Code(u))
      OBVIOUS
    <2>1. u # <<>>
      OBVIOUS
    <2> DEFINE x == Head(u)
               r == Tail(u)
    <2>2. x \in Lines /\ r \in Seq(Lines) /\ Len(r) = n /\ ~IsInclude(x) /\ NoInclude(r)
      BY <2>1, TailLines, NoIncludeTail
    <2>3. Code(u) = Code(<<x>>) \o Code(r)
      BY <2>1, CodeOfHead
    <2> HIDE DEF x, r
    <2>4. NoInclude(Code(<<x>>)) /\ Code(<<x>>) \in Seq(Lines)
      BY <2>2, CodeOfLine, OneLine, NoLine
    <2>5. NoInclude(Code(r)) /\ Code(r) \in Seq(Lines)
      BY <1>2, <2>2, CodeTyped
    <2> DEFINE a == Code(<<x>>)
               b == Code(r)
    <2> HIDE DEF a, b
    <2>6. NoInclude(a \o b)
      <3>1. a \in Seq(Lines) /\ b \in Seq(Lines) /\ NoInclude(a) /\ NoInclude(b)
        BY <2>4, <2>5 DEF a, b
      <3> QED BY <3>1, NoIncludeJoined
    <2> QED BY <2>3, <2>6 DEF a, b
  <1> HIDE DEF K
  <1>3. Nat \subseteq K
    BY <1>1, <1>2, Inductive
  <1>4. Len(t) \in K
    BY <1>3
  <1> QED BY <1>4 DEF K

-----------------------------------------------------------------------------
(* The refinement: what the passes make of a text, step by step.           *)
AbsText == Code(out \o work)

AbsState ==
    IF Running THEN "expanding"
    ELSE CASE result = "none"   -> "ready"
           [] result = "ok"     -> "done"
           [] result = "failed" -> "failed"

AbsContent == [f \in Files |-> IF dir[f] = Missing THEN Missing ELSE Code(dir[f])]

LEMMA AbsTextIs ==
    ASSUME TextsOK
    PROVE  /\ AbsText = Code(out) \o Code(work)
           /\ Code(out) \in Seq(Lines) /\ Code(work) \in Seq(Lines)
  BY CodeOfJoined, CodeTyped DEF TextsOK, AbsText

(* A step the expansion does not tell from none.                           *)
LEMMA Stutters ==
    ASSUME TextsOK, TextsOK', AnswersOK, AnswersOK', dir' = dir,
           \/ HeaderLine \/ HeaderEnds \/ CopyLine \/ OpenPass \/ AnotherPass \/ Exit
           \/ UNCHANGED ppVars,
           CopyLine => ~IsInclude(Next1), OpenPass => out = <<>>
    PROVE  UNCHANGED <<AbsText, AlreadySeen, AbsState, AbsContent>>
  <1>0. work \in Seq(Lines) /\ out \in Seq(Lines) /\ <<>> \in Seq(Lines)
    BY DEF TextsOK
  <1>a. AbsText = Code(out) \o Code(work) /\ AbsText' = Code(out') \o Code(work')
    <2>1. work' \in Seq(Lines) /\ out' \in Seq(Lines)
      BY DEF TextsOK
    <2>2. AbsText' = Code(out') \o Code(work')
      BY <2>1, CodeOfJoined DEF AbsText
    <2> QED BY <2>2, AbsTextIs
  <1>b. Code(out) \in Seq(Lines) /\ Code(work) \in Seq(Lines)
    BY AbsTextIs
  <1>c. AlreadySeen' = AlreadySeen
    BY DEF HeaderLine, HeaderEnds, CopyLine, OpenPass, AnotherPass, Exit, ppVars, textVars
  <1>d. AbsState' = AbsState
    <2>1. /\ (Running' <=> Running)
          /\ result' = result
      BY DEF HeaderLine, HeaderEnds, CopyLine, OpenPass, AnotherPass, Exit, ppVars, Running
    <2>2. CASE Running
      BY <2>1, <2>2 DEF AbsState
    <2>3. CASE ~Running
      <3>1. result \in {"none", "ok", "failed"}
        BY DEF AnswersOK
      <3> QED BY <2>1, <2>3, <3>1 DEF AbsState
    <2> QED BY <2>2, <2>3
  <1>e. AbsText' = AbsText
    <2>1. CASE HeaderEnds \/ Exit \/ UNCHANGED ppVars
      <3>1. out' = out /\ work' = work
        BY <2>1 DEF HeaderEnds, Exit, ppVars, textVars
      <3> QED BY <3>1, <1>a
    <2>2. CASE OpenPass
      <3>1. out' = out /\ work' = work
        BY <2>2 DEF OpenPass
      <3> QED BY <3>1, <1>a
    <2>3. CASE AnotherPass
      <3>1. work = <<>> /\ out' = <<>> /\ work' = Append(out, Line("blank"))
        BY <2>3 DEF AnotherPass
      <3>2. Line("blank") \in Lines /\ ~IsCode(Line("blank"))
        BY PlainLines DEF IsCode
      <3>3. Code(work') = Code(out)
        BY <1>0, <3>1, <3>2, CodeOfAppended
      <3> DEFINE c == Code(out)
      <3>4. c \in Seq(Lines) /\ AbsText = c \o <<>> /\ AbsText' = <<>> \o c
        BY <1>a, <1>b, <3>1, <3>3, CodeOfNone
      <3> HIDE DEF c
      <3> QED BY <3>4, ConcatEmptySeq
    <2>4. CASE HeaderLine \/ CopyLine
      <3>1. /\ work # <<>> /\ work' = Tail(work)
            /\ \/ out' = Append(out, Next1)
               \/ out' = out \o HeaderWritten(Next1)
               \/ out' = out /\ Next1.kind = "blank"
        BY <2>4 DEF HeaderLine, CopyLine, Copied
      <3>2. /\ Next1 = Head(work) /\ Next1 \in Lines /\ work' \in Seq(Lines)
        BY <1>0, <3>1, TailLines DEF Next1
      <3>3. Code(work) = Code(<<Next1>>) \o Code(work')
        BY <1>0, <3>1, <3>2, CodeOfHead
      <3> DEFINE e == Code(<<Next1>>)
                 a == Code(out)
                 b == Code(work')
      <3>4. /\ <<Next1>> \in Seq(Lines)
            /\ a \in Seq(Lines) /\ b \in Seq(Lines) /\ e \in Seq(Lines)
        BY <1>0, <3>2, CodeTyped, CodeInHeader
      <3>5. Code(out') = a \o e
        <4>1. CASE out' = Append(out, Next1)
          <5>1. Append(out, Next1) = out \o <<Next1>>
            BY <1>0, <3>2, AppendIsConcat
          <5> QED BY <4>1, <5>1, <1>0, <3>4, CodeOfJoined
        <4>2. CASE out' = out \o HeaderWritten(Next1)
          BY <4>2, <1>0, <3>2, CodeInHeader, CodeOfJoined
        <4>3. CASE out' = out /\ Next1.kind = "blank"
          <5>1. e = <<>>
            BY <4>3, <3>2, CodeOfLine DEF IsCode
          <5> HIDE DEF e, a
          <5> QED BY <4>3, <5>1, <3>4, ConcatEmptySeq DEF a
        <4> QED BY <3>1, <4>1, <4>2, <4>3
      <3>6. AbsText = a \o (e \o b) /\ AbsText' = (a \o e) \o b
        BY <1>a, <3>3, <3>5
      <3> HIDE DEF e, a, b
      <3> QED BY <3>4, <3>6, ConcatAssociative
    <2> QED BY <2>1, <2>2, <2>3, <2>4
  <1>f. AbsContent' = AbsContent
    BY DEF AbsContent
  <1> QED BY <1>c, <1>d, <1>e, <1>f

(* The unit as it is taken in, and the text around a directive whose file  *)
(* is inserted, as the refinement sees them.                               *)
LEMMA BegunText ==
    ASSUME TextsOK, TextsOK', Begin
    PROVE  unit' \in Units /\ AbsText' = Code(unit')
  <1>1. PICK text \in Units, tail \in {<<>>, <<Line("blank")>>} :
           unit' = text /\ work' = text \o tail
    BY DEF Begin
  <1>2. out' = <<>>
    BY DEF Begin
  <1>3. /\ text \in Seq(Lines) /\ tail \in Seq(Lines) /\ Code(tail) = <<>>
        /\ Code(text) \in Seq(Lines)
    BY TextsAssumption, CodeOfPlain, CodeOfNone, CodeTyped, NoLine DEF TextsOf
  <1>4. Code(work') = Code(text)
    <2>1. Code(work') = Code(text) \o Code(tail)
      BY <1>1, <1>3, CodeOfJoined
    <2> DEFINE c == Code(text)
    <2>2. c \in Seq(Lines) /\ Code(work') = c \o <<>>
      BY <1>3, <2>1
    <2> HIDE DEF c
    <2> QED BY <2>2, ConcatEmptySeq DEF c
  <1>5. out' \o work' = work'
    BY <1>2, ConcatEmptySeq DEF TextsOK
  <1> QED BY <1>1, <1>4, <1>5 DEF AbsText

InsertedIn(t, u, a, b, d, x) == t = a \o (<<x>> \o b) /\ u = (a \o d) \o b

LEMMA InsertedText ==
    ASSUME TextsOK, TextsOK', IncludeFile, NEW a, a = Code(out), NEW b, b = Code(Tail(work)),
           NEW d, d = Content(Next1.file)
    PROVE  /\ a \in Seq(Lines) /\ b \in Seq(Lines) /\ d \in Seq(Lines)
           /\ Next1 \in Lines /\ IsInclude(Next1) /\ Next1.file \in Files
           /\ dir[Next1.file] # Missing /\ d = Code(dir[Next1.file])
           /\ InsertedIn(AbsText, AbsText', a, b, d, Next1)
  <1> DEFINE f == Next1.file
  <1>1. /\ work # <<>> /\ IsInclude(Next1)
        /\ work' = Tail(work) /\ out' = out \o Inserted(Next1)
        /\ f \notin AlreadySeen /\ dir[f] # Missing
    BY DEF IncludeFile, Directive, NotFound, IsInclude
  <1>2. /\ work \in Seq(Lines) /\ out \in Seq(Lines) /\ Next1 = Head(work)
        /\ Next1 \in Lines /\ Tail(work) \in Seq(Lines)
    BY <1>1, TailLines DEF TextsOK, Next1
  <1>3. f \in Files
    BY <1>1, <1>2, LinesAreLines DEF IsInclude
  <1>4. dir[f] \in Seq(Lines) /\ Code(dir[f]) \in Seq(Lines)
    BY <1>1, <1>3, TextsAssumption, CodeTyped DEF TextsOK, DirOK, TextsOf
  <1>5. d = Code(dir[f])
    BY <1>1 DEF Content
  <1>6. a \in Seq(Lines) /\ b \in Seq(Lines) /\ AbsText = a \o Code(work)
    BY <1>2, AbsTextIs, CodeTyped
  <1>7. AbsText = a \o (<<Next1>> \o b)
    <2>1. Code(<<Next1>>) = <<Next1>>
      BY <1>1, <1>2, CodeOfLine DEF IsCode, IsInclude
    <2> QED BY <1>1, <1>2, <1>6, <2>1, CodeOfHead
  <1>8. AbsText' = (a \o d) \o b
    <2>1. work' \in Seq(Lines) /\ out' \in Seq(Lines)
      BY DEF TextsOK
    <2>2. AbsText' = Code(out') \o b
      BY <1>1, <2>1, CodeOfJoined DEF AbsText
    <2>3. Inserted(Next1) \in Seq(Lines) /\ Code(Inserted(Next1)) = d
      BY <1>2, <1>4, <1>5, CodeInserted
    <2>4. Code(out') = a \o d
      BY <1>1, <1>2, <2>3, CodeOfJoined
    <2> QED BY <2>2, <2>4
  <1> QED BY <1>1, <1>2, <1>3, <1>4, <1>5, <1>6, <1>7, <1>8, Zenon DEF InsertedIn

LEMMA BeginStarts ==
    ASSUME TextsOK, TextsOK', AnswersOK, dir' = dir, Begin
    PROVE  Expansions!Start
  <1>1. pc = "idle" /\ pc' = "open" /\ AlreadySeen' = {}
    BY DEF Begin, GoesOn
  <1>2. unit' \in Units /\ AbsText' = Code(unit')
    BY BegunText
  <1>3. AbsState # "expanding" /\ AbsState' = "expanding"
    <2>1. ~Running /\ Running' /\ result \in {"none", "ok", "failed"}
      BY <1>1 DEF Running, AnswersOK
    <2>2. AbsState' = "expanding"
      BY <2>1 DEF AbsState
    <2>3. AbsState \in {"ready", "done", "failed"}
      BY <2>1 DEF AbsState
    <2> QED BY <2>2, <2>3
  <1>4. AbsContent' = AbsContent
    BY DEF AbsContent
  <1> QED BY <1>1, <1>2, <1>3, <1>4 DEF Expansions!Start, AbsText, AbsState, AbsContent

LEMMA FailGivesUp ==
    ASSUME AnswersOK, dir' = dir,
           BeginFails \/ OpenPassFails \/ IncludeFails \/ AnotherPassFails \/ FinishFails
    PROVE  Expansions!ExpansionNext
  <1>1. /\ out' = out /\ work' = work /\ AlreadySeen' = AlreadySeen
        /\ pc' = "idle" /\ result' = "failed"
    BY DEF BeginFails, GoesOn, OpenPassFails, IncludeFails, AnotherPassFails, FinishFails,
       Fail, textVars
  <1>2. AbsState' = "failed" /\ AbsText' = AbsText /\ AbsContent' = AbsContent
    BY <1>1 DEF AbsState, AbsText, AbsContent, Running
  <1>3. CASE AbsState = "expanding"
    <2>1. Expansions!GiveUp
      BY <1>1, <1>2, <1>3 DEF Expansions!GiveUp, AbsText, AbsState, AbsContent
    <2> QED BY <2>1 DEF Expansions!ExpansionNext, Expansions!Step
  <1>4. CASE AbsState # "expanding"
    <2>1. Expansions!Refuse
      BY <1>1, <1>2, <1>4 DEF Expansions!Refuse, AbsText, AbsState, AbsContent
    <2> QED BY <2>1 DEF Expansions!ExpansionNext
  <1> QED BY <1>3, <1>4

Around(a, x, b) == a \o (<<x>> \o b)

SplitAt(t, i, a, x, b) ==
    /\ i \in 1 .. Len(t) /\ t[i] = x
    /\ SubSeq(t, 1, i - 1) = a /\ SubSeq(t, i + 1, Len(t)) = b

LEMMA AroundALine ==
    ASSUME NEW a \in Seq(Lines), NEW b \in Seq(Lines), NEW x \in Lines
    PROVE  SplitAt(Around(a, x, b), Len(a) + 1, a, x, b)
  <1> DEFINE t == Around(a, x, b)
             i == Len(a) + 1
  <1>1. /\ Len(a) \in Nat /\ Len(b) \in Nat /\ t \in Seq(Lines)
        /\ Len(t) = Len(a) + (1 + Len(b))
    BY DEF Around
  <1>2. /\ \A k \in 1 .. Len(a) : t[k] = a[k]
        /\ t[Len(a) + 1] = x
        /\ \A k \in 1 .. Len(b) : t[Len(a) + 1 + k] = b[k]
    BY DEF Around
  <1> HIDE DEF t
  <1>3. SubSeq(t, 1, i - 1) = a
    <2> DEFINE s == SubSeq(t, 1, i - 1)
    <2>1. s \in Seq(Lines) /\ Len(s) = Len(a) /\ \A k \in 1 .. Len(a) : s[k] = t[k]
      BY <1>1
    <2> HIDE DEF s
    <2> QED BY <2>1, <1>2, SeqEqual
  <1>4. SubSeq(t, i + 1, Len(t)) = b
    <2> DEFINE s == SubSeq(t, i + 1, Len(t))
    <2>1. /\ s \in Seq(Lines) /\ Len(s) = Len(b)
          /\ \A k \in 1 .. Len(b) : s[k] = t[Len(a) + 1 + k]
      BY <1>1
    <2> HIDE DEF s
    <2>2. \A k \in 1 .. Len(s) : s[k] = b[k]
      BY <2>1, <1>2
    <2>3. s = b
      BY <2>1, <2>2, SeqEqual
    <2> QED BY <2>3 DEF s
  <1> QED BY <1>1, <1>2, <1>3, <1>4 DEF SplitAt, t

LEMMA DirectiveInText ==
    ASSUME TextsOK, work # <<>>, IsInclude(Next1), NEW i, i = Len(Code(out)) + 1
    PROVE  /\ i \in 1 .. Len(AbsText) /\ AbsText[i] = Next1
           /\ SubSeq(AbsText, 1, i - 1) = Code(out)
           /\ SubSeq(AbsText, i + 1, Len(AbsText)) = Code(Tail(work))
           /\ Code(out) \in Seq(Lines) /\ Code(Tail(work)) \in Seq(Lines)
           /\ Next1 \in Lines /\ Next1.file \in Files
  <1>1. work \in Seq(Lines) /\ Next1 = Head(work) /\ Next1 \in Lines /\ Tail(work) \in Seq(Lines)
    BY TailLines DEF TextsOK, Next1
  <1>2. Code(<<Next1>>) = <<Next1>>
    BY <1>1, CodeOfLine DEF IsCode, IsInclude
  <1>3. AbsText = Code(out) \o (<<Next1>> \o Code(Tail(work)))
    BY <1>1, <1>2, AbsTextIs, CodeOfHead
  <1>4. Code(out) \in Seq(Lines) /\ Code(Tail(work)) \in Seq(Lines)
    BY <1>1, AbsTextIs, CodeTyped
  <1>5. AbsText = Around(Code(out), Next1, Code(Tail(work)))
    BY <1>3 DEF Around
  <1>6. SplitAt(AbsText, i, Code(out), Next1, Code(Tail(work)))
    BY <1>1, <1>4, <1>5, AroundALine, Zenon
  <1>7. Next1.file \in Files
    BY <1>1, LinesAreLines DEF IsInclude
  <1> QED BY <1>1, <1>4, <1>6, <1>7, Zenon DEF SplitAt

LEMMA IncludeFileExpands ==
    ASSUME TextsOK, TextsOK', dir' = dir, IncludeFile
    PROVE  Expansions!ExpansionNext
  <1> DEFINE f == Next1.file
             i == Len(Code(out)) + 1
  <1>1. /\ pc = "expand" /\ pc' = pc /\ work # <<>> /\ IsInclude(Next1)
        /\ work' = Tail(work) /\ out' = out \o Inserted(Next1)
        /\ f \notin AlreadySeen /\ dir[f] # Missing
        /\ AlreadySeen' = AlreadySeen \cup {f} /\ result' = result
    BY DEF IncludeFile, Directive, SeenAfter, NotFound, IsInclude
  <1>2. /\ i \in 1 .. Len(AbsText) /\ AbsText[i] = Next1
        /\ SubSeq(AbsText, 1, i - 1) = Code(out)
        /\ SubSeq(AbsText, i + 1, Len(AbsText)) = Code(work')
        /\ Next1 \in Lines /\ f \in Files
    BY <1>1, DirectiveInText
  <1>3. /\ Code(dir[f]) \in Seq(Lines)
        /\ AbsText' = (Code(out) \o Code(dir[f])) \o Code(work')
    BY <1>1, InsertedText DEF InsertedIn
  <1>4. AbsContent[f] = Code(dir[f]) /\ AbsContent[f] # Missing /\ AbsContent' = AbsContent
    BY <1>1, <1>2, <1>3, TextsAssumption DEF AbsContent
  <1>5. AbsState = "expanding" /\ AbsState' = "expanding"
    BY <1>1 DEF AbsState, Running
  <1> HIDE DEF i
  <1>6. Expansions!Expand(i)
    BY <1>1, <1>2, <1>3, <1>4, <1>5
       DEF Expansions!Expand, Expansions!IsDirective, Expansions!Before, Expansions!After,
           AbsText, AbsState, AbsContent, IsInclude
  <1> QED BY <1>2, <1>6 DEF Expansions!ExpansionNext, Expansions!Step, AbsText

LEMMA IncludeAgainDrops ==
    ASSUME TextsOK, TextsOK', dir' = dir, IncludeAgain
    PROVE  Expansions!ExpansionNext
  <1> DEFINE f == Next1.file
             i == Len(Code(out)) + 1
  <1>1. /\ pc = "expand" /\ pc' = pc /\ work # <<>> /\ IsInclude(Next1)
        /\ work' = Tail(work) /\ out' = out
        /\ f \in AlreadySeen /\ AlreadySeen' = AlreadySeen /\ result' = result
    BY DEF IncludeAgain, Directive, IsInclude
  <1>2. /\ i \in 1 .. Len(AbsText) /\ AbsText[i] = Next1
        /\ SubSeq(AbsText, 1, i - 1) = Code(out)
        /\ SubSeq(AbsText, i + 1, Len(AbsText)) = Code(work')
    BY <1>1, DirectiveInText
  <1>3. AbsText' = Code(out) \o Code(work')
    <2>1. work' \in Seq(Lines) /\ out' \in Seq(Lines)
      BY DEF TextsOK
    <2> QED BY <1>1, <2>1, CodeOfJoined DEF AbsText
  <1>4. AbsState = "expanding" /\ AbsState' = "expanding" /\ AbsContent' = AbsContent
    BY <1>1 DEF AbsState, Running, AbsContent
  <1> HIDE DEF i
  <1>5. Expansions!Drop(i)
    BY <1>1, <1>2, <1>3, <1>4
       DEF Expansions!Drop, Expansions!IsDirective, Expansions!Before, Expansions!After,
           AbsText, AbsState, AbsContent, IsInclude
  <1> QED BY <1>2, <1>5 DEF Expansions!ExpansionNext, Expansions!Step, AbsText

LEMMA FinishCompletes ==
    ASSUME TextsOK, CommentsInv, dir' = dir, Finish
    PROVE  Expansions!ExpansionNext
  <1>1. /\ pc = "expand" /\ pc' = "idle" /\ work = <<>> /\ IC = 0 /\ result' = "ok"
        /\ out' = out /\ work' = work /\ AlreadySeen' = AlreadySeen
    BY DEF Finish, LastPass, textVars
  <1>2. out \in Seq(Lines) /\ NoInclude(out)
    BY <1>1 DEF CommentsInv, TextsOK
  <1>3. out \o work = out
    BY <1>1, <1>2, ConcatEmptySeq
  <1>4. NoInclude(AbsText)
    BY <1>2, <1>3, NoIncludeInCode DEF AbsText
  <1>5. /\ AbsText' = AbsText /\ AbsContent' = AbsContent
        /\ AbsState = "expanding" /\ AbsState' = "done"
    BY <1>1 DEF AbsText, AbsState, AbsContent, Running
  <1>6. ~\E i \in 1 .. Len(AbsText) : AbsText[i].kind = "include"
    BY <1>4 DEF NoInclude, IsInclude
  <1>7. Expansions!Complete
    BY <1>1, <1>5, <1>6 DEF Expansions!Complete, Expansions!IsDirective,
       AbsText, AbsState, AbsContent
  <1> QED BY <1>7 DEF Expansions!ExpansionNext, Expansions!Step

LEMMA PassesStep ==
    ASSUME TextsOK, TextsOK', AnswersOK, AnswersOK', CommentsInv, [PPNext]_ppVars
    PROVE  [Expansions!ExpansionNext]_(Expansions!expansionVars)
  <1>0. dir' = dir
    BY DirStays
  <1>1. CASE Begin
    BY <1>0, <1>1, BeginStarts DEF Expansions!ExpansionNext
  <1>2. CASE BeginFails \/ OpenPassFails \/ IncludeFails \/ AnotherPassFails \/ FinishFails
    BY <1>0, <1>2, FailGivesUp
  <1>3. CASE IncludeFile
    BY <1>0, <1>3, IncludeFileExpands
  <1>4. CASE IncludeAgain
    BY <1>0, <1>4, IncludeAgainDrops
  <1>5. CASE Finish
    BY <1>0, <1>5, FinishCompletes
  <1>6. CASE \/ HeaderLine \/ HeaderEnds \/ CopyLine \/ OpenPass \/ AnotherPass \/ Exit
             \/ UNCHANGED ppVars
    <2>1. CopyLine => ~IsInclude(Next1)
      BY CopyLineApart
    <2>2. OpenPass => out = <<>>
      BY DEF OpenPass, CommentsInv
    <2>4. UNCHANGED <<AbsText, AlreadySeen, AbsState, AbsContent>>
      BY <1>0, <1>6, <2>1, <2>2, Stutters
    <2> QED BY <2>4 DEF Expansions!expansionVars, AbsText, AbsState, AbsContent
  <1> QED BY <1>1, <1>2, <1>3, <1>4, <1>5, <1>6, Zenon DEF PPNext, Preprocess

(* The passes carry out the expansion of directives one by one, each giving *)
(* way to the code of its file or to nothing where it stands, until none is *)
(* left or one cannot be carried out; nothing else changes the code.       *)
THEOREM PassesExpand ==
    ASSUME DirectivesApart, ExitOnError
    PROVE  PPSpec => ImplementsExpansion
  <1>1. ASSUME PPInit PROVE Expansions!ExpansionInit
    <2>1. /\ out = <<>> /\ work = <<>> /\ AlreadySeen = {} /\ pc = "idle"
          /\ result = "none"
      BY <1>1 DEF PPInit
    <2>2. out \o work = <<>>
      BY <2>1
    <2>3. AbsText = <<>>
      BY <2>2, CodeOfNone DEF AbsText
    <2>4. AbsState = "ready"
      BY <2>1 DEF AbsState, Running
    <2> QED BY <2>1, <2>3, <2>4 DEF Expansions!ExpansionInit, AbsText, AbsState
  <1>2. TextsOK /\ TextsOK' /\ AnswersOK /\ AnswersOK' /\ CommentsInv /\ [PPNext]_ppVars
            => [Expansions!ExpansionNext]_(Expansions!expansionVars)
    BY PassesStep
  <1> QED BY <1>1, <1>2, CommentsInvariant, PTL
          DEF PPSpec, ImplementsExpansion, Expansions!ExpansionSteps

-----------------------------------------------------------------------------
(* A text read with its directives replaced: as for Code, by the equation  *)
(* it solves, line after line and text after text.                         *)
AllReadings == [Files -> Seq(Lines)]

ReadUpTo(t, r, n, c) ==
    /\ c \in [0 .. n -> Seq(Lines)]
    /\ \A i \in 0 .. n : c[i] = IF i = 0 THEN <<>> ELSE c[i - 1] \o LineAs(t[i], r)

(* A name for putting together, for leaves that need not look inside.      *)
Joined(s, t) == s \o t

LEMMA LineTyped ==
    ASSUME NEW l \in Lines, NEW r \in AllReadings
    PROVE  LineAs(l, r) \in Seq(Lines)
  <1>1. CASE IsInclude(l)
    <2>1. l.file \in Files
      BY <1>1, LinesAreLines DEF IsInclude
    <2>2. r[l.file] \in Seq(Lines)
      BY <2>1 DEF AllReadings
    <2> QED BY <1>1, <2>2 DEF LineAs
  <1>2. CASE ~IsInclude(l)
    BY <1>2 DEF LineAs
  <1> QED BY <1>1, <1>2

LEMMA ReadStarts ==
    ASSUME NEW t, NEW r, NEW n \in Nat, NEW c, ReadUpTo(t, r, n, c)
    PROVE  c[0] = <<>>
  <1>1. 0 \in 0 .. n
    OBVIOUS
  <1>2. c[0] = IF 0 = 0 THEN <<>> ELSE c[0 - 1] \o LineAs(t[0], r)
    BY <1>1, Zenon DEF ReadUpTo
  <1> QED BY <1>2, Zenon

LEMMA ReadNext ==
    ASSUME NEW t, NEW r, NEW n \in Nat, NEW c, ReadUpTo(t, r, n, c),
           NEW i \in Nat, NEW j \in 0 .. n, j = i + 1
    PROVE  c[j] = Joined(c[i], LineAs(t[j], r))
  <1>1. j # 0 /\ j - 1 = i
    OBVIOUS
  <1>2. c[j] = IF j = 0 THEN <<>> ELSE c[j - 1] \o LineAs(t[j], r)
    BY DEF ReadUpTo
  <1> QED BY <1>1, <1>2, Zenon DEF Joined

LEMMA ReadExtends ==
    ASSUME NEW t \in Seq(Lines), NEW r \in AllReadings, NEW n \in Nat, n < Len(t),
           NEW c, ReadUpTo(t, r, n, c)
    PROVE  \E d : ReadUpTo(t, r, n + 1, d)
  <1>1. t[n + 1] \in Lines /\ n \in 0 .. n /\ c[n] \in Seq(Lines)
    BY DEF ReadUpTo
  <1> DEFINE x == LineAs(t[n + 1], r)
             last == c[n] \o x
             d == [i \in 0 .. (n + 1) |-> IF i <= n THEN c[i] ELSE last]
  <1>2. last \in Seq(Lines)
    <2>1. x \in Seq(Lines)
      BY <1>1, LineTyped
    <2> HIDE DEF x
    <2> QED BY <1>1, <2>1, ConcatProperties
  <1> HIDE DEF last
  <1>3. d \in [0 .. (n + 1) -> Seq(Lines)]
    <2>1. \A i \in 0 .. (n + 1) : i <= n => c[i] \in Seq(Lines)
      BY DEF ReadUpTo
    <2> QED BY <1>2, <2>1
  <1>4. ASSUME NEW i \in 0 .. (n + 1)
        PROVE  d[i] = IF i = 0 THEN <<>> ELSE d[i - 1] \o LineAs(t[i], r)
    <2>1. CASE i <= n
      <3>1. d[i] = c[i] /\ (i # 0 => d[i - 1] = c[i - 1])
        BY <2>1
      <3> HIDE DEF d
      <3>2. i \in 0 .. n
        BY <2>1
      <3>3. c[i] = IF i = 0 THEN <<>> ELSE c[i - 1] \o LineAs(t[i], r)
        BY <3>2 DEF ReadUpTo
      <3> QED BY <3>1, <3>3, Zenon
    <2>2. CASE i = n + 1
      <3>1. d[i] = last /\ d[i - 1] = c[n] /\ i # 0
        <4>1. i \in 0 .. (n + 1) /\ ~(i <= n) /\ i - 1 = n /\ n \in 0 .. (n + 1) /\ n <= n
          BY <2>2
        <4>2. d[i] = last /\ d[n] = c[n]
          BY <4>1
        <4> HIDE DEF d
        <4> QED BY <4>1, <4>2
      <3> HIDE DEF d
      <3> QED BY <2>2, <3>1 DEF last
    <2> QED BY <2>1, <2>2
  <1> HIDE DEF d
  <1> QED BY <1>3, <1>4 DEF ReadUpTo

LEMMA ReadIsThere ==
    ASSUME NEW t \in Seq(Lines), NEW r \in AllReadings
    PROVE  \A n \in Nat : n <= Len(t) => \E c : ReadUpTo(t, r, n, c)
  <1> DEFINE K == {n \in Nat : n <= Len(t) => \E c : ReadUpTo(t, r, n, c)}
  <1>1. 0 \in K
    <2> DEFINE c == [i \in 0 .. 0 |-> <<>>]
    <2>1. c \in [0 .. 0 -> Seq(Lines)] /\ c[0] = <<>>
      OBVIOUS
    <2> HIDE DEF c
    <2>2. ReadUpTo(t, r, 0, c)
      BY <2>1 DEF ReadUpTo
    <2> QED BY <2>2
  <1>2. ASSUME NEW n \in Nat, n \in K PROVE n + 1 \in K
    <2> SUFFICES ASSUME n + 1 <= Len(t) PROVE \E c : ReadUpTo(t, r, n + 1, c)
      OBVIOUS
    <2>1. n < Len(t)
      OBVIOUS
    <2>2. PICK c : ReadUpTo(t, r, n, c)
      BY <1>2, <2>1
    <2> QED BY <2>1, <2>2, ReadExtends
  <1> HIDE DEF K
  <1>3. Nat \subseteq K
    BY <1>1, <1>2, Inductive
  <1> QED BY <1>3 DEF K

(* The equation has one solution on each prefix.                           *)
LEMMA ReadIsUnique ==
    ASSUME NEW t, NEW r, NEW m \in Nat, NEW n \in Nat, m <= n,
           NEW c, ReadUpTo(t, r, m, c), NEW d, ReadUpTo(t, r, n, d)
    PROVE  \A i \in 0 .. m : c[i] = d[i]
  <1> DEFINE K == {i \in Nat : i <= m => c[i] = d[i]}
  <1>1. 0 \in K
    BY ReadStarts
  <1>2. ASSUME NEW i \in Nat, i \in K PROVE i + 1 \in K
    <2> SUFFICES ASSUME i + 1 <= m PROVE c[i + 1] = d[i + 1]
      OBVIOUS
    <2>1. c[i] = d[i] /\ i + 1 \in 0 .. m /\ i + 1 \in 0 .. n
      BY <1>2
    <2>2. PICK j \in 0 .. m : j = i + 1
      BY <2>1
    <2>3. j \in 0 .. n
      OBVIOUS
    <2>4. c[j] = Joined(c[i], LineAs(t[j], r))
      BY <2>2, ReadNext
    <2>5. d[j] = Joined(d[i], LineAs(t[j], r))
      BY <2>2, <2>3, ReadNext
    <2> QED BY <2>1, <2>2, <2>4, <2>5, Zenon
  <1> HIDE DEF K
  <1>3. Nat \subseteq K
    BY <1>1, <1>2, Inductive
  <1> QED BY <1>3 DEF K

LEMMA ReadIsIt ==
    ASSUME NEW t \in Seq(Lines), NEW r, NEW c, ReadUpTo(t, r, Len(t), c)
    PROVE  ReadAs(t, r) = c[Len(t)] /\ ReadAs(t, r) \in Seq(Lines)
  <1> DEFINE R == CHOOSE e : e = [i \in 0 .. Len(t) |->
                                 IF i = 0 THEN <<>> ELSE e[i - 1] \o LineAs(t[i], r)]
  <1>1. c = [i \in 0 .. Len(t) |-> IF i = 0 THEN <<>> ELSE c[i - 1] \o LineAs(t[i], r)]
    BY DEF ReadUpTo
  <1>2. R = [i \in 0 .. Len(t) |-> IF i = 0 THEN <<>> ELSE R[i - 1] \o LineAs(t[i], r)]
    BY <1>1, Zenon
  <1>3. ReadAs(t, r) = R[Len(t)]
    BY DEF ReadAs
  <1> HIDE DEF R
  <1>4. Len(t) \in Nat
    OBVIOUS
  <1>5. \A i \in 0 .. Len(t) : R[i] = IF i = 0 THEN <<>> ELSE R[i - 1] \o LineAs(t[i], r)
    BY <1>2, Zenon
  <1> DEFINE K == {i \in Nat : i <= Len(t) => R[i] = c[i]}
  <1>6. 0 \in K
    <2>1. R[0] = IF 0 = 0 THEN <<>> ELSE R[0 - 1] \o LineAs(t[0], r)
      <3>1. 0 \in 0 .. Len(t)
        BY <1>4
      <3> QED BY <1>5, <3>1, Zenon
    <2>2. R[0] = <<>>
      BY <2>1, Zenon
    <2>3. c[0] = <<>>
      BY <1>4, ReadStarts
    <2> QED BY <2>2, <2>3
  <1>7. ASSUME NEW i \in Nat, i \in K PROVE i + 1 \in K
    <2> SUFFICES ASSUME i + 1 <= Len(t) PROVE R[i + 1] = c[i + 1]
      OBVIOUS
    <2>1. c[i] = R[i] /\ i + 1 \in 0 .. Len(t)
      BY <1>4, <1>7
    <2>2. PICK j \in 0 .. Len(t) : j = i + 1
      BY <2>1
    <2>3. c[j] = Joined(c[i], LineAs(t[j], r))
      BY <1>4, <2>2, ReadNext
    <2>4. j # 0 /\ j - 1 = i
      BY <2>2
    <2>5. R[j] = R[i] \o LineAs(t[j], r)
      BY <1>5, <2>4, Zenon
    <2> QED BY <2>1, <2>2, <2>3, <2>5, Zenon DEF Joined
  <1> HIDE DEF K
  <1>8. Nat \subseteq K
    BY <1>6, <1>7, Inductive
  <1>9. R[Len(t)] = c[Len(t)] /\ c[Len(t)] \in Seq(Lines)
    BY <1>4, <1>8 DEF K, ReadUpTo
  <1> QED BY <1>3, <1>9

LEMMA ReadOfNone == ASSUME NEW r PROVE ReadAs(<<>>, r) = <<>>
  <1>1. <<>> \in Seq(Lines) /\ Len(<<>>) = 0
    OBVIOUS
  <1> DEFINE c == [i \in 0 .. 0 |-> <<>>]
  <1>2. c \in [0 .. 0 -> Seq(Lines)] /\ c[0] = <<>>
    OBVIOUS
  <1> HIDE DEF c
  <1>3. ReadUpTo(<<>>, r, 0, c)
    BY <1>2 DEF ReadUpTo
  <1> QED BY <1>1, <1>2, <1>3, ReadIsIt

LEMMA ReadTyped ==
    ASSUME NEW t \in Seq(Lines), NEW r \in AllReadings
    PROVE  ReadAs(t, r) \in Seq(Lines)
  <1>1. Len(t) \in Nat
    OBVIOUS
  <1>2. PICK c : ReadUpTo(t, r, Len(t), c)
    BY <1>1, ReadIsThere
  <1> QED BY <1>2, ReadIsIt

LEMMA ReadOfAppended ==
    ASSUME NEW t \in Seq(Lines), NEW l \in Lines, NEW r \in AllReadings
    PROVE  ReadAs(Append(t, l), r) = ReadAs(t, r) \o LineAs(l, r)
  <1> DEFINE u == Append(t, l)
             n == Len(t)
  <1>1. /\ u \in Seq(Lines) /\ Len(u) = n + 1 /\ n \in Nat /\ u[n + 1] = l
        /\ \A i \in 1 .. n : u[i] = t[i]
    BY AppendProperties
  <1> HIDE DEF u
  <1>2. PICK c : ReadUpTo(u, r, n + 1, c)
    BY <1>1, ReadIsThere
  <1>3. ReadAs(u, r) = c[n + 1]
    BY <1>1, <1>2, ReadIsIt
  <1>4. PICK d : ReadUpTo(t, r, n, d)
    BY <1>1, ReadIsThere
  <1>5. ReadAs(t, r) = d[n]
    BY <1>4, ReadIsIt
  <1>6. ReadUpTo(u, r, n, d)
    <2>1. d \in [0 .. n -> Seq(Lines)]
      BY <1>4 DEF ReadUpTo
    <2>2. ASSUME NEW i \in 0 .. n
          PROVE  d[i] = IF i = 0 THEN <<>> ELSE d[i - 1] \o LineAs(u[i], r)
      <3>1. CASE i = 0
        BY <1>4, <3>1 DEF ReadUpTo
      <3>2. CASE i # 0
        <4>1. i \in 1 .. n
          BY <1>1, <3>2
        <4>2. u[i] = t[i]
          BY <4>1, <1>1
        <4> QED BY <1>4, <3>2, <4>2 DEF ReadUpTo
      <3> QED BY <3>1, <3>2
    <2> QED BY <2>1, <2>2 DEF ReadUpTo
  <1>7. d[n] = c[n]
    BY <1>1, <1>2, <1>6, ReadIsUnique
  <1>8. c[n + 1] = c[n] \o LineAs(l, r)
    <2>1. PICK m \in Nat : m = n + 1
      BY <1>1
    <2>2. ReadUpTo(u, r, m, c) /\ m \in 0 .. m /\ n \in Nat
      BY <1>1, <1>2, <2>1
    <2> HIDE DEF n
    <2>3. c[m] = Joined(c[n], LineAs(u[m], r))
      BY <2>1, <2>2, ReadNext
    <2> QED BY <1>1, <2>1, <2>3, Zenon DEF Joined
  <1> QED BY <1>3, <1>5, <1>7, <1>8 DEF u

LEMMA ReadOfLine ==
    ASSUME NEW x \in Lines, NEW r \in AllReadings
    PROVE  ReadAs(<<x>>, r) = LineAs(x, r)
  <1>1. <<>> \in Seq(Lines) /\ Append(<<>>, x) = <<x>>
    OBVIOUS
  <1>2. ReadAs(<<x>>, r) = <<>> \o LineAs(x, r)
    BY <1>1, ReadOfAppended, ReadOfNone
  <1>3. LineAs(x, r) \in Seq(Lines)
    BY LineTyped
  <1> QED BY <1>2, <1>3, ConcatEmptySeq

LEMMA ReadOfJoined ==
    ASSUME NEW s \in Seq(Lines), NEW t \in Seq(Lines), NEW r \in AllReadings
    PROVE  ReadAs(s \o t, r) = ReadAs(s, r) \o ReadAs(t, r)
  <1> DEFINE K == {n \in Nat : \A u \in Seq(Lines) :
                      Len(u) = n => ReadAs(s \o u, r) = ReadAs(s, r) \o ReadAs(u, r)}
  <1>0. ReadAs(s, r) \in Seq(Lines)
    BY ReadTyped
  <1>1. 0 \in K
    <2> SUFFICES ASSUME NEW u \in Seq(Lines), Len(u) = 0
                 PROVE  ReadAs(s \o u, r) = ReadAs(s, r) \o ReadAs(u, r)
      OBVIOUS
    <2>1. u = <<>>
      BY EmptySeq
    <2>2. s \o u = s /\ ReadAs(u, r) = <<>>
      BY <2>1, ConcatEmptySeq, ReadOfNone
    <2> QED BY <2>2, <1>0, ConcatEmptySeq
  <1>2. ASSUME NEW n \in Nat, n \in K PROVE n + 1 \in K
    <2> SUFFICES ASSUME NEW u \in Seq(Lines), Len(u) = n + 1
                 PROVE  ReadAs(s \o u, r) = ReadAs(s, r) \o ReadAs(u, r)
      OBVIOUS
    <2> DEFINE v == SubSeq(u, 1, n)
               l == u[n + 1]
    <2>1. v \in Seq(Lines) /\ Len(v) = n /\ l \in Lines
      OBVIOUS
    <2>2. u = Append(v, l)
      OBVIOUS
    <2> HIDE DEF v, l
    <2>3. s \o u = Append(s \o v, l) /\ s \o v \in Seq(Lines)
      <3>1. s \o v \in Seq(Lines)
        BY <2>1, ConcatProperties
      <3> QED BY <2>1, <2>2, <3>1
    <2>4. ReadAs(s \o v, r) = ReadAs(s, r) \o ReadAs(v, r) /\ ReadAs(v, r) \in Seq(Lines)
      BY <1>2, <2>1, ReadTyped
    <2>5. ReadAs(u, r) = ReadAs(v, r) \o LineAs(l, r)
      BY <2>1, <2>2, ReadOfAppended
    <2>6. ReadAs(s \o u, r) = ReadAs(s \o v, r) \o LineAs(l, r)
      BY <2>1, <2>3, ReadOfAppended
    <2> DEFINE a == ReadAs(s, r)
               b == ReadAs(v, r)
               c == LineAs(l, r)
    <2>7. a \in Seq(Lines) /\ b \in Seq(Lines) /\ c \in Seq(Lines)
      BY <1>0, <2>1, <2>4, LineTyped
    <2>8. ReadAs(s \o u, r) = (a \o b) \o c /\ ReadAs(u, r) = b \o c
      BY <2>4, <2>5, <2>6
    <2> HIDE DEF a, b, c
    <2>9. (a \o b) \o c = a \o (b \o c)
      BY <2>7, ConcatAssociative
    <2> QED BY <2>8, <2>9 DEF a
  <1> HIDE DEF K
  <1>3. Nat \subseteq K
    BY <1>1, <1>2, Inductive
  <1>4. Len(t) \in K
    BY <1>3
  <1> QED BY <1>4 DEF K

(* A text without directives reads as itself.                              *)
LEMMA ReadOfPlain ==
    ASSUME NEW t \in Seq(Lines), NEW r \in AllReadings, NoInclude(t)
    PROVE  ReadAs(t, r) = t
  <1> DEFINE K == {n \in Nat : \A u \in Seq(Lines) :
                      Len(u) = n /\ NoInclude(u) => ReadAs(u, r) = u}
  <1>1. 0 \in K
    <2> SUFFICES ASSUME NEW u \in Seq(Lines), Len(u) = 0 PROVE ReadAs(u, r) = u
      OBVIOUS
    <2>1. u = <<>>
      BY EmptySeq
    <2> QED BY <2>1, ReadOfNone
  <1>2. ASSUME NEW n \in Nat, n \in K PROVE n + 1 \in K
    <2> SUFFICES ASSUME NEW u \in Seq(Lines), Len(u) = n + 1, NoInclude(u)
                 PROVE  ReadAs(u, r) = u
      OBVIOUS
    <2>1. u # <<>>
      OBVIOUS
    <2> DEFINE e == <<Head(u)>>
               v == Tail(u)
    <2>2. /\ Head(u) \in Lines /\ v \in Seq(Lines) /\ Len(v) = n
          /\ ~IsInclude(Head(u)) /\ NoInclude(v)
      BY <2>1, TailLines, NoIncludeTail
    <2>3. e \in Seq(Lines) /\ u = e \o v
      BY <2>1
    <2>4. ReadAs(v, r) = v
      BY <1>2, <2>2
    <2>5. ReadAs(e, r) = e
      BY <2>2, ReadOfLine DEF LineAs
    <2> HIDE DEF e, v
    <2>6. ReadAs(e \o v, r) = ReadAs(e, r) \o ReadAs(v, r)
      BY <2>2, <2>3, ReadOfJoined
    <2> QED BY <2>3, <2>4, <2>5, <2>6, Zenon
  <1> HIDE DEF K
  <1>3. Nat \subseteq K
    BY <1>1, <1>2, Inductive
  <1>4. Len(t) \in K
    BY <1>3
  <1> QED BY <1>4 DEF K

(* The files a text names.                                                 *)
LEMMA NamedAre ==
    ASSUME NEW t, NEW f
    PROVE  f \in Named(t) <=> \E i \in 1 .. Len(t) : IsInclude(t[i]) /\ t[i].file = f
  BY DEF Named

LEMMA NamedJoined ==
    ASSUME NEW s \in Seq(Lines), NEW t \in Seq(Lines)
    PROVE  Named(s \o t) = Named(s) \cup Named(t)
  <1> DEFINE u == s \o t
  <1>1. /\ Len(u) = Len(s) + Len(t) /\ Len(s) \in Nat /\ Len(t) \in Nat
        /\ \A i \in 1 .. Len(s) : u[i] = s[i]
        /\ \A i \in 1 .. Len(t) : u[i + Len(s)] = t[i]
        /\ \A i \in 1 .. (Len(s) + Len(t)) :
                  i \in 1 .. Len(s) \/ \E j \in 1 .. Len(t) : i = j + Len(s)
    BY JoinedLines
  <1> HIDE DEF u
  <1>2. \A i \in 1 .. Len(s) : i \in 1 .. Len(u)
    BY <1>1
  <1>3. \A i \in 1 .. Len(t) : i + Len(s) \in 1 .. Len(u)
    BY <1>1
  <1>4. ASSUME NEW f \in Named(u) PROVE f \in Named(s) \cup Named(t)
    <2>1. PICK i \in 1 .. Len(u) : IsInclude(u[i]) /\ u[i].file = f
      BY NamedAre
    <2>2. CASE i \in 1 .. Len(s)
      BY <1>1, <2>1, <2>2, NamedAre
    <2>3. CASE \E j \in 1 .. Len(t) : i = j + Len(s)
      BY <1>1, <2>1, <2>3, NamedAre
    <2> QED BY <1>1, <2>2, <2>3
  <1>5. ASSUME NEW f \in Named(s) PROVE f \in Named(u)
    BY <1>1, <1>2, NamedAre
  <1>6. ASSUME NEW f \in Named(t) PROVE f \in Named(u)
    <2>1. PICK i \in 1 .. Len(t) : IsInclude(t[i]) /\ t[i].file = f
      BY NamedAre
    <2>2. u[i + Len(s)] = t[i] /\ i + Len(s) \in 1 .. Len(u)
      BY <1>1, <1>3
    <2> QED BY <2>1, <2>2, NamedAre
  <1> QED BY <1>4, <1>5, <1>6 DEF u

LEMMA NamedInLine ==
    ASSUME NEW x \in Lines
    PROVE  Named(<<x>>) = IF IsInclude(x) THEN {x.file} ELSE {}
  <1> DEFINE e == <<x>>
  <1>1. Len(e) = 1 /\ e[1] = x /\ \A i \in 1 .. Len(e) : i = 1
    OBVIOUS
  <1> HIDE DEF e
  <1>2. \A f : f \in Named(e) <=> IsInclude(x) /\ f = x.file
    BY <1>1, NamedAre
  <1> QED BY <1>2 DEF e

(* In a text put together no two directives name the same file just if the *)
(* parts are so and name different ones.                                   *)
LEMMA NamesApartJoined ==
    ASSUME NEW s \in Seq(Lines), NEW t \in Seq(Lines)
    PROVE  NamesApart(s \o t) <=>
               NamesApart(s) /\ NamesApart(t) /\ Named(s) \cap Named(t) = {}
  <1> DEFINE u == s \o t
  <1>1. /\ Len(u) = Len(s) + Len(t) /\ Len(s) \in Nat /\ Len(t) \in Nat
        /\ \A i \in 1 .. Len(s) : u[i] = s[i]
        /\ \A i \in 1 .. Len(t) : u[i + Len(s)] = t[i]
        /\ \A i \in 1 .. (Len(s) + Len(t)) :
                  i \in 1 .. Len(s) \/ \E j \in 1 .. Len(t) : i = j + Len(s)
    BY JoinedLines
  <1> HIDE DEF u
  <1>2. \A i \in 1 .. Len(s) : i \in 1 .. Len(u)
    BY <1>1
  <1>3. \A i \in 1 .. Len(t) : i + Len(s) \in 1 .. Len(u)
    BY <1>1
  <1>4. ASSUME NamesApart(u)
        PROVE  NamesApart(s) /\ NamesApart(t) /\ Named(s) \cap Named(t) = {}
    <2>1. NamesApart(s)
      BY <1>1, <1>2, <1>4 DEF NamesApart
    <2>2. ASSUME NEW i \in 1 .. Len(t), NEW j \in 1 .. Len(t),
                 IsInclude(t[i]), IsInclude(t[j]), t[i].file = t[j].file
          PROVE  i = j
      <3>1. i + Len(s) = j + Len(s)
        <4>1. /\ u[i + Len(s)] = t[i] /\ i + Len(s) \in 1 .. Len(u)
              /\ u[j + Len(s)] = t[j] /\ j + Len(s) \in 1 .. Len(u)
          BY <1>1, <1>3
        <4> QED BY <1>4, <2>2, <4>1 DEF NamesApart
      <3> QED BY <1>1, <3>1
    <2>3. ASSUME NEW f \in Named(s), f \in Named(t) PROVE FALSE
      <3>1. PICK i \in 1 .. Len(s) : IsInclude(s[i]) /\ s[i].file = f
        BY NamedAre
      <3>2. PICK j \in 1 .. Len(t) : IsInclude(t[j]) /\ t[j].file = f
        BY <2>3, NamedAre
      <3>3. /\ u[i] = s[i] /\ i \in 1 .. Len(u)
            /\ u[j + Len(s)] = t[j] /\ j + Len(s) \in 1 .. Len(u)
        BY <1>1, <1>2, <1>3
      <3>4. i = j + Len(s)
        BY <1>4, <3>1, <3>2, <3>3 DEF NamesApart
      <3> QED BY <1>1, <3>4
    <2> QED BY <2>1, <2>2, <2>3 DEF NamesApart
  <1>5. ASSUME NamesApart(s), NamesApart(t), Named(s) \cap Named(t) = {}
        PROVE  NamesApart(u)
    <2> SUFFICES ASSUME NEW i \in 1 .. Len(u), NEW j \in 1 .. Len(u),
                        IsInclude(u[i]), IsInclude(u[j]), u[i].file = u[j].file
                 PROVE  i = j
      BY DEF NamesApart
    <2>1. CASE i \in 1 .. Len(s) /\ j \in 1 .. Len(s)
      BY <1>1, <1>5, <2>1 DEF NamesApart
    <2>2. ASSUME NEW a \in 1 .. Len(s), NEW b \in 1 .. Len(t),
                 IsInclude(s[a]), IsInclude(t[b]), s[a].file = t[b].file
          PROVE  FALSE
      <3>1. s[a].file \in Named(s) /\ s[a].file \in Named(t)
        BY <2>2, NamedAre
      <3> QED BY <1>5, <3>1
    <2>3. CASE i \in 1 .. Len(s) /\ j \notin 1 .. Len(s)
      <3>1. PICK b \in 1 .. Len(t) : j = b + Len(s)
        BY <1>1, <2>3
      <3>2. u[i] = s[i] /\ u[j] = t[b]
        BY <1>1, <2>3, <3>1
      <3> QED BY <2>2, <2>3, <3>2
    <2>4. CASE i \notin 1 .. Len(s) /\ j \in 1 .. Len(s)
      <3>1. PICK b \in 1 .. Len(t) : i = b + Len(s)
        BY <1>1, <2>4
      <3>2. u[j] = s[j] /\ u[i] = t[b]
        BY <1>1, <2>4, <3>1
      <3> QED BY <2>2, <2>4, <3>2
    <2>5. CASE i \notin 1 .. Len(s) /\ j \notin 1 .. Len(s)
      <3>1. PICK a \in 1 .. Len(t) : i = a + Len(s)
        BY <1>1, <2>5
      <3>2. PICK b \in 1 .. Len(t) : j = b + Len(s)
        BY <1>1, <2>5
      <3>3. u[i] = t[a] /\ u[j] = t[b]
        BY <1>1, <3>1, <3>2
      <3>4. a = b
        BY <1>5, <3>3 DEF NamesApart
      <3> QED BY <3>1, <3>2, <3>4
    <2> QED BY <2>1, <2>3, <2>4, <2>5
  <1> QED BY <1>4, <1>5 DEF u

(* What a text reads as depends on the files it names alone.               *)
LEMMA SameReading ==
    ASSUME NEW t \in Seq(Lines), NEW q \in AllReadings, NEW r \in AllReadings,
           \A f \in Named(t) : q[f] = r[f]
    PROVE  ReadAs(t, q) = ReadAs(t, r)
  <1> DEFINE Same(u) == \A f \in Named(u) : q[f] = r[f]
             K == {n \in Nat : \A u \in Seq(Lines) :
                      Len(u) = n /\ Same(u) => ReadAs(u, q) = ReadAs(u, r)}
  <1>1. 0 \in K
    <2> SUFFICES ASSUME NEW u \in Seq(Lines), Len(u) = 0
                 PROVE  ReadAs(u, q) = ReadAs(u, r)
      OBVIOUS
    <2>1. u = <<>>
      BY EmptySeq
    <2> QED BY <2>1, ReadOfNone
  <1>2. ASSUME NEW n \in Nat, n \in K PROVE n + 1 \in K
    <2> SUFFICES ASSUME NEW u \in Seq(Lines), Len(u) = n + 1, Same(u)
                 PROVE  ReadAs(u, q) = ReadAs(u, r)
      OBVIOUS
    <2>1. u # <<>>
      OBVIOUS
    <2> DEFINE e == <<Head(u)>>
               v == Tail(u)
    <2>2. Head(u) \in Lines /\ v \in Seq(Lines) /\ Len(v) = n
      BY <2>1, TailLines
    <2>3. e \in Seq(Lines) /\ u = e \o v
      BY <2>1
    <2>4. ReadAs(e, q) = LineAs(Head(u), q) /\ ReadAs(e, r) = LineAs(Head(u), r)
      BY <2>2, ReadOfLine
    <2>5. Named(e) = IF IsInclude(Head(u)) THEN {Head(u).file} ELSE {}
      BY <2>2, NamedInLine
    <2> HIDE DEF e, v
    <2>6. Named(u) = Named(e) \cup Named(v)
      BY <2>2, <2>3, NamedJoined
    <2>7. LineAs(Head(u), q) = LineAs(Head(u), r)
      BY <2>5, <2>6 DEF LineAs
    <2>8. ReadAs(v, q) = ReadAs(v, r)
      BY <1>2, <2>2, <2>6
    <2>9. /\ ReadAs(u, q) = ReadAs(e, q) \o ReadAs(v, q)
          /\ ReadAs(u, r) = ReadAs(e, r) \o ReadAs(v, r)
      BY <2>2, <2>3, ReadOfJoined
    <2> QED BY <2>4, <2>7, <2>8, <2>9
  <1> HIDE DEF K
  <1>3. Nat \subseteq K
    BY <1>1, <1>2, Inductive
  <1>4. Len(t) \in K
    BY <1>3
  <1> QED BY <1>4 DEF K

-----------------------------------------------------------------------------
(* A text names each file once and none inserted; the files that are still *)
(* to come name others than it and one another; a reading right for the    *)
(* files inserted reads the text as it reads the unit; and there is one,   *)
(* whatever the other files read as.                                       *)
TextApart == NamesApart(AbsText) /\ Named(AbsText) \cap AlreadySeen = {}

RestApart ==
    \A g \in Files \ AlreadySeen : Named(Content(g)) \cap (Named(AbsText) \cup AlreadySeen) = {}

ReadAsUnit ==
    \A r \in AllReadings : Consistent(r) => ReadAs(AbsText, r) = ReadAs(Code(unit), r)

HasReading ==
    \A h \in AllReadings : \E r \in AllReadings :
        Consistent(r) /\ \A g \in Files \ AlreadySeen : r[g] = h[g]

ReadingInv ==
    /\ pc \in {"idle", "exited"} /\ result = "ok" => work = <<>>
    /\ (Running \/ result = "ok") /\ NamedOnce =>
          TextApart /\ RestApart /\ ReadAsUnit /\ HasReading

LEMMA BeginReads ==
    ASSUME TextsOK, TextsOK', dir' = dir, Begin
    PROVE  ReadingInv'
  <1>1. AbsText' = Code(unit') /\ pc' = "open" /\ AlreadySeen' = {}
    BY BegunText DEF Begin
  <1>2. Content(0)' = Content(0) /\ \A g \in Files : Content(g)' = Content(g)
    BY DEF Content
  <1> SUFFICES ASSUME NamedOnce'
               PROVE  TextApart' /\ RestApart' /\ ReadAsUnit' /\ HasReading'
    BY <1>1 DEF ReadingInv
  <1>3. TextApart' /\ RestApart'
    BY <1>1 DEF NamedOnce, TextApart, RestApart
  <1>4. ReadAsUnit'
    BY <1>1 DEF ReadAsUnit
  <1>5. HasReading'
    <2> SUFFICES ASSUME NEW h \in AllReadings PROVE Consistent(h)'
      BY DEF HasReading
    <2> QED BY <1>1 DEF Consistent
  <1> QED BY <1>3, <1>4, <1>5

(* What a reading says of a text in whose middle a file is inserted.       *)
LEMMA InsertedReads ==
    ASSUME NEW a \in Seq(Lines), NEW b \in Seq(Lines), NEW d \in Seq(Lines),
           NEW x \in Lines, IsInclude(x), NEW t, NEW u, InsertedIn(t, u, a, b, d, x),
           NEW r \in AllReadings, r[x.file] = ReadAs(d, r)
    PROVE  ReadAs(u, r) = ReadAs(t, r)
  <1> DEFINE e == <<x>>
             p == ReadAs(a, r)
             q == ReadAs(d, r)
             s == ReadAs(b, r)
  <1>1. e \in Seq(Lines) /\ ReadAs(e, r) = q
    BY ReadOfLine DEF LineAs
  <1>2. p \in Seq(Lines) /\ q \in Seq(Lines) /\ s \in Seq(Lines)
    BY ReadTyped
  <1> HIDE DEF e
  <1>3. a \o d \in Seq(Lines) /\ e \o b \in Seq(Lines)
    BY <1>1, JoinedLines
  <1>4. ReadAs((a \o d) \o b, r) = ReadAs(a \o d, r) \o s
    BY <1>3, ReadOfJoined
  <1>5. ReadAs(a \o d, r) = p \o q
    BY ReadOfJoined
  <1>6. ReadAs(a \o (e \o b), r) = p \o ReadAs(e \o b, r)
    BY <1>3, ReadOfJoined
  <1>7. ReadAs(e \o b, r) = q \o s
    <2>1. ReadAs(e \o b, r) = ReadAs(e, r) \o ReadAs(b, r)
      BY <1>1, ReadOfJoined
    <2> QED BY <2>1, <1>1, Zenon
  <1> HIDE DEF p, q, s
  <1>8. (p \o q) \o s = p \o (q \o s)
    BY ONLY <1>2, ConcatAssociative
  <1>9. ReadAs((a \o d) \o b, r) = (p \o q) \o s /\ ReadAs(a \o (e \o b), r) = p \o (q \o s)
    BY <1>4, <1>5, <1>6, <1>7, Zenon
  <1> QED BY <1>8, <1>9, Zenon DEF e, InsertedIn

(* The files the text names before and after.                              *)
LEMMA InsertedNames ==
    ASSUME NEW a \in Seq(Lines), NEW b \in Seq(Lines), NEW d \in Seq(Lines),
           NEW x \in Lines, IsInclude(x), NEW t, NEW u, InsertedIn(t, u, a, b, d, x),
           NamesApart(t), NamesApart(d), Named(t) \cap Named(d) = {}
    PROVE  /\ NamesApart(u) /\ x.file \in Named(t)
           /\ Named(u) = (Named(t) \ {x.file}) \cup Named(d)
  <1> DEFINE e == <<x>>
             tb == e \o b
             ad == a \o d
  <1>1. e \in Seq(Lines) /\ Named(e) = {x.file}
    <2>1. e \in Seq(Lines)
      OBVIOUS
    <2>2. Named(e) = IF IsInclude(x) THEN {x.file} ELSE {}
      BY NamedInLine, Zenon
    <2> QED BY <2>1, <2>2
  <1> HIDE DEF e
  <1>2. /\ ad \in Seq(Lines) /\ Named(ad) = Named(a) \cup Named(d)
        /\ tb \in Seq(Lines) /\ Named(tb) = {x.file} \cup Named(b)
    BY <1>1, JoinedLines, NamedJoined
  <1>a. t = a \o tb /\ u = ad \o b
    BY Zenon DEF e, InsertedIn
  <1> HIDE DEF tb, ad
  <1>3. Named(t) = Named(a) \cup ({x.file} \cup Named(b))
    <2>1. Named(a \o tb) = Named(a) \cup Named(tb)
      BY <1>2, NamedJoined
    <2> QED BY <2>1, <1>a, <1>2, Zenon
  <1>4. Named(u) = (Named(a) \cup Named(d)) \cup Named(b)
    <2>1. Named(ad \o b) = Named(ad) \cup Named(b)
      BY <1>2, NamedJoined
    <2> QED BY <2>1, <1>a, <1>2, Zenon
  <1>5. /\ NamesApart(a) /\ NamesApart(b) /\ {x.file} \cap Named(b) = {}
        /\ Named(a) \cap ({x.file} \cup Named(b)) = {}
    <2>1. NamesApart(a \o tb)
      BY <1>a, Zenon
    <2>2. NamesApart(a) /\ NamesApart(tb) /\ Named(a) \cap Named(tb) = {}
      BY <1>2, <2>1, NamesApartJoined
    <2>3. NamesApart(b) /\ Named(e) \cap Named(b) = {}
      BY <1>1, <2>2, NamesApartJoined DEF tb
    <2> QED BY <1>1, <1>2, <2>2, <2>3
  <1>6. NamesApart(ad)
    <2>1. Named(a) \cap Named(d) = {}
      BY <1>3
    <2> QED BY <1>5, <2>1, NamesApartJoined DEF ad
  <1>7. NamesApart(u)
    <2>1. Named(ad) \cap Named(b) = {}
      BY <1>2, <1>3, <1>5
    <2>2. NamesApart(ad \o b)
      BY <1>2, <1>5, <1>6, <2>1, NamesApartJoined
    <2> QED BY <1>a, <2>2, Zenon
  <1> QED BY <1>3, <1>4, <1>5, <1>7

LEMMA IncludeFileReads ==
    ASSUME TextsOK, TextsOK', ReadingInv, dir' = dir, IncludeFile
    PROVE  ReadingInv'
  <1> DEFINE f == Next1.file
             a == Code(out)
             b == Code(Tail(work))
             d == Content(f)
  <1>1. /\ a \in Seq(Lines) /\ b \in Seq(Lines) /\ d \in Seq(Lines)
        /\ Next1 \in Lines /\ IsInclude(Next1) /\ f \in Files
        /\ InsertedIn(AbsText, AbsText', a, b, d, Next1)
    BY InsertedText
  <1>2. /\ pc = "expand" /\ pc' = "expand" /\ unit' = unit /\ f \notin AlreadySeen
        /\ AlreadySeen' = AlreadySeen \cup {f}
    BY DEF IncludeFile, Directive, SeenAfter
  <1>3. \A g \in Files : Content(g)' = Content(g)
    BY DEF Content
  <1>4. NamedOnce' <=> NamedOnce
    BY <1>2, <1>3 DEF NamedOnce
  <1> SUFFICES ASSUME NamedOnce
               PROVE  TextApart' /\ RestApart' /\ ReadAsUnit' /\ HasReading'
    BY <1>2, <1>4 DEF ReadingInv
  <1>5. TextApart /\ RestApart /\ ReadAsUnit /\ HasReading
    BY <1>2 DEF ReadingInv, Running
  <1>6. NamesApart(d) /\ Named(d) \cap (Named(AbsText) \cup AlreadySeen) = {}
    BY <1>1, <1>2, <1>5 DEF NamedOnce, RestApart
  <1>7. /\ NamesApart(AbsText') /\ f \in Named(AbsText)
        /\ Named(AbsText') = (Named(AbsText) \ {f}) \cup Named(d)
    <2>1. NamesApart(AbsText) /\ Named(AbsText) \cap Named(d) = {}
      BY <1>5, <1>6 DEF TextApart
    <2> HIDE DEF a, b, d
    <2> QED BY <1>1, <1>6, <2>1, InsertedNames
  <1>8. AlreadySeen \subseteq Files
    BY DEF TextsOK, CountsOK
  <1> HIDE DEF d
  <1>9. TextApart'
    <2>1. Named(AbsText') \cap AlreadySeen' = {}
      BY <1>2, <1>5, <1>6, <1>7 DEF TextApart
    <2> QED BY <1>7, <2>1 DEF TextApart
  <1>10. RestApart'
    <2> SUFFICES ASSUME NEW g \in Files \ AlreadySeen'
                 PROVE  Named(Content(g)) \cap (Named(AbsText') \cup AlreadySeen') = {}
      BY <1>3 DEF RestApart
    <2>1. g # f /\ g \in Files \ AlreadySeen
      BY <1>2
    <2>2. Named(Content(g)) \cap Named(d) = {}
      BY <1>1, <2>1 DEF NamedOnce, d
    <2>3. Named(Content(g)) \cap (Named(AbsText) \cup AlreadySeen) = {}
      BY <1>5, <2>1 DEF RestApart
    <2> QED BY <1>2, <1>7, <2>2, <2>3
  <1>11. \A r : Consistent(r)' <=> Consistent(r) /\ r[f] = ReadAs(d, r)
    <2>1. \A g \in AlreadySeen' : Content(g)' = Content(g)
      BY <1>1, <1>2, <1>3, <1>8
    <2> QED BY <1>2, <2>1 DEF Consistent, d
  <1>12. ReadAsUnit'
    <2> SUFFICES ASSUME NEW r \in AllReadings, Consistent(r)'
                 PROVE  ReadAs(AbsText', r) = ReadAs(Code(unit), r)
      BY <1>2 DEF ReadAsUnit
    <2>1. Consistent(r) /\ r[f] = ReadAs(d, r)
      BY <1>11
    <2>2. ReadAs(AbsText', r) = ReadAs(AbsText, r)
      <3> HIDE DEF a, b
      <3> QED BY <1>1, <2>1, InsertedReads
    <2> QED BY <1>5, <2>1, <2>2 DEF ReadAsUnit
  <1>13. HasReading'
    <2> SUFFICES ASSUME NEW h \in AllReadings
                 PROVE  \E r \in AllReadings :
                           Consistent(r)' /\ \A g \in Files \ AlreadySeen' : r[g] = h[g]
      BY DEF HasReading
    <2> DEFINE k == [h EXCEPT ![f] = ReadAs(d, h)]
    <2>1. k \in AllReadings /\ k[f] = ReadAs(d, h) /\ \A g \in Files \ {f} : k[g] = h[g]
      <3>1. ReadAs(d, h) \in Seq(Lines)
        BY <1>1, ReadTyped
      <3> QED BY <1>1, <3>1 DEF AllReadings
    <2> HIDE DEF k
    <2>2. PICK r \in AllReadings : Consistent(r) /\ \A g \in Files \ AlreadySeen : r[g] = k[g]
      BY <1>5, <2>1 DEF HasReading
    <2>3. \A g \in Named(d) : r[g] = h[g]
      <3>1. Named(d) \subseteq Files
        <4> SUFFICES ASSUME NEW g \in Named(d) PROVE g \in Files
          OBVIOUS
        <4>1. PICK i \in 1 .. Len(d) : IsInclude(d[i]) /\ d[i].file = g
          BY NamedAre
        <4>2. d[i] \in Lines
          BY <1>1
        <4> QED BY <4>1, <4>2, LinesAreLines DEF IsInclude
      <3>2. f \notin Named(d)
        BY <1>6, <1>7
      <3> QED BY <1>6, <2>1, <2>2, <3>1, <3>2
    <2>4. ReadAs(d, r) = ReadAs(d, h)
      BY <1>1, <2>3, SameReading
    <2>5. r[f] = ReadAs(d, r)
      BY <1>1, <1>2, <2>1, <2>2, <2>4
    <2>6. \A g \in Files \ AlreadySeen' : r[g] = h[g]
      BY <1>2, <2>1, <2>2
    <2> QED BY <1>11, <2>2, <2>5, <2>6
  <1> QED BY <1>9, <1>10, <1>12, <1>13

(* A directive for a file inserted before would name it twice.             *)
LEMMA IncludeAgainReads ==
    ASSUME TextsOK, ReadingInv, dir' = dir, IncludeAgain
    PROVE  ReadingInv'
  <1>1. /\ pc = "expand" /\ pc' = "expand" /\ unit' = unit /\ work # <<>> /\ IsInclude(Next1)
        /\ Next1.file \in AlreadySeen
    BY DEF IncludeAgain, Directive, IsInclude
  <1>2. Next1.file \in Named(AbsText)
    <2>1. Len(Code(out)) + 1 \in 1 .. Len(AbsText) /\ AbsText[Len(Code(out)) + 1] = Next1
      BY <1>1, DirectiveInText
    <2> QED BY <1>1, <2>1, NamedAre
  <1>3. ~NamedOnce
    BY <1>1, <1>2 DEF ReadingInv, Running, TextApart
  <1>4. \A g \in Files : Content(g)' = Content(g)
    BY DEF Content
  <1>5. ~NamedOnce'
    BY <1>1, <1>3, <1>4 DEF NamedOnce
  <1> QED BY <1>1, <1>5 DEF ReadingInv

LEMMA SameTextReads ==
    ASSUME ReadingInv, dir' = dir, unit' = unit, AbsText' = AbsText, AlreadySeen' = AlreadySeen,
           AlreadySeen \subseteq Files,
           Running' \/ result' = "ok" => Running \/ result = "ok",
           pc' \in {"idle", "exited"} /\ result' = "ok" => work' = <<>>
    PROVE  ReadingInv'
  <1>1. \A g \in Files : Content(g)' = Content(g)
    BY DEF Content
  <1>2. NamedOnce' <=> NamedOnce
    BY <1>1 DEF NamedOnce
  <1>3. \A r : Consistent(r)' <=> Consistent(r)
    BY <1>1 DEF Consistent
  <1> SUFFICES ASSUME NamedOnce, Running \/ result = "ok"
               PROVE  TextApart' /\ RestApart' /\ ReadAsUnit' /\ HasReading'
    BY <1>2 DEF ReadingInv
  <1>4. TextApart /\ RestApart /\ ReadAsUnit /\ HasReading
    BY DEF ReadingInv
  <1>5. TextApart' /\ RestApart'
    BY <1>1, <1>4 DEF TextApart, RestApart
  <1>6. ReadAsUnit' /\ HasReading'
    BY <1>3, <1>4 DEF ReadAsUnit, HasReading
  <1> QED BY <1>5, <1>6

LEMMA ReadingStep ==
    ASSUME TextsOK, TextsOK', AnswersOK, AnswersOK', CommentsInv, ReadingInv, [PPNext]_ppVars
    PROVE  ReadingInv'
  <1>0. dir' = dir /\ AlreadySeen \subseteq Files
    BY DirStays DEF TextsOK, CountsOK
  <1>1. CASE Begin
    BY <1>0, <1>1, BeginReads
  <1>2. CASE BeginFails \/ OpenPassFails \/ IncludeFails \/ AnotherPassFails \/ FinishFails
    <2>1. pc' = "idle" /\ result' = "failed"
      BY <1>2 DEF BeginFails, GoesOn, OpenPassFails, IncludeFails, AnotherPassFails,
         FinishFails, Fail
    <2> QED BY <2>1 DEF ReadingInv, Running
  <1>3. CASE IncludeFile
    BY <1>0, <1>3, IncludeFileReads
  <1>4. CASE IncludeAgain
    BY <1>0, <1>4, IncludeAgainReads
  <1>5. CASE Finish
    <2>1. /\ Running /\ work = <<>> /\ out' = out /\ work' = work /\ unit' = unit
          /\ AlreadySeen' = AlreadySeen
      BY <1>5 DEF Finish, LastPass, textVars, Running
    <2>2. AbsText' = AbsText
      BY <2>1 DEF AbsText
    <2> QED BY <1>0, <2>1, <2>2, SameTextReads
  <1>6. CASE HeaderLine \/ HeaderEnds \/ CopyLine \/ OpenPass \/ AnotherPass
    <2>1. UNCHANGED <<AbsText, AlreadySeen, AbsState, AbsContent>>
      <3>1. CopyLine => ~IsInclude(Next1)
        BY CopyLineApart
      <3>2. OpenPass => out = <<>>
        BY DEF OpenPass, CommentsInv
      <3> QED BY <1>0, <1>6, <3>1, <3>2, Stutters
    <2>2. Running /\ Running' /\ unit' = unit
      BY <1>6 DEF HeaderLine, HeaderEnds, CopyLine, OpenPass, AnotherPass, Running
    <2> QED BY <1>0, <2>1, <2>2, SameTextReads DEF Running
  <1>7. CASE Exit \/ UNCHANGED ppVars
    <2>1. /\ out' = out /\ work' = work /\ unit' = unit /\ AlreadySeen' = AlreadySeen
          /\ result' = result /\ (Running' <=> Running)
          /\ (pc' \in {"idle", "exited"} <=> pc \in {"idle", "exited"})
      BY <1>7 DEF Exit, ppVars, textVars, Running
    <2>2. AbsText' = AbsText
      BY <2>1 DEF AbsText
    <2> QED BY <1>0, <2>1, <2>2, SameTextReads DEF ReadingInv
  <1> QED BY <1>1, <1>2, <1>3, <1>4, <1>5, <1>6, <1>7, Zenon DEF PPNext, Preprocess

LEMMA ReadingInvariant ==
    ASSUME DirectivesApart, ExitOnError
    PROVE  PPSpec => [](TextsOK /\ CommentsInv /\ ReadingInv)
  <1>1. PPInit => ReadingInv
    <2> SUFFICES ASSUME PPInit PROVE ReadingInv
      OBVIOUS
    <2>1. pc = "idle" /\ result = "none"
      BY DEF PPInit
    <2> QED BY <2>1 DEF ReadingInv, Running
  <1>2. TextsOK /\ TextsOK' /\ AnswersOK /\ AnswersOK' /\ CommentsInv /\ ReadingInv
            /\ [PPNext]_ppVars => ReadingInv'
    BY ReadingStep
  <1> QED BY <1>1, <1>2, CommentsInvariant, PTL DEF PPSpec

LEMMA ResultReads ==
    ASSUME TextsOK, CommentsInv, pc = "idle", result = "ok", work = <<>>, NEW r \in AllReadings
    PROVE  ReadAs(AbsText, r) = Code(out)
  <1>1. out \in Seq(Lines) /\ NoInclude(out)
    BY DEF TextsOK, CommentsInv
  <1>2. out \o work = out
    BY <1>1, ConcatEmptySeq
  <1>3. AbsText = Code(out) /\ Code(out) \in Seq(Lines) /\ NoInclude(Code(out))
    BY <1>1, <1>2, NoIncludeInCode, CodeTyped DEF AbsText
  <1> QED BY <1>3, ReadOfPlain

(* The code between directives is kept, in order, and every directive has  *)
(* given way to what its file reads as, at its place and to any depth.     *)
THEOREM ExpandedInPlace ==
    ASSUME DirectivesApart, ExitOnError
    PROVE  PPSpec => []ResultIsExpansion
  <1>1. ASSUME TextsOK, CommentsInv, ReadingInv PROVE ResultIsExpansion
    <2> SUFFICES ASSUME pc = "idle", result = "ok", NamedOnce, NEW r \in Readings, Consistent(r)
                 PROVE  Code(out) = ReadAs(Code(unit), r)
      BY DEF ResultIsExpansion
    <2>1. r \in AllReadings
      BY ReadingsAssumption DEF AllReadings
    <2>2. work = <<>> /\ ReadAsUnit
      BY <1>1 DEF ReadingInv
    <2>3. ReadAs(AbsText, r) = ReadAs(Code(unit), r)
      BY <2>1, <2>2 DEF ReadAsUnit
    <2> QED BY <1>1, <2>1, <2>2, <2>3, ResultReads
  <1> QED BY <1>1, ReadingInvariant, PTL

(* And there is a reading that is right for all the files inserted, so that *)
(* the theorem before this one says what the parser is given.              *)
ReadsAsExpanded ==
    pc = "idle" /\ result = "ok" /\ NamedOnce =>
        \E r \in [Files -> Seq(Lines)] : Consistent(r) /\ Code(out) = ReadAs(Code(unit), r)

THEOREM ReadingExists ==
    ASSUME DirectivesApart, ExitOnError
    PROVE  PPSpec => []ReadsAsExpanded
  <1>1. ASSUME TextsOK, CommentsInv, ReadingInv PROVE ReadsAsExpanded
    <2> SUFFICES ASSUME pc = "idle", result = "ok", NamedOnce
                 PROVE  \E r \in AllReadings : Consistent(r) /\ Code(out) = ReadAs(Code(unit), r)
      BY DEF ReadsAsExpanded, AllReadings
    <2>1. work = <<>> /\ ReadAsUnit /\ HasReading
      BY <1>1 DEF ReadingInv
    <2> DEFINE h == [g \in Files |-> <<>>]
    <2>2. h \in AllReadings
      BY DEF AllReadings
    <2> HIDE DEF h
    <2>3. PICK r \in AllReadings : Consistent(r)
      BY <2>1, <2>2 DEF HasReading
    <2>4. ReadAs(AbsText, r) = ReadAs(Code(unit), r)
      BY <2>1, <2>3 DEF ReadAsUnit
    <2>5. Code(out) = ReadAs(Code(unit), r)
      BY <1>1, <2>1, <2>4, ResultReads
    <2> QED BY <2>3, <2>5
  <1> QED BY <1>1, ReadingInvariant, PTL

-----------------------------------------------------------------------------
(* How many passes there can be.  A pass that replaces directives inserts a *)
(* file that was not seen before, or leaves no directive for the next one,  *)
(* which is then the last.                                                 *)
Seen == Cardinality(AlreadySeen)
PassLimit == Cardinality(Files) + 2

PassInv ==
    /\ Pass <= PassLimit
    /\ pc = "open" => Pass <= Seen \/ (Pass <= Seen + 1 /\ NoInclude(work))
    /\ pc = "header" => /\ IC = 0
                        /\ Pass <= Seen + 1 \/ (Pass <= Seen + 2 /\ NoInclude(work))
    /\ pc = "expand" => \/ Pass <= Seen
                        \/ Pass <= Seen + 1 /\ NoInclude(out)
                        \/ Pass <= Seen + 2 /\ IC = 0 /\ NoInclude(work)

LEMMA SeenCounts ==
    ASSUME TextsOK, IsFiniteSet(Files)
    PROVE  Seen \in Nat /\ Seen <= Cardinality(Files) /\ PassLimit \in Nat /\ Pass \in Nat
  <1>1. AlreadySeen \subseteq Files /\ Pass \in 0 .. MaxPasses
    BY DEF TextsOK, CountsOK
  <1>2. IsFiniteSet(AlreadySeen) /\ Seen <= Cardinality(Files)
    BY <1>1, FS_Subset DEF Seen
  <1>3. Seen \in Nat /\ Cardinality(Files) \in Nat
    BY <1>2, FS_CardinalityType DEF Seen
  <1> QED BY <1>1, <1>2, <1>3 DEF PassLimit

LEMMA PassStep ==
    ASSUME DirectivesApart, ExitOnError, IsFiniteSet(Files), TextsOK, TextsOK',
           CommentsInv, CommentsInv', PassInv, [PPNext]_ppVars
    PROVE  PassInv'
  <1>0. /\ Seen \in Nat /\ Seen <= Cardinality(Files) /\ PassLimit \in Nat /\ Pass \in Nat
        /\ Seen' \in Nat /\ PassLimit' = PassLimit /\ PassLimit = Cardinality(Files) + 2
        /\ Cardinality(Files) \in Nat
    <2>1. Seen' \in Nat
      <3>1. AlreadySeen' \subseteq Files
        BY DEF TextsOK, CountsOK
      <3> QED BY <3>1, FS_Subset, FS_CardinalityType DEF Seen
    <2> QED BY <2>1, SeenCounts, FS_CardinalityType DEF PassLimit
  <1>a. work \in Seq(Lines) /\ out \in Seq(Lines)
    BY DEF TextsOK
  <1>1. CASE Begin
    <2>1. pc' = "open" /\ Pass' = 0
      BY <1>1 DEF Begin
    <2>2. Pass' <= PassLimit' /\ Pass' <= Seen'
      BY <2>1, <1>0
    <2> QED BY <2>1, <2>2 DEF PassInv
  <1>2. CASE BeginFails \/ OpenPassFails \/ IncludeFails \/ AnotherPassFails \/ Finish
             \/ FinishFails \/ Exit
    <2>1. Pass' = Pass /\ pc' \in {"idle", "exited"}
      BY <1>2 DEF BeginFails, GoesOn, OpenPassFails, IncludeFails, AnotherPassFails,
         Finish, FinishFails, Exit, Fail
    <2> QED BY <2>1, <1>0 DEF PassInv
  <1>3. CASE OpenPass
    <2>1. /\ pc = "open" /\ pc' = "header" /\ Pass' = Pass + 1 /\ IC' = 0
          /\ work' = work /\ Seen' = Seen
      BY <1>3 DEF OpenPass, Seen
    <2>2. Pass <= Seen \/ (Pass <= Seen + 1 /\ NoInclude(work))
      BY <2>1 DEF PassInv
    <2> QED BY <2>1, <2>2, <1>0 DEF PassInv
  <1>4. CASE HeaderLine \/ HeaderEnds
    <2>1. /\ pc = "header" /\ pc' \in {"header", "expand"} /\ Pass' = Pass /\ IC' = IC
          /\ Seen' = Seen
          /\ work' = work \/ (work # <<>> /\ work' = Tail(work))
      BY <1>4 DEF HeaderLine, HeaderEnds, textVars, Seen
    <2>2. NoInclude(work) => NoInclude(work')
      BY <2>1, <1>a, NoIncludeTail
    <2>3. /\ IC = 0 /\ Pass <= PassLimit
          /\ Pass <= Seen + 1 \/ (Pass <= Seen + 2 /\ NoInclude(work))
      BY <2>1 DEF PassInv
    <2>4. pc' = "expand" => NoInclude(out')
      BY <2>1, <2>3 DEF CommentsInv
    <2> QED BY <2>1, <2>2, <2>3, <2>4, <1>0 DEF PassInv
  <1>5. CASE CopyLine
    <2>1. /\ pc = "expand" /\ pc' = "expand" /\ Pass' = Pass /\ IC' = IC /\ Seen' = Seen
          /\ work # <<>> /\ work' = Tail(work) /\ out' = Append(out, Next1)
          /\ ~IsInclude(Next1)
      BY <1>5, CopyLineApart DEF CopyLine, Copied, Seen
    <2>2. NoInclude(work) => NoInclude(work')
      BY <2>1, <1>a, NoIncludeTail
    <2>3. NoInclude(out) => NoInclude(out')
      <3>1. Next1 \in Lines
        BY <2>1, <1>a, TailLines DEF Next1
      <3>2. <<Next1>> \in Seq(Lines) /\ NoInclude(<<Next1>>) /\ out' = out \o <<Next1>>
        BY <2>1, <3>1, <1>a, OneLine, AppendIsConcat
      <3> QED BY <3>2, <1>a, NoIncludeJoined
    <2>4. /\ Pass <= PassLimit
          /\ \/ Pass <= Seen
             \/ Pass <= Seen + 1 /\ NoInclude(out)
             \/ Pass <= Seen + 2 /\ IC = 0 /\ NoInclude(work)
      BY <2>1 DEF PassInv
    <2> QED BY <2>1, <2>2, <2>3, <2>4 DEF PassInv
  <1>6. ASSUME IncludeFile \/ IncludeAgain
        PROVE  /\ pc = "expand" /\ pc' = "expand" /\ Pass' = Pass /\ Pass <= PassLimit
               /\ Pass <= Seen \/ (Pass <= Seen + 1 /\ NoInclude(out))
    <2>1. /\ pc = "expand" /\ pc' = "expand" /\ Pass' = Pass
          /\ work # <<>> /\ IsInclude(Next1)
      BY <1>6 DEF IncludeFile, IncludeAgain, Directive, IsInclude
    <2>2. ~NoInclude(work)
      <3>1. 1 \in 1 .. Len(work) /\ Next1 = work[1]
        BY <2>1, <1>a, TailLines DEF Next1
      <3> QED BY <2>1, <3>1 DEF NoInclude
    <2> QED BY <2>1, <2>2 DEF PassInv
  <1>7. CASE IncludeFile
    <2>1. Seen' = Seen + 1
      <3>1. /\ Next1.file \notin AlreadySeen /\ AlreadySeen' = AlreadySeen \cup {Next1.file}
        BY <1>7 DEF IncludeFile, SeenAfter
      <3>2. IsFiniteSet(AlreadySeen)
        BY FS_Subset DEF TextsOK, CountsOK
      <3> QED BY <3>1, <3>2, FS_AddElement DEF Seen
    <2> QED BY <2>1, <1>0, <1>6, <1>7 DEF PassInv
  <1>8. CASE IncludeAgain
    <2>1. Seen' = Seen /\ out' = out
      BY <1>8 DEF IncludeAgain, Seen
    <2> QED BY <2>1, <1>6, <1>8 DEF PassInv
  <1>9. CASE AnotherPass
    <2>1. /\ pc = "expand" /\ pc' = "open" /\ Pass' = Pass /\ IC # 0 /\ Seen' = Seen
          /\ work' = Append(out, Line("blank"))
      BY <1>9 DEF AnotherPass, Seen
    <2>2. NoInclude(out) => NoInclude(work')
      <3>1. /\ <<Line("blank")>> \in Seq(Lines) /\ NoInclude(<<Line("blank")>>)
            /\ work' = out \o <<Line("blank")>>
        BY <2>1, <1>a, OneLine, PlainLines, AppendIsConcat
      <3> QED BY <3>1, <1>a, NoIncludeJoined
    <2>3. Pass <= PassLimit /\ (Pass <= Seen \/ (Pass <= Seen + 1 /\ NoInclude(out)))
      BY <2>1 DEF PassInv
    <2> QED BY <2>1, <2>2, <2>3 DEF PassInv
  <1>10. CASE UNCHANGED ppVars
    <2>1. /\ pc' = pc /\ Pass' = Pass /\ IC' = IC /\ Seen' = Seen /\ work' = work
          /\ out' = out
      BY <1>10 DEF ppVars, textVars, Seen
    <2> QED BY <2>1 DEF PassInv
  <1> QED BY <1>1, <1>2, <1>3, <1>4, <1>5, <1>7, <1>8, <1>9, <1>10, Zenon
          DEF PPNext, Preprocess

LEMMA PassInvariant ==
    ASSUME DirectivesApart, ExitOnError, IsFiniteSet(Files)
    PROVE  PPSpec => [](TextsOK /\ PassInv)
  <1>1. ASSUME PPInit PROVE PassInv
    <2>1. Pass = 0 /\ pc = "idle"
      BY <1>1 DEF PPInit
    <2>2. PassLimit \in Nat
      BY FS_CardinalityType DEF PassLimit
    <2> QED BY <2>1, <2>2 DEF PassInv
  <1>2. TextsOK /\ TextsOK' /\ CommentsInv /\ CommentsInv' /\ PassInv /\ [PPNext]_ppVars => PassInv'
    BY PassStep
  <1> QED BY <1>1, <1>2, CommentsInvariant, PTL DEF PPSpec

(* With n files a unit takes n + 2 passes at most.                         *)
THEOREM PassesAreBounded ==
    ASSUME DirectivesApart, ExitOnError, IsFiniteSet(Files)
    PROVE  PPSpec => []PassesBounded
  <1>1. PassInv => PassesBounded
    BY DEF PassInv, PassLimit, PassesBounded
  <1> QED BY <1>1, PassInvariant, PTL

(* What is left to do: passes, then stages of this pass, then lines.       *)
PassesLeft == PassLimit - Pass
StagesLeft == CASE pc = "header" -> 2 [] pc = "expand" -> 1 [] OTHER -> 0
LinesLeft == Len(work)

GoesDown ==
    \/ PassesLeft' < PassesLeft
    \/ PassesLeft' = PassesLeft /\ StagesLeft' < StagesLeft
    \/ PassesLeft' = PassesLeft /\ StagesLeft' = StagesLeft /\ LinesLeft' < LinesLeft

Variant == {PassesLeft, StagesLeft, LinesLeft} \subseteq Nat

NearerTheEnd == []Variant /\ [][Preprocess /\ Running' => GoesDown]_ppVars

LEMMA StepGoesDown ==
    ASSUME IsFiniteSet(Files), TextsOK, Preprocess, Running'
    PROVE  GoesDown
  <1>0. work \in Seq(Lines) /\ PassLimit \in Nat /\ Pass \in Nat /\ PassLimit' = PassLimit
    BY SeenCounts DEF TextsOK, PassLimit
  <1>1. CASE OpenPass
    <2>1. Pass' = Pass + 1
      BY <1>1 DEF OpenPass
    <2> QED BY <2>1, <1>0 DEF GoesDown, PassesLeft
  <1>2. CASE HeaderLine \/ CopyLine \/ IncludeFile \/ IncludeAgain
    <2>1. /\ Pass' = Pass /\ work # <<>> /\ work' = Tail(work)
          /\ pc' = pc \/ (pc = "header" /\ pc' = "expand")
      BY <1>2 DEF HeaderLine, CopyLine, IncludeFile, IncludeAgain, Directive
    <2>2. Len(work') = Len(work) - 1 /\ Len(work) \in Nat
      BY <2>1, <1>0, TailLines
    <2>3. StagesLeft' = StagesLeft \/ StagesLeft' < StagesLeft
      BY <2>1 DEF StagesLeft
    <2> QED BY <2>1, <2>2, <2>3, <1>0 DEF GoesDown, PassesLeft, LinesLeft
  <1>3. CASE HeaderEnds \/ AnotherPass
    <2>1. Pass' = Pass /\ <<pc, pc'>> \in {<<"header", "expand">>, <<"expand", "open">>}
      BY <1>3 DEF HeaderEnds, AnotherPass
    <2>2. StagesLeft' < StagesLeft
      BY <2>1 DEF StagesLeft
    <2> QED BY <2>1, <2>2, <1>0 DEF GoesDown, PassesLeft
  <1>4. CASE OpenPassFails \/ IncludeFails \/ AnotherPassFails \/ Finish \/ FinishFails
    <2>1. pc' = "idle"
      BY <1>4 DEF OpenPassFails, IncludeFails, AnotherPassFails, Finish, FinishFails, Fail
    <2> QED BY <2>1 DEF Running
  <1> QED BY <1>1, <1>2, <1>3, <1>4, Zenon DEF Preprocess

(* Every step of a unit but the last brings it nearer to its end, by a      *)
(* measure that cannot go down for ever: with fairness, Terminates, for any *)
(* number of files.                                                        *)
THEOREM PassesComeToAnEnd ==
    ASSUME DirectivesApart, ExitOnError, IsFiniteSet(Files)
    PROVE  PPSpec => NearerTheEnd
  <1>1. ASSUME TextsOK, PassInv PROVE Variant
    <2>1. PassesLeft \in Nat
      <3>1. PassLimit \in Nat /\ Pass \in Nat /\ Pass <= PassLimit
        BY <1>1, SeenCounts DEF PassInv
      <3> QED BY <3>1 DEF PassesLeft
    <2>2. StagesLeft \in Nat /\ LinesLeft \in Nat
      BY <1>1 DEF StagesLeft, LinesLeft, TextsOK
    <2> QED BY <2>1, <2>2 DEF Variant
  <1>2. TextsOK /\ [PPNext]_ppVars => [Preprocess /\ Running' => GoesDown]_ppVars
    BY StepGoesDown
  <1> QED BY <1>1, <1>2, PassInvariant, PTL DEF PPSpec, NearerTheEnd
=============================================================================
