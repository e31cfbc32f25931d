----------------------------- MODULE Preprocessor -----------------------------
(***************************************************************************)
(* QasmPreprocessor: the expansion of include directives before the parser *)
(* runs, as passes over a work file.  A pass copies the lines up to the    *)
(* OPENQASM line, then replaces each include directive by the text of its  *)
(* file; passes repeat until one meets no directive.  Everything a pass    *)
(* needs beyond its locals is static: the streams and names of temporary   *)
(* files, and the flags that remember an open C comment.  They outlive the *)
(* translation unit.                                                       *)
(*                                                                         *)
(* A line is what the code tells of it: its kind, the file it is from (a   *)
(* text line) or names (a directive), and the comment that trails a        *)
(* directive.  Paths are resolved to files of one directory; line numbers  *)
(* and the versions 2 and 3 are left out.                                  *)
(***************************************************************************)
EXTENDS Integers, SequencesExt, FiniteSetsExt

CONSTANTS
    Files,      \* the files an include directive may name
    Main,       \* the translation unit itself
    Units,      \* texts a translation unit may have
    Texts,      \* for each file, the texts it may have
    Missing,    \* or this, when there is no such file
    Readings,   \* what the files may read as, with directives replaced
    MaxUnits,   \* bound: translation units in one process
    MaxPasses,  \* bound: passes over one unit
    OpenFails,  \* may opening a temporary file fail
    KeepTemps,  \* the option -keep-temps
    ExitOnError \* the default diagnostic handler, which exits on an error

ASSUME PreprocessorAssumption ==
    /\ Main \notin Files /\ MaxUnits \in Nat /\ MaxPasses \in Nat
    /\ OpenFails \in BOOLEAN /\ KeepTemps \in BOOLEAN
    /\ ExitOnError \in BOOLEAN

VARIABLES
    dir,        \* the include directory
    unit,       \* the text of the current unit, as given
    units,      \* units begun so far
    pc,         \* idle, open, header, expand, exited
    result,     \* of the last unit: none, ok, failed
    work,       \* lines of the work file still to read
    out,        \* lines of the temporary file of this pass
    IC,         \* directives met in this pass
    OQF,        \* a version line has been written
    AlreadySeen,
    Pass,
    CCS, HOP,   \* in a C comment, a directive has opened a C comment
    Tmpfiles,   \* how many streams the static vector holds
    TmpFilenames,
    disk,       \* temporary files that exist
    kept,       \* those registered with the file cleaner
    lost,       \* history: those whose name was lost
    fresh       \* the next temporary name

textVars == <<work, out, IC, OQF, AlreadySeen, CCS, HOP>>
fileVars == <<Tmpfiles, TmpFilenames, disk, kept, lost, fresh>>
ppVars == <<dir, unit, units, pc, result, Pass, textVars, fileVars>>

-----------------------------------------------------------------------------
(* Lines.                                                                  *)

Trails == {"none", "open", "closed"}    \* comment behind a directive

Line(kind) == [kind |-> kind, file |-> Main, trail |-> "none"]
Include(f, trail) == [kind |-> "include", file |-> f, trail |-> trail]
Text(f) == [kind |-> "text", file |-> f, trail |-> "none"]

(* blank: empty.  A line of one character is code, but in a comment acts   *)
(* as a blank one; no comment here has one.  slashes: begins with two.     *)
(* open: begins with the opening of a C comment.  star: begins with an asterisk. *)
(* starend: so, and ends the comment.  end: ends a C comment further right.*)
(* malformed: has the word include, but is no directive.  mark: the #file  *)
(* and #line directives the preprocessor writes, after empty lines.        *)
LineKinds == {"version", "blank", "slashes", "open", "star", "starend", "end",
              "malformed", "mark"}

Lines == {Line(k) : k \in LineKinds}
             \cup {Include(f, t) : f \in Files, t \in Trails}
             \cup {Text(f) : f \in Files \cup {Main}}

(* A line of text is one of the file that has it. *)
TextsOf(f) == {t \in Seq(Lines) : \A i \in 1..Len(t) : t[i].kind = "text" => t[i].file = f}

ASSUME TextsAssumption ==
    /\ \A u \in Units : u \in TextsOf(Main)
    /\ \A f \in Files : \A t \in Texts[f] : t = Missing \/ t \in TextsOf(f)
    /\ Missing \notin Seq(Lines)

ASSUME ReadingsAssumption == Readings \subseteq [Files -> Seq(Lines)]

(* IsComment: its result, and the flag it leaves.  What begins with a      *)
(* slash is settled first, so that the branch for the opening of a C       *)
(* comment is never reached.                                               *)
IsComment(l, inComment) ==
    CASE l.kind = "slashes"                -> TRUE
      [] l.kind \in {"blank", "mark", "open"} -> FALSE
      [] OTHER                             -> inComment

EndsComment(l) == l.kind = "end" \/ l.trail = "closed"

(* What begins with an asterisk is settled before the end of the comment    *)
(* is looked for.                                                          *)
CommentAfterKept(l, inComment) ==   \* mutant: an empty line changes nothing
    inComment /\ ~EndsComment(l)

CommentAfter(l, inComment) ==
    /\ inComment
    /\ l.kind \notin {"blank", "mark"}
    /\ ~EndsComment(l)

-----------------------------------------------------------------------------
(* Temporary files.                                                        *)

(* CleanupTemporaryFiles.                                                  *)
CleanupKeepsStreams ==      \* mutant: Tmpfiles is not cleared
    /\ Tmpfiles' = Tmpfiles
    /\ disk' = disk \ ToSet(TmpFilenames)
    /\ TmpFilenames' = <<>>

CleanupTemporaryFiles ==
    /\ Tmpfiles' = 0
    /\ disk' = disk \ ToSet(TmpFilenames)
    /\ TmpFilenames' = <<>>

FailLeaves ==               \* mutant: a return without the clean-up
    /\ pc' = "idle" /\ result' = "failed"
    /\ UNCHANGED <<dir, unit, units, Pass, fileVars>>

FailSilently ==             \* mutant: a return of something else than false
    /\ CleanupTemporaryFiles
    /\ pc' = "idle" /\ UNCHANGED result
    /\ UNCHANGED <<dir, unit, units, Pass, kept, lost, fresh>>

Fail ==
    /\ CleanupTemporaryFiles
    /\ pc' = "idle" /\ result' = "failed"
    /\ UNCHANGED <<dir, unit, units, Pass, kept, lost, fresh>>

PPInit ==
    /\ dir \in [Files -> UNION {Texts[f] : f \in Files}]
    /\ \A f \in Files : dir[f] \in Texts[f]
    /\ unit = <<>> /\ units = 0 /\ pc = "idle" /\ result = "none"
    /\ work = <<>> /\ out = <<>> /\ IC = 0 /\ OQF = FALSE /\ AlreadySeen = {}
    /\ Pass = 0 /\ CCS = FALSE /\ HOP = FALSE
    /\ Tmpfiles = 0 /\ TmpFilenames = <<>> /\ disk = {} /\ kept = {} /\ lost = {}
    /\ fresh = 1

(* The driver is given another unit; a failure is reported as an error.    *)
GoesOn == pc = "idle" /\ units < MaxUnits /\ (ExitOnError => result # "failed")

(* Preprocess on a file (created = 1, the work file) or on a stream, which *)
(* is first copied to a file of its own (created = 2).  The work file ends *)
(* with an empty line, unless the text has no newline at its end.          *)
Begin ==
    /\ GoesOn
    /\ \E text \in Units, created \in 1..2, tail \in {<<>>, <<Line("blank")>>} :
         /\ created = 2 => tail # <<>>
         /\ unit' = text
         /\ work' = text \o tail
         /\ TmpFilenames' = TmpFilenames
                \o [i \in 1..created |-> fresh + i - 1]
         /\ disk' = disk \cup fresh..(fresh + created - 1)
         /\ fresh' = fresh + created
    /\ units' = units + 1 /\ pc' = "open" /\ result' = "none"
    /\ out' = <<>> /\ IC' = 0 /\ OQF' = FALSE /\ AlreadySeen' = {} /\ Pass' = 0
    /\ UNCHANGED <<dir, CCS, HOP, Tmpfiles, kept, lost>>

BeginFails ==
    /\ GoesOn /\ OpenFails
    /\ CleanupTemporaryFiles
    /\ units' = units + 1 /\ result' = "failed"
    /\ UNCHANGED <<dir, unit, pc, Pass, kept, lost, fresh, textVars>>

(* The head of the loop: a new stream is pushed, and the stream numbered   *)
(* Pass is the one opened.                                                 *)
OpenPass ==
    /\ pc = "open" /\ Pass < MaxPasses
    /\ Tmpfiles' = Tmpfiles + 1 /\ Pass' = Pass + 1
    /\ TmpFilenames' = Append(TmpFilenames, fresh)
    /\ disk' = disk \cup {fresh} /\ fresh' = fresh + 1
    /\ out' = <<>> /\ IC' = 0 /\ pc' = "header"
    /\ UNCHANGED <<dir, unit, units, result, work, OQF, AlreadySeen, CCS, HOP, kept,
                   lost>>

OpenPassFails ==
    /\ pc = "open" /\ OpenFails
    /\ Fail /\ UNCHANGED textVars

-----------------------------------------------------------------------------
(* Up to the OPENQASM line.                                                *)

Next1 == Head(work)

Copied == out' = Append(out, Next1)

(* What one line of the head of the file leaves in the temporary file.     *)
HeaderWritten(l) ==
    IF l.kind = "version" THEN <<l, Line("mark")>>
    ELSE IF OQF THEN <<l>>
    ELSE <<Line("version"), Line("mark"), l>>

HeaderLine ==
    /\ pc = "header" /\ work # <<>>
    /\ work' = Tail(work)
    /\ CCS' = CommentAfter(Next1, CCS)
    /\ \/ /\ IsComment(Next1, CCS)
          /\ Copied /\ UNCHANGED <<OQF, pc>>
       \/ /\ ~IsComment(Next1, CCS) /\ Next1.kind = "blank" /\ ~OQF
          /\ UNCHANGED <<out, OQF, pc>>
       \/ /\ ~IsComment(Next1, CCS) /\ (Next1.kind = "blank" => OQF)
          /\ out' = out \o HeaderWritten(Next1)
          /\ OQF' = TRUE
          /\ pc' = IF Next1.kind = "version" THEN "expand" ELSE pc
    /\ UNCHANGED <<dir, unit, units, result, IC, AlreadySeen, Pass, HOP, fileVars>>

HeaderWaits ==              \* mutant: not before a version line is written
    /\ pc = "header" /\ work = <<>> /\ OQF
    /\ pc' = "expand"
    /\ UNCHANGED <<dir, unit, units, result, Pass, textVars, fileVars>>

HeaderEnds ==
    /\ pc = "header" /\ work = <<>>
    /\ pc' = "expand"
    /\ UNCHANGED <<dir, unit, units, result, Pass, textVars, fileVars>>

-----------------------------------------------------------------------------
(* After it.                                                               *)

InComment == HOP \/ CCS     \* a directive's comment begins on the next line

Directive ==
    /\ pc = "expand" /\ work # <<>> /\ Next1.kind \in {"include", "malformed"}
    /\ ~IsComment(Next1, InComment)

NotFound == Next1.file \notin AlreadySeen /\ dir[Next1.file] = Missing

CopyLineKeepsHOP ==         \* mutant: the flag is not taken back
    /\ pc = "expand" /\ work # <<>> /\ ~Directive
    /\ work' = Tail(work) /\ Copied
    /\ CCS' = CommentAfter(Next1, InComment)
    /\ UNCHANGED <<dir, unit, units, pc, result, IC, OQF, AlreadySeen, Pass, HOP, fileVars>>

CopyLine ==
    /\ pc = "expand" /\ work # <<>> /\ ~Directive
    /\ work' = Tail(work) /\ Copied
    /\ CCS' = CommentAfter(Next1, InComment) /\ HOP' = FALSE
    /\ UNCHANGED <<dir, unit, units, pc, result, IC, OQF, AlreadySeen, Pass, fileVars>>

HOPAfter(l) == l.trail = "open"     \* ValidateIncludeLine

SeenAfterNot(f) == AlreadySeen              \* mutant: not remembered
SeenAfter(f) == AlreadySeen \cup {f}

Comment(l) == IF l.trail = "open" THEN <<Line("open")>> ELSE <<>>

InsertedShort(l) ==         \* mutant: the last line is not read
    <<Line("mark")>> \o Front(dir[l.file]) \o <<Line("mark")>> \o Comment(l)

Inserted(l) == <<Line("mark")>> \o dir[l.file] \o <<Line("mark")>> \o Comment(l)

IncludeFile ==
    /\ Directive /\ Next1.kind = "include"
    /\ Next1.file \notin AlreadySeen /\ ~NotFound
    /\ work' = Tail(work) /\ out' = out \o Inserted(Next1)
    /\ AlreadySeen' = SeenAfter(Next1.file)
    /\ IC' = IC + 1 /\ HOP' = HOPAfter(Next1) /\ CCS' = HOPAfter(Next1)
    /\ UNCHANGED <<dir, unit, units, pc, result, OQF, Pass, fileVars>>

IncludeAgain ==
    /\ Directive /\ Next1.kind = "include" /\ Next1.file \in AlreadySeen
    /\ work' = Tail(work)
    /\ IC' = IC + 1 /\ HOP' = HOPAfter(Next1) /\ CCS' = FALSE
    /\ UNCHANGED <<dir, unit, units, pc, result, out, OQF, AlreadySeen, Pass, fileVars>>

(* The directive is malformed, or its file is not found or cannot be read. *)
(* The flags stay as they are.                                             *)
IncludeFails ==
    /\ Directive /\ (Next1.kind = "malformed" \/ NotFound)
    /\ Fail
    /\ IC' = IC + 1 /\ HOP' = HOPAfter(Next1) /\ CCS' = FALSE
    /\ UNCHANGED <<work, out, OQF, AlreadySeen>>

-----------------------------------------------------------------------------
(* The end of a pass.                                                      *)

(* The work file is rewritten with the temporary one.                      *)
AnotherPass ==
    /\ pc = "expand" /\ work = <<>> /\ IC > 0
    /\ work' = Append(out, Line("blank")) /\ out' = <<>> /\ pc' = "open"
    /\ UNCHANGED <<dir, unit, units, result, Pass, IC, OQF, AlreadySeen, CCS, HOP,
                   fileVars>>

AnotherPassFails ==
    /\ pc = "expand" /\ work = <<>> /\ IC > 0 /\ OpenFails
    /\ Fail /\ UNCHANGED textVars

LastPass == pc = "expand" /\ work = <<>> /\ IC = 0

(* The last name is taken off the list of those to be removed; its file is *)
(* what the parser reads, and left to the file cleaner.                    *)
FinishNot == TmpFilenames           \* mutant: the name stays on the list
FinishNames == Front(TmpFilenames)

Finish ==
    /\ LastPass
    /\ kept' = kept \cup {Last(TmpFilenames)}
    /\ disk' = disk \ ToSet(FinishNames)
    /\ Tmpfiles' = 0 /\ TmpFilenames' = <<>>
    /\ pc' = "idle" /\ result' = "ok"
    /\ UNCHANGED <<dir, unit, units, Pass, lost, fresh, textVars>>

(* Its name is on no list when it cannot be opened again.                  *)
FinishFails ==
    /\ LastPass /\ OpenFails
    /\ disk' = disk \ ToSet(FinishNames)
    /\ Tmpfiles' = 0 /\ TmpFilenames' = <<>>
    /\ pc' = "idle" /\ result' = "failed"
    /\ lost' = lost \cup {Last(TmpFilenames)}
    /\ UNCHANGED <<dir, unit, units, Pass, kept, fresh, textVars>>

(* The file cleaner is destroyed with the process.                         *)
Exit ==
    /\ pc = "idle"
    /\ disk' = IF KeepTemps THEN disk ELSE disk \ kept
    /\ pc' = "exited"
    /\ UNCHANGED <<dir, unit, units, result, Pass, textVars, Tmpfiles, TmpFilenames,
                   kept, lost, fresh>>

Preprocess ==
    \/ OpenPass \/ OpenPassFails
    \/ HeaderLine \/ HeaderEnds
    \/ CopyLine \/ IncludeFile \/ IncludeAgain \/ IncludeFails
    \/ AnotherPass \/ AnotherPassFails \/ Finish \/ FinishFails

PPNext == Begin \/ BeginFails \/ Preprocess \/ Exit

PPSpec == PPInit /\ [][PPNext]_ppVars

(* Preprocess is a loop in one thread: it goes on as long as it can.       *)
PPFairSpec == PPSpec /\ WF_ppVars(Preprocess)

-----------------------------------------------------------------------------
(* The texts the preprocessor is meant for: a directive is below a version *)
(* line, and the comment it opens is over before the next one.  What ends  *)
(* that comment is a line CommentAfter has an eye for.                     *)
IsInclude(l) == l.kind = "include"
Closes(l) == l.kind \in {"blank", "mark", "end"}

VersionFirst(t) ==
    \A i \in 1..Len(t) : IsInclude(t[i]) => \E k \in 1..(i - 1) : t[k].kind = "version"

Closed(t) ==
    \A i \in 1..Len(t) : IsInclude(t[i]) /\ t[i].trail = "open" =>
        \E k \in (i + 1)..Len(t) :
            Closes(t[k]) /\ \A j \in (i + 1)..(k - 1) : ~IsInclude(t[j])

DirectivesApart ==
    /\ \A u \in Units : VersionFirst(u) /\ Closed(u)
    /\ \A f \in Files : \A t \in Texts[f] \ {Missing} : Closed(Append(t, Line("mark")))

-----------------------------------------------------------------------------
(* Properties.                                                             *)

Running == pc \in {"open", "header", "expand"}

PPTypeOK ==
    /\ result = "none" <=> Running \/ units = 0
    /\ pc \in {"idle", "open", "header", "expand", "exited"}
    /\ result \in {"none", "ok", "failed"}
    /\ work \in Seq(Lines) /\ out \in Seq(Lines)
    /\ IC \in Nat /\ Pass \in 0..MaxPasses /\ Tmpfiles \in 0..MaxPasses
    /\ AlreadySeen \subseteq Files
    /\ {OQF, CCS, HOP} \subseteq BOOLEAN
    /\ disk \subseteq 1..(fresh - 1) /\ kept \subseteq 1..(fresh - 1)
    /\ ToSet(TmpFilenames) \subseteq 1..(fresh - 1)

(* The loop opens the stream numbered Pass of a vector that is static: the *)
(* stream it has just pushed, only if the vector was empty when the unit   *)
(* was begun.                                                              *)
PassIsLastStream == pc \in {"header", "expand"} => Pass = Tmpfiles

(* However it returns, and whatever units came before, the only temporary  *)
(* files left are those the file cleaner removes at exit - but for files   *)
(* whose name was dropped before they could not be opened again.           *)
NoTempLeft ==
    /\ pc = "idle" => disk \subseteq kept \cup lost
    /\ pc = "exited" /\ ~KeepTemps => disk \subseteq lost

(* The file handed to the parser exists, and is not one to be cleaned up.  *)
ResultExists ==
    pc = "idle" /\ result = "ok" => \E f \in disk \cap kept : f \notin ToSet(TmpFilenames)

(* A file is inserted once in a unit, even by directives of other files    *)
(* and in other passes.                                                    *)
Occurrences(l, text) == Cardinality({i \in 1..Len(text) : text[i] = l})

EachFileOnce ==
    \A f \in Files : dir[f] # Missing =>
        Occurrences(Text(f), out \o work) <= Occurrences(Text(f), dir[f])

(* What the parser reads has no directive left: it ignores those it meets, *)
(* as handled by the preprocessor.                                         *)
IncludesHandled ==
    pc = "idle" /\ result = "ok" => \A i \in 1..Len(out) : out[i].kind # "include"

(* After a unit that was preprocessed the next is read from a clean state: *)
(* no comment of the former is still open.                                 *)
FreshStart == pc = "idle" /\ result = "ok" => ~CCS /\ ~HOP

(* What the parser makes of a text: its code, and the directives. *)
IsCode(l) == l.kind \in {"text", "include"}

Code(text) ==
    LET C[i \in 0..Len(text)] ==
            IF i = 0 THEN <<>>
            ELSE IF IsCode(text[i]) THEN Append(C[i - 1], text[i]) ELSE C[i - 1]
    IN  C[Len(text)]

(* The text with every directive replaced by what its file reads as.       *)
LineAs(l, reading) == IF IsInclude(l) THEN reading[l.file] ELSE <<l>>

ReadAs(text, reading) ==
    LET R[i \in 0..Len(text)] ==
            IF i = 0 THEN <<>>
            ELSE R[i - 1] \o LineAs(text[i], reading)
    IN  R[Len(text)]

Content(f) == IF dir[f] = Missing THEN <<>> ELSE Code(dir[f])

Named(text) == {text[i].file : i \in {j \in 1..Len(text) : IsInclude(text[j])}}

(* No two directives of the unit and the files name the same file.         *)
NamesApart(text) ==
    \A i, j \in 1..Len(text) :
        IsInclude(text[i]) /\ IsInclude(text[j]) /\ text[i].file = text[j].file => i = j

NamedOnce ==
    /\ NamesApart(Code(unit))
    /\ \A f \in Files : /\ NamesApart(Content(f))
                        /\ Named(Content(f)) \cap Named(Code(unit)) = {}
                        /\ \A g \in Files \ {f} : Named(Content(f)) \cap Named(Content(g)) = {}

(* A reading that is right for the files inserted: each reads as its text,  *)
(* with the directives in it replaced in their turn.                       *)
Consistent(reading) == \A f \in AlreadySeen : reading[f] = ReadAs(Content(f), reading)

(* The code between directives is kept, in order, and every directive gives *)
(* way to what its file reads as, at its place and to any depth, over all   *)
(* the passes that takes; when no two directives name the same file.       *)
ResultIsExpansion ==
    pc = "idle" /\ result = "ok" /\ NamedOnce =>
        \A reading \in Readings : Consistent(reading) => Code(out) = ReadAs(Code(unit), reading)

(* With n files a unit takes n + 2 passes at most, however they include one *)
(* another: those that insert files, one that drops what is left, and the  *)
(* last.                                                                   *)
PassesBounded == Pass <= Cardinality(Files) + 2

(* Preprocessing ends, also when files include one another in a circle.    *)
Terminates == Running ~> ~Running

(* The passes carry out the expansion of directives, one step each.        *)
Expansions == INSTANCE IncludeExpansion WITH
    Sources  <- {Code(u) : u \in Units},
    NotThere <- Missing,
    text     <- Code(out \o work),
    inserted <- AlreadySeen,
    content  <- [f \in Files |-> IF dir[f] = Missing THEN Missing ELSE Code(dir[f])],
    state    <- IF Running THEN "expanding"
                ELSE CASE result = "none"   -> "ready"
                       [] result = "ok"     -> "done"
                       [] result = "failed" -> "failed"

ImplementsExpansion == Expansions!ExpansionSteps

(* And they are carried out: what has been started is completed or fails.  *)
ExpansionGoesOn == Expansions!ExpansionFairness
=============================================================================
