----------------------------- MODULE Diagnostic -----------------------------
(***************************************************************************)
(* How a compiler's output is laid out: emit of bk-core/src/diagnostic.rs. *)
(*                                                                         *)
(* A line is a sequence of lexemes: a colon, a space, digits, a word, the  *)
(* name of a severity, a caret.  Lexemes between two colons make up what   *)
(* the code gets by splitting the line at its colons; find_severity looks  *)
(* for the name of a severity with a colon right behind it.                *)
(***************************************************************************)
EXTENDS Integers, FiniteSets, SequencesExt

CONSTANTS
    Outputs,    \* what compilers print: sequences of lines
    Headings    \* whether emit is given a heading

VARIABLES
    heading,    \* heading is not empty
    output,     \* the lines of the output
    at,         \* the line emitted next, 0 for the heading
    printed     \* the document: a sequence of lines, each of runs [kind, text]

diagnosticVars == <<heading, output, at, printed>>

Lexeme == {":", " ", "1", "w", "fatal", "error", "warning", "note", "info", "^"}

ASSUME DiagnosticAssumption ==
    /\ Outputs \subseteq Seq(Seq(Lexeme))
    /\ Headings \subseteq BOOLEAN
-----------------------------------------------------------------------------
Severity == {"Note", "Warning", "Error"}
Words == <<"error", "warning", "note", "info">>

\* Mutant: a spelling that find_severity does not look for.
SeverityWordShort(severity) ==
    CASE severity = "Error" -> <<"error">>
      [] severity = "Warning" -> <<"warn">>
      [] severity = "Note" -> <<"note">>

\* severity_word.
SeverityWord(severity) ==
    CASE severity = "Error" -> <<"error">>
      [] severity = "Warning" -> <<"warning">>
      [] severity = "Note" -> <<"note">>

\* Severity::kind.
SeverityKind(severity) ==
    CASE severity = "Error" -> "Malformed"
      [] severity = "Warning" -> "AccessFlag"
      [] severity = "Note" -> "Comment"

IsBlank(lexeme) == lexeme = " "
NoSpace(lexeme) == ~IsBlank(lexeme)
NoColon(lexeme) == lexeme # ":"

From(s, i) == SubSeq(s, i, Len(s))
UpTo(s, i) == SubSeq(s, 1, i)

TrimStart(s) == From(s, IF SelectInSeq(s, NoSpace) = 0 THEN Len(s) + 1 ELSE SelectInSeq(s, NoSpace))
TrimEndOf(s, keep(_)) == UpTo(s, SelectLastInSeq(s, keep))
Trim(s) == TrimEndOf(TrimStart(s), NoSpace)

None == "none"

\* Severity::parse of a trimmed word.
ParseSeverity(word) ==
    CASE word \in {<<"error">>, <<"fatal", " ", "error">>} -> "Error"
      [] word = <<"warning">> -> "Warning"
      [] word \in {<<"note">>, <<"info">>} -> "Note"
      [] OTHER -> None

Colons(s) == Cardinality({i \in 1..Len(s) : s[i] = ":"})

\* line.find of a severity's name with its colon: 0, or where it starts.
Find(line, word) ==
    LET places == {i \in 1..(Len(line) - 1) : line[i] = word /\ line[i + 1] = ":"}
    IN  IF places = {} THEN 0 ELSE CHOOSE i \in places : \A j \in places : i <= j

\* Something that looks like a locator stands in front of the place found.
Located(line, i) == i > 0 /\ Colons(UpTo(line, i)) >= 2

\* find_severity: the first word, in the order of Words and not of the line,
\* whose first place is located; where it is, or 0.
FindSeverity(line) ==
    LET k == SelectInSeq(Words, LAMBDA word : Located(line, Find(line, word)))
    IN  IF k = 0 THEN 0 ELSE Find(line, Words[k])

\* Where the last colon is, or 0.
LastColon(s) == SelectLastInSeq(s, LAMBDA lexeme : lexeme = ":")

\* The last of the fields between colons, and what stands before its colon.
LastField(s) == From(s, LastColon(s) + 1)
Before(s) == UpTo(s, LastColon(s) - 1)

Digits(field) == field # <<>> /\ \A i \in 1..Len(field) : field[i] = "1"

\* How many fields at the right of the locator are a position: at most two,
\* and never the first field.
Taken(locator) ==
    CASE ~(Colons(locator) >= 1 /\ Digits(LastField(locator))) -> 0
      [] /\ Colons(locator) >= 1 /\ Digits(LastField(locator))
         /\ ~(Colons(locator) >= 2 /\ Digits(LastField(Before(locator)))) -> 1
      [] OTHER -> 2

PathOf(locator) ==
    CASE Taken(locator) = 0 -> <<>>
      [] Taken(locator) = 1 -> Before(locator)
      [] Taken(locator) = 2 -> Before(Before(locator))

NoSplit == [severity |-> None]

\* split: path, position, severity and message; or none.
Split(line) ==
    LET i == FindSeverity(line)
        head == UpTo(line, i)
        severity == ParseSeverity(Trim(LastField(head)))
        locator == TrimEndOf(Before(head), NoColon)
        path == PathOf(locator)
    IN  IF i = 0 THEN NoSplit
        ELSE IF severity = None \/ path = <<>> THEN NoSplit
        ELSE [path |-> path, position |-> From(locator, Len(path) + 2),
              severity |-> severity, message |-> TrimStart(From(line, i + 2))]

\* What the fold of emit makes of the severity of one more line.
Worse(found, worst) ==
    IF "Error" \in {found, worst} THEN "Error"
    ELSE IF "Warning" \in {found, worst} THEN "Warning" ELSE "Note"

Worst(lines) ==
    LET worst[i \in 0..Len(lines)] ==
            IF i = 0 THEN "Note"
            ELSE IF Split(lines[i]) = NoSplit THEN worst[i - 1]
            ELSE Worse(Split(lines[i]).severity, worst[i - 1])
    IN  worst[Len(lines)]

Run(kind, text) == [kind |-> kind, text |-> text]

\* What emit_line takes for a caret line.
Caret(line) == TrimStart(line) # <<>> /\ TrimStart(line)[1] = "^"

\* A line that is no diagnostic keeps its indentation, a caret above all.
Unsplit(line) == <<Run(IF Caret(line) THEN "InstructionOffset" ELSE "Plain", line)>>

\* emit_line.
EmitLine(line) ==
    LET s == Split(line)
    IN  IF s = NoSplit THEN Unsplit(line)
        ELSE <<Run("FilePath", s.path), Run("Plain", <<":">>), Run("Number", s.position),
               Run("Plain", <<":", " ">>),
               Run(SeverityKind(s.severity), SeverityWord(s.severity)),
               Run("Plain", <<":", " ">>), Run("Plain", s.message)>>
-----------------------------------------------------------------------------
DiagnosticInit ==
    /\ heading \in Headings
    /\ output \in Outputs
    /\ at = 0
    /\ printed = <<>>

\* The heading, and a blank line.
Headed(worst) == <<<<Run(SeverityKind(worst), <<"heading">>)>>, <<>>>>

\* A heading takes the colour of the worst severity of the output.
Heading ==
    /\ at = 0
    /\ printed' = IF heading THEN Headed(Worst(output)) ELSE <<>>
    /\ at' = 1
    /\ UNCHANGED <<heading, output>>

Line ==
    /\ at \in 1..Len(output)
    /\ printed' = Append(printed, EmitLine(output[at]))
    /\ at' = at + 1
    /\ UNCHANGED <<heading, output>>

DiagnosticNext == Heading \/ Line

DiagnosticSpec == DiagnosticInit /\ [][DiagnosticNext]_diagnosticVars
-----------------------------------------------------------------------------
(***************************************************************************)
(* Properties.                                                             *)
(***************************************************************************)
TextOf(runs) == FlattenSeq([i \in 1..Len(runs) |-> runs[i].text])

\* The lines of the output among those printed.
Emitted == IF at = 0 THEN <<>> ELSE From(printed, IF heading THEN 3 ELSE 1)

\* A line whose "info:", printed as "note:", is behind another "note:" that
\* is found before it.
Renamed(line) ==
    /\ FindSeverity(line) > 0 /\ line[FindSeverity(line)] = "info"
    /\ Find(line, "note") > 0

\* Laying out what was laid out changes nothing: each line printed is taken
\* apart into the parts it was put together from, unless it was renamed behind
\* a path that has the new name; and one that cannot be taken apart is printed
\* as it came.  Whether it was taken apart at the right word is not said: that
\* is at the first the code looks for, which may be one of the message.
PrintedReadsTheSame ==
    \A i \in 1..Len(Emitted) :
        /\ Renamed(output[i]) \/ Split(TextOf(Emitted[i])) = Split(output[i])
        /\ Split(output[i]) = NoSplit => TextOf(Emitted[i]) = output[i]

\* The heading has the colour of an error when a line below it has, else that
\* of a warning when a line has.
HeadingIsWorst ==
    heading /\ at = Len(output) + 1 =>
        LET kinds == {Emitted[i][5].kind : i \in {j \in 1..Len(Emitted) : Len(Emitted[j]) = 7}}
        IN  printed[1][1].kind =
                (IF "Malformed" \in kinds THEN "Malformed"
                 ELSE IF "AccessFlag" \in kinds THEN "AccessFlag" ELSE "Comment")

\* The layout of compiler output says what the output said: line by line, and
\* in the colour of its heading.
ShownAsItIs == PrintedReadsTheSame /\ HeadingIsWorst
=============================================================================
