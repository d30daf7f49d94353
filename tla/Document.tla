------------------------------ MODULE Document ------------------------------
(***************************************************************************)
(* DocumentBuilder and Document (bk-core/src/document.rs).                 *)
(*                                                                         *)
(* A builder appends classified runs of text.  It keeps the text of the    *)
(* whole document in one buffer, a token per run, the byte offset at which *)
(* each line starts and the width of the widest line in characters.  The   *)
(* renderer then reads the result as a grid, one line at a time.           *)
(*                                                                         *)
(* A text is abstracted to what the bookkeeping tells apart: a sequence of *)
(* bytes, each the first byte of a character, a continuation byte of a     *)
(* multi-byte character, or a line break ('\n' or '\r', which push treats  *)
(* alike).  What the characters are, and the kind of a token, do not       *)
(* matter to any operation of the builder.                                 *)
(***************************************************************************)
EXTENDS Integers, Sequences, FiniteSets

CONSTANTS
    Texts,      \* the texts callers hand to push
    Formatted,  \* the texts push_fmt's arguments format to: see PushFmt
    Stops,      \* the columns callers pad to (12, 15, 34, 48 in emit.rs)
    MaxLen,     \* Token::MAX_LEN, the longest token in bytes
    Spaces,     \* the length of the SPACES literal of pad
    MaxText     \* bound on the length of the text; the code's casts to u32
                \* hold it below 2^32

Byte == {"lead", "cont", "nl"}

\* A &str: its first byte is never a continuation byte.
Str == {s \in Seq(Byte) : s # <<>> => s[1] # "cont"}

ASSUME TextsAssumption == Texts \subseteq Str
ASSUME FormattedAssumption ==
    /\ Formatted \subseteq Str
    /\ \A s \in Formatted : \A i \in DOMAIN s : s[i] # "nl"
ASSUME BoundsAssumption ==
    /\ MaxLen \in Nat \ {0}
    /\ Spaces \in 1..MaxLen
    /\ MaxText \in Nat
    /\ Stops \subseteq Nat

VARIABLES
    text,           \* the single buffer
    tokens,         \* runs of text: start (byte offset from 0) and len (bytes)
    lineStarts,     \* byte offset of the first character of each line
    columns,        \* the widest line so far, in characters
    currentColumns, \* width of the line being written
    finished        \* the builder was consumed by finish

vars == <<text, tokens, lineStarts, columns, currentColumns, finished>>

Token == [start : Nat, len : 1..MaxLen]
-----------------------------------------------------------------------------
Larger(a, b) == IF a >= b THEN a ELSE b

\* text.chars().count()
Chars(s) == Cardinality({i \in DOMAIN s : s[i] # "cont"})

\* Mutant: a push that trusts its callers as push_fmt does.
SanitizedTrusting(s) == s

\* Line breaks inside a token become spaces.
Sanitized(s) == [i \in DOMAIN s |-> IF s[i] = "nl" THEN "lead" ELSE s[i]]

Blank(n) == [i \in 1..n |-> "lead"]

\* Mutant: a last token shorter than size is dropped.
CutRoundsDown(start, n, size) ==
    [i \in 1..(n \div size) |->
        [start |-> start + (i - 1) * size, len |-> size]]

\* The loop that covers the n bytes from start on with tokens of at most
\* size bytes each.
Cut(start, n, size) ==
    [i \in 1..((n + size - 1) \div size) |->
        [start |-> start + (i - 1) * size,
         len   |-> IF i * size <= n THEN size ELSE n - (i - 1) * size]]

\* The bytes s reach the end of the buffer as tokens of at most size bytes.
AppendRun(s, size) ==
    /\ Len(text) + Len(s) <= MaxText
    /\ text' = text \o s
    /\ tokens' = tokens \o Cut(Len(text), Len(s), size)
    /\ currentColumns' = currentColumns + Chars(s)
    /\ UNCHANGED <<lineStarts, columns, finished>>
-----------------------------------------------------------------------------
Init ==
    /\ text = <<>>
    /\ tokens = <<>>
    /\ lineStarts = <<0>>
    /\ columns = 0
    /\ currentColumns = 0
    /\ finished = FALSE

\* push: an empty text appends nothing, not even an empty token.
Push(s) ==
    /\ ~finished
    /\ s # <<>>
    /\ AppendRun(Sanitized(s), MaxLen)

\* push_fmt does not sanitize.  Its callers format numbers, offsets and
\* names of opcodes, none of which holds a line break (FormattedAssumption).
PushFmt(s) ==
    /\ ~finished
    /\ s # <<>>
    /\ AppendRun(s, MaxLen)

\* pad pushes slices of SPACES until count spaces are written.
Pad(count) ==
    /\ ~finished
    /\ count > 0
    /\ AppendRun(Blank(count), Spaces)

PadTo(column) ==
    /\ currentColumns < column
    /\ Pad(column - currentColumns)

\* Mutant: the line is taken to start at its break.
NewlineAtBreak ==
    /\ ~finished
    /\ Len(text) < MaxText
    /\ text' = Append(text, "nl")
    /\ columns' = Larger(columns, currentColumns)
    /\ currentColumns' = 0
    /\ lineStarts' = Append(lineStarts, Len(text))
    /\ UNCHANGED <<tokens, finished>>
Newline ==
    /\ ~finished
    /\ Len(text) < MaxText
    /\ text' = Append(text, "nl")
    /\ columns' = Larger(columns, currentColumns)
    /\ currentColumns' = 0
    /\ lineStarts' = Append(lineStarts, Len(text) + 1)
    /\ UNCHANGED <<tokens, finished>>

EndsWithNewline == text # <<>> /\ text[Len(text)] = "nl"

\* The line opened by a trailing line break is not a line of the document.
DropsLastLine == lineStarts[Len(lineStarts)] = Len(text) /\ EndsWithNewline

Finish ==
    /\ ~finished
    /\ finished' = TRUE
    /\ columns' = Larger(columns, currentColumns)
    /\ lineStarts' = IF DropsLastLine
                     THEN SubSeq(lineStarts, 1, Len(lineStarts) - 1)
                     ELSE lineStarts
    /\ UNCHANGED <<text, tokens, currentColumns>>

Next ==
    \/ \E s \in Texts : Push(s)
    \/ \E s \in Formatted : PushFmt(s)
    \/ \E c \in Stops : PadTo(c)
    \/ Pad(1)
    \/ Newline
    \/ Finish

Spec == Init /\ [][Next]_vars
-----------------------------------------------------------------------------
(***************************************************************************)
(* Reading a document.                                                     *)
(***************************************************************************)
\* rows(): the number of lines, at least one.
Rows == Larger(Len(lineStarts), 1)

End(t) == t.start + t.len

\* Where line r (from 1) ends: the start of the next line, or the text's end.
LineEnd(r) == IF r < Len(lineStarts) THEN lineStarts[r + 1] ELSE Len(text)

\* Mutant: the search steps over a token that starts at the offset.
PartitionPointInclusive(offset) ==
    Cardinality({i \in DOMAIN tokens : tokens[i].start <= offset})

\* tokens.partition_point(|t| t.start < offset) on tokens sorted by start.
PartitionPoint(offset) ==
    Cardinality({i \in DOMAIN tokens : tokens[i].start < offset})

\* The tokens of line r: the indices lo+1..hi of the slice &tokens[lo..hi].
LineTokens(r) == (PartitionPoint(lineStarts[r]) + 1)..PartitionPoint(LineEnd(r))

\* str::is_char_boundary
IsCharBoundary(offset) ==
    offset \in {0, Len(text)} \/ text[offset + 1] # "cont"

\* slice indexes the text by byte offsets and panics off a boundary.
SliceDefined(t) == IsCharBoundary(t.start) /\ IsCharBoundary(End(t))
-----------------------------------------------------------------------------
(***************************************************************************)
(* Properties.                                                             *)
(***************************************************************************)
\* The builder's fields have their types, and every token and line start
\* addresses the text.
TypeOK ==
    /\ text \in Seq(Byte)
    /\ tokens \in Seq(Token)
    /\ lineStarts \in Seq(Nat)
    /\ lineStarts # <<>>
    /\ columns \in Nat
    /\ currentColumns \in Nat
    /\ finished \in BOOLEAN
    /\ \A i \in DOMAIN tokens : End(tokens[i]) <= Len(text)
    /\ \A r \in DOMAIN lineStarts : lineStarts[r] <= Len(text)

\* Tokens appear in the order of the text and never overlap, so that
\* line_tokens may search them by their start with partition_point.
TokensOrdered ==
    \A i, j \in DOMAIN tokens :
        i < j => End(tokens[i]) <= tokens[j].start

\* No token ever straddles a newline: the promise of DocumentBuilder that
\* lets the renderer treat a document as a grid and cut pages between lines.
NoTokenStraddlesNewline ==
    \A i \in DOMAIN tokens :
        \A p \in (tokens[i].start + 1)..End(tokens[i]) : text[p] # "nl"

\* Nothing written is lost to the reader, however a run is cut: every byte
\* that is not a line break lies in a token.
EveryByteInAToken ==
    \A p \in DOMAIN text :
        text[p] # "nl" =>
            \E i \in DOMAIN tokens : tokens[i].start < p /\ p <= End(tokens[i])

\* lineStarts is exactly the offsets that follow a line break (and 0), in
\* order, but for the line finish drops.
LineStartsFollowBreaks ==
    /\ lineStarts[1] = 0
    /\ \A r, q \in DOMAIN lineStarts : r < q => lineStarts[r] < lineStarts[q]
    /\ \A r \in DOMAIN lineStarts :
           r > 1 => lineStarts[r] > 0 /\ text[lineStarts[r]] = "nl"
    /\ \A p \in DOMAIN text :
           text[p] = "nl" =>
               \/ \E r \in DOMAIN lineStarts : lineStarts[r] = p
               \/ finished /\ p = Len(text)

\* A token whose bytes are no whole characters, which slice panics on, was cut
\* from a run longer than a token can address, or is what followed the cut.
BrokenOnlyWhereCut ==
    \A i \in DOMAIN tokens :
        \/ SliceDefined(tokens[i])
        \/ tokens[i].len = MaxLen
        \/ i > 1 /\ tokens[i - 1].len = MaxLen /\ End(tokens[i - 1]) = tokens[i].start

\* What page after page of the renderer relies on: in a finished document
\* the lines of line_tokens share out the tokens, each token on one line and
\* each line's tokens within its bytes, whatever finish did to the last line;
\* and slice has a text for each, but for those of an overlong run.
LinesShareOutTokens ==
    finished =>
        /\ BrokenOnlyWhereCut
        /\ \A i \in DOMAIN tokens :
               Cardinality({r \in DOMAIN lineStarts : i \in LineTokens(r)}) = 1
        /\ \A r \in DOMAIN lineStarts : \A i \in LineTokens(r) :
               /\ lineStarts[r] <= tokens[i].start
               /\ End(tokens[i]) <= LineEnd(r)
=============================================================================
