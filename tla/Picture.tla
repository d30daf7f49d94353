------------------------------- MODULE Picture -------------------------------
(***************************************************************************)
(* What a renderer promises: the picture of a page is a function of the    *)
(* document and the page asked for.  How often a glyph was drawn before,   *)
(* which pages were asked for and which of them failed make no difference. *)
(***************************************************************************)
EXTENDS Pagination, SequencesExt

CONSTANTS
    Documents,  \* finished documents: see Token
    PageSizes,  \* page_rows of the callers
    MaxPage,    \* bound on the pages asked for
    Raster,     \* what the font draws of each character
    White,      \* the characters that are whitespace
    Fatal       \* the characters whose outline the font cannot rasterize

\* A line is a sequence of tokens; slice panics on one that is not sliceable.
Token == [kind : STRING, chars : Seq(DOMAIN Raster), sliceable : BOOLEAN]

ASSUME PictureAssumption ==
    /\ Documents \subseteq Seq(Seq(Token))
    /\ PageSizes \subseteq 1..(U32 - 1)
    /\ MaxPage \in 0..(U32 - 1)
    /\ White \cup Fatal \subseteq DOMAIN Raster

VARIABLES
    doc,        \* the document the caller holds
    call,       \* the page asked for, or NoCall
    answer      \* what the last call came to, or NoAnswer

vars == <<doc, call, answer>>

NoCall == [page |-> -1, pageRows |-> 1]
NoAnswer == [outcome |-> "none"]
-----------------------------------------------------------------------------
RowCount(d) == Greater(Len(d), 1)

\* line_tokens: a document without text has one row without tokens.
LineTokens(d, row) == IF row < Len(d) THEN d[row + 1] ELSE <<>>

\* The characters of these tokens, in order.
Chars(line) == FlattenSeq([t \in DOMAIN line |-> line[t].chars])

\* A mark for every character that is not white, where its row and column put
\* it on the page.
TokenMarks(line, t, row) ==
    {[row |-> row, column |-> Len(Chars(SubSeq(line, 1, t - 1))) + i - 1,
      kind |-> line[t].kind, glyph |-> Raster[line[t].chars[i]]] :
         i \in {j \in DOMAIN line[t].chars : line[t].chars[j] \notin White}}
Marks(d, rows, first) ==
    UNION {UNION {TokenMarks(LineTokens(d, row), t, row - first) : t \in DOMAIN LineTokens(d, row)} :
           row \in rows}

\* Something of these rows cannot be drawn.
Impossible(d, rows) ==
    \E row \in rows : \E t \in DOMAIN LineTokens(d, row) :
        LET token == LineTokens(d, row)[t]
        IN  ~token.sliceable \/ \E i \in DOMAIN token.chars : token.chars[i] \in Fatal \ White

\* What a call comes to.
Outcome(d, c) ==
    LET rows == RowsOfPage(c.page, c.pageRows, RowCount(d))
    IN  IF c.page >= Pages(RowCount(d), c.pageRows) THEN [outcome |-> "PageOutOfRange"]
        ELSE IF Impossible(d, rows) THEN [outcome |-> "Internal"]
        ELSE [outcome |-> "Rendered",
              marks |-> Marks(d, rows, FirstRow(c.page, c.pageRows))]
-----------------------------------------------------------------------------
Init ==
    /\ doc \in Documents
    /\ call = NoCall
    /\ answer = NoAnswer

Ask ==
    /\ call = NoCall
    /\ \E page \in 0..MaxPage, pageRows \in PageSizes :
           call' = [page |-> page, pageRows |-> pageRows]
    /\ answer' = NoAnswer
    /\ doc' \in Documents

Answer ==
    /\ call # NoCall
    /\ answer' = Outcome(doc, call)
    /\ call' = NoCall
    /\ UNCHANGED doc

Next == Ask \/ Answer

Spec == Init /\ [][Next]_vars /\ WF_vars(Answer)
=============================================================================
