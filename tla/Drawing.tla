------------------------------ MODULE Drawing ------------------------------
(***************************************************************************)
(* How the marks of a page come about: the loops of render_page            *)
(* (bk-render/src/lib.rs) over rows, tokens and characters, with the cache *)
(* of glyphs (bk-render/src/atlas.rs) that outlives a call, and a call     *)
(* that panics.                                                            *)
(*                                                                         *)
(* A panic is caught at the C boundary and the renderer is used again, so  *)
(* whatever the cache holds then is what later pages are drawn with.       *)
(***************************************************************************)
EXTENDS Picture

CONSTANT Preloaded      \* the characters Atlas::new rasterizes

ASSUME DrawingAssumption == Preloaded \subseteq DOMAIN Raster \ Fatal

VARIABLES
    glyphs,     \* the cache, from characters to what the font drew
    stage,      \* "idle", "asked" or "drawing"
    row,        \* the row being drawn
    token,      \* its token, and the character of that
    at,
    column,
    ink         \* what was blended into the canvas

loop == <<stage, row, token, at, column, ink>>
drawVars == <<vars, glyphs, loop>>
-----------------------------------------------------------------------------
From == FirstRow(call.page, call.pageRows)
Upto == LastRow(call.page, call.pageRows, RowCount(doc))
PageRows == RowsOfPage(call.page, call.pageRows, RowCount(doc))

Line == LineTokens(doc, row)
Char == Line[token].chars[at]

\* Mutant: the last token of a row is not counted.
RowColumnsShort(r) ==
    Len(Chars(SubSeq(LineTokens(doc, r), 1, Len(LineTokens(doc, r)) - 1)))

\* The characters of all tokens of a row.
RowColumns(r) == Len(Chars(LineTokens(doc, r)))

\* page_columns: the widest row, and at least one column.
PageColumns ==
    CHOOSE n \in {RowColumns(r) : r \in PageRows} \cup {1} :
        \A m \in {RowColumns(r) : r \in PageRows} \cup {1} : m <= n

\* The call ends with this answer.
Reply(result) ==
    /\ answer' = result
    /\ call' = NoCall
    /\ stage' = "idle"
    /\ UNCHANGED <<doc, row, token, at, column, ink>>

\* A panic unwinds to the boundary; the canvas is dropped, the cache is not.
Panic == Reply([outcome |-> "Internal"])
-----------------------------------------------------------------------------
\* Atlas::new
DrawInit ==
    /\ Init
    /\ glyphs = [ch \in Preloaded |-> Raster[ch]]
    /\ stage = "idle"
    /\ row = 0 /\ token = 1 /\ at = 1 /\ column = 0
    /\ ink = {}

Call ==
    /\ stage = "idle"
    /\ Ask
    /\ stage' = "asked"
    /\ UNCHANGED <<glyphs, row, token, at, column, ink>>

\* A page past the last, or a token page_columns cannot slice.
Refuse ==
    /\ stage = "asked"
    /\ call.page >= Pages(RowCount(doc), call.pageRows)
    /\ Reply([outcome |-> "PageOutOfRange"])
    /\ UNCHANGED glyphs

Unsliceable ==
    \E r \in PageRows : \E t \in DOMAIN LineTokens(doc, r) : ~LineTokens(doc, r)[t].sliceable

Measure ==
    /\ stage = "asked"
    /\ call.page < Pages(RowCount(doc), call.pageRows)
    /\ IF Unsliceable THEN Panic
       ELSE /\ stage' = "drawing"
            /\ row' = From /\ token' = 1 /\ at' = 1 /\ column' = 0
            /\ ink' = {}
            /\ UNCHANGED vars
    /\ UNCHANGED glyphs

NextToken ==
    /\ stage = "drawing" /\ row < Upto /\ token <= Len(Line)
    /\ at > Len(Line[token].chars)
    /\ token' = token + 1 /\ at' = 1
    /\ UNCHANGED <<vars, glyphs, stage, row, column, ink>>

NextRow ==
    /\ stage = "drawing" /\ row < Upto /\ token > Len(Line)
    /\ row' = row + 1 /\ token' = 1 /\ at' = 1 /\ column' = 0
    /\ UNCHANGED <<vars, glyphs, stage, ink>>

AtAChar == stage = "drawing" /\ row < Upto /\ token <= Len(Line) /\ at <= Len(Line[token].chars)

Advance == at' = at + 1 /\ column' = column + 1 /\ UNCHANGED <<vars, stage, row, token>>

Skip == AtAChar /\ Char \in White /\ Advance /\ UNCHANGED <<glyphs, ink>>

\* glyph: the cache with this character in it, rasterized if it was not.
WithGlyph ==
    IF Char \in DOMAIN glyphs THEN glyphs
    ELSE [c \in DOMAIN glyphs \cup {Char} |-> IF c = Char THEN Raster[c] ELSE glyphs[c]]

\* The font panics before there is anything to enter.
Rasterizable == Char \in DOMAIN glyphs \/ Char \notin Fatal

Draw ==
    /\ AtAChar /\ Char \notin White /\ Rasterizable
    /\ glyphs' = WithGlyph
    /\ ink' = ink \cup {[row |-> row - From, column |-> column, kind |-> Line[token].kind,
                         glyph |-> WithGlyph[Char]]}
    /\ Advance

\* Mutant: the character is entered before the font has drawn it.
FontPanicsEntered ==
    /\ AtAChar /\ Char \notin White /\ ~Rasterizable
    /\ Panic
    /\ glyphs' = [c \in DOMAIN glyphs \cup {Char} |-> IF c = Char THEN "empty" ELSE glyphs[c]]

FontPanics ==
    /\ AtAChar /\ Char \notin White /\ ~Rasterizable
    /\ Panic
    /\ UNCHANGED glyphs

Finish ==
    /\ stage = "drawing" /\ row >= Upto
    /\ Reply([outcome |-> "Rendered", marks |-> ink])
    /\ UNCHANGED glyphs

DrawNext ==
    \/ Call \/ Refuse \/ Measure \/ NextToken \/ NextRow \/ Skip \/ Draw \/ FontPanics \/ Finish

\* A call runs to its end: nothing in it waits.
DrawSpec ==
    DrawInit /\ [][DrawNext]_drawVars /\ WF_drawVars(call # NoCall /\ DrawNext)
-----------------------------------------------------------------------------
(***************************************************************************)
(* Properties.                                                             *)
(***************************************************************************)
\* With the cache, and after any calls that failed, every page is drawn as
\* if it were the first; and every call is answered.
DrawsThePicture == Spec

\* Nothing is drawn past the rows and columns the image was made for, though
\* the two loops that measure and draw a page are written apart.
InkWithinThePage ==
    stage = "drawing" =>
        \A m \in ink : m.column < PageColumns /\ m.row \in 0..(Upto - From - 1)
=============================================================================
