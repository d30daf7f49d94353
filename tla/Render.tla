------------------------------- MODULE Render -------------------------------
(***************************************************************************)
(* Renderer::render_page (bk-render/src/lib.rs): which rows of a document  *)
(* end on which image, and how large the image is.                         *)
(*                                                                         *)
(* A document is the sequence of the widths of its lines, in characters.   *)
(* The glyphs of a line are abstracted to the fact that it was drawn; what *)
(* a pixel becomes is the subject of Canvas.  The font gives an advance of *)
(* AdvanceNum / AdvanceDen pixels per column and a whole LineHeight        *)
(* (atlas.rs rounds it up).                                                *)
(***************************************************************************)
EXTENDS Pagination, Sequences, FiniteSets

CONSTANTS
    LineWidths,     \* the widths of the lines of the documents explored
    MaxLines,       \* bound on the number of lines of a document
    RowsPerPage,    \* page_rows, as the caller gives it
    Margins,        \* margin, as the caller gives it
    Ceilings,       \* max_dimension_sum
    AdvanceNum, AdvanceDen, LineHeight

ASSUME RenderAssumption ==
    /\ LineWidths \subseteq Nat
    /\ MaxLines \in Nat
    /\ RowsPerPage \cup Margins \cup Ceilings \subseteq 0..(U32 - 1)
    /\ {AdvanceNum, AdvanceDen, LineHeight} \subseteq Nat \ {0}

VARIABLES
    lines,      \* the finished document
    options,    \* page_rows, margin and max_dimension_sum of the call
    images      \* what each page asked for came to, by page

renderVars == <<lines, options, images>>

Nothing == [outcome |-> "none"]
PageNumbers == 0..MaxLines
-----------------------------------------------------------------------------
MaxOf(S) == CHOOSE x \in S : \A y \in S : y <= x

\* document.rows(): a document without text has one empty row.
DocumentRows == Greater(Len(lines), 1)

RowWidth(row) == IF row < Len(lines) THEN lines[row + 1] ELSE 0

\* page_columns: the widest row of the page, and at least one column.
ColumnsOf(rows) == MaxOf({RowWidth(r) : r \in rows} \cup {1})

\* A cast of a non-negative f32 to u32 saturates.
Saturate(n) == Lesser(n, U32 - 1)

\* Mutant: the width of the text is rounded down.
TextWidthTruncated(columns) == Saturate((columns * AdvanceNum) \div AdvanceDen)

TextWidth(columns) == Saturate(DivCeil(columns * AdvanceNum, AdvanceDen))
TextHeight(rows) == Saturate(rows * LineHeight)

WithMargins(extent, margin) == Wrap(extent + Wrap(margin * 2))

PageIn(page) == page < Pages(DocumentRows, options.pageRows)

\* The check before the canvas is allocated.
Exceeds(width, height) == Wrap(width + height) > options.ceiling

\* The image of one page, drawn row by row from first_row to last_row.
Image(page) ==
    LET rows   == RowsOfPage(page, options.pageRows, DocumentRows)
        width  == WithMargins(TextWidth(ColumnsOf(rows)), options.margin)
        height == WithMargins(TextHeight(Cardinality(rows)), options.margin)
    IN  IF Exceeds(width, height)
        THEN [outcome |-> "ImageTooLarge", width |-> width, height |-> height]
        ELSE [outcome |-> "Rendered", width |-> Greater(width, 1),
              height |-> Greater(height, 1), rows |-> rows]
-----------------------------------------------------------------------------
Texts == UNION {[1..n -> LineWidths] : n \in 0..MaxLines}

RenderInit ==
    /\ lines \in Texts
    /\ options \in [pageRows : RowsPerPage, margin : Margins, ceiling : Ceilings]
    /\ images = [p \in PageNumbers |-> Nothing]

PageOutOfRange(page) ==
    /\ ~PageIn(page)
    /\ images' = [images EXCEPT ![page] = [outcome |-> "PageOutOfRange"]]
    /\ UNCHANGED <<lines, options>>

RenderPage(page) ==
    /\ PageIn(page)
    /\ images' = [images EXCEPT ![page] = Image(page)]
    /\ UNCHANGED <<lines, options>>

\* Callers ask for any page, in any order, and may ask again.
RenderNext == \E page \in PageNumbers : PageOutOfRange(page) \/ RenderPage(page)

RenderSpec == RenderInit /\ [][RenderNext]_renderVars
-----------------------------------------------------------------------------
(***************************************************************************)
(* Instances in which u32 suffices.                                        *)
(***************************************************************************)
\* No page ends beyond the last u32, and pages have rows: render_page, unlike
\* pages, does not raise page_rows to one.
RowsAreU32 == 2 * Greater(MaxLines, 1) <= U32 /\ 0 \notin RowsPerPage

\* Nor does the width plus the height of an image exceed it.
SizesAreU32 ==
    \A columns \in LineWidths \cup {1}, rows \in 0..Greater(MaxLines, 1), margin \in Margins :
        DivCeil(columns * AdvanceNum, AdvanceDen) + rows * LineHeight + 4 * margin < U32
-----------------------------------------------------------------------------
(***************************************************************************)
(* Properties.                                                             *)
(***************************************************************************)
RenderedPages == {p \in PageNumbers : images[p].outcome = "Rendered"}
AskedPages == {p \in PageNumbers : images[p].outcome # "none"}

\* Pagination covers every row exactly once (the test of that name): no row
\* is on two images, and a caller that asked for every page and got them all
\* has every row.
PaginationCoversEveryRowOnce ==
    /\ \A p, q \in RenderedPages :
           p # q => images[p].rows \cap images[q].rows = {}
    /\ AskedPages = PageNumbers /\ (\A p \in AskedPages : images[p].outcome # "ImageTooLarge") =>
           UNION {images[p].rows : p \in RenderedPages} = 0..(DocumentRows - 1)

\* No line is cut off: the image is as wide as its widest row needs, with
\* the margin on both sides, and as tall as its rows.
TextFits ==
    \A p \in RenderedPages :
        /\ \A r \in images[p].rows :
               RowWidth(r) * AdvanceNum
                   <= (images[p].width - 2 * options.margin) * AdvanceDen
        /\ Cardinality(images[p].rows) * LineHeight
               <= images[p].height - 2 * options.margin

\* The width plus the height of an image never exceeds the ceiling the
\* caller set, which bounds the memory a page takes (DEFAULT_MAX_DIMENSION_SUM).
WithinCeiling ==
    \A p \in RenderedPages : images[p].width + images[p].height <= options.ceiling

\* The size of an image is as large as its text needs and no larger than the
\* caller allows, though both are computed in u32 from f32 advances.
ImagesFit == TextFits /\ WithinCeiling
=============================================================================
