-------------------------- MODULE RenderingProofs --------------------------
(***************************************************************************)
(* Proofs about the renderer: how a document is cut into pages             *)
(* (Pagination), how large their images are (Render), where their marks    *)
(* are (Drawing) and what becomes of their pixels (Canvas), for every      *)
(* document, size, font, palette and radius.                               *)
(***************************************************************************)
EXTENDS Render, Canvas, Drawing, ArithmeticLemmas, SequenceTheorems

(***************************************************************************)
(* Pages: for every width of the integers they share out the rows, none is *)
(* empty, and no product or sum of render_page wraps, while the document   *)
(* has at most half as many rows as there are u32 values and a page at     *)
(* least one.                                                              *)
(***************************************************************************)
\* The number of pages is the least that can hold the rows.
LEMMA PagesBounds ==
    ASSUME NEW rows \in Nat, rows > 0, NEW pageRows \in Nat, pageRows > 0
    PROVE  LET k == Pages(rows, pageRows)
           IN  /\ k \in Nat
               /\ k >= 1
               /\ (k - 1) * pageRows < rows
               /\ rows <= k * pageRows
  <1>1. Pages(rows, pageRows) = (rows + pageRows - 1) \div pageRows
    BY DEF Pages, DivCeil, Greater
  <1> QED
    BY <1>1, CeilingBounds

\* The start and the end of a page in range, computed in u32, are what they
\* would be without bounds: neither the product nor the sum wraps.
THEOREM NoWrap ==
    ASSUME NEW rows \in Nat, rows > 0, 2 * rows <= U32,
           NEW pageRows \in Nat, pageRows > 0, pageRows < U32,
           NEW page \in Nat, page < Pages(rows, pageRows)
    PROVE  /\ FirstRow(page, pageRows) = page * pageRows
           /\ page * pageRows < rows
           /\ LastRow(page, pageRows, rows) =
                  Lesser(page * pageRows + pageRows, rows)
  <1> DEFINE k == Pages(rows, pageRows)
  <1>0. U32 \in Nat /\ U32 > 1
    BY U32Assumption
  <1>1. k \in Nat /\ k >= 1 /\ (k - 1) * pageRows < rows /\ rows <= k * pageRows
    BY PagesBounds
  <1>2. page <= k - 1
    BY <1>1
  <1> HIDE DEF k
  <1>3. page * pageRows <= (k - 1) * pageRows
    BY <1>1, <1>2, ProductMonotone, k - 1 \in Nat
  <1>4. page * pageRows \in Nat /\ (k - 1) * pageRows \in Nat
    BY <1>1
  <1>5. page * pageRows < rows
    BY <1>1, <1>3, <1>4
  <1>6. FirstRow(page, pageRows) = page * pageRows
    <2>1. page * pageRows < U32
      BY <1>0, <1>4, <1>5
    <2> QED
      BY <1>0, <1>4, <2>1 DEF FirstRow, Wrap
  <1>7. page * pageRows + pageRows < U32
    <2>1. CASE page = 0
      BY <2>1, <1>0
    <2>2. CASE page > 0
      <3>1. 1 * pageRows <= page * pageRows
        BY <2>2, ProductMonotone, 1 \in Nat, 1 <= page
      <3> QED
        BY <3>1, <1>0, <1>4, <1>5
    <2> QED
      BY <2>1, <2>2
  <1>8. Wrap(page * pageRows + pageRows) = page * pageRows + pageRows
    BY <1>0, <1>4, <1>7 DEF Wrap
  <1> QED
    BY <1>5, <1>6, <1>8 DEF LastRow

\* Every r is on exactly one page, what the test
\* pagination_covers_every_row_exactly_once says of three examples.
THEOREM PagesShareOutRows ==
    ASSUME NEW rows \in Nat, rows > 0, 2 * rows <= U32,
           NEW pageRows \in Nat, pageRows > 0, pageRows < U32,
           NEW r \in 0..(rows - 1)
    PROVE  /\ \E page \in 0..(Pages(rows, pageRows) - 1) :
                  r \in RowsOfPage(page, pageRows, rows)
           /\ \A p, q \in 0..(Pages(rows, pageRows) - 1) :
                  /\ r \in RowsOfPage(p, pageRows, rows)
                  /\ r \in RowsOfPage(q, pageRows, rows)
                  => p = q
  <1> DEFINE k == Pages(rows, pageRows)
  <1>1. k \in Nat /\ k >= 1 /\ (k - 1) * pageRows < rows /\ rows <= k * pageRows
    BY PagesBounds
  <1> HIDE DEF k
  <1>2. ASSUME NEW p \in 0..(k - 1)
        PROVE  /\ p \in Nat
               /\ p * pageRows \in Nat
               /\ r \in RowsOfPage(p, pageRows, rows)
                      <=> p * pageRows <= r /\ r < p * pageRows + pageRows
    <2>1. p \in Nat /\ p < k
      BY <1>1
    <2>2. p * pageRows \in Nat
      BY <2>1
    <2>3. /\ FirstRow(p, pageRows) = p * pageRows
          /\ LastRow(p, pageRows, rows) = Lesser(p * pageRows + pageRows, rows)
      BY <2>1, NoWrap DEF k
    <2> QED
      BY <2>1, <2>2, <2>3 DEF RowsOfPage, Lesser
  <1>3. \E page \in 0..(k - 1) : r \in RowsOfPage(page, pageRows, rows)
    <2> DEFINE page == r \div pageRows
    <2>1. page \in Nat /\ page * pageRows <= r /\ r < page * pageRows + pageRows
      OBVIOUS
    <2> HIDE DEF page
    <2>2. page <= k - 1
      <3>1. SUFFICES ASSUME page >= k PROVE FALSE
        BY <1>1, <2>1
      <3>2. k * pageRows <= page * pageRows
        BY <1>1, <2>1, <3>1, ProductMonotone
      <3>3. k * pageRows \in Nat /\ page * pageRows \in Nat
        BY <1>1, <2>1
      <3> QED
        BY <1>1, <2>1, <3>2, <3>3
    <2>3. page \in 0..(k - 1)
      BY <1>1, <2>1, <2>2
    <2> QED
      BY <1>2, <2>1, <2>3
  <1>4. ASSUME NEW p \in 0..(k - 1), NEW q \in 0..(k - 1), p < q,
               r \in RowsOfPage(p, pageRows, rows),
               r \in RowsOfPage(q, pageRows, rows)
        PROVE  FALSE
    <2>1. (p + 1) * pageRows <= q * pageRows
      BY <1>2, <1>4, ProductMonotone, p + 1 \in Nat, q \in Nat, p + 1 <= q
    <2>2. (p + 1) * pageRows = p * pageRows + pageRows
      BY <1>2
    <2> QED
      BY <1>2, <1>4, <2>1, <2>2
  <1>5. \A p, q \in 0..(k - 1) :
            /\ r \in RowsOfPage(p, pageRows, rows)
            /\ r \in RowsOfPage(q, pageRows, rows)
            => p = q
    BY <1>2, <1>4
  <1> QED
    BY <1>3, <1>5 DEF k
-----------------------------------------------------------------------------
(***************************************************************************)
(* Render: an image there is, is that of its page, whatever was asked for  *)
(* before.                                                                 *)
(***************************************************************************)
Answered(p) ==
    \/ images[p] = Nothing
    \/ ~PageIn(p) /\ images[p] = [outcome |-> "PageOutOfRange"]
    \/ PageIn(p) /\ images[p] = Image(p)

RenderInv ==
    /\ lines \in Texts
    /\ options \in [pageRows : RowsPerPage, margin : Margins, ceiling : Ceilings]
    /\ images = [p \in PageNumbers |-> images[p]]
    /\ \A p \in PageNumbers : Answered(p)

LEMMA RenderInitial == RenderInit => RenderInv
BY DEF RenderInit, RenderInv, Answered

LEMMA RenderInductive == RenderInv /\ [RenderNext]_renderVars => RenderInv'
<1> SUFFICES ASSUME RenderInv, [RenderNext]_renderVars PROVE RenderInv'
  OBVIOUS
<1>1. lines' = lines /\ options' = options
  BY DEF RenderNext, PageOutOfRange, RenderPage, renderVars
<1>2. \A p : PageIn(p)' = PageIn(p) /\ Image(p)' = Image(p)
  BY <1>1 DEF PageIn, Image, DocumentRows, Exceeds, ColumnsOf, RowWidth
<1>3. images' = [p \in PageNumbers |-> images'[p]] /\ \A p \in PageNumbers : Answered(p)'
  <2>1. CASE UNCHANGED renderVars
    BY <1>1, <1>2, <2>1 DEF RenderInv, Answered, renderVars
  <2>2. ASSUME NEW q \in PageNumbers, PageOutOfRange(q) \/ RenderPage(q)
        PROVE  images' = [p \in PageNumbers |-> images'[p]] /\ \A p \in PageNumbers : Answered(p)'
    <3>1. PICK image : /\ images' = [images EXCEPT ![q] = image]
                       /\ \/ ~PageIn(q) /\ image = [outcome |-> "PageOutOfRange"]
                          \/ PageIn(q) /\ image = Image(q)
      BY <2>2 DEF PageOutOfRange, RenderPage
    <3>2. images' = [p \in PageNumbers |-> images'[p]]
      BY <3>1 DEF RenderInv
    <3>3. ASSUME NEW p \in PageNumbers PROVE Answered(p)'
      <4>1. CASE p = q
        <5>1. images'[p] = image
          BY <3>1, <4>1 DEF RenderInv
        <5> QED BY <1>2, <3>1, <4>1, <5>1 DEF Answered
      <4>2. CASE p # q
        <5>1. images'[p] = images[p]
          BY <3>1, <4>2 DEF RenderInv
        <5> QED BY <1>2, <5>1 DEF RenderInv, Answered
      <4> QED BY <4>1, <4>2
    <3> QED BY <3>2, <3>3
  <2> QED BY <2>1, <2>2 DEF RenderNext
<1> QED BY <1>1, <1>3 DEF RenderInv

\* Every image is that of its page, in whatever order pages are asked for.
THEOREM RenderInvariance == RenderSpec => []RenderInv
  BY RenderInitial, RenderInductive, PTL DEF RenderSpec

\* An image that was rendered is that of a page of the document.
LEMMA RenderedImages ==
    ASSUME RenderInv, NEW p \in RenderedPages
    PROVE  /\ p \in PageNumbers /\ PageIn(p)
           /\ images[p] = Image(p) /\ Image(p).outcome = "Rendered"
<1>1. p \in PageNumbers /\ images[p].outcome = "Rendered" /\ Answered(p)
  BY DEF RenderedPages, RenderInv
<1>2. Nothing.outcome = "none" /\ [outcome |-> "PageOutOfRange"].outcome = "PageOutOfRange"
  BY DEF Nothing
<1> QED BY <1>1, <1>2 DEF Answered

\* The image of a page: too large, or of these rows and this size.
WidthOf(p) ==
    WithMargins(TextWidth(ColumnsOf(RowsOfPage(p, options.pageRows, DocumentRows))), options.margin)
HeightOf(p) ==
    WithMargins(TextHeight(Cardinality(RowsOfPage(p, options.pageRows, DocumentRows))), options.margin)

LEMMA ImageOfPage ==
    ASSUME NEW p, Image(p).outcome = "Rendered"
    PROVE  /\ ~Exceeds(WidthOf(p), HeightOf(p))
           /\ Image(p).rows = RowsOfPage(p, options.pageRows, DocumentRows)
           /\ Image(p).width = Greater(WidthOf(p), 1)
           /\ Image(p).height = Greater(HeightOf(p), 1)
<1>1. CASE Exceeds(WidthOf(p), HeightOf(p))
  <2>1. Image(p) = [outcome |-> "ImageTooLarge", width |-> WidthOf(p), height |-> HeightOf(p)]
    BY <1>1 DEF Image, WidthOf, HeightOf
  <2>2. Image(p).outcome = "ImageTooLarge"
    BY <2>1
  <2> QED BY <2>2
<1>2. CASE ~Exceeds(WidthOf(p), HeightOf(p))
  <2>1. Image(p) = [outcome |-> "Rendered", width |-> Greater(WidthOf(p), 1),
                    height |-> Greater(HeightOf(p), 1),
                    rows |-> RowsOfPage(p, options.pageRows, DocumentRows)]
    BY <1>2 DEF Image, WidthOf, HeightOf
  <2> QED BY <1>2, <2>1
<1> QED BY <1>1, <1>2

\* What render_page is given, and what pages makes of it.
LEMMA PagesOfDocument ==
    ASSUME RenderInv, RowsAreU32
    PROVE  /\ DocumentRows \in Nat /\ DocumentRows > 0 /\ 2 * DocumentRows <= U32
           /\ DocumentRows <= Greater(MaxLines, 1)
           /\ options.pageRows \in Nat /\ options.pageRows > 0 /\ options.pageRows < U32
           /\ Pages(DocumentRows, options.pageRows) \in Nat
           /\ Pages(DocumentRows, options.pageRows) >= 1
           /\ 0..(Pages(DocumentRows, options.pageRows) - 1) \subseteq PageNumbers
<1>0. U32 \in Nat /\ U32 > 1 /\ MaxLines \in Nat
  BY U32Assumption, RenderAssumption
<1>1. DocumentRows \in Nat /\ DocumentRows > 0 /\ DocumentRows <= Greater(MaxLines, 1)
  <2>1. PICK n \in 0..MaxLines : lines \in [1..n -> LineWidths]
    BY DEF RenderInv, Texts
  <2>2. Len(lines) = n
    BY <2>1
  <2> QED BY <1>0, <2>2 DEF DocumentRows, Greater
<1>2. 2 * DocumentRows <= U32
  BY <1>0, <1>1 DEF RowsAreU32, Greater
<1>3. options.pageRows \in RowsPerPage
  BY DEF RenderInv
<1>4. options.pageRows \in Nat /\ options.pageRows > 0 /\ options.pageRows < U32
  BY <1>0, <1>3, RenderAssumption DEF RowsAreU32
<1> DEFINE n == DocumentRows
           s == options.pageRows
           k == Pages(n, s)
<1>5. k \in Nat /\ k >= 1 /\ (k - 1) * s < n
  BY <1>1, <1>4, PagesBounds
<1> HIDE DEF k, s, n
<1>6. k - 1 < n
  <2>1. (k - 1) * 1 <= (k - 1) * s
    <3>1. 1 * (k - 1) <= s * (k - 1)
      BY <1>4, <1>5, ProductMonotone, k - 1 \in Nat, 1 \in Nat, 1 <= s DEF s
    <3> QED BY <1>4, <1>5, <3>1 DEF s
  <2>2. (k - 1) * s \in Nat
    BY <1>4, <1>5 DEF s
  <2> QED BY <1>1, <1>5, <2>1, <2>2 DEF n
<1>7. 0..(k - 1) \subseteq PageNumbers
  BY <1>0, <1>1, <1>5, <1>6 DEF PageNumbers, Greater, n
<1> QED BY <1>1, <1>2, <1>4, <1>5, <1>7 DEF n, s, k

\* Each row is on one image, the promise of pages and render_page together:
\* for documents and pages of any length, and images asked for in any order.
THEOREM EveryRowOnce ==
    ASSUME RowsAreU32
    PROVE  RenderSpec => []PaginationCoversEveryRowOnce
<1>1. ASSUME RenderInv PROVE PaginationCoversEveryRowOnce
  <2> DEFINE n == DocumentRows
             s == options.pageRows
             k == Pages(n, s)
  <2>1. /\ n \in Nat /\ n > 0 /\ 2 * n <= U32 /\ s \in Nat /\ s > 0 /\ s < U32
        /\ k \in Nat /\ k >= 1 /\ 0..(k - 1) \subseteq PageNumbers
    BY <1>1, PagesOfDocument
  <2>2. ASSUME NEW p \in RenderedPages
        PROVE  p \in 0..(k - 1) /\ images[p].rows = RowsOfPage(p, s, n)
    BY <1>1, <2>1, <2>2, RenderedImages, ImageOfPage DEF PageIn, PageNumbers
  <2> HIDE DEF n, s, k
  <2>3. ASSUME NEW p \in 0..(k - 1) PROVE RowsOfPage(p, s, n) \subseteq 0..(n - 1)
    <3>1. p \in Nat /\ p < k /\ p * s \in Nat
      BY <2>1
    <3>2. FirstRow(p, s) = p * s /\ LastRow(p, s, n) = Lesser(p * s + s, n)
      BY <2>1, <3>1, NoWrap DEF k
    <3> QED BY <2>1, <3>1, <3>2 DEF RowsOfPage, Lesser
  <2>4. ASSUME NEW p \in RenderedPages, NEW q \in RenderedPages, p # q
        PROVE  images[p].rows \cap images[q].rows = {}
    <3> SUFFICES ASSUME NEW r \in images[p].rows \cap images[q].rows PROVE FALSE
      OBVIOUS
    <3>1. p \in 0..(k - 1) /\ q \in 0..(k - 1) /\ r \in RowsOfPage(p, s, n) /\ r \in RowsOfPage(q, s, n)
      BY <2>2
    <3>2. r \in 0..(n - 1)
      BY <2>3, <3>1
    <3> QED BY <2>1, <2>4, <3>1, <3>2, PagesShareOutRows DEF k
  <2>5. ASSUME AskedPages = PageNumbers, \A p \in AskedPages : images[p].outcome # "ImageTooLarge"
        PROVE  UNION {images[p].rows : p \in RenderedPages} = 0..(n - 1)
    <3>1. ASSUME NEW r \in 0..(n - 1) PROVE \E p \in RenderedPages : r \in images[p].rows
      <4>1. PICK p \in 0..(k - 1) : r \in RowsOfPage(p, s, n)
        BY <2>1, PagesShareOutRows DEF k
      <4>2. p \in PageNumbers /\ PageIn(p) /\ p \in AskedPages
        BY <2>1, <2>5, <4>1 DEF PageIn, k, s, n
      <4>3. images[p] = Image(p) /\ images[p].outcome # "ImageTooLarge"
        <5>1. Nothing.outcome = "none" /\ images[p].outcome # "none"
          BY <4>2 DEF Nothing, AskedPages
        <5> QED BY <1>1, <2>5, <4>2, <5>1 DEF RenderInv, Answered
      <4>4. Image(p).outcome \in {"ImageTooLarge", "Rendered"}
        BY DEF Image
      <4>5. p \in RenderedPages
        BY <4>2, <4>3, <4>4 DEF RenderedPages
      <4> QED BY <2>2, <4>1, <4>5
    <3>2. ASSUME NEW p \in RenderedPages PROVE images[p].rows \subseteq 0..(n - 1)
      BY <2>2, <2>3
    <3> QED BY <3>1, <3>2
  <2> QED BY <2>4, <2>5 DEF PaginationCoversEveryRowOnce, n
<1> QED BY <1>1, RenderInvariance, PTL

\* The columns of a page are at least those of each of its rows.
LEMMA ColumnsSuffice ==
    ASSUME RenderInv, NEW rows \in SUBSET Nat
    PROVE  /\ ColumnsOf(rows) \in LineWidths \cup {1}
           /\ ColumnsOf(rows) \in Nat /\ ColumnsOf(rows) >= 1
           /\ \A r \in rows : RowWidth(r) \in Nat /\ RowWidth(r) <= ColumnsOf(rows)
<1>1. PICK n \in 0..MaxLines : lines \in [1..n -> LineWidths]
  BY DEF RenderInv, Texts
<1>2. n \in Nat /\ LineWidths \in SUBSET Nat /\ Len(lines) = n
  BY <1>1, RenderAssumption
<1>3. PICK b \in Nat : \A i \in 1..n : lines[i] <= b
  <2>1. lines \in [1..n -> Nat]
    BY <1>1, <1>2
  <2> QED BY <1>2, <2>1, BoundedSequence
<1>4. ASSUME NEW r \in rows
      PROVE RowWidth(r) \in LineWidths \cup {0} /\ RowWidth(r) \in Nat /\ RowWidth(r) <= b + 1
  <2>1. CASE r < n
    <3>1. r + 1 \in 1..n /\ RowWidth(r) = lines[r + 1]
      BY <1>2, <2>1 DEF RowWidth
    <3>2. lines[r + 1] \in LineWidths /\ lines[r + 1] <= b
      BY <1>1, <1>3, <3>1
    <3>3. lines[r + 1] \in Nat
      BY <1>2, <3>2
    <3> QED BY <3>1, <3>2, <3>3
  <2>2. CASE ~(r < n)
    BY <1>2, <2>2 DEF RowWidth
  <2> QED BY <2>1, <2>2
<1> DEFINE T == {RowWidth(r) : r \in rows} \cup {1}
<1>5. T \in SUBSET Nat /\ T # {} /\ 1 \in T /\ b + 1 \in Nat /\ \A x \in T : x <= b + 1
  BY <1>4
<1>6. \A x \in T : x \in LineWidths \cup {0, 1}
  BY <1>4
<1>7. \A r \in rows : RowWidth(r) \in T
  OBVIOUS
<1>8. ColumnsOf(rows) = MaxOf(T)
  BY DEF ColumnsOf
<1> HIDE DEF T
<1>9. \E x \in T : \A y \in T : y <= x
  BY <1>5, LargestElement
<1>10. MaxOf(T) \in T /\ \A y \in T : y <= MaxOf(T)
  BY <1>9 DEF MaxOf
<1>11. MaxOf(T) \in Nat /\ MaxOf(T) >= 1 /\ MaxOf(T) \in LineWidths \cup {1}
  <2> DEFINE m == MaxOf(T)
  <2>1. m \in T /\ 1 <= m
    BY <1>5, <1>10
  <2> HIDE DEF m
  <2>2. m \in Nat /\ m \in LineWidths \cup {0, 1}
    BY <1>5, <1>6, <2>1
  <2> QED BY <2>1, <2>2 DEF m
<1> QED BY <1>4, <1>7, <1>8, <1>10, <1>11

\* What the margins make of a size, when that is a u32.
LEMMA MarginsAdd ==
    ASSUME NEW extent \in Nat, NEW margin \in Nat, extent + 2 * margin < U32
    PROVE  WithMargins(Saturate(extent), margin) = extent + 2 * margin
<1>0. U32 \in Nat /\ U32 > 1
  BY U32Assumption
<1>1. Saturate(extent) = extent
  BY <1>0 DEF Saturate, Lesser
<1>2. Wrap(margin * 2) = margin * 2
  BY <1>0 DEF Wrap
<1>3. Wrap(extent + margin * 2) = extent + margin * 2
  BY <1>0 DEF Wrap
<1> QED BY <1>1, <1>2, <1>3 DEF WithMargins

\* No line is cut off and no image is larger than the caller allows, for any
\* font, margin, ceiling and page whose image is no larger than u32 can say.
THEOREM EveryImageFits ==
    ASSUME RowsAreU32, SizesAreU32
    PROVE  RenderSpec => []ImagesFit
<1>1. ASSUME RenderInv PROVE ImagesFit
  <2>0. /\ U32 \in Nat /\ U32 > 1
        /\ AdvanceNum \in Nat /\ AdvanceDen \in Nat /\ AdvanceNum > 0 /\ AdvanceDen > 0
        /\ LineHeight \in Nat /\ LineHeight > 0 /\ MaxLines \in Nat
    BY U32Assumption, RenderAssumption
  <2>1. options.margin \in Margins /\ options.margin \in Nat
    BY <1>1, RenderAssumption DEF RenderInv
  <2>2. ASSUME NEW p \in RenderedPages
        PROVE  /\ \A r \in images[p].rows :
                      RowWidth(r) * AdvanceNum
                          <= (images[p].width - 2 * options.margin) * AdvanceDen
               /\ Cardinality(images[p].rows) * LineHeight
                      <= images[p].height - 2 * options.margin
               /\ images[p].width + images[p].height <= options.ceiling
    <3> DEFINE rows == RowsOfPage(p, options.pageRows, DocumentRows)
               c == ColumnsOf(rows)
               n == Cardinality(rows)
               w == DivCeil(c * AdvanceNum, AdvanceDen)
               h == n * LineHeight
    <3>1. /\ images[p].rows = rows
          /\ images[p].width = Greater(WidthOf(p), 1) /\ images[p].height = Greater(HeightOf(p), 1)
          /\ ~Exceeds(WidthOf(p), HeightOf(p))
      BY <1>1, RenderedImages, ImageOfPage
    <3>2. rows \subseteq 0..(DocumentRows - 1) /\ rows # {}
      <4>1. p \in Nat /\ p < Pages(DocumentRows, options.pageRows)
        BY <1>1, <2>0, RenderedImages DEF PageIn, PageNumbers
      <4>2. p * options.pageRows \in Nat
        BY <1>1, <4>1, PagesOfDocument
      <4>3. /\ FirstRow(p, options.pageRows) = p * options.pageRows
            /\ p * options.pageRows < DocumentRows
            /\ LastRow(p, options.pageRows, DocumentRows)
                   = Lesser(p * options.pageRows + options.pageRows, DocumentRows)
        BY <1>1, <4>1, PagesOfDocument, NoWrap
      <4>4. p * options.pageRows \in rows
        BY <1>1, <4>2, <4>3, PagesOfDocument DEF RowsOfPage, Lesser
      <4> QED BY <1>1, <4>2, <4>3, <4>4, PagesOfDocument DEF RowsOfPage, Lesser
    <3>3. DocumentRows \in Nat /\ DocumentRows > 0 /\ DocumentRows <= Greater(MaxLines, 1)
      BY <1>1, PagesOfDocument
    <3>4. n \in 1..Greater(MaxLines, 1)
      <4>1. IsFiniteSet(0..(DocumentRows - 1)) /\ Cardinality(0..(DocumentRows - 1)) = DocumentRows
        BY <3>3, FS_Interval, 0 \in Int, DocumentRows - 1 \in Int
      <4>2. IsFiniteSet(rows) /\ Cardinality(rows) <= Cardinality(0..(DocumentRows - 1))
        BY <3>2, <4>1, FS_Subset
      <4>3. Cardinality(rows) \in Nat /\ Cardinality(rows) # 0
        BY <3>2, <4>2, FS_CardinalityType, FS_EmptySet
      <4> QED BY <2>0, <3>3, <4>1, <4>2, <4>3 DEF Greater
    <3>5. rows \in SUBSET Nat
      BY <3>2, <3>3
    <3> HIDE DEF rows
    <3>6. /\ c \in LineWidths \cup {1} /\ c \in Nat /\ c >= 1
          /\ \A r \in rows : RowWidth(r) \in Nat /\ RowWidth(r) <= c
      BY <1>1, <3>5, ColumnsSuffice
    <3> HIDE DEF c, n
    <3>7. w + h + 4 * options.margin < U32
      BY <2>0, <2>1, <3>4, <3>6 DEF SizesAreU32, Greater
    <3>8. w \in Nat /\ w >= 1 /\ c * AdvanceNum \in Nat /\ c * AdvanceNum <= w * AdvanceDen
      <4>1. c * AdvanceNum \in Nat /\ c * AdvanceNum > 0
        BY <2>0, <3>6
      <4> DEFINE x == c * AdvanceNum
      <4>2. x \in Nat /\ x > 0
        BY <4>1
      <4> HIDE DEF x
      <4>3. DivCeil(x, AdvanceDen) \in Nat /\ DivCeil(x, AdvanceDen) >= 1
            /\ x <= DivCeil(x, AdvanceDen) * AdvanceDen
        BY <2>0, <4>2, CeilingBounds DEF DivCeil
      <4> QED BY <4>1, <4>3 DEF x
    <3>9. h \in Nat /\ h >= 1
      <4>1. n \in Nat /\ 1 <= n /\ 1 * LineHeight = LineHeight
        BY <2>0, <3>4 DEF Greater
      <4>2. 1 * LineHeight <= n * LineHeight /\ n * LineHeight \in Nat
        BY <2>0, <4>1, ProductMonotone
      <4> QED BY <2>0, <4>1, <4>2
    <3> HIDE DEF w, h
    <3>10. WidthOf(p) = w + 2 * options.margin
      <4>1. w + 2 * options.margin < U32
        BY <2>0, <2>1, <3>7, <3>8, <3>9
      <4>2. WidthOf(p) = WithMargins(Saturate(w), options.margin)
        BY DEF WidthOf, TextWidth, rows, c, w
      <4> QED BY <2>1, <3>8, <4>1, <4>2, MarginsAdd
    <3>11. HeightOf(p) = h + 2 * options.margin
      <4>1. h + 2 * options.margin < U32
        BY <2>0, <2>1, <3>7, <3>8, <3>9
      <4>2. HeightOf(p) = WithMargins(Saturate(h), options.margin)
        BY DEF HeightOf, TextHeight, rows, n, h
      <4> QED BY <2>1, <3>9, <4>1, <4>2, MarginsAdd
    <3>12. images[p].width = w + 2 * options.margin
      BY <2>1, <3>1, <3>8, <3>10 DEF Greater
    <3>13. ASSUME NEW r \in images[p].rows
           PROVE  RowWidth(r) * AdvanceNum <= (images[p].width - 2 * options.margin) * AdvanceDen
      <4>1. RowWidth(r) \in Nat /\ RowWidth(r) <= c
        BY <3>1, <3>6
      <4>2. RowWidth(r) * AdvanceNum <= c * AdvanceNum /\ RowWidth(r) * AdvanceNum \in Nat
        BY <2>0, <3>6, <4>1, ProductMonotone
      <4>3. images[p].width - 2 * options.margin = w
        BY <2>1, <3>8, <3>12
      <4>4. w * AdvanceDen \in Nat
        BY <2>0, <3>8
      <4> QED BY <3>8, <4>2, <4>3, <4>4
    <3>14. h <= images[p].height - 2 * options.margin
      BY <2>1, <3>1, <3>9, <3>11 DEF Greater
    <3>15. images[p].width + images[p].height <= options.ceiling
      <4>1. ~(Wrap(WidthOf(p) + HeightOf(p)) > options.ceiling)
        BY <3>1 DEF Exceeds
      <4>2. Wrap(WidthOf(p) + HeightOf(p)) = WidthOf(p) + HeightOf(p)
        <5> DEFINE x == WidthOf(p) + HeightOf(p)
        <5>1. x \in Nat /\ x < U32
          BY <2>0, <2>1, <3>7, <3>8, <3>9, <3>10, <3>11
        <5> HIDE DEF x
        <5>2. Wrap(x) = x
          BY <2>0, <5>1 DEF Wrap
        <5> QED BY <5>2 DEF x
      <4>3. options.ceiling \in Ceilings
        BY <1>1 DEF RenderInv
      <4>4. options.ceiling \in Nat
        BY <2>0, <4>3, RenderAssumption
      <4>5. images[p].width = WidthOf(p) /\ images[p].height = HeightOf(p)
        BY <2>1, <3>1, <3>8, <3>9, <3>10, <3>11 DEF Greater
      <4>6. WidthOf(p) + HeightOf(p) \in Nat
        BY <2>1, <3>8, <3>9, <3>10, <3>11
      <4> QED BY <4>1, <4>2, <4>4, <4>5, <4>6
    <3> QED BY <3>1, <3>13, <3>14, <3>15 DEF h, n
  <2> QED BY <2>2 DEF ImagesFit, TextFits, WithinCeiling
<1> QED BY <1>1, RenderInvariance, PTL
-----------------------------------------------------------------------------
(***************************************************************************)
(* Canvas: the invariant says of a pixel what blending made of it (Inked)  *)
(* until the corners are punched, and outside of the corners after.        *)
(***************************************************************************)
Mark == [kind : 0..(Kinds - 1), level : 1..Levels]

IndexOf(m) == ColorIndex(m.kind, m.level)

CanvasTypeOK ==
    /\ pixels \in [Grid -> Nat]
    /\ phase \in {"drawing", "rounded", "encoded"}
    /\ radius \in Nat
    /\ marks \in [Grid -> SUBSET Mark]

\* A pixel has the highest index ever blended there, or the background's.
Inked(p) ==
    IF marks[p] = {} THEN pixels[p] = BackgroundIndex
    ELSE /\ \E m \in marks[p] : pixels[p] = IndexOf(m)
         /\ \A m \in marks[p] : IndexOf(m) <= pixels[p]

Corners == Punched(Clamped(radius))

Drawn == phase = "drawing" => \A p \in Grid : Inked(p)

Cornered ==
    phase # "drawing" =>
        \A p \in Grid : IF p \in Corners THEN pixels[p] = TransparentIndex ELSE Inked(p)

Encoded ==
    phase = "encoded" =>
        /\ palette = Palette
        /\ declared = \E p \in Grid : pixels[p] = TransparentIndex

CanvasInv == CanvasTypeOK /\ Drawn /\ Cornered /\ Encoded
-----------------------------------------------------------------------------
LEMMA Sizes ==
    /\ Width \in Nat /\ Width > 0 /\ Height \in Nat /\ Height > 0
    /\ Kinds \in Nat /\ Kinds > 0 /\ Levels \in Nat /\ Levels > 0
    /\ FullCoverage \in Nat /\ FullCoverage > 0
BY CanvasAssumption

\* A coverage quantizes to a level, or to none.
LEMMA QuantizedInRange ==
    ASSUME NEW c \in 0..FullCoverage
    PROVE  Quantized(c) \in 0..Levels
<1> DEFINE half == FullCoverage \div 2
           n == c * Levels
<1>1. half \in Nat /\ half < FullCoverage
  BY Sizes
<1>2. n \in Nat /\ n <= FullCoverage * Levels
  BY Sizes, ProductMonotone
<1>3. Quantized(c) = (n + half) \div FullCoverage
  BY DEF Quantized
<1> HIDE DEF half, n
<1>4. (n + half) \div FullCoverage \in Nat
  BY <1>1, <1>2, Sizes
<1>5. FullCoverage * ((n + half) \div FullCoverage) <= n + half
  BY <1>1, <1>2, Sizes
<1>6. ASSUME NEW q \in Nat, FullCoverage * q <= n + half PROVE q <= Levels
  <2>1. SUFFICES ASSUME Levels + 1 <= q PROVE FALSE
    BY Sizes
  <2>2. (Levels + 1) * FullCoverage <= q * FullCoverage
    BY <2>1, Sizes, ProductMonotone
  <2>3. (Levels + 1) * FullCoverage = FullCoverage * Levels + FullCoverage
    BY Sizes
  <2>4. q * FullCoverage = FullCoverage * q
    BY Sizes
  <2>5. FullCoverage * Levels \in Nat /\ FullCoverage * q \in Nat
    BY Sizes
  <2> QED BY <1>1, <1>2, <1>6, <2>2, <2>3, <2>4, <2>5, Sizes
<1> QED BY <1>3, <1>4, <1>5, <1>6, Sizes

\* The index of a mark is above the two that are no color's.
LEMMA IndexAbove ==
    ASSUME NEW m \in Mark
    PROVE  IndexOf(m) \in Nat /\ IndexOf(m) >= FirstColorIndex
<1>1. m.kind \in Nat /\ m.level \in Nat /\ m.level >= 1
  BY Sizes DEF Mark
<1>2. m.kind * Levels \in Nat
  BY <1>1, Sizes
<1> QED BY <1>1, <1>2 DEF IndexOf, ColorIndex, FirstColorIndex

\* What two entries and a function from 1 on have at each place.
LEMMA AfterTwo ==
    ASSUME NEW n \in Nat, NEW f, f = [i \in 1..n |-> f[i]], NEW a, NEW b
    PROVE  /\ (<<a, b>> \o f)[1] = a
           /\ (<<a, b>> \o f)[2] = b
           /\ \A i \in 1..n : (<<a, b>> \o f)[i + 2] = f[i]
<1> DEFINE S == {f[i] : i \in 1..n} \cup {a, b}
           ends == <<a, b>>
<1>1. ends \in Seq(S) /\ Len(ends) = 2 /\ ends[1] = a /\ ends[2] = b
  OBVIOUS
<1>2. f \in [1..n -> S]
  OBVIOUS
<1>3. f \in Seq(S) /\ Len(f) = n
  BY <1>2
<1> HIDE DEF S, ends
<1>4. \A i \in 1..(Len(ends) + Len(f)) :
          (ends \o f)[i] = IF i <= Len(ends) THEN ends[i] ELSE f[i - Len(ends)]
  BY <1>1, <1>3, ConcatProperties
<1>5. ASSUME NEW i \in 1..n PROVE (ends \o f)[i + 2] = f[i]
  <2>1. i + 2 \in 1..(Len(ends) + Len(f)) /\ ~(i + 2 <= Len(ends)) /\ i + 2 - Len(ends) = i
    BY <1>1, <1>3
  <2>2. (ends \o f)[i + 2] = f[i + 2 - Len(ends)]
    BY <1>4, <2>1
  <2> QED BY <2>1, <2>2
<1>6. (ends \o f)[1] = a /\ (ends \o f)[2] = b
  <2>1. 1 \in 1..(Len(ends) + Len(f)) /\ 2 \in 1..(Len(ends) + Len(f))
    BY <1>1, <1>3
  <2>2. 1 <= Len(ends) /\ 2 <= Len(ends)
    BY <1>1
  <2> QED BY <1>1, <1>4, <2>1, <2>2
<1> QED BY <1>5, <1>6 DEF ends

\* The palette has at the index of a mark the color and the strength of it,
\* and before the colors nothing and the background.
LEMMA PaletteOfMark ==
    /\ Palette[TransparentIndex + 1] = Entry(Background, 0, FALSE)
    /\ Palette[BackgroundIndex + 1] = Entry(Background, 0, TRUE)
    /\ \A m \in Mark : Palette[IndexOf(m) + 1] = Entry(Theme[m.kind], m.level, TRUE)
<1> DEFINE Shade(i) == Entry(Theme[(i - 1) \div Levels], 1 + ((i - 1) % Levels), TRUE)
           shades == [i \in 1..(Kinds * Levels) |-> Shade(i)]
           none == Entry(Background, 0, FALSE)
           plain == Entry(Background, 0, TRUE)
<1>1. Kinds * Levels \in Nat
  BY Sizes
<1>2. Palette = <<none, plain>> \o shades
  BY DEF Palette
<1>3. \A i \in 1..(Kinds * Levels) : shades[i] = Shade(i)
  OBVIOUS
<1>4. shades = [i \in 1..(Kinds * Levels) |-> shades[i]]
  OBVIOUS
<1> HIDE DEF shades, none, plain, Shade
<1>5. /\ Palette[1] = none /\ Palette[2] = plain
      /\ \A i \in 1..(Kinds * Levels) : Palette[i + 2] = Shade(i)
  BY <1>1, <1>2, <1>3, <1>4, AfterTwo
<1>6. ASSUME NEW m \in Mark
      PROVE  Palette[IndexOf(m) + 1] = Entry(Theme[m.kind], m.level, TRUE)
  <2> DEFINE i == m.kind * Levels + m.level
             l == m.level - 1
  <2>1. /\ m.kind \in Nat /\ m.kind + 1 <= Kinds
        /\ m.level \in Nat /\ 1 <= m.level /\ m.level <= Levels
    BY Sizes DEF Mark
  <2>2. Kinds * Levels \in Nat /\ m.kind * Levels \in Nat
    BY <2>1, Sizes
  <2>3. i \in 1..(Kinds * Levels)
    <3>1. (m.kind + 1) * Levels <= Kinds * Levels
      BY <2>1, Sizes, ProductMonotone
    <3>2. (m.kind + 1) * Levels = m.kind * Levels + Levels
      BY <2>1, Sizes
    <3> QED BY <2>1, <2>2, <3>1, <3>2, Sizes
  <2>4. l \in 0..(Levels - 1) /\ i - 1 = m.kind * Levels + l
    BY <2>1, <2>2, Sizes
  <2>5. (m.kind * Levels + l) \div Levels = m.kind /\ (m.kind * Levels + l) % Levels = l
    <3> HIDE DEF l
    <3> QED BY <2>1, <2>4, Sizes, QuotientAndRest
  <2>6. 1 + l = m.level
    BY <2>1
  <2>7. Shade(i) = Entry(Theme[m.kind], m.level, TRUE)
    <3> HIDE DEF i, l
    <3> QED BY <2>4, <2>5, <2>6 DEF Shade
  <2>8. IndexOf(m) + 1 = i + 2
    BY <2>1, <2>2, Sizes DEF IndexOf, ColorIndex, FirstColorIndex
  <2> HIDE DEF i
  <2> QED BY <1>5, <2>3, <2>7, <2>8
<1>7. TransparentIndex + 1 = 1 /\ BackgroundIndex + 1 = 2
  BY DEF TransparentIndex, BackgroundIndex
<1> QED BY <1>5, <1>6, <1>7 DEF none, plain
-----------------------------------------------------------------------------
LEMMA CanvasInitial == CanvasInit => CanvasInv
<1> SUFFICES ASSUME CanvasInit PROVE CanvasInv
  OBVIOUS
<1>1. CanvasTypeOK
  BY DEF CanvasInit, CanvasTypeOK, BackgroundIndex
<1>2. Drawn
  BY DEF CanvasInit, Drawn, Inked
<1>3. Cornered /\ Encoded
  BY DEF CanvasInit, Cornered, Encoded
<1> QED BY <1>1, <1>2, <1>3 DEF CanvasInv

\* A glyph pixel leaves every pixel with the highest of its indices.
LEMMA BlendKeeps ==
    ASSUME CanvasInv, NEW x \in (-1)..Width, NEW y \in (-1)..Height,
           NEW kind \in 0..(Kinds - 1), NEW coverage \in Coverages,
           Blend(x, y, kind, coverage)
    PROVE  CanvasInv'
<1> DEFINE level == Quantized(coverage)
           m == [kind |-> kind, level |-> level]
           index == ColorIndex(kind, level)
           p == <<x, y>>
<1>1. /\ phase = "drawing" /\ p \in Grid /\ level # 0
      /\ pixels' = IF Overwrites(index, pixels[p])
                   THEN [pixels EXCEPT ![p] = index] ELSE pixels
      /\ marks' = [marks EXCEPT ![p] = @ \cup {m}]
      /\ phase' = phase /\ radius' = radius
  BY DEF Blend
<1>2. level \in 1..Levels
  <2>1. coverage \in 0..FullCoverage
    BY CanvasAssumption
  <2>2. level \in 0..Levels
    BY <2>1, QuantizedInRange
  <2> QED BY <1>1, <2>2, Sizes
<1>3. m \in Mark /\ index = IndexOf(m)
  <2> HIDE DEF level
  <2> QED BY <1>2 DEF Mark, IndexOf
<1> HIDE DEF level, m, index, p
<1>4. index \in Nat /\ index >= FirstColorIndex
  BY <1>3, IndexAbove
<1>5. pixels \in [Grid -> Nat] /\ marks \in [Grid -> SUBSET Mark] /\ \A q \in Grid : Inked(q)
  BY <1>1 DEF CanvasInv, CanvasTypeOK, Drawn
<1>6. CanvasTypeOK'
  <2>1. pixels' \in [Grid -> Nat]
    BY <1>1, <1>4, <1>5
  <2>2. marks' \in [Grid -> SUBSET Mark]
    BY <1>1, <1>3, <1>5
  <2> QED BY <1>1, <2>1, <2>2 DEF CanvasInv, CanvasTypeOK
<1>7. ASSUME NEW q \in Grid, q # p PROVE Inked(q)'
  <2>1. pixels'[q] = pixels[q] /\ marks'[q] = marks[q]
    BY <1>1, <1>5, <1>7
  <2> QED BY <1>5, <2>1 DEF Inked
<1>8. Inked(p)'
  <2>1. marks'[p] = marks[p] \cup {m} /\ marks[p] \subseteq Mark /\ pixels[p] \in Nat
    BY <1>1, <1>5
  <2>2. pixels'[p] = IF Overwrites(index, pixels[p]) THEN index ELSE pixels[p]
    BY <1>1, <1>5
  <2>3. Inked(p)
    BY <1>1, <1>5
  <2>4. CASE marks[p] = {}
    <3>1. pixels'[p] = index
      BY <2>2, <2>3, <2>4 DEF Inked, Overwrites
    <3> QED BY <1>3, <1>4, <2>1, <2>4, <3>1 DEF Inked
  <2>5. CASE marks[p] # {}
    <3>1. PICK n \in marks[p] : pixels[p] = IndexOf(n)
      BY <2>3, <2>5 DEF Inked
    <3>2. \A o \in marks[p] : IndexOf(o) <= pixels[p] /\ IndexOf(o) \in Nat
      BY <2>1, <2>3, <2>5, IndexAbove DEF Inked
    <3>3. pixels[p] # BackgroundIndex
      BY <2>1, <3>1, IndexAbove DEF FirstColorIndex, BackgroundIndex
    <3>4. pixels'[p] = IF index > pixels[p] THEN index ELSE pixels[p]
      BY <2>2, <3>3 DEF Overwrites
    <3>5. \A o \in marks'[p] : IndexOf(o) <= pixels'[p]
      BY <1>3, <1>4, <2>1, <3>2, <3>4
    <3>6. \E o \in marks'[p] : pixels'[p] = IndexOf(o)
      BY <1>3, <2>1, <3>1, <3>4
    <3> QED BY <2>1, <3>5, <3>6 DEF Inked
  <2> QED BY <2>4, <2>5
<1>9. Drawn'
  BY <1>7, <1>8 DEF Drawn
<1>10. Cornered' /\ Encoded'
  BY <1>1 DEF Cornered, Encoded
<1> QED BY <1>6, <1>9, <1>10 DEF CanvasInv

\* Punching the corners leaves all the others as they were.
LEMMA RoundKeeps ==
    ASSUME CanvasInv, NEW r \in Radii, RoundCorners(r)
    PROVE  CanvasInv'
<1>1. /\ phase = "drawing" /\ phase' = "rounded" /\ radius' = r /\ marks' = marks
      /\ pixels' = [p \in Grid |-> IF p \in Punched(Clamped(r))
                                   THEN TransparentIndex ELSE pixels[p]]
  BY DEF RoundCorners
<1>2. pixels \in [Grid -> Nat] /\ marks \in [Grid -> SUBSET Mark] /\ \A q \in Grid : Inked(q)
  BY <1>1 DEF CanvasInv, CanvasTypeOK, Drawn
<1>3. CanvasTypeOK'
  BY <1>1, <1>2, CanvasAssumption DEF CanvasTypeOK, TransparentIndex
<1>4. Corners' = Punched(Clamped(r))
  BY <1>1 DEF Corners
<1>5. ASSUME NEW q \in Grid
      PROVE  (IF q \in Corners THEN pixels[q] = TransparentIndex ELSE Inked(q))'
  <2>1. CASE q \in Punched(Clamped(r))
    BY <1>1, <1>4, <2>1
  <2>2. CASE q \notin Punched(Clamped(r))
    <3>1. pixels'[q] = pixels[q] /\ marks'[q] = marks[q]
      BY <1>1, <2>2
    <3> QED BY <1>2, <1>4, <2>2, <3>1 DEF Inked
  <2> QED BY <2>1, <2>2
<1>6. Cornered'
  BY <1>5 DEF Cornered
<1>7. Drawn' /\ Encoded'
  BY <1>1 DEF Drawn, Encoded
<1> QED BY <1>3, <1>6, <1>7 DEF CanvasInv

LEMMA EncodeKeeps == CanvasInv /\ Encode => CanvasInv'
<1> SUFFICES ASSUME CanvasInv, Encode PROVE CanvasInv'
  OBVIOUS
<1>1. /\ phase = "rounded" /\ phase' = "encoded" /\ palette' = Palette
      /\ declared' = \E p \in Grid : pixels[p] = TransparentIndex
      /\ pixels' = pixels /\ radius' = radius /\ marks' = marks
  BY DEF Encode
<1>2. CanvasTypeOK'
  BY <1>1 DEF CanvasInv, CanvasTypeOK
<1>3. Corners' = Corners
  BY <1>1 DEF Corners
<1>4. Cornered'
  BY <1>1, <1>3 DEF CanvasInv, Cornered, Inked
<1>5. Drawn'
  BY <1>1 DEF Drawn
<1>6. Encoded'
  <2>1. Palette' = Palette
    BY DEF Palette
  <2> QED BY <1>1, <2>1 DEF Encoded
<1> QED BY <1>2, <1>4, <1>5, <1>6 DEF CanvasInv

LEMMA CanvasInductive == CanvasInv /\ [CanvasNext]_canvasVars => CanvasInv'
<1> SUFFICES ASSUME CanvasInv, [CanvasNext]_canvasVars PROVE CanvasInv'
  OBVIOUS
<1>1. CASE \E x \in (-1)..Width, y \in (-1)..Height, k \in 0..(Kinds - 1), c \in Coverages :
              Blend(x, y, k, c)
  BY <1>1, BlendKeeps
<1>2. CASE \E r \in Radii : RoundCorners(r)
  BY <1>2, RoundKeeps
<1>3. CASE Encode
  BY <1>3, EncodeKeeps
<1>4. CASE UNCHANGED canvasVars
  <2>1. Corners' = Corners /\ Palette' = Palette
    BY <1>4 DEF canvasVars, Corners, Palette
  <2> QED BY <1>4, <2>1 DEF canvasVars, CanvasInv, CanvasTypeOK, Drawn, Cornered, Encoded, Inked
<1> QED BY <1>1, <1>2, <1>3, <1>4 DEF CanvasNext

\* Every pixel is its highest index, or a punched corner, in every state
\* (Canvas::blend, round_corners).
THEOREM CanvasInvariance == CanvasSpec => []CanvasInv
<1>1. CanvasInit => CanvasInv
  BY CanvasInitial
<1>2. CanvasInv /\ [CanvasNext]_canvasVars => CanvasInv'
  BY CanvasInductive
<1> QED BY <1>1, <1>2, PTL DEF CanvasSpec
-----------------------------------------------------------------------------
\* A pixel that ink made is no corner: it is the background or above.
LEMMA InkIsOpaque ==
    ASSUME CanvasTypeOK, NEW p \in Grid, Inked(p)
    PROVE  pixels[p] # TransparentIndex
<1>1. marks[p] \subseteq Mark
  BY DEF CanvasTypeOK
<1>2. CASE marks[p] = {}
  BY <1>2 DEF Inked, TransparentIndex, BackgroundIndex
<1>3. CASE marks[p] # {}
  BY <1>1, <1>3, IndexAbove DEF Inked, TransparentIndex, FirstColorIndex
<1> QED BY <1>2, <1>3

\* What the palette shows at a pixel that ink made.
LEMMA InkShows ==
    ASSUME CanvasTypeOK, NEW p \in Grid, Inked(p)
    PROVE  LET seen == Palette[pixels[p] + 1]
           IN  /\ seen.opaque
               /\ IF marks[p] = {} THEN seen.color = Background
                  ELSE \E m \in marks[p] :
                           seen.color = Theme[m.kind] /\ seen.strength = m.level
<1>1. marks[p] \subseteq Mark
  BY DEF CanvasTypeOK
<1>2. CASE marks[p] = {}
  BY <1>2, PaletteOfMark DEF Inked, Entry
<1>3. CASE marks[p] # {}
  <2>1. PICK m \in marks[p] : pixels[p] = IndexOf(m)
    BY <1>3 DEF Inked
  <2>2. Palette[pixels[p] + 1] = Entry(Theme[m.kind], m.level, TRUE)
    BY <1>1, <2>1, PaletteOfMark
  <2> QED BY <1>3, <2>2 DEF Entry
<1> QED BY <1>2, <1>3
-----------------------------------------------------------------------------
\* The image is what was drawn, pixel by pixel: whatever glyphs overlap in
\* whatever order (Canvas::blend), and whatever theme colors it
\* (Canvas::palette).
THEOREM PixelsAreInk == CanvasSpec => []EveryPixelIsItsInk
<1>1. CanvasInv => EveryPixelIsItsInk
  <2> SUFFICES ASSUME CanvasInv PROVE EveryPixelIsItsInk
    OBVIOUS
  <2>0. CanvasTypeOK
    BY DEF CanvasInv
  <2>1. PixelIsHighestMark
    <3> SUFFICES ASSUME phase = "drawing", NEW p \in Grid
                 PROVE  IF marks[p] = {} THEN pixels[p] = BackgroundIndex
                        ELSE LET blended == {ColorIndex(m.kind, m.level) : m \in marks[p]}
                             IN  pixels[p] \in blended /\ \A i \in blended : i <= pixels[p]
      BY DEF PixelIsHighestMark
    <3>1. Inked(p)
      BY DEF CanvasInv, Drawn
    <3> QED BY <3>1 DEF Inked, IndexOf
  <2>2. ColorsAreThoseOfTheInk
    <3> SUFFICES ASSUME phase = "encoded", NEW p \in Grid
                 PROVE  LET seen == palette[pixels[p] + 1]
                        IN  IF p \in Corners THEN declared /\ ~seen.opaque
                            ELSE /\ seen.opaque
                                 /\ IF marks[p] = {} THEN seen.color = Background
                                    ELSE \E m \in marks[p] : seen.color = Theme[m.kind]
                                                             /\ seen.strength = m.level
      BY DEF ColorsAreThoseOfTheInk, Corners
    <3>1. /\ palette = Palette
          /\ declared = \E q \in Grid : pixels[q] = TransparentIndex
          /\ IF p \in Corners THEN pixels[p] = TransparentIndex ELSE Inked(p)
      BY DEF CanvasInv, Encoded, Cornered
    <3>2. CASE p \in Corners
      BY <3>1, <3>2, PaletteOfMark DEF Entry
    <3>3. CASE p \notin Corners
      BY <2>0, <3>1, <3>3, InkShows
    <3> QED BY <3>2, <3>3
  <2> QED BY <2>1, <2>2 DEF EveryPixelIsItsInk
<1> QED BY <1>1, CanvasInvariance, PTL
-----------------------------------------------------------------------------
\* The radius rounded with is at most half of each side.
LEMMA ClampedFits ==
    ASSUME NEW r \in Nat
    PROVE  /\ Clamped(r) \in Nat /\ Clamped(r) <= r
           /\ 2 * Clamped(r) <= Width /\ 2 * Clamped(r) <= Height
<1>1. Width \div 2 \in Nat /\ 2 * (Width \div 2) <= Width
  BY Sizes
<1>2. Height \div 2 \in Nat /\ 2 * (Height \div 2) <= Height
  BY Sizes
<1> QED BY <1>1, <1>2, Sizes DEF Clamped, Min2

\* What lies outside of the arc lies nearer to the corner than its chord.
LEMMA OutsideOfChord ==
    ASSUME NEW r \in Nat, NEW cx \in 0..(r - 1), NEW cy \in 0..(r - 1), OutsideArc(cx, cy, r)
    PROVE  cx + cy < r
<1> DEFINE n == 2 * r - 1
           a == 2 * r - 1 - 2 * cx
           b == 2 * r - 1 - 2 * cy
<1>1. n \in Nat /\ a \in Nat /\ b \in Nat /\ a <= n /\ b <= n
  OBVIOUS
<1>2. a * a + b * b > n * n
  BY DEF OutsideArc
<1> SUFFICES ASSUME r <= cx + cy PROVE FALSE
  OBVIOUS
<1>3. a + b \in Nat /\ a + b <= n
  OBVIOUS
<1> HIDE DEF n, a, b
<1>4. a * a <= n * a /\ b * b <= n * b /\ (a + b) * n <= n * n
  BY <1>1, <1>3, ProductMonotone
<1>5. (a + b) * n = n * a + n * b
  BY <1>1
<1>6. {a * a, b * b, n * a, n * b, n * n} \subseteq Nat
  BY <1>1
<1> QED BY <1>2, <1>4, <1>5, <1>6

\* Where the punched pixels are: at the same place seen from each corner.
LEMMA PunchedPlaces ==
    ASSUME NEW r \in Nat, NEW p, p \in Punched(Clamped(r))
    PROVE  \E cx, cy \in Nat :
               /\ cx < Clamped(r) /\ cy < Clamped(r) /\ cx + cy < Clamped(r)
               /\ p \in Mirrors(cx, cy) /\ Mirrors(cx, cy) \subseteq Punched(Clamped(r))
<1> DEFINE s == Clamped(r)
<1>1. s \in Nat
  BY ClampedFits
<1> HIDE DEF s
<1>2. PICK c \in (0..(s - 1)) \X (0..(s - 1)) :
          OutsideArc(c[1], c[2], s) /\ p \in Mirrors(c[1], c[2])
  BY DEF Punched, s
<1>3. Mirrors(c[1], c[2]) \subseteq Punched(s)
  BY <1>2 DEF Punched
<1>4. c[1] \in 0..(s - 1) /\ c[2] \in 0..(s - 1)
  OBVIOUS
<1>5. c[1] + c[2] < s
  BY <1>1, <1>2, <1>4, OutsideOfChord
<1>6. c[1] \in Nat /\ c[2] \in Nat /\ c[1] < s /\ c[2] < s
  BY <1>1, <1>4
<1> QED BY <1>2, <1>3, <1>5, <1>6 DEF s

\* A radius that is left after clamping takes the pixel of the corner.
LEMMA CornerIsPunched ==
    ASSUME NEW r \in Nat, Clamped(r) > 0
    PROVE  <<0, 0>> \in Grid /\ <<0, 0>> \in Punched(Clamped(r))
<1> DEFINE s == Clamped(r)
           n == 2 * s - 1
<1>1. s \in Nat /\ s > 0 /\ 0 \in 0..(s - 1)
  BY ClampedFits
<1>2. n \in Nat /\ n > 0 /\ n - 2 * 0 = n
  BY <1>1
<1>3. OutsideArc(0, 0, s)
  <2>1. n * n > 0 /\ n * n \in Nat
    <3> HIDE DEF n
    <3> QED BY <1>2
  <2> HIDE DEF s
  <2> QED BY <1>1, <2>1 DEF OutsideArc
<1>4. <<0, 0>> \in Mirrors(0, 0)
  BY DEF Mirrors
<1>5. <<0, 0>> \in Punched(s)
  <2> HIDE DEF s
  <2>1. <<0, 0>> \in (0..(s - 1)) \X (0..(s - 1))
    BY <1>1
  <2> QED BY <1>3, <1>4, <2>1 DEF Punched
<1>6. <<0, 0>> \in Grid
  BY Sizes DEF Grid
<1> QED BY <1>5, <1>6

\* Corners are punched alike, no more of them than was asked for, and the
\* image says it has them exactly when it has (Canvas::round_corners, encode),
\* for a canvas and a radius of any size.
THEOREM RoundOnAllSides == CanvasSpec => []CornersAreRound
<1>1. CanvasInv => CornersAreRound
  <2> SUFFICES ASSUME CanvasInv PROVE CornersAreRound
    OBVIOUS
  <2>0. CanvasTypeOK /\ radius \in Nat
    BY DEF CanvasInv, CanvasTypeOK
  <2>1. ASSUME NEW p \in Grid, pixels[p] = TransparentIndex
        PROVE  phase # "drawing" /\ p \in Corners
    BY <2>0, <2>1, InkIsOpaque DEF CanvasInv, Drawn, Cornered
  <2>2. CornersAreSymmetric
    <3> SUFFICES ASSUME NEW p \in Grid, pixels[p] = TransparentIndex
                 PROVE  /\ \A q \in {<<Width - 1 - p[1], p[2]>>, <<p[1], Height - 1 - p[2]>>} :
                               pixels[q] = TransparentIndex
                        /\ Min2(p[1], Width - 1 - p[1]) < radius
                        /\ Min2(p[2], Height - 1 - p[2]) < radius
                        /\ Min2(p[1], Width - 1 - p[1]) + Min2(p[2], Height - 1 - p[2]) < radius
      BY DEF CornersAreSymmetric
    <3> DEFINE s == Clamped(radius)
    <3>1. PICK cx \in Nat, cy \in Nat :
              /\ cx < s /\ cy < s /\ cx + cy < s
              /\ p \in Mirrors(cx, cy) /\ Mirrors(cx, cy) \subseteq Corners
      BY <2>0, <2>1, PunchedPlaces DEF Corners
    <3>2. s \in Nat /\ s <= radius /\ 2 * s <= Width /\ 2 * s <= Height
      BY <2>0, ClampedFits
    <3> HIDE DEF s
    <3>3. p[1] \in {cx, Width - 1 - cx} /\ p[2] \in {cy, Height - 1 - cy}
      BY <3>1 DEF Mirrors
    <3>4. /\ Width - 1 - p[1] \in {cx, Width - 1 - cx}
          /\ Height - 1 - p[2] \in {cy, Height - 1 - cy}
      BY <3>1, <3>3, Sizes
    <3>5. ASSUME NEW i \in {cx, Width - 1 - cx}, NEW j \in {cy, Height - 1 - cy}
          PROVE  pixels[<<i, j>>] = TransparentIndex
      <4>1. <<i, j>> \in Corners
        BY <3>1 DEF Mirrors
      <4>2. <<i, j>> \in Grid
        BY <3>1, <3>2, Sizes DEF Grid
      <4> QED BY <2>1, <4>1, <4>2 DEF CanvasInv, Cornered
    <3>6. Min2(p[1], Width - 1 - p[1]) <= cx /\ Min2(p[1], Width - 1 - p[1]) \in Nat
      BY <3>1, <3>2, <3>3, Sizes DEF Min2
    <3>7. Min2(p[2], Height - 1 - p[2]) <= cy /\ Min2(p[2], Height - 1 - p[2]) \in Nat
      BY <3>1, <3>2, <3>3, Sizes DEF Min2
    <3> QED BY <2>0, <3>1, <3>2, <3>3, <3>4, <3>5, <3>6, <3>7
  <2>3. AlphaMatchesRadius
    <3> SUFFICES ASSUME phase = "encoded" PROVE declared <=> Clamped(radius) > 0
      BY DEF AlphaMatchesRadius
    <3>1. declared = \E q \in Grid : pixels[q] = TransparentIndex
      BY DEF CanvasInv, Encoded
    <3>2. ASSUME Clamped(radius) > 0 PROVE declared
      BY <2>0, <3>1, <3>2, CornerIsPunched DEF CanvasInv, Cornered, Corners
    <3>3. ASSUME declared PROVE Clamped(radius) > 0
      <4>1. PICK q \in Grid : pixels[q] = TransparentIndex
        BY <3>1, <3>3
      <4>2. PICK cx \in Nat : cx < Clamped(radius)
        BY <2>0, <2>1, <4>1, PunchedPlaces DEF Corners
      <4> QED BY <2>0, <4>2, ClampedFits
    <3>4. declared \in BOOLEAN
      BY <3>1
    <3> QED BY <3>2, <3>3, <3>4
  <2> QED BY <2>2, <2>3 DEF CornersAreRound
<1> QED BY <1>1, CanvasInvariance, PTL
-----------------------------------------------------------------------------
(***************************************************************************)
(* Drawing: what the loops of render_page draw is the picture of the page. *)
(* First, what FlattenSeq makes of a sequence and one element more.        *)
(***************************************************************************)
\* One sequence more is appended to what the others flatten to.
LEMMA FlattenAppend ==
    ASSUME NEW S, NEW ss \in Seq(Seq(S)), NEW x \in Seq(S)
    PROVE  /\ FlattenSeq(ss) \in Seq(S)
           /\ FlattenSeq(Append(ss, x)) = FlattenSeq(ss) \o x
<1>1. \A v : FlattenSeq(v) = Flattened(v)
  BY DEF FlattenSeq, Flattened, Flat
<1> QED BY <1>1, FlattenedAppend
-----------------------------------------------------------------------------
\* The characters of a line before a token of it.
Before(line, t) == Len(Chars(SubSeq(line, 1, t - 1)))

\* They are as many more as the token has, before the next token.
LEMMA CharsOfToken ==
    ASSUME NEW line \in Seq(Token), NEW t \in 1..Len(line)
    PROVE  /\ Before(line, t) \in Nat
           /\ Len(line[t].chars) \in Nat
           /\ Before(line, t + 1) = Before(line, t) + Len(line[t].chars)
<1> DEFINE head == SubSeq(line, 1, t - 1)
           more == SubSeq(line, 1, t)
           ss == [n \in DOMAIN head |-> head[n].chars]
           S == DOMAIN Raster
           x == line[t].chars
<1>0. ASSUME NEW e \in Token PROVE e.chars \in Seq(S)
  BY DEF Token
<1>1. line[t] \in Token /\ x \in Seq(S)
  <2>1. line[t] \in Token
    OBVIOUS
  <2> QED BY <1>0, <2>1
<1>2. /\ head \in Seq(Token) /\ Len(head) = t - 1 /\ DOMAIN head = 1..(t - 1)
      /\ \A n \in 1..(t - 1) : head[n] = line[n]
  OBVIOUS
<1>3. /\ more \in Seq(Token) /\ Len(more) = t /\ DOMAIN more = 1..t
      /\ \A n \in 1..t : more[n] = line[n]
  OBVIOUS
<1> HIDE DEF head, more
<1>4. ss \in Seq(Seq(S)) /\ Len(ss) = t - 1
  <2>1. ASSUME NEW n \in 1..(t - 1) PROVE head[n].chars \in Seq(S)
    <3>1. head[n] \in Token
      BY <1>2
    <3> QED BY <1>0, <3>1
  <2>2. ss \in [1..(t - 1) -> Seq(S)] /\ t - 1 \in Nat
    <3> HIDE DEF S
    <3> QED BY <1>2, <2>1
  <2> HIDE DEF ss, S
  <2> QED BY <2>2
<1>5. [n \in DOMAIN more |-> more[n].chars] = Append(ss, x)
  <2>1. Append(ss, x) \in [1..t -> Seq(S)]
    <3> DEFINE D == Seq(S)
    <3>1. x \in D /\ ss \in Seq(D) /\ Len(ss) = t - 1
      BY <1>1, <1>4
    <3> HIDE DEF ss, x, D
    <3>2. Append(ss, x) \in Seq(D) /\ Len(Append(ss, x)) = t
      BY <3>1
    <3> DEFINE a == Append(ss, x)
    <3>3. a \in Seq(D) /\ Len(a) = t
      BY <3>2
    <3> HIDE DEF a
    <3>4. a \in [1..t -> D]
      BY <3>3
    <3> QED BY <3>4 DEF D, a
  <2>2. ASSUME NEW n \in 1..t PROVE Append(ss, x)[n] = more[n].chars
    <3>1. CASE n = t
      <4>1. Append(ss, x)[t] = x
        <5>1. t = Len(ss) + 1 /\ ss \in Seq(Seq(S))
          BY <1>4
        <5> HIDE DEF ss, S, x
        <5>2. Append(ss, x)[Len(ss) + 1] = x
          BY <5>1
        <5> QED BY <5>1, <5>2
      <4>2. more[t].chars = x
        BY <1>3
      <4> QED BY <3>1, <4>1, <4>2
    <3>2. CASE n # t
      <4>1. n \in 1..(t - 1)
        BY <3>2
      <4>2. Append(ss, x)[n] = ss[n]
        <5> HIDE DEF ss, S, x
        <5> QED BY <1>1, <1>4, <4>1
      <4> QED BY <1>2, <1>3, <4>1, <4>2
    <3> QED BY <3>1, <3>2
  <2> HIDE DEF ss, S, x
  <2> QED BY <1>3, <2>1, <2>2
<1>6. Chars(head) = FlattenSeq(ss) /\ Chars(more) = FlattenSeq(Append(ss, x))
  BY <1>5 DEF Chars
<1> HIDE DEF ss, S, x
<1>7. FlattenSeq(ss) \in Seq(S) /\ Chars(more) = FlattenSeq(ss) \o x
  BY <1>1, <1>4, <1>6, FlattenAppend
<1>8. Len(Chars(more)) = Len(Chars(head)) + Len(x) /\ Len(Chars(head)) \in Nat /\ Len(x) \in Nat
  BY <1>1, <1>6, <1>7
<1>9. Before(line, t) = Len(Chars(head)) /\ Before(line, t + 1) = Len(Chars(more))
  BY DEF Before, head, more
<1> QED BY <1>8, <1>9 DEF x

\* None before the first token, all of the line after the last.
LEMMA CharsOfLine ==
    ASSUME NEW line \in Seq(Token)
    PROVE  /\ Before(line, 1) = 0
           /\ Before(line, Len(line) + 1) = Len(Chars(line))
           /\ Len(Chars(<<>>)) = 0
           /\ Len(Chars(line)) \in Nat
           /\ \A t \in 1..Len(line) : Before(line, t + 1) <= Len(Chars(line))
<1>1. Len(Chars(<<>>)) = 0
  <2>1. Len([t \in DOMAIN <<>> |-> <<>>[t].chars]) = 0
    OBVIOUS
  <2>2. [t \in DOMAIN <<>> |-> <<>>[t].chars] = <<>>
    OBVIOUS
  <2> QED BY <2>2 DEF Chars, FlattenSeq
<1>2. Before(line, 1) = 0
  <2>1. SubSeq(line, 1, 1 - 1) = <<>>
    OBVIOUS
  <2> QED BY <1>1, <2>1 DEF Before
<1>3. Before(line, Len(line) + 1) = Len(Chars(line))
  <2>1. SubSeq(line, 1, (Len(line) + 1) - 1) = line
    OBVIOUS
  <2> QED BY <2>1 DEF Before
<1> DEFINE T == {k \in Nat : \A t \in 1..(Len(line) + 1) :
                                 t + k <= Len(line) + 1 => Before(line, t) <= Before(line, t + k)}
<1>4. \A t \in 1..(Len(line) + 1) : Before(line, t) \in Nat
  <2> SUFFICES ASSUME NEW t \in 1..(Len(line) + 1) PROVE Before(line, t) \in Nat
    OBVIOUS
  <2>1. CASE t = 1
    BY <1>2, <2>1
  <2>2. CASE t # 1
    <3>1. t - 1 \in 1..Len(line) /\ (t - 1) + 1 = t
      BY <2>2
    <3>2. Before(line, t - 1) \in Nat /\ Len(line[t - 1].chars) \in Nat
          /\ Before(line, (t - 1) + 1) = Before(line, t - 1) + Len(line[t - 1].chars)
      BY <3>1, CharsOfToken
    <3> QED BY <3>1, <3>2
  <2> QED BY <2>1, <2>2
<1>5. Nat \subseteq T
  <2>1. 0 \in T
    BY <1>4
  <2>2. ASSUME NEW k \in Nat, k \in T PROVE k + 1 \in T
    <3> SUFFICES ASSUME NEW t \in 1..(Len(line) + 1), t + (k + 1) <= Len(line) + 1
                 PROVE  Before(line, t) <= Before(line, t + (k + 1))
      OBVIOUS
    <3>1. t + k \in 1..Len(line) /\ (t + k) + 1 = t + (k + 1) /\ t + k <= Len(line) + 1
      OBVIOUS
    <3>2. Before(line, t) <= Before(line, t + k)
      BY <2>2, <3>1
    <3>3. /\ Before(line, t + k) \in Nat /\ Len(line[t + k].chars) \in Nat
          /\ Before(line, (t + k) + 1) = Before(line, t + k) + Len(line[t + k].chars)
      BY <3>1, CharsOfToken
    <3> QED BY <1>4, <3>1, <3>2, <3>3
  <2> HIDE DEF T
  <2> QED BY <2>1, <2>2, SetInduction
<1>6. ASSUME NEW t \in 1..Len(line) PROVE Before(line, t + 1) <= Len(Chars(line))
  <2>1. Len(line) - t \in Nat /\ t + 1 \in 1..(Len(line) + 1)
        /\ (t + 1) + (Len(line) - t) = Len(line) + 1
    OBVIOUS
  <2>2. Len(line) - t \in T
    <3> HIDE DEF T
    <3> QED BY <1>5, <2>1
  <2>3. Before(line, t + 1) <= Before(line, (t + 1) + (Len(line) - t))
    BY <2>1, <2>2
  <2> QED BY <1>3, <2>1, <2>3
<1>7. Len(Chars(line)) \in Nat
  <2>1. Len(line) + 1 \in 1..(Len(line) + 1)
    OBVIOUS
  <2> QED BY <1>3, <1>4, <2>1
<1> QED BY <1>1, <1>2, <1>3, <1>6, <1>7
-----------------------------------------------------------------------------
\* A character of the page by its row, token and index, and the mark it makes
\* unless it is white.
Place(r, t, i) ==
    r \in PageRows /\ t \in DOMAIN LineTokens(doc, r) /\ i \in DOMAIN LineTokens(doc, r)[t].chars
CharAt(r, t, i) == LineTokens(doc, r)[t].chars[i]
Inky(r, t, i) == Place(r, t, i) /\ CharAt(r, t, i) \notin White
MarkOf(r, t, i) ==
    [row |-> r - From, column |-> Before(LineTokens(doc, r), t) + i - 1,
     kind |-> LineTokens(doc, r)[t].kind, glyph |-> Raster[CharAt(r, t, i)]]

\* The loops are behind it.
Passed(r, t, i) == r < row \/ (r = row /\ (t < token \/ (t = token /\ i < at)))

\* Between calls and in them: the cache holds what the font draws, and nothing
\* the font cannot draw.
Held ==
    /\ doc \in Documents
    /\ stage \in {"idle", "asked", "drawing"}
    /\ IF stage = "idle" THEN call = NoCall
       ELSE call \in [page : 0..MaxPage, pageRows : PageSizes]
    /\ DOMAIN glyphs \subseteq DOMAIN Raster \ Fatal
    /\ \A c \in DOMAIN glyphs : glyphs[c] = Raster[c]

\* Where the loops are: the column is that of the character.
Where ==
    stage = "drawing" =>
        /\ call.page < Pages(RowCount(doc), call.pageRows)
        /\ ~Unsliceable
        /\ row \in Nat /\ From <= row
        /\ token \in 1..(Len(Line) + 1)
        /\ at \in Nat \ {0}
        /\ IF token <= Len(Line) THEN at <= Len(Line[token].chars) + 1 ELSE at = 1
        /\ column = Before(Line, token) + at - 1

\* What is drawn: a mark for every character passed that is not white.
MarksSoFar == \A m : (m \in ink) <=> (\E r, t, i : Inky(r, t, i) /\ Passed(r, t, i) /\ m = MarkOf(r, t, i))
NoneFatal == \A r, t, i : Inky(r, t, i) /\ Passed(r, t, i) => CharAt(r, t, i) \notin Fatal
What == stage = "drawing" => MarksSoFar /\ NoneFatal

DrawInv == Held /\ Where /\ What
-----------------------------------------------------------------------------
\* The rows and lines of a page.
LEMMA PageLines ==
    ASSUME Held, stage # "idle"
    PROVE  /\ From \in Nat /\ Upto \in Int /\ PageRows \in SUBSET Nat
           /\ \A r \in PageRows : From <= r /\ r < Upto
           /\ \A r \in Int : From <= r /\ r < Upto => r \in PageRows
           /\ \A r \in Nat : LineTokens(doc, r) \in Seq(Token)
<1>1. doc \in Seq(Seq(Token))
  BY PictureAssumption DEF Held
<1>2. call.page \in Nat /\ call.pageRows \in Nat
  <2>1. call.page \in 0..MaxPage /\ call.pageRows \in PageSizes /\ MaxPage \in Nat /\ U32 \in Nat
    BY PictureAssumption, U32Assumption DEF Held
  <2>2. call.pageRows \in 1..(U32 - 1)
    BY <2>1, PictureAssumption
  <2> QED BY <2>1, <2>2
<1>3. From \in Nat
  <2>1. call.page * call.pageRows \in Nat
    BY <1>2
  <2> QED BY <2>1, U32Assumption DEF From, FirstRow, Wrap
<1>4. Upto \in Int
  <2>1. Len(doc) \in Nat
    BY <1>1
  <2>2. RowCount(doc) \in Int
    BY <2>1 DEF RowCount, Greater
  <2>3. From + call.pageRows \in Nat
    BY <1>2, <1>3
  <2>4. Wrap(From + call.pageRows) \in Int
    BY <2>3, U32Assumption DEF Wrap
  <2> QED BY <2>2, <2>4 DEF Upto, LastRow, Lesser, From
<1>5. PageRows = From..(Upto - 1)
  BY DEF PageRows, RowsOfPage, From, Upto
<1>6. ASSUME NEW r \in Nat PROVE LineTokens(doc, r) \in Seq(Token)
  <2>1. CASE r < Len(doc)
    <3>1. r + 1 \in 1..Len(doc)
      BY <1>1, <2>1
    <3> QED BY <1>1, <2>1, <3>1 DEF LineTokens
  <2>2. CASE ~(r < Len(doc))
    BY <2>2 DEF LineTokens
  <2> QED BY <2>1, <2>2
<1> QED BY <1>3, <1>4, <1>5, <1>6

\* Characters of a place, and how many there are.
LEMMA Places ==
    ASSUME Held, stage # "idle", NEW r, NEW t, NEW i, Place(r, t, i)
    PROVE  /\ r \in Nat /\ From <= r /\ r < Upto
           /\ LineTokens(doc, r) \in Seq(Token)
           /\ t \in 1..Len(LineTokens(doc, r))
           /\ i \in 1..Len(LineTokens(doc, r)[t].chars)
<1>1. r \in PageRows /\ r \in Nat /\ From <= r /\ r < Upto /\ LineTokens(doc, r) \in Seq(Token)
  BY PageLines DEF Place
<1>2. t \in 1..Len(LineTokens(doc, r))
  BY <1>1 DEF Place
<1>3. LineTokens(doc, r)[t].chars \in Seq(DOMAIN Raster)
  <2>1. LineTokens(doc, r)[t] \in Token
    BY <1>1, <1>2
  <2> QED BY <2>1 DEF Token
<1> QED BY <1>1, <1>2, <1>3 DEF Place

\* The widest row is at least as wide as each.
LEMMA WidestRow ==
    ASSUME Held, stage # "idle", NEW r \in PageRows
    PROVE  RowColumns(r) \in Nat /\ PageColumns \in Nat /\ RowColumns(r) <= PageColumns
<1>0. doc \in Seq(Seq(Token)) /\ Len(doc) \in Nat
  BY PictureAssumption DEF Held
<1>1. ASSUME NEW q \in PageRows PROVE RowColumns(q) \in Nat
  BY PageLines, CharsOfLine DEF RowColumns
<1> DEFINE s == [k \in 1..Len(doc) |-> Len(Chars(doc[k]))]
<1>2. s \in [1..Len(doc) -> Nat]
  <2>1. ASSUME NEW k \in 1..Len(doc) PROVE Len(Chars(doc[k])) \in Nat
    <3>1. doc[k] \in Seq(Token)
      BY <1>0
    <3> QED BY <3>1, CharsOfLine
  <2> QED BY <2>1
<1>3. PICK b \in Nat : \A k \in 1..Len(doc) : s[k] <= b
  <2> HIDE DEF s
  <2> QED BY <1>0, <1>2, BoundedSequence
<1>4. ASSUME NEW q \in PageRows PROVE RowColumns(q) <= b
  <2>1. q \in Nat
    BY PageLines
  <2>2. CASE q < Len(doc)
    <3>1. q + 1 \in 1..Len(doc) /\ RowColumns(q) = s[q + 1]
      BY <1>0, <2>1, <2>2 DEF RowColumns, LineTokens
    <3> QED BY <1>3, <3>1
  <2>3. CASE ~(q < Len(doc))
    <3>1. RowColumns(q) = Len(Chars(<<>>))
      BY <2>3 DEF RowColumns, LineTokens
    <3>2. Len(Chars(<<>>)) = 0
      <4>1. <<>> \in Seq(Token)
        OBVIOUS
      <4> QED BY <4>1, CharsOfLine
    <3> QED BY <1>3, <3>1, <3>2
  <2> QED BY <2>2, <2>3
<1> DEFINE T == {RowColumns(q) : q \in PageRows} \cup {1}
<1>5. T \in SUBSET Nat /\ T # {} /\ b + 1 \in Nat /\ \A x \in T : x <= b + 1
  BY <1>1, <1>4
<1>6. PageColumns = CHOOSE n \in T : \A m \in T : m <= n
  BY DEF PageColumns
<1>7. RowColumns(r) \in T
  OBVIOUS
<1> HIDE DEF T
<1>8. \E n \in T : \A m \in T : m <= n
  BY <1>5, LargestElement
<1>9. PageColumns \in T /\ \A m \in T : m <= PageColumns
  BY <1>6, <1>8
<1> QED BY <1>1, <1>5, <1>7, <1>9

\* Nothing is drawn past the rows and columns the image was made for.
LEMMA InkFits == DrawInv => InkWithinThePage
<1> SUFFICES ASSUME DrawInv, stage = "drawing", NEW m \in ink
             PROVE  m.column < PageColumns /\ m.row \in 0..(Upto - From - 1)
  BY DEF InkWithinThePage
<1>0. Held
  BY DEF DrawInv
<1>1. PICK r, t, i : Inky(r, t, i) /\ m = MarkOf(r, t, i)
  BY DEF DrawInv, What, MarksSoFar
<1> DEFINE line == LineTokens(doc, r)
<1>2. /\ r \in Nat /\ From <= r /\ r < Upto /\ line \in Seq(Token)
      /\ t \in 1..Len(line) /\ i \in 1..Len(line[t].chars) /\ r \in PageRows
  BY <1>0, <1>1, Places DEF Inky, Place
<1>3. m.row = r - From /\ m.column = Before(line, t) + i - 1
  BY <1>1 DEF MarkOf
<1> HIDE DEF line
<1>4. /\ Before(line, t) \in Nat /\ Len(line[t].chars) \in Nat
      /\ Before(line, t + 1) = Before(line, t) + Len(line[t].chars)
      /\ Before(line, t + 1) <= Len(Chars(line))
  BY <1>2, CharsOfToken, CharsOfLine
<1>5. Len(Chars(line)) <= PageColumns /\ PageColumns \in Nat /\ Len(Chars(line)) \in Nat
  BY <1>0, <1>2, WidestRow DEF RowColumns, line
<1>6. m.column < PageColumns
  BY <1>2, <1>3, <1>4, <1>5
<1>7. From \in Nat /\ Upto \in Int
  BY <1>0, PageLines
<1> QED BY <1>2, <1>3, <1>6, <1>7
-----------------------------------------------------------------------------
\* Within a call the page stays what it is.
LEMMA SamePage ==
    ASSUME UNCHANGED <<doc, call>>
    PROVE  /\ From' = From /\ Upto' = Upto /\ PageRows' = PageRows /\ Unsliceable' = Unsliceable
           /\ \A r : LineTokens(doc, r)' = LineTokens(doc, r)
           /\ \A r, t, i : /\ Inky(r, t, i)' = Inky(r, t, i)
                           /\ CharAt(r, t, i)' = CharAt(r, t, i)
                           /\ MarkOf(r, t, i)' = MarkOf(r, t, i)
<1>1. From' = From /\ Upto' = Upto /\ PageRows' = PageRows
  BY DEF From, Upto, PageRows
<1>2. \A r : LineTokens(doc, r)' = LineTokens(doc, r)
  BY DEF LineTokens
<1>3. \A r, t, i : CharAt(r, t, i)' = CharAt(r, t, i)
  BY <1>2 DEF CharAt
<1>4. \A r, t, i : Inky(r, t, i)' = Inky(r, t, i)
  BY <1>1, <1>2, <1>3 DEF Inky, Place
<1>5. \A r, t, i : MarkOf(r, t, i)' = MarkOf(r, t, i)
  BY <1>1, <1>2, <1>3 DEF MarkOf
<1>6. Unsliceable' = Unsliceable
  BY <1>1, <1>2 DEF Unsliceable
<1> QED BY <1>1, <1>2, <1>3, <1>4, <1>5, <1>6

\* A step that ends a call, or starts one.
LEMMA OutsideKeeps ==
    ASSUME DrawInv, Held', stage' # "drawing"
    PROVE  DrawInv'
BY DEF DrawInv, Where, What

\* An answer ends the call.
LEMMA ReplyHolds ==
    ASSUME DrawInv, NEW result, Reply(result), UNCHANGED glyphs
    PROVE  DrawInv'
<1>1. Held'
  BY DEF DrawInv, Held, Reply
<1> QED BY <1>1, OutsideKeeps DEF Reply

\* A step of the loops that passes no ink: what is drawn stays right.
LEMMA LoopHolds ==
    ASSUME DrawInv, stage = "drawing", UNCHANGED <<vars, glyphs, stage, ink>>, Where',
           \A r, t, i : Inky(r, t, i) => Passed(r, t, i)' = Passed(r, t, i)
    PROVE  DrawInv'
<1>1. Held'
  BY DEF DrawInv, Held, vars
<1>2. /\ \A r, t, i : /\ Inky(r, t, i)' = Inky(r, t, i)
                      /\ CharAt(r, t, i)' = CharAt(r, t, i)
                      /\ MarkOf(r, t, i)' = MarkOf(r, t, i)
  BY SamePage DEF vars
<1>3. \A r, t, i : (Inky(r, t, i)' /\ Passed(r, t, i)') = (Inky(r, t, i) /\ Passed(r, t, i))
  BY <1>2
<1>4. MarksSoFar'
  BY <1>2, <1>3 DEF DrawInv, What, MarksSoFar
<1>5. NoneFatal'
  BY <1>2, <1>3 DEF DrawInv, What, NoneFatal
<1> QED BY <1>1, <1>4, <1>5 DEF DrawInv, What

\* Where the loops are, in numbers.
LEMMA Positions ==
    ASSUME DrawInv, stage = "drawing"
    PROVE  /\ row \in Nat /\ Line \in Seq(Token) /\ token \in Nat /\ at \in Nat /\ at >= 1
           /\ token >= 1 /\ token <= Len(Line) + 1
           /\ token <= Len(Line) =>
                  /\ Line[token] \in Token /\ Len(Line[token].chars) \in Nat
                  /\ Line[token].chars \in Seq(DOMAIN Raster)
<1>1. Held /\ Where /\ row \in Nat
  BY DEF DrawInv, Where
<1>2. Line \in Seq(Token)
  BY <1>1, PageLines DEF Line
<1>3. Len(Line) \in Nat
  BY <1>2
<1>4. token \in Nat /\ token >= 1 /\ token <= Len(Line) + 1 /\ at \in Nat /\ at >= 1
  BY <1>1, <1>3 DEF Where
<1>5. ASSUME token <= Len(Line)
      PROVE  /\ Line[token] \in Token /\ Line[token].chars \in Seq(DOMAIN Raster)
             /\ Len(Line[token].chars) \in Nat
  <2>1. Line[token] \in Token
    BY <1>2, <1>3, <1>4, <1>5
  <2>2. \A e \in Token : e.chars \in Seq(DOMAIN Raster)
    BY DEF Token
  <2>3. Line[token].chars \in Seq(DOMAIN Raster)
    BY <2>1, <2>2
  <2> QED BY <2>1, <2>3
<1> QED BY <1>1, <1>2, <1>4, <1>5

LEMMA NextTokenHolds == DrawInv /\ NextToken => DrawInv'
<1> SUFFICES ASSUME DrawInv, NextToken PROVE DrawInv'
  OBVIOUS
<1>1. /\ stage = "drawing" /\ row < Upto /\ token <= Len(Line) /\ at > Len(Line[token].chars)
      /\ token' = token + 1 /\ at' = 1 /\ row' = row /\ column' = column
      /\ UNCHANGED <<vars, glyphs, stage, ink>>
  BY DEF NextToken
<1>2. Held /\ Where
  BY DEF DrawInv
<1>3. From' = From /\ Upto' = Upto /\ Line' = Line /\ Unsliceable' = Unsliceable
  <2>1. UNCHANGED <<doc, call>>
    BY <1>1 DEF vars
  <2> QED BY <1>1, <2>1, SamePage DEF Line
<1>4. /\ row \in Nat /\ Line \in Seq(Token) /\ token \in Nat /\ at \in Nat /\ at >= 1
      /\ token >= 1 /\ Len(Line[token].chars) \in Nat
  BY <1>1, Positions
<1>5. at = Len(Line[token].chars) + 1
  BY <1>1, <1>2, <1>4 DEF Where
<1>6. Before(Line, token) \in Nat /\ Before(Line, token + 1) = Before(Line, token) + Len(Line[token].chars)
  <2>1. token \in 1..Len(Line)
    BY <1>1, <1>4
  <2> QED BY <1>4, <2>1, CharsOfToken
<1>7. column' = Before(Line, token + 1) + 1 - 1
  BY <1>1, <1>2, <1>4, <1>5, <1>6 DEF Where
<1>8. Where'
  <2>1. token' \in 1..(Len(Line) + 1) /\ at' \in Nat \ {0}
    BY <1>1, <1>4
  <2>2. token' <= Len(Line) => at' <= Len(Line[token'].chars) + 1
    <3> SUFFICES ASSUME token + 1 <= Len(Line) PROVE 1 <= Len(Line[token + 1].chars) + 1
      BY <1>1
    <3>1. token + 1 \in 1..Len(Line)
      BY <1>4
    <3>2. Len(Line[token + 1].chars) \in Nat
      BY <1>4, <3>1, CharsOfToken
    <3> QED BY <3>2
  <2>3. call' = call /\ RowCount(doc)' = RowCount(doc)
    BY <1>1 DEF vars
  <2> QED BY <1>1, <1>2, <1>3, <1>7, <2>1, <2>2, <2>3 DEF Where
<1>9. ASSUME NEW r, NEW t, NEW i, Inky(r, t, i) PROVE Passed(r, t, i)' = Passed(r, t, i)
  <2>1. r \in Nat /\ t \in 1..Len(LineTokens(doc, r)) /\ i \in 1..Len(LineTokens(doc, r)[t].chars)
        /\ Len(LineTokens(doc, r)[t].chars) \in Nat
    BY <1>1, <1>2, <1>9, Places, CharsOfToken DEF Inky
  <2>2. t \in Nat /\ i \in Nat /\ i >= 1
    BY <1>1, <1>2, <1>9, <2>1, Places DEF Inky
  <2>3. r = row /\ t = token => i < at
    <3> SUFFICES ASSUME r = row, t = token PROVE i < at
      OBVIOUS
    <3>1. i <= Len(Line[token].chars)
      BY <2>1 DEF Line
    <3> QED BY <1>4, <1>5, <2>2, <3>1
  <2>4. Passed(r, t, i)' = (r < row \/ (r = row /\ (t < token + 1 \/ (t = token + 1 /\ i < 1))))
    BY <1>1 DEF Passed
  <2> QED BY <1>4, <2>1, <2>2, <2>3, <2>4 DEF Passed
<1> QED BY <1>1, <1>8, <1>9, LoopHolds

LEMMA NextRowHolds == DrawInv /\ NextRow => DrawInv'
<1> SUFFICES ASSUME DrawInv, NextRow PROVE DrawInv'
  OBVIOUS
<1>1. /\ stage = "drawing" /\ row < Upto /\ token > Len(Line)
      /\ row' = row + 1 /\ token' = 1 /\ at' = 1 /\ column' = 0
      /\ UNCHANGED <<vars, glyphs, stage, ink>>
  BY DEF NextRow
<1>2. Held /\ Where
  BY DEF DrawInv
<1>3. /\ row \in Nat /\ Line \in Seq(Token) /\ token \in Nat /\ token <= Len(Line) + 1
      /\ From \in Nat /\ Upto \in Int /\ From <= row
  BY <1>1, <1>2, Positions, PageLines DEF Where
<1>4. UNCHANGED <<doc, call>>
  BY <1>1 DEF vars
<1>5. From' = From /\ Upto' = Upto /\ Line' = LineTokens(doc, row + 1) /\ Unsliceable' = Unsliceable
  BY <1>1, <1>4, SamePage DEF Line, LineTokens
<1>6. Where'
  <2> DEFINE line == LineTokens(doc, row + 1)
  <2>1. line \in Seq(Token) /\ Len(line) \in Nat
    BY <1>1, <1>2, <1>3, PageLines
  <2> HIDE DEF line
  <2>2. Before(line, 1) = 0
    BY <2>1, CharsOfLine
  <2>3. 1 <= Len(line) => 1 <= Len(line[1].chars) + 1
    <3> SUFFICES ASSUME 1 <= Len(line) PROVE 1 <= Len(line[1].chars) + 1
      OBVIOUS
    <3>1. 1 \in 1..Len(line)
      BY <2>1
    <3>2. Len(line[1].chars) \in Nat
      BY <2>1, <3>1, CharsOfToken
    <3> QED BY <3>2
  <2>4. 1 \in 1..(Len(line) + 1) /\ 0 = Before(line, 1) + 1 - 1
    BY <2>1, <2>2
  <2>5. call' = call /\ RowCount(doc)' = RowCount(doc) /\ Line' = line
    BY <1>4, <1>5 DEF line
  <2> QED BY <1>1, <1>2, <1>3, <1>5, <2>3, <2>4, <2>5 DEF Where
<1>7. ASSUME NEW r, NEW t, NEW i, Inky(r, t, i) PROVE Passed(r, t, i)' = Passed(r, t, i)
  <2>1. r \in Nat /\ t \in 1..Len(LineTokens(doc, r)) /\ i \in 1..Len(LineTokens(doc, r)[t].chars)
        /\ LineTokens(doc, r) \in Seq(Token)
    BY <1>1, <1>2, <1>7, Places DEF Inky
  <2>2. t \in Nat /\ t >= 1 /\ Len(LineTokens(doc, r)[t].chars) \in Nat
    BY <2>1, CharsOfToken
  <2>3. i \in Nat /\ i >= 1
    BY <2>1, <2>2
  <2>4. r = row => t < token
    BY <1>1, <1>3, <2>1, <2>2 DEF Line
  <2>5. Passed(r, t, i)' = (r < row + 1 \/ (r = row + 1 /\ (t < 1 \/ (t = 1 /\ i < 1))))
    BY <1>1 DEF Passed
  <2> QED BY <1>3, <2>1, <2>2, <2>3, <2>4, <2>5 DEF Passed
<1> QED BY <1>1, <1>6, <1>7, LoopHolds
-----------------------------------------------------------------------------
\* The character the loops are at.
LEMMA AtPlace ==
    ASSUME DrawInv, AtAChar
    PROVE  /\ Place(row, token, at) /\ Char = CharAt(row, token, at) /\ Char \in DOMAIN Raster
           /\ row \in Nat /\ token \in Nat /\ at \in Nat
           /\ ~Passed(row, token, at)
           /\ MarkOf(row, token, at) = [row |-> row - From, column |-> column,
                                        kind |-> Line[token].kind, glyph |-> Raster[Char]]
<1>1. stage = "drawing" /\ row < Upto /\ token <= Len(Line) /\ at <= Len(Line[token].chars)
  BY DEF AtAChar
<1>2. /\ row \in Nat /\ Line \in Seq(Token) /\ token \in Nat /\ at \in Nat /\ at >= 1
      /\ token >= 1 /\ Line[token].chars \in Seq(DOMAIN Raster) /\ Len(Line[token].chars) \in Nat
  BY <1>1, Positions
<1>3. Held /\ From <= row /\ column = Before(Line, token) + at - 1
  BY <1>1 DEF DrawInv, Where
<1>4. row \in PageRows
  BY <1>1, <1>2, <1>3, PageLines
<1>5. token \in DOMAIN Line /\ at \in DOMAIN Line[token].chars
  BY <1>1, <1>2
<1>6. Place(row, token, at)
  BY <1>4, <1>5 DEF Place, Line
<1>7. Char = CharAt(row, token, at) /\ Char \in DOMAIN Raster
  <2>1. Char = Line[token].chars[at]
    BY DEF Char
  <2>2. Line[token].chars[at] \in DOMAIN Raster
    BY <1>2, <1>5
  <2> QED BY <2>1, <2>2 DEF CharAt, Line
<1>8. ~Passed(row, token, at)
  BY <1>2 DEF Passed
<1>9. MarkOf(row, token, at) = [row |-> row - From, column |-> column,
                                kind |-> Line[token].kind, glyph |-> Raster[Char]]
  BY <1>3, <1>7 DEF MarkOf, Line
<1> QED BY <1>2, <1>6, <1>7, <1>8, <1>9

\* One character further, that one is passed and no other.
LEMMA AdvancePasses ==
    ASSUME DrawInv, AtAChar, Advance
    PROVE  /\ Where'
           /\ \A r, t, i : Inky(r, t, i) =>
                  (Passed(r, t, i)' <=> Passed(r, t, i) \/ (r = row /\ t = token /\ i = at))
<1>1. /\ stage = "drawing" /\ row < Upto /\ token <= Len(Line) /\ at <= Len(Line[token].chars)
      /\ at' = at + 1 /\ column' = column + 1 /\ UNCHANGED <<vars, stage, row, token>>
  BY DEF AtAChar, Advance
<1>2. Held /\ Where
  BY DEF DrawInv
<1>3. /\ row \in Nat /\ Line \in Seq(Token) /\ token \in Nat /\ at \in Nat /\ at >= 1
      /\ token >= 1 /\ Len(Line[token].chars) \in Nat
  BY <1>1, Positions
<1>4. /\ From' = From /\ Line' = Line /\ Unsliceable' = Unsliceable
      /\ call' = call /\ RowCount(doc)' = RowCount(doc)
  <2>1. UNCHANGED <<doc, call>>
    BY <1>1 DEF vars
  <2> QED BY <1>1, <2>1, SamePage DEF Line
<1>5. Where'
  <2>1. Before(Line, token) \in Nat
    <3>1. token \in 1..Len(Line)
      BY <1>1, <1>3
    <3> QED BY <1>3, <3>1, CharsOfToken
  <2>2. column' = Before(Line, token) + at' - 1 /\ at' \in Nat \ {0} /\ at' <= Len(Line[token].chars) + 1
    BY <1>1, <1>2, <1>3, <2>1 DEF Where
  <2> QED BY <1>1, <1>2, <1>4, <2>2 DEF Where
<1>6. ASSUME NEW r, NEW t, NEW i, Inky(r, t, i)
      PROVE  Passed(r, t, i)' <=> Passed(r, t, i) \/ (r = row /\ t = token /\ i = at)
  <2>1. r \in Nat /\ t \in 1..Len(LineTokens(doc, r)) /\ i \in 1..Len(LineTokens(doc, r)[t].chars)
        /\ LineTokens(doc, r) \in Seq(Token)
    BY <1>1, <1>2, <1>6, Places DEF Inky
  <2>2. t \in Nat /\ Len(LineTokens(doc, r)[t].chars) \in Nat
    BY <2>1, CharsOfToken
  <2>3. i \in Nat
    BY <2>1, <2>2
  <2>4. Passed(r, t, i)' = (r < row \/ (r = row /\ (t < token \/ (t = token /\ i < at + 1))))
    BY <1>1 DEF Passed
  <2> QED BY <1>3, <2>1, <2>2, <2>3, <2>4 DEF Passed
<1> QED BY <1>5, <1>6

LEMMA SkipHolds == DrawInv /\ Skip => DrawInv'
<1> SUFFICES ASSUME DrawInv, Skip PROVE DrawInv'
  OBVIOUS
<1>1. AtAChar /\ Advance /\ Char \in White /\ UNCHANGED <<glyphs, ink>> /\ stage = "drawing"
      /\ UNCHANGED <<vars, stage>>
  BY DEF Skip, AtAChar, Advance
<1>2. ~Inky(row, token, at)
  BY <1>1, AtPlace DEF Inky
<1>3. ASSUME NEW r, NEW t, NEW i, Inky(r, t, i) PROVE Passed(r, t, i)' = Passed(r, t, i)
  <2>1. Passed(r, t, i)' <=> Passed(r, t, i) \/ (r = row /\ t = token /\ i = at)
    BY <1>1, <1>3, AdvancePasses
  <2>2. ~(r = row /\ t = token /\ i = at)
    BY <1>2, <1>3
  <2>3. Passed(r, t, i) \in BOOLEAN /\ Passed(r, t, i)' \in BOOLEAN
    BY DEF Passed
  <2> QED BY <2>1, <2>2, <2>3
<1> QED BY <1>1, <1>3, AdvancePasses, LoopHolds

LEMMA DrawHolds == DrawInv /\ Draw => DrawInv'
<1> SUFFICES ASSUME DrawInv, Draw PROVE DrawInv'
  OBVIOUS
<1>1. /\ AtAChar /\ Advance /\ Char \notin White /\ Rasterizable /\ stage = "drawing"
      /\ glyphs' = WithGlyph /\ UNCHANGED <<vars, stage>>
      /\ ink' = ink \cup {[row |-> row - From, column |-> column, kind |-> Line[token].kind,
                           glyph |-> WithGlyph[Char]]}
  BY DEF Draw, AtAChar, Advance
<1>2. Held /\ MarksSoFar /\ NoneFatal
  BY <1>1 DEF DrawInv, What
<1>3. /\ Place(row, token, at) /\ Char = CharAt(row, token, at) /\ Char \in DOMAIN Raster
      /\ MarkOf(row, token, at) = [row |-> row - From, column |-> column,
                                   kind |-> Line[token].kind, glyph |-> Raster[Char]]
  BY <1>1, AtPlace
<1>4. Char \notin Fatal
  BY <1>1, <1>2 DEF Rasterizable, Held
<1>5. /\ DOMAIN WithGlyph = DOMAIN glyphs \cup {Char}
      /\ \A c \in DOMAIN WithGlyph : WithGlyph[c] = Raster[c]
  BY <1>2 DEF WithGlyph, Held
<1>6. Held'
  <2>1. DOMAIN glyphs' \subseteq DOMAIN Raster \ Fatal /\ \A c \in DOMAIN glyphs' : glyphs'[c] = Raster[c]
    BY <1>1, <1>2, <1>3, <1>4, <1>5 DEF Held
  <2> QED BY <1>1, <1>2, <2>1 DEF Held, vars
<1>7. ink' = ink \cup {MarkOf(row, token, at)}
  BY <1>1, <1>3, <1>5
<1>8. Inky(row, token, at)
  BY <1>1, <1>3 DEF Inky
<1>9. /\ \A r, t, i : /\ Inky(r, t, i)' = Inky(r, t, i)
                      /\ CharAt(r, t, i)' = CharAt(r, t, i)
                      /\ MarkOf(r, t, i)' = MarkOf(r, t, i)
  BY <1>1, SamePage DEF vars
<1>10. \A r, t, i : Inky(r, t, i) =>
           (Passed(r, t, i)' <=> Passed(r, t, i) \/ (r = row /\ t = token /\ i = at))
  BY <1>1, AdvancePasses
<1>11. MarksSoFar'
  <2>1. ASSUME NEW m \in ink'
        PROVE  \E r, t, i : Inky(r, t, i)' /\ Passed(r, t, i)' /\ m = MarkOf(r, t, i)'
    <3>1. CASE m \in ink
      <4>1. PICK r, t, i : Inky(r, t, i) /\ Passed(r, t, i) /\ m = MarkOf(r, t, i)
        BY <1>2, <3>1 DEF MarksSoFar
      <4> QED BY <1>9, <1>10, <4>1
    <3>2. CASE m = MarkOf(row, token, at)
      BY <1>8, <1>9, <1>10, <3>2
    <3> QED BY <1>7, <2>1, <3>1, <3>2
  <2>2. ASSUME NEW r, NEW t, NEW i, Inky(r, t, i)', Passed(r, t, i)'
        PROVE  MarkOf(r, t, i)' \in ink'
    <3>1. Inky(r, t, i) /\ MarkOf(r, t, i)' = MarkOf(r, t, i)
      BY <1>9, <2>2
    <3>2. Passed(r, t, i) \/ (r = row /\ t = token /\ i = at)
      BY <1>10, <2>2, <3>1
    <3>3. CASE Passed(r, t, i)
      BY <1>2, <1>7, <3>1, <3>3 DEF MarksSoFar
    <3>4. CASE r = row /\ t = token /\ i = at
      BY <1>7, <3>1, <3>4
    <3> QED BY <3>2, <3>3, <3>4
  <2> QED BY <2>1, <2>2 DEF MarksSoFar
<1>12. NoneFatal'
  BY <1>2, <1>3, <1>4, <1>9, <1>10 DEF NoneFatal
<1>13. Where'
  BY <1>1, AdvancePasses
<1> QED BY <1>6, <1>11, <1>12, <1>13 DEF DrawInv, What

LEMMA FontPanicsHolds == DrawInv /\ FontPanics => DrawInv'
BY ReplyHolds DEF FontPanics, Panic

LEMMA FinishHolds == DrawInv /\ Finish => DrawInv'
BY ReplyHolds DEF Finish

LEMMA RefuseHolds == DrawInv /\ Refuse => DrawInv'
BY ReplyHolds DEF Refuse

LEMMA CallHolds == DrawInv /\ Call => DrawInv'
<1> SUFFICES ASSUME DrawInv, Call PROVE DrawInv'
  OBVIOUS
<1>1. Ask /\ stage' = "asked" /\ UNCHANGED glyphs
  BY DEF Call
<1>2. call' \in [page : 0..MaxPage, pageRows : PageSizes] /\ doc' \in Documents
  BY <1>1 DEF Ask
<1>3. Held'
  BY <1>1, <1>2 DEF DrawInv, Held
<1> QED BY <1>1, <1>3, OutsideKeeps

\* The first character of a page: nothing is passed.
LEMMA MeasureHolds == DrawInv /\ Measure => DrawInv'
<1> SUFFICES ASSUME DrawInv, Measure PROVE DrawInv'
  OBVIOUS
<1>1. stage = "asked" /\ call.page < Pages(RowCount(doc), call.pageRows) /\ UNCHANGED glyphs
  BY DEF Measure
<1>2. CASE Unsliceable
  BY <1>1, <1>2, ReplyHolds DEF Measure, Panic
<1>3. CASE ~Unsliceable
  <2>1. /\ stage' = "drawing" /\ row' = From /\ token' = 1 /\ at' = 1 /\ column' = 0
        /\ ink' = {} /\ UNCHANGED vars
    BY <1>3 DEF Measure
  <2>2. Held /\ Held'
    BY <1>1, <2>1 DEF DrawInv, Held, vars
  <2>3. UNCHANGED <<doc, call>>
    BY <2>1 DEF vars
  <2> DEFINE line == LineTokens(doc, From)
  <2>4. From \in Nat /\ line \in Seq(Token) /\ Len(line) \in Nat
    BY <1>1, <2>2, PageLines
  <2>5. From' = From /\ Line' = line /\ ~Unsliceable'
    BY <1>3, <2>1, <2>3, SamePage DEF Line, LineTokens
  <2>6. Where'
    <3> HIDE DEF line
    <3>1. Before(line, 1) = 0
      BY <2>4, CharsOfLine
    <3>2. 1 <= Len(line) => 1 <= Len(line[1].chars) + 1
      <4> SUFFICES ASSUME 1 <= Len(line) PROVE 1 <= Len(line[1].chars) + 1
        OBVIOUS
      <4>1. 1 \in 1..Len(line)
        BY <2>4
      <4>2. Len(line[1].chars) \in Nat
        BY <2>4, <4>1, CharsOfToken
      <4> QED BY <4>2
    <3>3. 1 \in 1..(Len(line) + 1) /\ 0 = Before(line, 1) + 1 - 1
      BY <2>4, <3>1
    <3>4. call' = call /\ RowCount(doc)' = RowCount(doc)
      BY <2>3
    <3> QED BY <1>1, <2>1, <2>4, <2>5, <3>2, <3>3, <3>4 DEF Where
  <2>7. ASSUME NEW r, NEW t, NEW i, Inky(r, t, i)' PROVE ~Passed(r, t, i)'
    <3>1. Inky(r, t, i)
      BY <2>3, <2>7, SamePage
    <3>2. /\ r \in Nat /\ From <= r /\ LineTokens(doc, r) \in Seq(Token)
          /\ t \in 1..Len(LineTokens(doc, r)) /\ i \in 1..Len(LineTokens(doc, r)[t].chars)
      BY <1>1, <2>2, <3>1, Places DEF Inky
    <3>3. t \in Nat /\ t >= 1 /\ Len(LineTokens(doc, r)[t].chars) \in Nat
      BY <3>2, CharsOfToken
    <3>4. i \in Nat /\ i >= 1
      BY <3>2, <3>3
    <3>5. Passed(r, t, i)' = (r < From \/ (r = From /\ (t < 1 \/ (t = 1 /\ i < 1))))
      BY <2>1 DEF Passed
    <3>6. ~(r < From \/ (r = From /\ (t < 1 \/ (t = 1 /\ i < 1))))
      <4> HIDE DEF line
      <4>1. ~(r < From) /\ ~(t < 1) /\ ~(i < 1)
        BY <2>4, <3>2, <3>3, <3>4
      <4> QED BY <4>1
    <3> QED BY <3>5, <3>6
  <2>8. MarksSoFar' /\ NoneFatal'
    BY <2>1, <2>7 DEF MarksSoFar, NoneFatal
  <2> QED BY <2>2, <2>6, <2>8 DEF DrawInv, What
<1> QED BY <1>2, <1>3

LEMMA DrawInitial == DrawInit => DrawInv
<1> SUFFICES ASSUME DrawInit PROVE DrawInv
  OBVIOUS
<1>1. stage = "idle" /\ call = NoCall /\ doc \in Documents /\ glyphs = [ch \in Preloaded |-> Raster[ch]]
  BY DEF DrawInit, Init
<1>2. Held
  BY <1>1, DrawingAssumption DEF Held
<1> QED BY <1>1, <1>2 DEF DrawInv, Where, What

LEMMA DrawInductive == DrawInv /\ [DrawNext]_drawVars => DrawInv'
<1> SUFFICES ASSUME DrawInv, [DrawNext]_drawVars PROVE DrawInv'
  OBVIOUS
<1>1. CASE UNCHANGED drawVars
  <2>1. UNCHANGED <<vars, glyphs, stage, row, token, at, column, ink>> /\ UNCHANGED <<doc, call>>
    BY <1>1 DEF drawVars, loop, vars
  <2>2. Held'
    BY <2>1 DEF DrawInv, Held
  <2>3. CASE stage # "drawing"
    BY <2>1, <2>2, <2>3, OutsideKeeps
  <2>4. CASE stage = "drawing"
    <3>1. Line' = Line /\ From' = From /\ Unsliceable' = Unsliceable
      BY <2>1, SamePage DEF Line
    <3>2. Where'
      BY <2>1, <2>4, <3>1 DEF DrawInv, Where
    <3>3. ASSUME NEW r, NEW t, NEW i PROVE Passed(r, t, i)' = Passed(r, t, i)
      BY <2>1 DEF Passed
    <3> QED BY <2>1, <2>4, <3>2, <3>3, LoopHolds
  <2> QED BY <2>3, <2>4
<1> QED
  BY <1>1, CallHolds, RefuseHolds, MeasureHolds, NextTokenHolds, NextRowHolds, SkipHolds,
     DrawHolds, FontPanicsHolds, FinishHolds DEF DrawNext

\* Between calls and in them: the cache holds only what the font drew, the
\* column is that of the character the loops are at, and the canvas has a mark
\* for every character passed.
THEOREM DrawInvariance == DrawSpec => []DrawInv
<1>1. DrawInit => DrawInv
  BY DrawInitial
<1>2. DrawInv /\ [DrawNext]_drawVars => DrawInv'
  BY DrawInductive
<1> QED BY <1>1, <1>2, PTL DEF DrawSpec

\* page_columns counts at least what render_page goes on to draw: no mark is
\* past the columns or the rows its image is made for.
THEOREM InkStaysOnThePage == DrawSpec => []InkWithinThePage
<1>1. DrawInv => InkWithinThePage
  BY InkFits
<1> QED BY <1>1, DrawInvariance, PTL
-----------------------------------------------------------------------------
\* The loops draw what Picture promises.
LEMMA MarksOfThePage ==
    ASSUME NEW m
    PROVE  m \in Marks(doc, PageRows, From) <=> \E r, t, i : Inky(r, t, i) /\ m = MarkOf(r, t, i)
<1>1. ASSUME NEW r, NEW t
      PROVE  TokenMarks(LineTokens(doc, r), t, r - From)
                 = {MarkOf(r, t, i) : i \in {j \in DOMAIN LineTokens(doc, r)[t].chars : CharAt(r, t, j) \notin White}}
  BY DEF TokenMarks, MarkOf, CharAt, Before
<1>2. m \in Marks(doc, PageRows, From) <=>
          \E r \in PageRows : \E t \in DOMAIN LineTokens(doc, r) :
              m \in TokenMarks(LineTokens(doc, r), t, r - From)
  BY DEF Marks
<1>3. ASSUME NEW r \in PageRows, NEW t \in DOMAIN LineTokens(doc, r)
      PROVE  m \in TokenMarks(LineTokens(doc, r), t, r - From) <=>
                 \E i : Inky(r, t, i) /\ m = MarkOf(r, t, i)
  BY <1>1, <1>3 DEF Inky, Place
<1>4. \A r, t, i : Inky(r, t, i) => r \in PageRows /\ t \in DOMAIN LineTokens(doc, r)
  BY DEF Inky, Place
<1> HIDE DEF Inky, MarkOf
<1> QED BY <1>2, <1>3, <1>4

\* Past the last row, all of the page is drawn and none of it was impossible.
LEMMA PageDrawn ==
    ASSUME DrawInv, stage = "drawing", row >= Upto
    PROVE  ink = Marks(doc, PageRows, From) /\ ~Impossible(doc, PageRows)
<1>1. Held /\ Where /\ MarksSoFar /\ NoneFatal /\ ~Unsliceable /\ row \in Nat
  BY DEF DrawInv, What, Where
<1>2. ASSUME NEW r, NEW t, NEW i, Inky(r, t, i) PROVE Passed(r, t, i)
  <2>1. r \in Nat /\ r < Upto /\ Upto \in Int
    BY <1>1, <1>2, Places, PageLines DEF Inky
  <2> QED BY <1>1, <2>1 DEF Passed
<1>3. \A m : m \in ink <=> m \in Marks(doc, PageRows, From)
  BY <1>1, <1>2, MarksOfThePage DEF MarksSoFar
<1>4. ASSUME NEW r \in PageRows, NEW t \in DOMAIN LineTokens(doc, r),
             NEW i \in DOMAIN LineTokens(doc, r)[t].chars,
             LineTokens(doc, r)[t].chars[i] \in Fatal \ White
      PROVE  FALSE
  <2>1. Inky(r, t, i) /\ CharAt(r, t, i) \in Fatal
    BY <1>4 DEF Inky, Place, CharAt
  <2> QED BY <1>1, <1>2, <2>1 DEF NoneFatal
<1>5. ~Impossible(doc, PageRows)
  BY <1>1, <1>4 DEF Impossible, Unsliceable
<1> QED BY <1>3, <1>5

\* How many pages there are.
LEMMA PagesCounted ==
    ASSUME Held, stage # "idle"
    PROVE  call.page \in Nat /\ Pages(RowCount(doc), call.pageRows) \in Int
<1>1. call.page \in 0..MaxPage /\ call.pageRows \in PageSizes /\ MaxPage \in Nat /\ U32 \in Nat
  BY PictureAssumption, U32Assumption DEF Held
<1>2. call.pageRows \in 1..(U32 - 1)
  BY <1>1, PictureAssumption
<1>3. RowCount(doc) \in Nat /\ RowCount(doc) > 0
  <2>1. doc \in Seq(Seq(Token))
    BY PictureAssumption DEF Held
  <2>2. Len(doc) \in Nat
    BY <2>1
  <2> QED BY <2>2 DEF RowCount, Greater
<1>4. call.page \in Nat /\ call.pageRows \in Nat /\ call.pageRows > 0
  BY <1>1, <1>2
<1>5. Pages(RowCount(doc), call.pageRows) \in Nat
  BY <1>3, <1>4, PagesBounds
<1> QED BY <1>4, <1>5

\* What ends a call is what Picture answers.
LEMMA Answers ==
    ASSUME Held, stage # "idle", Reply(Outcome(doc, call))
    PROVE  Answer
<1>1. call # NoCall
  <2>1. call.page \in 0..MaxPage
    BY DEF Held
  <2>2. NoCall.page = -1
    BY DEF NoCall
  <2>3. MaxPage \in Nat
    BY PictureAssumption, U32Assumption
  <2>4. call.page # -1
    BY <2>1, <2>3
  <2> QED BY <2>2, <2>4
<1> QED BY <1>1 DEF Answer, Reply

LEMMA OutcomeOfThePage ==
    /\ call.page >= Pages(RowCount(doc), call.pageRows)
           => Outcome(doc, call) = [outcome |-> "PageOutOfRange"]
    /\ ~(call.page >= Pages(RowCount(doc), call.pageRows)) =>
           /\ Impossible(doc, PageRows) => Outcome(doc, call) = [outcome |-> "Internal"]
           /\ ~Impossible(doc, PageRows)
                  => Outcome(doc, call) = [outcome |-> "Rendered", marks |-> Marks(doc, PageRows, From)]
BY DEF Outcome, PageRows, From

\* One step of the loops is one of Picture, or none.
LEMMA DrawSimulates == DrawInv /\ [DrawNext]_drawVars => [Next]_vars
<1> SUFFICES ASSUME DrawInv, [DrawNext]_drawVars PROVE [Next]_vars
  OBVIOUS
<1>0. Held /\ Where
  BY DEF DrawInv
<1>p. stage = "drawing" => ~(call.page >= Pages(RowCount(doc), call.pageRows))
  <2> SUFFICES ASSUME stage = "drawing" PROVE ~(call.page >= Pages(RowCount(doc), call.pageRows))
    OBVIOUS
  <2>1. call.page < Pages(RowCount(doc), call.pageRows)
    BY <1>0 DEF Where
  <2>2. call.page \in Nat /\ Pages(RowCount(doc), call.pageRows) \in Int
    BY <1>0, PagesCounted
  <2> QED BY <2>1, <2>2
<1>1. CASE Call
  BY <1>1 DEF Call, Next
<1>2. CASE Refuse
  <2>1. stage = "asked" /\ Reply([outcome |-> "PageOutOfRange"]) /\ call.page >= Pages(RowCount(doc), call.pageRows)
    BY <1>2 DEF Refuse
  <2> QED BY <1>0, <2>1, Answers, OutcomeOfThePage DEF Next
<1>3. CASE Measure
  <2>1. stage = "asked" /\ call.page < Pages(RowCount(doc), call.pageRows)
    BY <1>3 DEF Measure
  <2>2. CASE Unsliceable
    <3>1. Reply([outcome |-> "Internal"])
      BY <1>3, <2>2 DEF Measure, Panic
    <3>2. Impossible(doc, PageRows)
      BY <2>2 DEF Impossible, Unsliceable
    <3>3. ~(call.page >= Pages(RowCount(doc), call.pageRows))
      <4>1. call.page \in Nat /\ Pages(RowCount(doc), call.pageRows) \in Int
        BY <1>0, <2>1, PagesCounted
      <4> QED BY <2>1, <4>1
    <3> QED BY <1>0, <2>1, <3>1, <3>2, <3>3, Answers, OutcomeOfThePage DEF Next
  <2>3. CASE ~Unsliceable
    BY <1>3, <2>3 DEF Measure
  <2> QED BY <2>2, <2>3
<1>4. CASE FontPanics
  <2>1. stage = "drawing" /\ AtAChar /\ Char \notin White /\ ~Rasterizable /\ Reply([outcome |-> "Internal"])
    BY <1>4 DEF FontPanics, Panic, AtAChar
  <2>2. Place(row, token, at) /\ Char = CharAt(row, token, at) /\ Char \in Fatal \ White
    BY <2>1, AtPlace DEF Rasterizable
  <2>3. Impossible(doc, PageRows)
    BY <2>2 DEF Impossible, Place, CharAt
  <2> QED BY <1>0, <1>p, <2>1, <2>3, Answers, OutcomeOfThePage DEF Next
<1>5. CASE Finish
  <2>1. stage = "drawing" /\ row >= Upto /\ Reply([outcome |-> "Rendered", marks |-> ink])
    BY <1>5 DEF Finish
  <2>2. ink = Marks(doc, PageRows, From) /\ ~Impossible(doc, PageRows)
    BY <2>1, PageDrawn
  <2> QED BY <1>0, <1>p, <2>1, <2>2, Answers, OutcomeOfThePage DEF Next
<1>6. CASE NextToken \/ NextRow \/ Skip \/ Draw
  BY <1>6 DEF NextToken, NextRow, Skip, Draw, Advance
<1>7. CASE UNCHANGED drawVars
  BY <1>7 DEF drawVars
<1> QED BY <1>1, <1>2, <1>3, <1>4, <1>5, <1>6, <1>7 DEF DrawNext

\* With the cache, and after any calls that failed, every page is drawn as if
\* it were the first: what the loops of render_page come to is what Picture
\* says of the page alone.
THEOREM DrawsAsIfFirst == DrawSpec => Init /\ [][Next]_vars
<1>1. DrawInit => Init
  BY DEF DrawInit
<1>2. DrawInv /\ [DrawNext]_drawVars => [Next]_vars
  BY DrawSimulates
<1> QED BY <1>1, <1>2, DrawInvariance, PTL DEF DrawSpec
=============================================================================
