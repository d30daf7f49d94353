----------------------------- MODULE Pagination -----------------------------
(***************************************************************************)
(* How a document of rows lines is cut into pages of pageRows lines        *)
(* (Renderer::pages and the head of render_page, bk-render/src/lib.rs).    *)
(* The release build wraps on overflow, so u32 arithmetic is modulo U32.   *)
(***************************************************************************)
EXTENDS Integers

CONSTANT U32     \* the number of u32 values

ASSUME U32Assumption == U32 \in Nat /\ U32 > 1

Wrap(n) == n % U32

Greater(a, b) == IF a >= b THEN a ELSE b
Lesser(a, b) == IF a <= b THEN a ELSE b

DivCeil(a, b) == (a + b - 1) \div b

\* Renderer::pages: both arguments are raised to one.
Pages(rows, pageRows) == DivCeil(Greater(rows, 1), Greater(pageRows, 1))

\* The rows of a page, counted from zero, are FirstRow up to LastRow - 1.
FirstRow(page, pageRows) == Wrap(page * pageRows)

\* Mutant: the last row of a page is also the first of the next.
LastRowInclusive(page, pageRows, rows) ==
    Lesser(Wrap(FirstRow(page, pageRows) + pageRows + 1), rows)

LastRow(page, pageRows, rows) ==
    Lesser(Wrap(FirstRow(page, pageRows) + pageRows), rows)

RowsOfPage(page, pageRows, rows) ==
    FirstRow(page, pageRows)..(LastRow(page, pageRows, rows) - 1)
=============================================================================
