------------------------------ MODULE MCRender ------------------------------
(***************************************************************************)
(* Small instances of Render: u32 has 64 values.                           *)
(***************************************************************************)
EXTENDS Render

MCLineWidths == {0, 3, 7}
SmallMargins == {0, 2}
MCPageSizes == {1, 3, 32, 63}
MCCeilings == {20, 30, 63}

\* No computation of these instances wraps.
ASSUME SixtyFourSuffices == RowsAreU32 /\ SizesAreU32
=============================================================================
