----------------------------- MODULE MCClassFile -----------------------------
(***************************************************************************)
(* Small files: a pool of at most four slots counted modulo five, lists of  *)
(* at most two items.                                                      *)
(***************************************************************************)
EXTENDS ClassFile

Make(tag, widths) == [tag |-> tag, widths |-> widths]
SmallConstants ==
    {Make("Utf8", <<2, 1>>), Make("Long", <<4, 4>>), Make("other", <<2, 0>>),
     Make("unknown", <<0, 0>>)}
SmallSizes == {3, 7, 12, 18, 24, 30, 36, 44, 64}
SmallCounts == 0..2
SmallLengths == {0, 3}
=============================================================================
