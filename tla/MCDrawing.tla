----------------------------- MODULE MCDrawing -----------------------------
(***************************************************************************)
(* Two characters with a glyph of their own, one that no font can draw and *)
(* a space; lines of several tokens, an empty line, no line at all, and    *)
(* tokens that cannot be sliced or drawn, on any page.                     *)
(***************************************************************************)
EXTENDS Drawing

SomeRaster == [a |-> "A", b |-> "B", x |-> "X", sp |-> "none"]
T(kind, chars) == [kind |-> kind, chars |-> chars, sliceable |-> TRUE]
Broken == [kind |-> "k", chars |-> <<"a">>, sliceable |-> FALSE]

Long == <<T("k", <<"sp", "b">>), T("l", <<"a", "sp", "a">>), T("k", <<"b">>)>>
Short == <<T("l", <<"a", "b">>)>>
Odd == <<T("k", <<"b", "x">>), T("l", <<"a">>)>>

SomeDocuments ==
    {<<>>, <<Long, <<>>, Short>>, <<Short, Long>>, <<Short, Odd, Long>>, <<Odd, <<Broken>>, Short>>}
=============================================================================
