------------------------------ MODULE MCCanvas ------------------------------
(***************************************************************************)
(* A small canvas with room for arcs.  Pixels are blended independently of *)
(* one another, so at most one takes ink, in every set of indices and in   *)
(* every order.                                                            *)
(***************************************************************************)
EXTENDS Canvas

\* Nothing, too little for a level, and coverages of the first and last level.
MCCoverages == {0, 1, 3, 9}
MCRadii == 0..5

MCTheme == [k \in 0..1 |-> IF k = 1 THEN "violet" ELSE "blue"]

OneMark == Cardinality({p \in Grid : marks[p] # {}}) <= 1
=============================================================================
