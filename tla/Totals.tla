------------------------------- MODULE Totals -------------------------------
(***************************************************************************)
(* The sum of a sequence of numbers, as a recursive function.              *)
(***************************************************************************)
EXTENDS Integers, Sequences

\* The sums of the first n, for every n.
Running(s) ==
    LET upto[n \in 0..Len(s)] == IF n = 0 THEN 0 ELSE upto[n - 1] + s[n]
    IN  upto

SumOf(s) == Running(s)[Len(s)]
=============================================================================
