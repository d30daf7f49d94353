-------------------------------- MODULE Reader --------------------------------
(***************************************************************************)
(* The big-endian cursor (bk-jvm/src/reader.rs) over a sequence of bytes.  *)
(* A cursor is a position and whether every read so far fitted; the first  *)
(* that does not fit is where the caller's `?` returns.                    *)
(***************************************************************************)
EXTENDS Integers, Sequences

Byte == 0..255

\* How many values two bytes have, and four.
U16 == 256 * 256
U32 == U16 * U16
Unsigned16 == 0..(U16 - 1)

Cursor == [pos : Nat, ok : BOOLEAN]
StartOf == [pos |-> 0, ok |-> TRUE]
Failed(c) == [c EXCEPT !.ok = FALSE]

\* need
Need(data, c, width) == c.ok /\ Len(data) - c.pos >= width

\* The cursor after a read of this width.
After(data, c, width) ==
    IF Need(data, c, width) THEN [c EXCEPT !.pos = @ + width] ELSE Failed(c)

\* What u1 and u2 yield where they fit.
U1(data, c) == data[c.pos + 1]
U2(data, c) == 256 * data[c.pos + 1] + data[c.pos + 2]
===============================================================================
