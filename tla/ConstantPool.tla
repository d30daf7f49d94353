----------------------------- MODULE ConstantPool -----------------------------
(***************************************************************************)
(* The constant pool (bk-jvm/src/pool.rs), read from any bytes whatever:   *)
(* what the next bytes decode to is chosen at each read, and only how many *)
(* bytes are left decides whether the read fits (Reader::need).            *)
(*                                                                         *)
(* Every other part of a class file names constants by number, so all of   *)
(* the listing rests on entries being at the slots the format numbers.     *)
(***************************************************************************)
EXTENDS Integers, Sequences

CONSTANTS
    U16,        \* 2^16, made small: the pool counts its slots with a u16
    Sizes,      \* how many bytes there are to read
    Constants   \* what can be in a pool: see Constant

\* A constant: its tag ("Long" for Double as well) and the widths of the two
\* reads of its payload, the second none if there is but one.
Constant == [tag : {"Utf8", "Long", "other", "unknown"}, widths : Nat \X Nat]

ASSUME PoolAssumption ==
    /\ U16 \in Nat \ {0, 1}
    /\ Sizes \subseteq Nat
    /\ Constants \subseteq Constant

VARIABLES
    size,       \* Reader.data.len()
    pos,        \* Reader.pos
    count,      \* constant_pool_count
    index,      \* the u16 that numbers the next slot
    entries,    \* ConstantPool.entries: slot n is entries[n + 1]
    outcome     \* "start", "reading", "ok" or "malformed"

poolVars == <<size, pos, count, index, entries, outcome>>
-----------------------------------------------------------------------------
Unusable == [tag |-> "Unusable", widths |-> <<0, 0>>]
NoConstant == [tag |-> "None", widths |-> <<0, 0>>]

\* Reader::need.
Fits(at, width) == size - at >= width

\* Where the reads of a payload end, or -1 if one does not fit.
EndOf(at, widths) ==
    IF Fits(at, widths[1]) /\ Fits(at + widths[1], widths[2])
    THEN at + widths[1] + widths[2] ELSE -1

Wide(c) == c.tag = "Long"
-----------------------------------------------------------------------------
PoolInit ==
    /\ size \in Sizes
    /\ pos = 0
    /\ count = 0
    /\ index = 0
    /\ entries = <<>>
    /\ outcome = "start"

\* The error ends the parse; its reader is dropped.
Malformed == outcome' = "malformed"

\* The count, and slot zero: "filling it keeps indexing arithmetic honest".
ReadCount ==
    /\ outcome = "start"
    /\ \E n \in 0..(U16 - 1) :
           IF ~Fits(pos, 2) \/ n = 0
           THEN /\ Malformed
                /\ pos' = IF Fits(pos, 2) THEN pos + 2 ELSE pos
                /\ UNCHANGED <<count, index, entries>>
           ELSE /\ pos' = pos + 2
                /\ count' = n
                /\ index' = 1
                /\ entries' = <<Unusable>>
                /\ outcome' = "reading"
    /\ UNCHANGED size

\* Mutant: a wide constant takes one slot.
SlotsNoHole(c) == <<c>>

\* The slots a constant fills.
Slots(c) == IF Wide(c) THEN <<c, Unusable>> ELSE <<c>>

MoreToRead == index < count

\* One turn of the loop: the tag, the payload, and a second slot if wide.
\* Built for release, the u16 wraps.
ReadConstant ==
    /\ outcome = "reading"
    /\ MoreToRead
    /\ IF ~Fits(pos, 1)
       THEN Malformed /\ UNCHANGED <<pos, index, entries>>
       ELSE \E c \in Constants :
                IF c.tag = "unknown" \/ EndOf(pos + 1, c.widths) = -1
                THEN Malformed /\ pos' = pos + 1 /\ UNCHANGED <<index, entries>>
                ELSE /\ pos' = EndOf(pos + 1, c.widths)
                     /\ entries' = entries \o Slots(c)
                     /\ index' = (index + IF Wide(c) THEN 2 ELSE 1) % U16
                     /\ UNCHANGED outcome
    /\ UNCHANGED <<size, count>>

FinishPool ==
    /\ outcome = "reading"
    /\ ~MoreToRead
    /\ outcome' = "ok"
    /\ UNCHANGED <<size, pos, count, index, entries>>

PoolNext == ReadCount \/ ReadConstant \/ FinishPool
-----------------------------------------------------------------------------
\* ConstantPool::get; slot zero and holes are there to be found.
Get(n) == IF n < Len(entries) THEN entries[n + 1] ELSE NoConstant

\* ConstantPool::iter: the number is cast to u16.
Iter ==
    {[index |-> (i - 1) % U16, constant |-> entries[i]] :
         i \in {j \in 2..Len(entries) : entries[j] # Unusable}}
-----------------------------------------------------------------------------
(***************************************************************************)
(* Properties.                                                             *)
(***************************************************************************)
\* "One-based, with a hole after every Long and Double": a slot is a hole
\* exactly if it is slot zero or follows a wide constant; the loop numbers a
\* slot as the slot it is about to push, so that a pool that was accepted
\* has the slots it declared (a wide constant in the last one adds a hole
\* beyond them); and the number an entry is listed under finds it.  Only a
\* pool of every number a u16 has can make the number wrap.
SlotsAreNumbered ==
    count < U16 - 1 =>
        /\ \A i \in 1..Len(entries) :
               entries[i] = Unusable <=> i = 1 \/ Wide(entries[i - 1])
        /\ outcome = "reading" => index = Len(entries)
        /\ outcome = "ok" =>
               /\ \/ Len(entries) = count
                  \/ Len(entries) = count + 1 /\ Wide(entries[count])
               /\ \A e \in Iter : Get(e.index) = e.constant
=============================================================================
