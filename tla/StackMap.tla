------------------------------ MODULE StackMap ------------------------------
(***************************************************************************)
(* The StackMapTable attribute (bk-jvm/src/stackmap.rs), frame by frame.   *)
(*                                                                         *)
(* Frames store deltas, and a frame of type 246 wraps another one that     *)
(* holds the delta.  Either rule got wrong "is silent: the frames still    *)
(* parse, they just point at the wrong instructions".                      *)
(***************************************************************************)
EXTENDS Reader

CONSTANT Attributes     \* the contents of an attribute, as bytes

ASSUME StackMapAssumption == Attributes \subseteq Seq(Byte)

VARIABLES
    data,       \* the attribute
    cursor,     \* its Reader
    left,       \* frames still to be read
    frame,      \* the frame being read
    lists,      \* its lists of types still to be read
    types,      \* types still to be read of the list at hand
    frames,     \* Vec<Frame>
    outcome     \* "start", "reading", "ok" or "malformed"

vars == <<data, cursor, left, frame, lists, types, frames, outcome>>
-----------------------------------------------------------------------------
EarlyLarval == 246
Reserved == 128..246

Kind(type) ==
    CASE type \in 0..63 \cup {251}   -> "same"
      [] type \in 64..127 \cup {247} -> "same_locals_1_stack_item"
      [] type \in 248..250           -> "chop"
      [] type \in 252..254           -> "append"
      [] type = 255                  -> "full"

\* Types that follow the header of a frame; a full frame has lists of them,
\* each behind its count.
TypesOf(type) ==
    IF type \in 64..127 \cup {247} THEN 1
    ELSE IF type \in 252..254 THEN type - 251 ELSE 0
ListsOf(type) == IF type = 255 THEN 2 ELSE 0

\* The delta is the frame type itself, or two bytes behind it.
ShortDelta(type) == type < 128
Delta(type, c) ==
    IF type < 64 THEN type ELSE IF type < 128 THEN type - 64 ELSE U2(data, c)

NoFrame == [delta |-> 0, kind |-> "none", unset |-> 0]

\* Mutant: no frame adds one.
OffsetOfBare(delta) ==
    IF frames = <<>> THEN delta ELSE frames[Len(frames)].offset + delta

\* The first frame's offset is its delta, a later one's is previous + delta + 1.
OffsetOf(delta) ==
    IF frames = <<>> THEN delta ELSE frames[Len(frames)].offset + delta + 1
-----------------------------------------------------------------------------
Init ==
    /\ data \in Attributes
    /\ cursor = StartOf
    /\ left = 0
    /\ frame = NoFrame
    /\ lists = 0
    /\ types = 0
    /\ frames = <<>>
    /\ outcome = "start"

Refuse ==
    /\ outcome' = "malformed"
    /\ UNCHANGED <<data, cursor, left, frame, lists, types, frames>>

ReadCount ==
    /\ outcome = "start"
    /\ IF ~Need(data, cursor, 2) THEN Refuse
       ELSE /\ left' = U2(data, cursor)
            /\ cursor' = After(data, cursor, 2)
            /\ outcome' = "reading"
            /\ UNCHANGED <<data, frame, lists, types, frames>>

\* parse_base_frame up to its types: c is behind the frame type.
BaseFrame(type, c, unset) ==
    LET width == IF ShortDelta(type) THEN 0 ELSE 2
    IN  IF type \in Reserved \/ ~Need(data, c, width) THEN Refuse
        ELSE /\ frame' = [delta |-> Delta(type, c), kind |-> Kind(type), unset |-> unset]
             /\ cursor' = After(data, c, width)
             /\ types' = TypesOf(type)
             /\ lists' = ListsOf(type)
             /\ UNCHANGED <<data, left, frames, outcome>>

\* Mutant: the wrapper is a leaf, and the frame inside it is the next frame.
WrappedFrameLeaf(c) ==
    IF ~Need(data, c, 2) THEN Refuse
    ELSE /\ frame' = [delta |-> 0, kind |-> "same", unset |-> U2(data, c)]
         /\ cursor' = After(data, After(data, c, 2), 2 * U2(data, c))
         /\ UNCHANGED <<data, left, types, lists, frames, outcome>>

\* The fields a wrapper names, then the frame it wraps, which is no wrapper.
WrappedFrame(c) ==
    LET base == After(data, After(data, c, 2), 2 * U2(data, c))
    IN  IF ~Need(data, c, 2) \/ ~Need(data, base, 1) THEN Refuse
        ELSE BaseFrame(U1(data, base), After(data, base, 1), U2(data, c))

\* parse_frame
ReadFrame ==
    /\ outcome = "reading"
    /\ frame = NoFrame
    /\ left > 0
    /\ IF ~Need(data, cursor, 1) THEN Refuse
       ELSE IF U1(data, cursor) = EarlyLarval
            THEN WrappedFrame(After(data, cursor, 1))
            ELSE BaseFrame(U1(data, cursor), After(data, cursor, 1), 0)

\* VerificationType::parse: a tag, and two bytes more behind two of the nine.
ReadType ==
    /\ outcome = "reading"
    /\ types > 0
    /\ LET tag == U1(data, cursor)
           width == IF tag \in {7, 8} THEN 3 ELSE 1
       IN  IF ~Need(data, cursor, 1) \/ tag > 8 \/ ~Need(data, cursor, width) THEN Refuse
           ELSE /\ cursor' = After(data, cursor, width)
                /\ types' = types - 1
                /\ UNCHANGED <<data, left, frame, lists, frames, outcome>>

\* parse_types: the count of a list.
ReadTypeCount ==
    /\ outcome = "reading"
    /\ types = 0
    /\ lists > 0
    /\ IF ~Need(data, cursor, 2) THEN Refuse
       ELSE /\ types' = U2(data, cursor)
            /\ cursor' = After(data, cursor, 2)
            /\ lists' = lists - 1
            /\ UNCHANGED <<data, left, frame, frames, outcome>>

\* The frame is whole: resolve its offset and keep it.
KeepFrame ==
    /\ outcome = "reading"
    /\ frame # NoFrame
    /\ types = 0
    /\ lists = 0
    /\ frames' = Append(frames, [offset |-> OffsetOf(frame.delta),
                                 kind |-> frame.kind, unset |-> frame.unset])
    /\ frame' = NoFrame
    /\ left' = left - 1
    /\ UNCHANGED <<data, cursor, lists, types, outcome>>

Finish ==
    /\ outcome = "reading"
    /\ left = 0
    /\ outcome' = "ok"
    /\ UNCHANGED <<data, cursor, left, frame, lists, types, frames>>

Next == ReadCount \/ ReadFrame \/ ReadType \/ ReadTypeCount \/ KeepFrame \/ Finish

Spec == Init /\ [][Next]_vars
-----------------------------------------------------------------------------
(***************************************************************************)
(* Properties.                                                             *)
(***************************************************************************)
Kinds == {"same", "same_locals_1_stack_item", "chop", "append", "full"}
Frame == [offset : Nat, kind : Kinds, unset : Unsigned16]
Header == [delta : Unsigned16, kind : Kinds \cup {"none"}, unset : Unsigned16]

\* Every variable keeps its type, and the cursor stays in the attribute.
TypeOK ==
    /\ data \in Seq(Byte)
    /\ cursor \in Cursor
    /\ cursor.ok
    /\ cursor.pos <= Len(data)
    /\ left \in Unsigned16
    /\ frame \in Header
    /\ lists \in 0..2
    /\ types \in Unsigned16
    /\ frames \in Seq(Frame)
    /\ outcome \in {"start", "reading", "ok", "malformed"}

\* Frames are about instructions further and further on, never twice about
\* the same one.
OffsetsAscend ==
    \A i \in 2..Len(frames) : frames[i - 1].offset < frames[i].offset

\* The u32 arithmetic on offsets never wraps: the frames, less than U16 of
\* them, move on by at most U16 each.
OffsetsNeverWrap ==
    /\ Len(frames) + left < U16
    /\ \A i \in 1..Len(frames) : frames[i].offset <= U16 * i - 1
=============================================================================
