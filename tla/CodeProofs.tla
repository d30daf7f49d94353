----------------------------- MODULE CodeProofs -----------------------------
(***************************************************************************)
(* Proofs about what is printed of a method: its instructions (Bytecode),  *)
(* its stack map (StackMap) and its tables (CodeAttribute).                *)
(***************************************************************************)
EXTENDS Assembly, CompiledCode, ArithmeticLemmas, SequenceTheorems

(***************************************************************************)
(* Instructions: for every array and every operand, what was printed tiles *)
(* the array, and nothing follows a remark.  Bytecode: for every set of    *)
(* instruction arrays, the walk of real bytes is one of those walks, so    *)
(* the same is true of it.                                                 *)
(***************************************************************************)
\* While the walk goes on, every line printed is an instruction.
NoRemarkYet ==
    stopped \in {"no", "end"} => \A i \in 1..Len(lines) : lines[i].shape \in Shapes

WalkInv == WalkTypeOK /\ InstructionsTile /\ CountIsWhatWasPrinted /\ NothingAfterARemark /\ NoRemarkYet

ListedLine == [at : 0..size, to : 0..size, shape : Shapes \cup Remarks]
-----------------------------------------------------------------------------
LEMMA ShapesAreNoRemarks == Shapes \cap Remarks = {}
BY DEF Shapes, FixedShapes, FixedLen, Remarks

LEMMA Padded == ASSUME NEW offset \in Nat
                PROVE  PadToU32(offset) \in Nat /\ PadToU32(offset) >= offset
BY DEF PadToU32

LEMMA FixedLenType == \A shape \in FixedShapes : FixedLen[shape] \in Nat
<1> SUFFICES ASSUME NEW shape \in FixedShapes PROVE FixedLen[shape] \in Nat
  OBVIOUS
<1>1. FixedLen = [None |-> 0, LocalU1 |-> 1, Cp1 |-> 1, ImmI1 |-> 1, ArrayType |-> 1,
                  ImmI2 |-> 2, Cp2 |-> 2, Branch2 |-> 2, LocalConst |-> 2,
                  MultiANewArray |-> 3, Branch4 |-> 4, InvokeInterface |-> 4,
                  InvokeDynamic |-> 4]
  BY DEF FixedLen
<1>2. \/ shape \in {"None", "LocalU1", "Cp1", "ImmI1", "ArrayType"}
      \/ shape \in {"ImmI2", "Cp2", "Branch2", "LocalConst"}
      \/ shape \in {"MultiANewArray", "Branch4", "InvokeInterface", "InvokeDynamic"}
  BY <1>1 DEF FixedShapes
<1>3. CASE shape \in {"None", "LocalU1", "Cp1", "ImmI1", "ArrayType"}
  BY <1>1, <1>3
<1>4. CASE shape \in {"ImmI2", "Cp2", "Branch2", "LocalConst"}
  BY <1>1, <1>4
<1>5. CASE shape \in {"MultiANewArray", "Branch4", "InvokeInterface", "InvokeDynamic"}
  BY <1>1, <1>5
<1> QED BY <1>2, <1>3, <1>4, <1>5

\* An instruction that is not truncated has a byte at least, and ends in the
\* array.
LEMMA EndsMoveOn ==
    ASSUME NEW s \in Nat, size = s, NEW p \in Nat, pc = p, pc < size,
           NEW shape \in Used, NEW end \in Ends(shape), end # Truncated
    PROVE  end \in Nat /\ pc < end /\ end <= size
<1> USE InstructionsAssumption
<1>1. CASE shape \in FixedShapes
  <2>1. FixedLen[shape] \in Nat
    BY <1>1, FixedLenType
  <2> shape \notin {"Wide", "TableSwitch", "LookupSwitch"}
    BY <1>1 DEF FixedShapes, FixedLen
  <2>2. end = Within(pc + 1 + FixedLen[shape])
    BY <1>1 DEF Ends
  <2>3. end = pc + 1 + FixedLen[shape] /\ end <= size
    BY <2>2 DEF Within
  <2> HIDE InstructionsAssumption
  <2> DEFINE taken == FixedLen[shape]
  <2> HIDE DEF taken
  <2>4. taken \in Nat /\ end = pc + 1 + taken
    BY <2>1, <2>3 DEF taken
  <2> QED BY <2>3, <2>4
<1>2. CASE shape = "Wide"
  <2>1. PICK iinc \in BOOLEAN : end = WideEnd(iinc)
    BY <1>2 DEF Ends, FixedShapes, FixedLen
  <2> QED BY <2>1 DEF WideEnd, Within
<1>3. CASE shape = "TableSwitch"
  <2>1. PICK low, high \in Bounds : end = TableEnd(low, high)
    BY <1>3 DEF Ends, FixedShapes, FixedLen
  <2>2. low \in Int /\ high \in Int /\ PadToU32(pc + 1) \in Nat /\ PadToU32(pc + 1) >= pc + 1
    BY Padded
  <2>3. high >= low /\ end = Within(PadToU32(pc + 1) + 12 + (high - low + 1) * 4)
    BY <2>1, <2>2 DEF TableEnd
  <2> QED BY <2>2, <2>3 DEF Within
<1>4. CASE shape = "LookupSwitch"
  <2>1. PICK pairs \in PairCounts : end = LookupEnd(pairs)
    BY <1>4 DEF Ends, FixedShapes, FixedLen
  <2>2. pairs \in Int /\ PadToU32(pc + 1) \in Nat /\ PadToU32(pc + 1) >= pc + 1
    BY Padded
  <2>3. pairs >= 0 /\ end = Within(PadToU32(pc + 1) + 8 + pairs * 8)
    BY <2>1, <2>2 DEF LookupEnd
  <2> QED BY <2>2, <2>3 DEF Within
<1> QED BY <1>1, <1>2, <1>3, <1>4 DEF Shapes

\* What a line appended does to the lines.
LEMMA Appended ==
    ASSUME WalkTypeOK, NEW line \in ListedLine, lines' = Append(lines, line), size' = size
    PROVE  /\ lines' \in Seq(ListedLine') /\ Len(lines') = Len(lines) + 1
           /\ Len(lines) \in Nat
           /\ lines'[Len(lines) + 1] = line
           /\ \A i \in 1..Len(lines) : lines'[i] = lines[i]
<1>1. lines \in Seq(ListedLine) /\ ListedLine' = ListedLine
  BY DEF WalkTypeOK, ListedLine
<1> QED BY <1>1, AppendProperties

LEMMA StopPreserves ==
    ASSUME WalkInv, stopped = "no", pc < size, NEW why \in Remarks, Stop(why)
    PROVE  WalkInv'
<1> DEFINE n == Len(lines)
           line == [at |-> pc, to |-> pc, shape |-> why]
<1>1. /\ lines' = Append(lines, line) /\ stopped' = why
      /\ size' = size /\ pc' = pc /\ count' = count
  BY DEF Stop
<1>2. size \in Nat /\ pc \in 0..size
  BY InstructionsAssumption DEF WalkInv, WalkTypeOK
<1>3. line \in ListedLine
  BY <1>2 DEF ListedLine
<1> HIDE DEF line
<1>4. /\ lines' \in Seq(ListedLine') /\ Len(lines') = n + 1 /\ n \in Nat
      /\ lines'[n + 1] = line /\ \A i \in 1..n : lines'[i] = lines[i]
  BY <1>1, <1>3, Appended DEF WalkInv
<1>5. line.at = pc /\ line.to = pc /\ line.shape = why /\ why \notin Shapes
  BY ShapesAreNoRemarks DEF line
<1>6. why \notin {"no", "end"}
  BY DEF Remarks
<1>7. WalkTypeOK'
  BY <1>1, <1>4 DEF WalkInv, WalkTypeOK, ListedLine
<1>8. InstructionsTile'
  BY <1>1, <1>2, <1>4, <1>5 DEF WalkInv, InstructionsTile
<1>9. CountIsWhatWasPrinted'
  <2>1. stopped \notin Remarks /\ stopped' \in Remarks
    BY <1>1 DEF Remarks
  <2>2. count = n /\ count <= pc
    BY <1>4, <2>1 DEF WalkInv, CountIsWhatWasPrinted
  <2> QED BY <1>1, <1>4, <2>1, <2>2 DEF CountIsWhatWasPrinted
<1>10. NothingAfterARemark'
  <2>1. stopped' # "end"
    BY <1>1, <1>6
  <2>2. \A i \in 1..n : lines'[i].shape \in Shapes
    BY <1>4 DEF WalkInv, NoRemarkYet
  <2>3. ASSUME NEW i \in 1..Len(lines'), lines'[i].shape \in Remarks
        PROVE  i = Len(lines') /\ stopped' = lines'[i].shape
    <3>1. i \notin 1..n
      BY <2>2, <2>3, ShapesAreNoRemarks
    <3>2. i = n + 1
      BY <1>4, <3>1
    <3> QED BY <1>1, <1>4, <1>5, <3>2
  <2> QED BY <2>1, <2>3 DEF NothingAfterARemark
<1>11. NoRemarkYet'
  BY <1>1, <1>6 DEF NoRemarkYet
<1> QED BY <1>7, <1>8, <1>9, <1>10, <1>11 DEF WalkInv

LEMMA InstructionPreserves ==
    ASSUME WalkInv, stopped = "no", pc < size, NEW shape \in Used, NEW end \in Ends(shape),
           end # Truncated, Instruction(shape, end)
    PROVE  WalkInv'
<1> DEFINE n == Len(lines)
           line == [at |-> pc, to |-> end, shape |-> shape]
<1>1. /\ lines' = Append(lines, line) /\ stopped' = stopped
      /\ size' = size /\ pc' = end /\ count' = count + 1
  BY DEF Instruction
<1>2. size \in Nat /\ pc \in 0..size /\ count \in Nat /\ shape \in Shapes
  BY InstructionsAssumption DEF WalkInv, WalkTypeOK
<1>3. end \in Nat /\ pc < end /\ end <= size
  BY <1>2, EndsMoveOn
<1>4. line \in ListedLine
  BY <1>2, <1>3 DEF ListedLine
<1> HIDE DEF line
<1>5. /\ lines' \in Seq(ListedLine') /\ Len(lines') = n + 1 /\ n \in Nat
      /\ lines'[n + 1] = line /\ \A i \in 1..n : lines'[i] = lines[i]
  BY <1>1, <1>4, Appended DEF WalkInv
<1>6. line.at = pc /\ line.to = end /\ line.shape = shape /\ shape \notin Remarks
  BY <1>2, ShapesAreNoRemarks DEF line
<1>7. WalkTypeOK'
  BY <1>1, <1>2, <1>3, <1>5 DEF WalkInv, WalkTypeOK, ListedLine
<1>8. InstructionsTile'
  BY <1>1, <1>2, <1>3, <1>5, <1>6 DEF WalkInv, InstructionsTile
<1>9. CountIsWhatWasPrinted'
  BY <1>1, <1>2, <1>3, <1>5 DEF WalkInv, CountIsWhatWasPrinted, Remarks
<1>10. NothingAfterARemark'
  BY <1>1, <1>5, <1>6, ShapesAreNoRemarks DEF WalkInv, NothingAfterARemark, NoRemarkYet
<1>11. NoRemarkYet'
  BY <1>1, <1>2, <1>5, <1>6 DEF WalkInv, NoRemarkYet
<1> QED BY <1>7, <1>8, <1>9, <1>10, <1>11 DEF WalkInv

LEMMA WalkInitial == ASSUME WalkInit PROVE WalkInv
<1>1. size \in Nat /\ lines = <<>> /\ Len(lines) = 0
  BY InstructionsAssumption DEF WalkInit
<1> QED BY <1>1 DEF WalkInit, WalkInv, WalkTypeOK, InstructionsTile, CountIsWhatWasPrinted,
           NothingAfterARemark, NoRemarkYet, Remarks

LEMMA WalkInductive == ASSUME WalkInv, [WalkNext]_walkVars PROVE WalkInv'
<1>1. CASE Walk
  <2>1. CASE \E why \in Remarks : Stop(why)
    BY <1>1, <2>1, StopPreserves DEF Walk
  <2>2. CASE ~\E why \in Remarks : Stop(why)
    <3>1. PICK shape \in Used : \E end \in Ends(shape) : Instruction(shape, end)
      BY <1>1, <2>2 DEF Walk, Remarks
    <3>2. PICK end \in Ends(shape) : Instruction(shape, end)
      BY <3>1
    <3>3. end # Truncated
      BY <3>2, <2>2 DEF Instruction, Remarks
    <3> QED BY <1>1, <3>2, <3>3, InstructionPreserves DEF Walk
  <2> QED BY <2>1, <2>2
<1>2. CASE EndOfCode
  <2>1. size \in Nat /\ pc \in 0..size /\ pc = size
    BY <1>2, InstructionsAssumption DEF EndOfCode, WalkInv, WalkTypeOK
  <2> QED BY <1>2, <2>1, ShapesAreNoRemarks DEF EndOfCode, WalkInv, WalkTypeOK, InstructionsTile,
             CountIsWhatWasPrinted, NothingAfterARemark, NoRemarkYet, Remarks
<1>3. CASE UNCHANGED walkVars
  BY <1>3 DEF walkVars, WalkInv, WalkTypeOK, InstructionsTile, CountIsWhatWasPrinted,
     NothingAfterARemark, NoRemarkYet
<1> QED BY <1>1, <1>2, <1>3 DEF WalkNext
-----------------------------------------------------------------------------
\* The invariant holds throughout, whatever the array.
THEOREM WalkInvariance == WalkSpec => []WalkInv
<1>1. WalkInit => WalkInv BY WalkInitial
<1>2. WalkInv /\ [WalkNext]_walkVars => WalkInv' BY WalkInductive
<1> QED BY <1>1, <1>2, PTL DEF WalkSpec

\* The instructions printed tile the array up to pc, without gap or overlap.
THEOREM AlwaysTile == WalkSpec => []InstructionsTile
<1>1. WalkInv => InstructionsTile BY DEF WalkInv
<1> QED BY <1>1, WalkInvariance, PTL

\* The count is that of the instructions printed, and never passes pc.
THEOREM AlwaysCounted == WalkSpec => []CountIsWhatWasPrinted
<1>1. WalkInv => CountIsWhatWasPrinted BY DEF WalkInv
<1> QED BY <1>1, WalkInvariance, PTL

\* The listing never goes on past bytes it could not read.
THEOREM RemarksAreLast == WalkSpec => []NothingAfterARemark
<1>1. WalkInv => NothingAfterARemark BY DEF WalkInv
<1> QED BY <1>1, WalkInvariance, PTL
-----------------------------------------------------------------------------
(***************************************************************************)
(* The walk of real bytes.                                                 *)
(***************************************************************************)
LEMMA TableNamesShapes ==
    ASSUME NEW opcode PROVE ShapeOf(opcode) \in Shapes \cup {"unassigned"}
BY DEF ShapeOf, Shapes, FixedShapes, FixedLen

LEMMA PlaceOf ==
    ASSUME NEW bytes \in Codes, NEW at \in 0..(Len(bytes) - 1)
    PROVE  /\ bytes[at + 1] = 170 =>
                  /\ B4(bytes, PadToU32(at + 1) + 4) \in LowsAndHighs(bytes)
                  /\ B4(bytes, PadToU32(at + 1) + 8) \in LowsAndHighs(bytes)
           /\ bytes[at + 1] = 171 => B4(bytes, PadToU32(at + 1) + 4) \in Pairs(bytes)
<1>1. bytes \in Seq(Byte)
  BY BytecodeAssumption
<1>2. at + 1 \in DOMAIN bytes
  BY <1>1
<1>3. CASE bytes[at + 1] = 170
  <2>1. at + 1 \in Places(bytes, 170)
    BY <1>2, <1>3 DEF Places
  <2> QED BY <2>1, <1>3 DEF LowsAndHighs
<1>4. CASE bytes[at + 1] = 171
  <2>1. at + 1 \in Places(bytes, 171)
    BY <1>2, <1>4 DEF Places
  <2> QED BY <2>1, <1>4 DEF Pairs
<1> QED BY <1>3, <1>4

\* The length computed from the bytes is one that some operands give.
LEMMA EndIsAnEnd ==
    ASSUME code \in Codes, size = Len(code), pc \in 0..size, pc < size,
           NEW shape, shape = ShapeOf(code[pc + 1]), shape # "unassigned"
    PROVE  EndOf(shape) \in Ends(shape)
<1>1. shape \in Shapes
  BY TableNamesShapes
<1>2. pc \in 0..(Len(code) - 1)
  BY BytecodeAssumption
<1>3. CASE shape = "Wide"
  <2> DEFINE iinc == B1(code, pc + 1) = 132
  <2>1. Ends(shape) = {WideEnd(b) : b \in BOOLEAN}
    BY <1>3 DEF Ends, FixedShapes, FixedLen
  <2>2. EndOf(shape) = WideEnd(iinc)
    BY <1>3 DEF EndOf
  <2>3. iinc \in BOOLEAN
    OBVIOUS
  <2> HIDE DEF iinc
  <2> QED BY <2>1, <2>2, <2>3, Zenon
<1>4. CASE shape = "TableSwitch"
  <2>1. code[pc + 1] = 170
    BY <1>4, ZenonT(30) DEF ShapeOf
  <2>2. /\ B4(code, PadToU32(pc + 1) + 4) \in Bounds
        /\ B4(code, PadToU32(pc + 1) + 8) \in Bounds
    BY <1>2, <2>1, PlaceOf, BytecodeAssumption
  <2>3. Ends(shape) = {TableEnd(low, high) : low, high \in Bounds}
    BY <1>4 DEF Ends, FixedShapes, FixedLen
  <2>4. EndOf(shape) = TableEnd(B4(code, PadToU32(pc + 1) + 4), B4(code, PadToU32(pc + 1) + 8))
    BY <1>4 DEF EndOf
  <2> QED BY <2>2, <2>3, <2>4
<1>5. CASE shape = "LookupSwitch"
  <2>1. code[pc + 1] = 171
    BY <1>5, ZenonT(30) DEF ShapeOf
  <2>2. B4(code, PadToU32(pc + 1) + 4) \in PairCounts
    BY <1>2, <2>1, PlaceOf, BytecodeAssumption
  <2>3. Ends(shape) = {LookupEnd(pairs) : pairs \in PairCounts}
    BY <1>5 DEF Ends, FixedShapes, FixedLen
  <2>4. EndOf(shape) = LookupEnd(B4(code, PadToU32(pc + 1) + 4))
    BY <1>5 DEF EndOf
  <2> QED BY <2>2, <2>3, <2>4
<1>6. CASE shape \in FixedShapes
  <2>1. shape \notin {"Wide", "TableSwitch", "LookupSwitch"}
    BY <1>6 DEF FixedShapes, FixedLen
  <2> QED BY <1>6, <2>1 DEF EndOf, Ends
<1> QED BY <1>1, <1>3, <1>4, <1>5, <1>6 DEF Shapes
-----------------------------------------------------------------------------
\* The array is one of those given, and its size is its length.
SameArray == code \in Codes /\ size = Len(code)

LEMMA SameArrayInit == DecodeInit => SameArray
BY DEF DecodeInit, SameArray

LEMMA SameArrayNext == SameArray /\ [DecodeNext]_decodeVars => SameArray'
BY DEF SameArray, DecodeNext, Decode, DecodeEnd, EndOfCode, Instruction, Stop, walkVars, decodeVars

LEMMA StepIsAStep == SameArray /\ WalkTypeOK /\ [DecodeNext]_decodeVars => [WalkNext]_walkVars
<1> SUFFICES ASSUME SameArray, WalkTypeOK, [DecodeNext]_decodeVars PROVE [WalkNext]_walkVars
  OBVIOUS
<1>1. CASE Decode
  <2> DEFINE shape == ShapeOf(code[pc + 1])
  <2>1. CASE shape = "unassigned"
    BY <1>1, <2>1 DEF Decode, WalkNext, Walk
  <2>2. CASE shape # "unassigned"
    <3>1. shape \in Used
      BY <2>2, TableNamesShapes, BytecodeAssumption
    <3>2. pc \in 0..size /\ pc < size
      BY <1>1 DEF Decode, WalkTypeOK
    <3>3. EndOf(shape) \in Ends(shape)
      BY <2>2, <3>2, EndIsAnEnd DEF SameArray
    <3>4. Instruction(shape, EndOf(shape)) /\ stopped = "no"
      BY <1>1, <2>2 DEF Decode
    <3> QED BY <3>1, <3>2, <3>3, <3>4 DEF WalkNext, Walk
  <2> QED BY <2>1, <2>2
<1>2. CASE DecodeEnd
  BY <1>2 DEF DecodeEnd, WalkNext
<1>3. CASE UNCHANGED decodeVars
  BY <1>3 DEF decodeVars
<1> QED BY <1>1, <1>2, <1>3 DEF DecodeNext
-----------------------------------------------------------------------------
\* The walk of real bytes implements the walk of Instructions: whatever the
\* array, where instruction_len puts the next instruction is a place some
\* operands would put it (emit.rs, emit_instructions).
THEOREM RealBytesAreWalked == DecodeSpec => IsAWalk
<1>1. DecodeInit => WalkInit
  BY DEF DecodeInit
<1>3. WalkInv /\ SameArray /\ [DecodeNext]_decodeVars => [WalkNext]_walkVars /\ (WalkInv /\ SameArray)'
  BY SameArrayNext, StepIsAStep, WalkInductive DEF WalkInv
<1>4. DecodeInit => WalkInv /\ SameArray
  BY <1>1, WalkInitial, SameArrayInit
<1> QED BY <1>1, <1>3, <1>4, PTL DEF DecodeSpec, IsAWalk, WalkSpec

\* Of real bytes too, the instructions printed tile the array up to pc.
THEOREM RealBytesTile == DecodeSpec => []InstructionsTile
BY RealBytesAreWalked, AlwaysTile DEF IsAWalk
-----------------------------------------------------------------------------
(***************************************************************************)
(* StackMap, for every attribute.  The strengthening of the invariants     *)
(* says that a frame is under construction only while one is still owed,   *)
(* that it then has a kind, and that there is none before the count was    *)
(* read.                                                                   *)
(***************************************************************************)
FrameIsOwed == frame # NoFrame => left > 0 /\ frame.kind \in Kinds

NothingYet == outcome = "start" => frames = <<>> /\ frame = NoFrame /\ cursor = StartOf

FramesInv == TypeOK /\ OffsetsAscend /\ OffsetsNeverWrap /\ FrameIsOwed /\ NothingYet

\* A cursor that is inside the bytes and has failed at nothing.
Inside(bytes, c) == c \in Cursor /\ c.ok /\ c.pos <= Len(bytes)
-----------------------------------------------------------------------------
\* The numbers of two bytes, without their numerals.
LEMMA U16Facts == U16 \in Nat /\ U16 > 255
BY DEF U16

LEMMA Unsigned16Facts == \A x : x \in Unsigned16 <=> x \in Nat /\ x < U16
BY U16Facts DEF Unsigned16

LEMMA TwoBytes == \A h, l \in 0..255 : 256 * h + l \in Nat /\ 256 * h + l < U16
BY DEF U16

LEMMA U16Times ==
    ASSUME NEW n \in Nat
    PROVE  U16 * n \in Nat /\ U16 * (n + 1) = U16 * n + U16 /\ U16 * 1 = U16
BY DEF U16

\* Where a read fits, the cursor stays inside and moves by its width.
LEMMA AfterInside ==
    ASSUME NEW bytes \in Seq(Byte), NEW c \in Cursor, NEW w \in Nat,
           c.pos <= Len(bytes), Need(bytes, c, w)
    PROVE  Inside(bytes, After(bytes, c, w))
<1>1. c.pos \in Nat /\ c.ok /\ Len(bytes) \in Nat
  BY DEF Cursor, Need
<1>2. After(bytes, c, w) = [c EXCEPT !.pos = c.pos + w]
  BY DEF After
<1>3. c.pos + w \in Nat /\ c.pos + w <= Len(bytes)
  BY <1>1 DEF Need
<1> QED BY <1>1, <1>2, <1>3 DEF Inside, Cursor

\* What does not fit cannot be read behind.
LEMMA NothingBehindFailure ==
    ASSUME NEW bytes, NEW c \in Cursor, NEW w \in Nat, NEW v \in Nat,
           Need(bytes, After(bytes, c, w), v)
    PROVE  Need(bytes, c, w)
<1>1. SUFFICES ASSUME ~Need(bytes, c, w) PROVE FALSE
  OBVIOUS
<1>2. After(bytes, c, w) = [c EXCEPT !.ok = FALSE]
  BY <1>1 DEF After, Failed
<1> QED BY <1>2 DEF Need, Cursor

\* One and two bytes read as unsigned numbers of one and two bytes.
LEMMA ReadRange ==
    ASSUME NEW bytes \in Seq(Byte), NEW c \in Cursor
    PROVE  /\ Need(bytes, c, 1) => U1(bytes, c) \in 0..255
           /\ Need(bytes, c, 2) => U2(bytes, c) \in Unsigned16
<1>1. c.pos \in Nat /\ Len(bytes) \in Nat
  BY DEF Cursor
<1>2. \A i \in 1..Len(bytes) : bytes[i] \in 0..255
  <2>1. ASSUME NEW i \in 1..Len(bytes) PROVE bytes[i] \in Byte
    BY <2>1
  <2> QED BY <2>1 DEF Byte
<1>3. Need(bytes, c, 1) => c.pos + 1 \in 1..Len(bytes)
  BY <1>1 DEF Need
<1>4. Need(bytes, c, 2) => c.pos + 1 \in 1..Len(bytes) /\ c.pos + 2 \in 1..Len(bytes)
  BY <1>1 DEF Need
<1>5. ASSUME Need(bytes, c, 1) PROVE U1(bytes, c) \in 0..255
  BY <1>2, <1>3, <1>5 DEF U1
<1>6. ASSUME Need(bytes, c, 2) PROVE U2(bytes, c) \in Unsigned16
  <2> DEFINE high == bytes[c.pos + 1]
             low == bytes[c.pos + 2]
  <2>1. high \in 0..255 /\ low \in 0..255
    BY <1>2, <1>4, <1>6
  <2>2. U2(bytes, c) = 256 * high + low
    BY DEF U2
  <2> HIDE DEF high, low
  <2>3. 256 * high + low \in Nat /\ 256 * high + low < U16
    BY TwoBytes, <2>1
  <2> QED BY Unsigned16Facts, <2>2, <2>3
<1> QED BY <1>5, <1>6

\* The header of a frame of a type that is not reserved.
LEMMA HeaderFields ==
    ASSUME NEW type \in (0..255) \ Reserved
    PROVE  /\ Kind(type) \in Kinds
           /\ TypesOf(type) \in 0..3
           /\ ListsOf(type) \in 0..2
<1>1. CASE type \in 0..63 \/ type = 251
  BY <1>1 DEF Kind, Kinds, TypesOf, ListsOf
<1>2. CASE type \in 64..127 \/ type = 247
  BY <1>2 DEF Kind, Kinds, TypesOf, ListsOf
<1>3. CASE type \in 248..250
  BY <1>3 DEF Kind, Kinds, TypesOf, ListsOf
<1>4. CASE type \in 252..254
  BY <1>4 DEF Kind, Kinds, TypesOf, ListsOf
<1>5. CASE type = 255
  BY <1>5 DEF Kind, Kinds, TypesOf, ListsOf
<1> QED BY <1>1, <1>2, <1>3, <1>4, <1>5 DEF Reserved

LEMMA DeltaRange ==
    ASSUME NEW type \in (0..255) \ Reserved, NEW c \in Cursor, data \in Seq(Byte),
           Need(data, c, IF ShortDelta(type) THEN 0 ELSE 2)
    PROVE  Delta(type, c) \in Unsigned16
<1>1. CASE type < 128
  BY U16Facts, Unsigned16Facts, <1>1 DEF Delta
<1>2. CASE ~(type < 128)
  <2>1. Need(data, c, 2)
    BY <1>2 DEF ShortDelta
  <2>2. U2(data, c) \in Unsigned16
    BY <2>1, ReadRange
  <2>3. Delta(type, c) = U2(data, c)
    BY <1>2 DEF Delta
  <2> QED BY <2>2, <2>3
<1> QED BY <1>1, <1>2
-----------------------------------------------------------------------------
\* A frame header leaves the invariant: it is read only when a frame is owed.
LEMMA BaseFramePreserves ==
    ASSUME FramesInv, outcome = "reading", left > 0, NEW type \in 0..255, NEW c,
           Inside(data, c), NEW unset \in Unsigned16, BaseFrame(type, c, unset)
    PROVE  FramesInv'
<1>d. data \in Seq(Byte) BY DEF FramesInv, TypeOK
<1>1. CASE Refuse
  BY <1>1 DEF Refuse, FramesInv, TypeOK, OffsetsAscend, OffsetsNeverWrap, FrameIsOwed, NothingYet, NoFrame
<1>2. CASE ~Refuse
  <2> DEFINE width == IF ShortDelta(type) THEN 0 ELSE 2
  <2>1. /\ type \notin Reserved /\ Need(data, c, width)
        /\ frame' = [delta |-> Delta(type, c), kind |-> Kind(type), unset |-> unset]
        /\ cursor' = After(data, c, width)
        /\ types' = TypesOf(type) /\ lists' = ListsOf(type)
        /\ UNCHANGED <<data, left, frames, outcome>>
    BY <1>2 DEF BaseFrame
  <2>2. c \in Cursor /\ c.pos <= Len(data) /\ width \in Nat
    BY DEF Inside
  <2>3. Inside(data, cursor')
    BY <2>1, <2>2, <1>d, AfterInside
  <2>4. Delta(type, c) \in Unsigned16
    BY <2>1, <2>2, <1>d, DeltaRange
  <2>5. Kind(type) \in Kinds /\ TypesOf(type) \in 0..3 /\ ListsOf(type) \in 0..2
    BY <2>1, HeaderFields
  <2>6. TypeOK'
    <3>1. frame' \in Header
      <4> DEFINE d == Delta(type, c)
                 k == Kind(type)
      <4>1. d \in Unsigned16 /\ k \in Kinds /\ unset \in Unsigned16
        BY <2>4, <2>5
      <4>2. frame' = [delta |-> d, kind |-> k, unset |-> unset]
        BY <2>1
      <4> HIDE DEF d, k
      <4> QED BY <4>1, <4>2 DEF Header
    <3>2. types' \in Unsigned16 /\ lists' \in 0..2
      BY <2>1, <2>5, U16Facts, Unsigned16Facts
    <3> QED BY <2>1, <2>3, <3>1, <3>2 DEF FramesInv, TypeOK, Inside
  <2>7. FrameIsOwed'
    BY <2>1, <2>5 DEF FrameIsOwed, NoFrame
  <2> QED BY <2>1, <2>6, <2>7 DEF FramesInv, OffsetsAscend, OffsetsNeverWrap, NothingYet
<1> QED BY <1>1, <1>2

\* So does a header inside a wrapper.
LEMMA WrappedFramePreserves ==
    ASSUME FramesInv, outcome = "reading", left > 0, NEW c, Inside(data, c), WrappedFrame(c)
    PROVE  FramesInv'
<1> DEFINE fields == After(data, c, 2)
           base == After(data, fields, 2 * U2(data, c))
<1>d. data \in Seq(Byte) BY DEF FramesInv, TypeOK
<1>1. CASE Refuse
  BY <1>1 DEF Refuse, FramesInv, TypeOK, OffsetsAscend, OffsetsNeverWrap, FrameIsOwed, NothingYet, NoFrame
<1>2. CASE ~Refuse
  <2>1. /\ Need(data, c, 2) /\ Need(data, base, 1)
        /\ BaseFrame(U1(data, base), After(data, base, 1), U2(data, c))
    BY <1>2 DEF WrappedFrame
  <2>2. U2(data, c) \in Unsigned16
    BY <2>1, <1>d, ReadRange DEF Inside
  <2>3. Inside(data, fields)
    BY <2>1, <1>d, AfterInside DEF Inside
  <2>w. 2 * U2(data, c) \in Nat
    BY U16Facts, Unsigned16Facts, <2>2
  <2>4. Need(data, fields, 2 * U2(data, c))
    BY <2>1, <2>3, <2>w, NothingBehindFailure DEF Inside
  <2>5. Inside(data, base)
    BY <2>3, <2>4, <2>w, <1>d, AfterInside DEF Inside
  <2>6. Inside(data, After(data, base, 1)) /\ U1(data, base) \in 0..255
    BY <2>1, <2>5, <1>d, AfterInside, ReadRange DEF Inside
  <2> HIDE DEF base
  <2> QED BY <2>1, <2>2, <2>6, BaseFramePreserves
<1> QED BY <1>1, <1>2

\* A frame that is kept lies beyond the one before it, by at most U16.
LEMMA KeepFramePreserves ==
    ASSUME FramesInv, KeepFrame
    PROVE  FramesInv'
<1> DEFINE n == Len(frames)
           new == [offset |-> OffsetOf(frame.delta), kind |-> frame.kind,
                   unset |-> frame.unset]
<1>1. /\ frame \in Header /\ frame.kind \in Kinds /\ left > 0
      /\ left \in Nat /\ frames \in Seq(Frame) /\ n \in Nat /\ n + left < U16
      /\ \A i \in 1..n : frames[i].offset <= U16 * i - 1
  <2>1. frame \in Header /\ left \in Unsigned16 /\ frames \in Seq(Frame)
    BY DEF FramesInv, TypeOK
  <2>2. frame.kind \in Kinds /\ left > 0
    BY DEF FramesInv, FrameIsOwed, KeepFrame
  <2>3. n + left < U16 /\ \A i \in 1..n : frames[i].offset <= U16 * i - 1
    BY DEF FramesInv, OffsetsNeverWrap
  <2>4. left \in Nat
    BY <2>1, Unsigned16Facts
  <2> QED BY <2>1, <2>2, <2>3, <2>4
<1>2. frame.delta \in Nat /\ frame.delta < U16 /\ frame.unset \in Unsigned16
  BY <1>1, U16Facts, Unsigned16Facts DEF Header
<1>3. \A i \in 1..n : frames[i] \in Frame
  BY <1>1, ElementOfSeq
<1>4. \A i \in 1..n : frames[i].offset \in Nat
  BY <1>3 DEF Frame
<1>5. /\ new.offset \in Nat
      /\ new.offset <= U16 * (n + 1) - 1
      /\ n > 0 => new.offset > frames[n].offset
  <2> DEFINE so == U16 * n
             d == frame.delta
             last == frames[n].offset
  <2>1. d \in Nat /\ d < U16 /\ U16 \in Nat /\ so \in Nat /\ U16 * (n + 1) = so + U16
    BY <1>1, <1>2, U16Facts, U16Times
  <2>2. CASE n = 0
    <3>1. new.offset = d
      BY <1>1, <2>2 DEF OffsetOf
    <3> HIDE DEF new, so, d
    <3> QED BY <3>1, <2>1, <2>2
  <2>3. CASE n > 0
    <3>1. new.offset = last + d + 1
      BY <1>1, <2>3 DEF OffsetOf
    <3>2. n \in 1..n
      BY <1>1, <2>3
    <3>3. last \in Nat /\ last <= so - 1
      BY <3>2, <1>1, <1>4
    <3> HIDE DEF new, so, d, last
    <3>4. new.offset \in Nat /\ new.offset <= U16 * (n + 1) - 1 /\ new.offset > last
      BY <3>1, <3>3, <2>1
    <3> QED BY <3>4 DEF last
  <2> QED BY <1>1, <2>2, <2>3
<1>6. new \in Frame
  BY <1>1, <1>2, <1>5 DEF Frame
<1> HIDE DEF new
<1>7. /\ frames' = Append(frames, new) /\ frames' \in Seq(Frame)
      /\ Len(frames') = n + 1 /\ frames'[n + 1] = new
      /\ \A i \in 1..n : frames'[i] = frames[i]
  BY <1>1, <1>6 DEF KeepFrame, new
<1>8. OffsetsAscend'
  BY <1>1, <1>4, <1>5, <1>7 DEF FramesInv, OffsetsAscend
<1>9. OffsetsNeverWrap'
  <2>1. Len(frames') + left' < U16
    <3>1. left' = left - 1
      BY DEF KeepFrame
    <3> QED BY <3>1, <1>1, <1>7, U16Facts
  <2>2. ASSUME NEW i \in 1..(n + 1) PROVE frames'[i].offset <= U16 * i - 1
    <3>1. CASE i = n + 1
      BY <3>1, <1>5, <1>7
    <3>2. CASE i # n + 1
      <4>1. i \in 1..n
        BY <3>2, <1>1
      <4> QED BY <4>1, <1>1, <1>7
    <3> QED BY <3>1, <3>2
  <2> QED BY <2>1, <2>2, <1>7 DEF OffsetsNeverWrap
<1>10. TypeOK'
  <2>1. NoFrame \in Header
    BY U16Facts, Unsigned16Facts DEF NoFrame, Header
  <2>2. left' \in Unsigned16
    <3>1. left' = left - 1 /\ left - 1 \in Nat /\ left - 1 < U16
      BY <1>1, U16Facts DEF KeepFrame
    <3> QED BY <3>1, Unsigned16Facts
  <2> QED BY <2>1, <2>2, <1>7 DEF FramesInv, TypeOK, KeepFrame
<1> QED BY <1>8, <1>9, <1>10 DEF FramesInv, FrameIsOwed, NothingYet, KeepFrame
-----------------------------------------------------------------------------
LEMMA FramesInitial == ASSUME Init PROVE FramesInv
<1>1. data \in Seq(Byte) BY StackMapAssumption DEF Init
<1>2. NoFrame \in Header /\ 0 \in Unsigned16
  BY U16Facts, Unsigned16Facts DEF NoFrame, Header
<1> QED BY U16Facts, Unsigned16Facts, <1>1, <1>2 DEF Init, FramesInv, TypeOK, OffsetsAscend, OffsetsNeverWrap, FrameIsOwed, NothingYet,
           StartOf, Cursor, NoFrame

LEMMA FramesInductive == ASSUME FramesInv, [Next]_vars PROVE FramesInv'
<1>d. data \in Seq(Byte) /\ Inside(data, cursor)
  BY DEF FramesInv, TypeOK, Inside
<1>r. ASSUME Refuse PROVE FramesInv'
  BY <1>r DEF Refuse, FramesInv, TypeOK, OffsetsAscend, OffsetsNeverWrap, FrameIsOwed, NothingYet, NoFrame
<1>1. CASE ReadCount
  <2>1. CASE ~Need(data, cursor, 2)
    BY <1>1, <2>1, <1>r DEF ReadCount
  <2>2. CASE Need(data, cursor, 2)
    <3>1. Inside(data, After(data, cursor, 2)) /\ U2(data, cursor) \in Unsigned16
      BY <2>2, <1>d, AfterInside, ReadRange DEF Inside
    <3>2. outcome = "start" /\ outcome' = "reading" /\ left' = U2(data, cursor)
          /\ cursor' = After(data, cursor, 2) /\ UNCHANGED <<data, frame, lists, types, frames>>
      BY <1>1, <2>2 DEF ReadCount
    <3>3. frames = <<>> /\ frame = NoFrame /\ Len(frames) = 0
      BY <3>2 DEF FramesInv, NothingYet
    <3>4. TypeOK'
      BY <3>1, <3>2 DEF FramesInv, TypeOK, Inside
    <3>5. OffsetsNeverWrap'
      BY <3>1, <3>2, <3>3, U16Facts, Unsigned16Facts DEF OffsetsNeverWrap
    <3> QED BY <3>1, <3>2, <3>3, <3>4, <3>5 DEF FramesInv, OffsetsAscend, OffsetsNeverWrap, FrameIsOwed, NothingYet, NoFrame
  <2> QED BY <2>1, <2>2
<1>2. CASE ReadFrame
  <2>1. CASE ~Need(data, cursor, 1)
    BY <1>2, <2>1, <1>r DEF ReadFrame
  <2>2. CASE Need(data, cursor, 1)
    <3>1. Inside(data, After(data, cursor, 1)) /\ U1(data, cursor) \in 0..255
      BY <2>2, <1>d, AfterInside, ReadRange DEF Inside
    <3>2. CASE U1(data, cursor) = EarlyLarval
      BY <1>2, <2>2, <3>1, <3>2, WrappedFramePreserves DEF ReadFrame
    <3>3. CASE U1(data, cursor) # EarlyLarval
      <4>1. 0 \in Unsigned16
        BY U16Facts, Unsigned16Facts
      <4> QED BY <1>2, <2>2, <3>1, <3>3, <4>1, BaseFramePreserves DEF ReadFrame
    <3> QED BY <3>2, <3>3
  <2> QED BY <2>1, <2>2
<1>3. CASE ReadType
  <2> DEFINE tag == U1(data, cursor)
             width == IF tag \in {7, 8} THEN 3 ELSE 1
  <2>1. CASE Refuse
    BY <2>1, <1>r
  <2>2. CASE ~Refuse
    <3>1. /\ Need(data, cursor, width) /\ cursor' = After(data, cursor, width)
          /\ types > 0 /\ types' = types - 1
          /\ UNCHANGED <<data, left, frame, lists, frames, outcome>>
      BY <1>3, <2>2 DEF ReadType
    <3>2. width \in Nat
      OBVIOUS
    <3>3. Inside(data, cursor')
      BY <3>1, <3>2, <1>d, AfterInside DEF Inside
    <3>4. types' \in Unsigned16
      <4>1. types \in Nat /\ types < U16
        BY Unsigned16Facts DEF FramesInv, TypeOK
      <4>2. types - 1 \in Nat /\ types - 1 < U16
        BY <3>1, <4>1, U16Facts
      <4> QED BY <3>1, <4>2, Unsigned16Facts
    <3>5. TypeOK'
      BY <3>1, <3>3, <3>4 DEF FramesInv, TypeOK, Inside
    <3>6. outcome = "reading"
      BY <1>3 DEF ReadType
    <3> QED BY <3>1, <3>5, <3>6 DEF FramesInv, OffsetsAscend, OffsetsNeverWrap, FrameIsOwed, NothingYet, NoFrame
  <2> QED BY <2>1, <2>2
<1>4. CASE ReadTypeCount
  <2>1. CASE ~Need(data, cursor, 2)
    BY <1>4, <2>1, <1>r DEF ReadTypeCount
  <2>2. CASE Need(data, cursor, 2)
    <3>1. Inside(data, After(data, cursor, 2)) /\ U2(data, cursor) \in Unsigned16
      BY <2>2, <1>d, AfterInside, ReadRange DEF Inside
    <3>2. /\ outcome = "reading" /\ lists > 0 /\ lists' = lists - 1
          /\ types' = U2(data, cursor) /\ cursor' = After(data, cursor, 2)
          /\ UNCHANGED <<data, left, frame, frames, outcome>>
      BY <1>4, <2>2 DEF ReadTypeCount
    <3>3. lists' \in 0..2
      BY <3>2 DEF FramesInv, TypeOK
    <3>4. TypeOK'
      BY <3>1, <3>2, <3>3 DEF FramesInv, TypeOK, Inside
    <3> QED BY <3>2, <3>4 DEF FramesInv, OffsetsAscend, OffsetsNeverWrap, FrameIsOwed, NothingYet, NoFrame
  <2> QED BY <2>1, <2>2
<1>5. CASE KeepFrame
  BY <1>5, KeepFramePreserves
<1>6. CASE Finish
  BY <1>6 DEF Finish, FramesInv, TypeOK, OffsetsAscend, OffsetsNeverWrap, FrameIsOwed, NothingYet, NoFrame
<1>7. CASE UNCHANGED vars
  BY <1>7 DEF vars, FramesInv, TypeOK, OffsetsAscend, OffsetsNeverWrap, FrameIsOwed, NothingYet, NoFrame
<1> QED BY <1>1, <1>2, <1>3, <1>4, <1>5, <1>6, <1>7 DEF Next
-----------------------------------------------------------------------------
\* The invariant holds throughout, whatever the attribute.
THEOREM FramesInvariance == Spec => []FramesInv
<1>1. Init => FramesInv BY FramesInitial
<1>2. FramesInv /\ [Next]_vars => FramesInv' BY FramesInductive
<1> QED BY <1>1, <1>2, PTL DEF Spec

\* Every variable keeps its type, and the cursor stays in the attribute.
THEOREM TypeCorrect == Spec => []TypeOK
<1>1. FramesInv => TypeOK BY DEF FramesInv
<1> QED BY <1>1, FramesInvariance, PTL

\* Frames are about instructions further and further on.
THEOREM AlwaysAscending == Spec => []OffsetsAscend
<1>1. FramesInv => OffsetsAscend BY DEF FramesInv
<1> QED BY <1>1, FramesInvariance, PTL

\* The u32 arithmetic on offsets never wraps: U16 - 1 frames reach at most
\* U16 * (U16 - 1) - 1, which a u32 holds.
THEOREM NeverWraps == Spec => [](OffsetsNeverWrap /\ \A i \in 1..Len(frames) : frames[i].offset < U32)
<1>1. FramesInv => OffsetsNeverWrap /\ \A i \in 1..Len(frames) : frames[i].offset < U32
  <2> SUFFICES ASSUME FramesInv, NEW i \in 1..Len(frames)
               PROVE  frames[i].offset < U32
    BY DEF FramesInv
  <2>1. frames[i].offset \in Nat /\ frames[i].offset <= U16 * i - 1
    <3>1. frames[i] \in Frame
      BY ElementOfSeq DEF FramesInv, TypeOK
    <3> QED BY <3>1 DEF FramesInv, OffsetsNeverWrap, Frame
  <2>2. i < U16
    <3>1. left \in Nat /\ Len(frames) \in Nat /\ Len(frames) + left < U16
      BY Unsigned16Facts DEF FramesInv, TypeOK, OffsetsNeverWrap
    <3> QED BY <3>1, U16Facts
  <2> QED BY <2>1, <2>2 DEF U16, U32
<1> QED BY <1>1, FramesInvariance, PTL
-----------------------------------------------------------------------------
(***************************************************************************)
(* CodeAttribute, for every attribute.  Before the tables are printed      *)
(* nothing is; a table is then printed as one block, and the frames are    *)
(* those of the table they were parsed from, as many as it declares.       *)
(***************************************************************************)
\* A sequence of whatever.
IsSeq(s) == \E S : s \in Seq(S)

\* Two sequences one behind the other.
LEMMA Joined ==
    ASSUME NEW a, NEW b, IsSeq(a), IsSeq(b)
    PROVE  /\ IsSeq(a \o b) /\ Len(a) \in Nat /\ Len(b) \in Nat
           /\ Len(a \o b) = Len(a) + Len(b)
           /\ \A i \in 1..Len(a) : (a \o b)[i] = a[i]
           /\ \A i \in 1..Len(b) : (a \o b)[Len(a) + i] = b[i]
<1>1. PICK S, T : a \in Seq(S) /\ b \in Seq(T)
  BY DEF IsSeq
<1> DEFINE U == S \cup T
<1>2. a \in Seq(U) /\ b \in Seq(U)
  BY <1>1
<1>3. Len(a) \in Nat /\ Len(b) \in Nat
  BY <1>1
<1> HIDE DEF U
<1>4. /\ a \o b \in Seq(U) /\ Len(a \o b) = Len(a) + Len(b)
      /\ \A i \in 1..(Len(a) + Len(b)) : (a \o b)[i] = IF i <= Len(a) THEN a[i] ELSE b[i - Len(a)]
  BY <1>2, ConcatProperties
<1>5. ASSUME NEW i \in 1..Len(b) PROVE (a \o b)[Len(a) + i] = b[i]
  <2>1. Len(a) + i \in 1..(Len(a) + Len(b)) /\ ~(Len(a) + i <= Len(a)) /\ (Len(a) + i) - Len(a) = i
    BY <1>3
  <2> QED BY <1>4, <2>1
<1> QED BY <1>3, <1>4, <1>5 DEF IsSeq

\* A heading and its rows.
BlockOf(table, rows) == <<Heading(table)>> \o Rows(table, rows)

LEMMA HeadingAndRows ==
    ASSUME NEW table, NEW rows, IsSeq(rows),
           NEW block, block = BlockOf(table, rows)
    PROVE  /\ IsSeq(block) /\ Len(rows) \in Nat /\ Len(block) = 1 + Len(rows)
           /\ \A i \in 1..Len(block) : block[i].table = table
           /\ \A i \in 1..Len(rows) : block[1 + i].row = rows[i]
<1> DEFINE a == <<Heading(table)>>
           b == Rows(table, rows)
           L(i) == [table |-> table, row |-> rows[i]]
<1>1. Len(rows) \in Nat /\ DOMAIN rows = 1..Len(rows)
  BY DEF IsSeq
<1>2. b = [i \in 1..Len(rows) |-> L(i)]
  BY <1>1 DEF Rows
<1>3. \A i \in 1..Len(rows) : b[i].table = table /\ b[i].row = rows[i]
  BY <1>2
<1>4. b \in Seq({L(i) : i \in 1..Len(rows)}) /\ Len(b) = Len(rows)
  <2> HIDE DEF L
  <2> QED BY <1>1, <1>2
<1>5. a \in Seq({Heading(table)}) /\ Len(a) = 1 /\ a[1].table = table
  BY DEF Heading
<1> HIDE DEF a, b, L
<1>6. IsSeq(a) /\ IsSeq(b)
  BY <1>4, <1>5 DEF IsSeq
<1>7. /\ IsSeq(a \o b) /\ Len(a \o b) = 1 + Len(rows)
      /\ \A i \in 1..1 : (a \o b)[i] = a[i]
      /\ \A i \in 1..Len(rows) : (a \o b)[1 + i] = b[i]
  <2>1. Len(a) = 1 /\ Len(b) = Len(rows)
    BY <1>4, <1>5
  <2>2. /\ IsSeq(a \o b) /\ Len(a \o b) = Len(a) + Len(b)
        /\ \A i \in 1..Len(a) : (a \o b)[i] = a[i]
        /\ \A i \in 1..Len(b) : (a \o b)[Len(a) + i] = b[i]
    BY <1>6, Joined
  <2> QED BY <2>1, <2>2
<1>8. ASSUME NEW i \in 1..(1 + Len(rows)) PROVE (a \o b)[i].table = table
  <2>1. CASE i = 1
    BY <1>5, <1>7, <2>1
  <2>2. CASE i # 1
    <3>1. i - 1 \in 1..Len(rows) /\ 1 + (i - 1) = i
      BY <1>1, <2>2
    <3> QED BY <1>3, <1>7, <3>1
  <2> QED BY <2>1, <2>2
<1>9. block = a \o b
  BY DEF a, b, BlockOf
<1> QED BY <1>1, <1>3, <1>7, <1>8, <1>9

\* What a block appended does to the lines of every table.
PrintsBlock(table, rows) == printed' = printed \o BlockOf(table, rows)

LEMMA BlockPrinted ==
    ASSUME IsSeq(printed), NEW table, NEW rows, IsSeq(rows), PrintsBlock(table, rows)
    PROVE  /\ IsSeq(printed') /\ Len(rows) \in Nat
           /\ \A u : u # table => Under(u)' = Under(u)
           /\ \A i \in DOMAIN printed : printed'[i] = printed[i] /\ i \in DOMAIN printed'
           /\ \E h \in DOMAIN printed' :
                  /\ Under(table)' = Under(table) \cup h..(h + Len(rows))
                  /\ \A i \in 1..Len(rows) : printed'[h + i].row = rows[i]
<1> DEFINE n == Len(printed)
<1>0. PICK b : b = BlockOf(table, rows)
  OBVIOUS
<1>1. /\ IsSeq(b) /\ Len(rows) \in Nat /\ Len(b) = 1 + Len(rows)
      /\ \A i \in 1..Len(b) : b[i].table = table
      /\ \A i \in 1..Len(rows) : b[1 + i].row = rows[i]
  BY <1>0, HeadingAndRows
<1>2. /\ IsSeq(printed') /\ n \in Nat /\ Len(printed') = n + Len(b)
      /\ \A i \in 1..n : printed'[i] = printed[i]
      /\ \A i \in 1..Len(b) : printed'[n + i] = b[i]
  <2>1. printed' = printed \o b
    BY <1>0 DEF PrintsBlock
  <2>2. IsSeq(b) /\ IsSeq(printed)
    BY <1>1
  <2> QED BY <2>1, <2>2, Joined
<1>3. DOMAIN printed = 1..n /\ DOMAIN printed' = 1..(n + 1 + Len(rows))
  BY <1>1, <1>2 DEF IsSeq
<1>4. ASSUME NEW i \in DOMAIN printed', i \notin DOMAIN printed
      PROVE  printed'[i].table = table /\ i \in (n + 1)..(n + 1 + Len(rows))
  <2>1. i - n \in 1..Len(b) /\ n + (i - n) = i /\ i \in (n + 1)..(n + 1 + Len(rows))
    BY <1>1, <1>2, <1>3, <1>4
  <2> QED BY <1>1, <1>2, <2>1
<1>5. ASSUME NEW i \in (n + 1)..(n + 1 + Len(rows))
      PROVE  i \in DOMAIN printed' /\ i \notin DOMAIN printed
  BY <1>1, <1>2, <1>3
<1>6. \A i \in DOMAIN printed : printed'[i] = printed[i] /\ i \in DOMAIN printed'
  BY <1>1, <1>2, <1>3
<1>7. ASSUME NEW u, u # table PROVE Under(u)' = Under(u)
  BY <1>4, <1>6, <1>7 DEF Under
<1>8. Under(table)' = Under(table) \cup (n + 1)..(n + 1 + Len(rows))
  BY <1>4, <1>5, <1>6 DEF Under
<1>9. ASSUME NEW i \in 1..Len(rows) PROVE printed'[n + 1 + i].row = rows[i]
  <2>1. 1 + i \in 1..Len(b) /\ n + (1 + i) = n + 1 + i
    BY <1>1, <1>2
  <2> QED BY <1>1, <1>2, <2>1
<1>10. \E h \in DOMAIN printed' :
           /\ Under(table)' = Under(table) \cup h..(h + Len(rows))
           /\ \A i \in 1..Len(rows) : printed'[h + i].row = rows[i]
  <2>1. n + 1 \in DOMAIN printed'
    BY <1>1, <1>2, <1>3
  <2> HIDE DEF n
  <2> QED BY <1>8, <1>9, <2>1
<1> QED BY <1>1, <1>2, <1>6, <1>7, <1>10
-----------------------------------------------------------------------------
\* The frames of a map that was read are as many as it declares.
CountIsKept ==
    /\ outcome \in {"reading", "ok"} => Len(data) >= 2 /\ Len(frames) + left = U2(data, StartOf)
    /\ outcome = "ok" => left = 0

LEMMA CountStaysKept == FramesInv /\ CountIsKept /\ [Next]_vars => CountIsKept'
<1> SUFFICES ASSUME FramesInv, CountIsKept, [Next]_vars PROVE CountIsKept'
  OBVIOUS
<1>t. /\ data \in Seq(Byte) /\ Len(data) \in Nat /\ frames \in Seq(Frame) /\ Len(frames) \in Nat
      /\ left \in Nat
  BY Unsigned16Facts DEF FramesInv, TypeOK
<1>r. ASSUME Refuse PROVE CountIsKept'
  BY <1>r DEF Refuse, CountIsKept
<1>1. CASE ReadCount
  <2>1. CASE ~Need(data, cursor, 2)
    BY <1>1, <1>r, <2>1 DEF ReadCount
  <2>2. CASE Need(data, cursor, 2)
    <3>1. outcome = "start" /\ cursor = StartOf /\ frames = <<>>
      BY <1>1 DEF ReadCount, FramesInv, NothingYet
    <3>2. Len(data) >= 2 /\ Len(frames) = 0
      BY <1>t, <2>2, <3>1 DEF Need, StartOf
    <3>3. left' = U2(data, StartOf) /\ U2(data, StartOf) \in Nat
      <4>1. cursor \in Cursor
        BY DEF FramesInv, TypeOK
      <4>2. U2(data, cursor) \in Unsigned16
        BY <1>t, <2>2, <4>1, ReadRange
      <4> QED BY <1>1, <2>2, <3>1, <4>2, Unsigned16Facts DEF ReadCount
    <3> QED BY <1>1, <2>2, <3>2, <3>3 DEF ReadCount, CountIsKept
  <2> QED BY <2>1, <2>2
<1>2. CASE UNCHANGED <<data, left, frames, outcome>>
  BY <1>2 DEF CountIsKept
<1>3. CASE KeepFrame
  <2>1. Len(frames') = Len(frames) + 1
    BY <1>3, <1>t DEF KeepFrame
  <2>2. left' = left - 1 /\ UNCHANGED <<data, outcome>> /\ outcome = "reading"
    BY <1>3 DEF KeepFrame
  <2> QED BY <1>t, <2>1, <2>2 DEF CountIsKept
<1>4. CASE Finish
  BY <1>4 DEF Finish, CountIsKept
<1>5. ASSUME ReadFrame \/ ReadType \/ ReadTypeCount \/ UNCHANGED vars, ~Refuse
      PROVE  UNCHANGED <<data, left, frames, outcome>>
  BY <1>5 DEF ReadFrame, WrappedFrame, BaseFrame, ReadType, ReadTypeCount, vars
<1> QED BY <1>r, <1>1, <1>2, <1>3, <1>4, <1>5 DEF Next
-----------------------------------------------------------------------------
Parsing == {"head", "exceptionCount", "exceptions", "attributeCount", "attributes", "printExceptions"}
Printing == {"printLocals", "printLines", "findFrames", "frames", "done"}

ExceptionRows == {Row(contents, p, Exceptional) : p \in Nat}
Parts == [name : {NameOf[n] : n \in Unsigned16}, data : Seq(Byte)]

CodeTypeOK ==
    /\ contents \in Seq(Byte)
    /\ Inside(contents, place)
    /\ stage \in Parsing \cup Printing \cup {"malformed"}
    /\ parsed \in [bytes : Seq(Byte), exceptions : Seq(ExceptionRows), attributes : Seq(Parts)]
    /\ IsSeq(printed)

\* The parser of frames waits for its bytes, and then has those of the table.
FramesInTurn ==
    /\ stage \notin {"frames", "done"} => outcome = "start"
    /\ stage = "frames" => Named("StackMapTable") # <<>> /\ data = Named("StackMapTable")[1]

\* No table is printed before its turn.
PrintedInTurn ==
    /\ stage \in Parsing \cup {"malformed"} => printed = <<>>
    /\ stage = "printLocals" => Under("locals") = {}
    /\ stage \in {"printLocals", "printLines"} => Under("lines") = {}
    /\ stage # "done" => Under("frames") = {}

\* What is under a heading is the whole of the table, or all of its rows there
\* are bytes for.
WholeTable(table, bytes) == Len(bytes) >= 2 /\ Block(table, U2(bytes, StartOf))
LocalsWhole == Under("locals") # {} => WholeTable("locals", Named("LocalVariableTable")[1])
FramesWhole == Under("frames") # {} => WholeTable("frames", Named("StackMapTable")[1])
LinesOf(table) ==
    \E rows \in 0..U2(table, StartOf), h \in DOMAIN printed :
        /\ Under("lines") = h..(h + rows)
        /\ \A i \in 1..rows : \A n \in 1..Line :
               printed[h + i].row[n] = 256 * table[4 * i + 2 * n - 3] + table[4 * i + 2 * n - 2]
        /\ rows < U2(table, StartOf) => Len(table) - 2 - 4 * rows < 4
LinesCut == Under("lines") # {} => LinesOf(Named("LineNumberTable")[1])

TablesInv == LocalsWhole /\ FramesWhole /\ LinesCut
CodeInv == FramesInv /\ CountIsKept /\ CodeTypeOK /\ FramesInTurn /\ PrintedInTurn /\ TablesInv

LEMMA NothingUnder == ASSUME printed = <<>> PROVE \A table : Under(table) = {}
BY DEF Under

\* Four bytes make a number.
LEMMA FourBytes ==
    ASSUME NEW bytes \in Seq(Byte), NEW c \in Cursor, Need(bytes, c, 4)
    PROVE  U4(bytes, c) \in Nat
<1>1. Need(bytes, c, 2) /\ c.pos \in Nat /\ Len(bytes) \in Nat /\ c.ok
  BY DEF Need, Cursor
<1>2. After(bytes, c, 2) = [c EXCEPT !.pos = c.pos + 2]
  BY <1>1 DEF After
<1>3. After(bytes, c, 2) \in Cursor /\ After(bytes, c, 2).ok /\ After(bytes, c, 2).pos = c.pos + 2
  BY <1>1, <1>2 DEF Cursor
<1>4. Need(bytes, After(bytes, c, 2), 2)
  BY <1>1, <1>3 DEF Need
<1>5. U2(bytes, c) \in Nat /\ U2(bytes, After(bytes, c, 2)) \in Nat
  BY <1>1, <1>3, <1>4, ReadRange, Unsigned16Facts
<1>6. U16 * U2(bytes, c) \in Nat
  BY <1>5, U16Times
<1> QED BY <1>5, <1>6 DEF U4

\* A slice within the bytes.
LEMMA SliceIsBytes ==
    ASSUME contents \in Seq(Byte), NEW from \in Nat, NEW length \in Nat, from + length <= Len(contents)
    PROVE  Slice(from, length) \in Seq(Byte)
<1>1. Len(contents) \in Nat
  OBVIOUS
<1>2. \A i \in (from + 1)..(from + length) : contents[i] \in Byte
  <2> SUFFICES ASSUME NEW i \in (from + 1)..(from + length) PROVE contents[i] \in Byte
    OBVIOUS
  <2>1. i \in 1..Len(contents)
    BY <1>1
  <2> QED BY <2>1
<1> QED BY <1>2, SubSeqProperties, from + 1 \in Int, from + length \in Int DEF Slice

\* The first attribute of a name has bytes.
LEMMA NamedBytes ==
    ASSUME CodeTypeOK, NEW wanted, Named(wanted) # <<>>
    PROVE  Named(wanted)[1] \in Seq(Byte)
<1> DEFINE found == {i \in DOMAIN parsed.attributes : parsed.attributes[i].name = wanted}
           first == CHOOSE i \in found : \A j \in found : i <= j
<1>1. parsed.attributes \in Seq(Parts)
  BY DEF CodeTypeOK
<1>2. DOMAIN parsed.attributes = 1..Len(parsed.attributes) /\ Len(parsed.attributes) \in Nat
  BY <1>1
<1>3. found \in SUBSET Nat
  BY <1>2
<1>4. found # {} /\ Named(wanted) = <<parsed.attributes[first].data>>
  BY DEF Named
<1>5. \E i \in found : \A j \in found : i <= j
  <2> HIDE DEF found
  <2> QED BY <1>3, <1>4, LeastElement
<1>6. first \in found
  <2> HIDE DEF found
  <2> QED BY <1>5
<1>7. parsed.attributes[first] \in Parts
  <2>1. \A i \in found : i \in 1..Len(parsed.attributes)
    BY <1>2
  <2> HIDE DEF first, found
  <2> QED BY <1>1, <1>6, <2>1
<1>8. parsed.attributes[first].data \in Seq(Byte)
  <2> HIDE DEF first
  <2> QED BY <1>7 DEF Parts
<1> HIDE DEF first
<1> QED BY <1>4, <1>8

LEMMA SameNames == ASSUME UNCHANGED parsed PROVE \A wanted : Named(wanted)' = Named(wanted)
BY DEF Named

\* The rows there are bytes for.
LEMMA RowsPresent ==
    ASSUME NEW bytes \in Seq(Byte), Len(bytes) >= 2, NEW fields \in Nat, fields > 0
    PROVE  /\ IsSeq(RowsOf(bytes, fields)) /\ Len(RowsOf(bytes, fields)) = Present(bytes, fields)
           /\ Present(bytes, fields) \in Nat /\ U2(bytes, StartOf) \in Nat
           /\ Present(bytes, fields) <= U2(bytes, StartOf)
           /\ \A i \in 1..Present(bytes, fields) :
                  RowsOf(bytes, fields)[i] = Row(bytes, 2 + 2 * fields * (i - 1), fields)
           /\ Present(bytes, fields) < U2(bytes, StartOf)
                  => Present(bytes, fields) = (Len(bytes) - 2) \div (2 * fields)
<1> DEFINE n == Present(bytes, fields)
           q == (Len(bytes) - 2) \div (2 * fields)
           R(i) == Row(bytes, 2 + 2 * fields * (i - 1), fields)
<1>1. U2(bytes, StartOf) \in Nat
  <2>1. StartOf \in Cursor /\ Need(bytes, StartOf, 2)
    BY DEF StartOf, Cursor, Need
  <2> QED BY <2>1, ReadRange, Unsigned16Facts
<1>2. q \in Nat
  <2>1. Len(bytes) - 2 \in Nat /\ 2 * fields \in Nat /\ 2 * fields > 0
    OBVIOUS
  <2> QED BY <2>1
<1>3. n = IF q < U2(bytes, StartOf) THEN q ELSE U2(bytes, StartOf)
  BY DEF Present
<1> HIDE DEF q
<1>4. n \in Nat /\ n <= U2(bytes, StartOf) /\ (n < U2(bytes, StartOf) => n = q)
  BY <1>1, <1>2, <1>3
<1>5. RowsOf(bytes, fields) = [i \in 1..n |-> R(i)]
  BY DEF RowsOf
<1> HIDE DEF n, R
<1>6. RowsOf(bytes, fields) \in Seq({R(i) : i \in 1..n}) /\ Len(RowsOf(bytes, fields)) = n
  BY <1>4, <1>5
<1>7. \A i \in 1..n : RowsOf(bytes, fields)[i] = R(i)
  BY <1>5
<1> QED BY <1>1, <1>4, <1>6, <1>7 DEF IsSeq, n, R, q
-----------------------------------------------------------------------------
\* A step of Code::parse prints nothing and hands nothing to the parser of
\* frames.
LEMMA ParsingKeepsCode ==
    ASSUME CodeInv, UNCHANGED <<vars, printed>>, CodeTypeOK',
           stage \in Parsing, stage' \in Parsing \cup {"malformed"}
    PROVE  CodeInv'
<1>1. FramesInv' /\ CountIsKept'
  <2>1. UNCHANGED vars
    OBVIOUS
  <2> QED BY <2>1, FramesInductive, CountStaysKept DEF CodeInv
<1>2. printed = <<>> /\ printed' = <<>> /\ outcome' = "start"
  BY DEF CodeInv, PrintedInTurn, FramesInTurn, Parsing, vars
<1>3. \A table : Under(table)' = {}
  <2>1. \A table : Under(table) = {}
    BY <1>2, NothingUnder
  <2> QED BY <1>2, <2>1 DEF Under
<1>4. stage' \notin {"frames", "done"}
  BY DEF Parsing
<1>5. FramesInTurn'
  BY <1>2, <1>4 DEF FramesInTurn
<1>6. PrintedInTurn'
  BY <1>2, <1>3, <1>4 DEF PrintedInTurn
<1>7. TablesInv'
  BY <1>3 DEF TablesInv, LocalsWhole, FramesWhole, LinesCut
<1> QED BY <1>1, <1>5, <1>6, <1>7 DEF CodeInv

\* An error of the reader.
LEMMA MalformedKeepsCode == CodeInv /\ stage \in Parsing /\ Malformed => CodeInv'
<1> SUFFICES ASSUME CodeInv, stage \in Parsing, Malformed PROVE CodeInv'
  OBVIOUS
<1>1. UNCHANGED <<vars, contents, place, owed, parsed, printed>> /\ stage' = "malformed"
  BY DEF Malformed
<1>2. ExceptionRows' = ExceptionRows
  BY <1>1 DEF ExceptionRows, Row, U2
<1>3. CodeTypeOK'
  BY <1>1, <1>2 DEF CodeInv, CodeTypeOK
<1> QED BY <1>1, <1>3, ParsingKeepsCode

\* A read that fits.
LEMMA ReadingMoves ==
    ASSUME CodeTypeOK, NEW part, NEW width \in Nat, Reading(part, width)
    PROVE  Inside(contents, place') /\ place.pos \in Nat /\ place.pos + width <= Len(contents)
           /\ place \in Cursor /\ Need(contents, place, width)
<1>1. contents \in Seq(Byte) /\ place \in Cursor /\ place.pos <= Len(contents)
  BY DEF CodeTypeOK, Inside
<1>2. Need(contents, place, width) /\ place' = After(contents, place, width)
  BY DEF Reading, Reads
<1>3. Inside(contents, place')
  BY <1>1, <1>2, AfterInside
<1>4. place.pos \in Nat /\ Len(contents) \in Nat
  BY <1>1 DEF Cursor
<1> QED BY <1>1, <1>2, <1>3, <1>4 DEF Need

LEMMA ReadCodeHolds == CodeInv /\ ReadCode => CodeInv'
<1> SUFFICES ASSUME CodeInv, ReadCode PROVE CodeInv'
  OBVIOUS
<1>1. stage = "head" /\ stage \in Parsing
  BY DEF ReadCode, TooShort, Parsing
<1>2. CASE Malformed
  BY <1>1, <1>2, MalformedKeepsCode
<1>3. CASE ~Malformed
  <2>1. /\ Reads(8) /\ Reading("head", 8 + CodeLength) /\ stage' = "exceptionCount"
        /\ parsed' = [parsed EXCEPT !.bytes = Slice(place.pos + 8, CodeLength)]
        /\ UNCHANGED <<vars, contents, owed, printed>>
    BY <1>3 DEF ReadCode, TooShort
  <2>2. CodeTypeOK /\ contents \in Seq(Byte) /\ place \in Cursor /\ place.ok
        /\ place.pos \in Nat /\ Len(contents) \in Nat
    BY DEF CodeInv, CodeTypeOK, Inside, Cursor
  <2>3. CodeLength \in Nat
    <3>1. Need(contents, place, 4) /\ place.pos + 8 <= Len(contents)
      BY <2>1, <2>2 DEF Reads, Need
    <3>2. After(contents, place, 4) = [place EXCEPT !.pos = place.pos + 4]
      BY <3>1 DEF After
    <3>3. After(contents, place, 4) \in Cursor /\ Need(contents, After(contents, place, 4), 4)
      BY <2>2, <3>1, <3>2 DEF Cursor, Need
    <3> QED BY <2>2, <3>3, FourBytes DEF CodeLength
  <2>4. 8 + CodeLength \in Nat
    BY <2>3
  <2>5. Inside(contents, place') /\ place.pos + (8 + CodeLength) <= Len(contents)
    BY <2>1, <2>2, <2>4, ReadingMoves
  <2>6. Slice(place.pos + 8, CodeLength) \in Seq(Byte)
    <3>1. place.pos + 8 \in Nat /\ (place.pos + 8) + CodeLength <= Len(contents)
      BY <2>2, <2>3, <2>5
    <3> QED BY <2>2, <2>3, <3>1, SliceIsBytes
  <2>7. ExceptionRows' = ExceptionRows
    BY <2>1 DEF ExceptionRows, Row, U2
  <2>8. parsed' \in [bytes : Seq(Byte), exceptions : Seq(ExceptionRows), attributes : Seq(Parts)]
    <3> DEFINE bytes == Slice(place.pos + 8, CodeLength)
    <3>1. parsed \in [bytes : Seq(Byte), exceptions : Seq(ExceptionRows), attributes : Seq(Parts)]
      BY <2>2 DEF CodeTypeOK
    <3>2. bytes \in Seq(Byte) /\ parsed' = [parsed EXCEPT !.bytes = bytes]
      BY <2>1, <2>6
    <3> HIDE DEF bytes
    <3> QED BY <3>1, <3>2
  <2>9. CodeTypeOK'
    BY <2>1, <2>2, <2>5, <2>7, <2>8 DEF CodeTypeOK, Parsing, Parts
  <2> QED BY <1>1, <2>1, <2>9, ParsingKeepsCode DEF Parsing
<1> QED BY <1>2, <1>3

\* A count, before a list.
LEMMA ReadListCountHolds ==
    ASSUME CodeInv, NEW part \in Parsing, NEW next \in Parsing, ReadListCount(part, next)
    PROVE  CodeInv'
<1>1. stage \in Parsing
  BY DEF ReadListCount, TooShort, Reading
<1>2. CASE Malformed
  BY <1>1, <1>2, MalformedKeepsCode
<1>3. CASE ~Malformed
  <2>1. Reading(part, 2) /\ stage' = next /\ UNCHANGED <<vars, contents, parsed, printed>>
    BY <1>3 DEF ReadListCount, TooShort
  <2>2. Inside(contents, place')
    BY <2>1, ReadingMoves DEF CodeInv
  <2>3. ExceptionRows' = ExceptionRows
    BY <2>1 DEF ExceptionRows, Row, U2
  <2>4. CodeTypeOK'
    BY <2>1, <2>2, <2>3 DEF CodeInv, CodeTypeOK, Parts
  <2> QED BY <1>1, <2>1, <2>4, ParsingKeepsCode
<1> QED BY <1>2, <1>3

LEMMA ReadExceptionHolds == CodeInv /\ ReadException => CodeInv'
<1> SUFFICES ASSUME CodeInv, ReadException PROVE CodeInv'
  OBVIOUS
<1>1. stage = "exceptions" /\ stage \in Parsing
  BY DEF ReadException, TooShort, Reading, Parsing
<1>2. CASE Malformed
  BY <1>1, <1>2, MalformedKeepsCode
<1>3. CASE ~Malformed
  <2> DEFINE row_ == Row(contents, place.pos, Exceptional)
  <2>1. /\ Reading("exceptions", 2 * Exceptional)
        /\ parsed' = [parsed EXCEPT !.exceptions = Append(parsed.exceptions, row_)]
        /\ UNCHANGED <<vars, contents, stage, printed>>
    BY <1>3 DEF ReadException, TooShort
  <2>2. Inside(contents, place') /\ place.pos \in Nat
    <3>1. 2 * Exceptional \in Nat
      BY DEF Exceptional
    <3> QED BY <2>1, <3>1, ReadingMoves DEF CodeInv
  <2>3. row_ \in ExceptionRows
    BY <2>2 DEF ExceptionRows
  <2>4. ExceptionRows' = ExceptionRows
    BY <2>1 DEF ExceptionRows, Row, U2
  <2>5. parsed' \in [bytes : Seq(Byte), exceptions : Seq(ExceptionRows), attributes : Seq(Parts)]
    <3> HIDE DEF row_
    <3>1. parsed \in [bytes : Seq(Byte), exceptions : Seq(ExceptionRows), attributes : Seq(Parts)]
      BY DEF CodeInv, CodeTypeOK
    <3>2. Append(parsed.exceptions, row_) \in Seq(ExceptionRows)
      BY <2>3, <3>1
    <3> QED BY <2>1, <3>1, <3>2
  <2>6. CodeTypeOK'
    BY <2>1, <2>2, <2>4, <2>5 DEF CodeInv, CodeTypeOK, Parts
  <2> QED BY <1>1, <2>1, <2>6, ParsingKeepsCode
<1> QED BY <1>2, <1>3

LEMMA ReadAttributeHolds == CodeInv /\ ReadAttribute => CodeInv'
<1> SUFFICES ASSUME CodeInv, ReadAttribute PROVE CodeInv'
  OBVIOUS
<1>1. stage = "attributes" /\ stage \in Parsing
  BY DEF ReadAttribute, TooShort, Reading, Parsing
<1>2. CASE Malformed
  BY <1>1, <1>2, MalformedKeepsCode
<1>3. CASE ~Malformed
  <2> DEFINE part == [name |-> NameOf[U2(contents, place)],
                      data |-> Slice(place.pos + 6, AttributeLength)]
  <2>1. /\ Reads(6) /\ Reading("attributes", 6 + AttributeLength)
        /\ parsed' = [parsed EXCEPT !.attributes = Append(parsed.attributes, part)]
        /\ UNCHANGED <<vars, contents, stage, printed>>
    BY <1>3 DEF ReadAttribute, TooShort
  <2>2. CodeTypeOK /\ contents \in Seq(Byte) /\ place \in Cursor /\ place.ok
        /\ place.pos \in Nat /\ Len(contents) \in Nat
    BY DEF CodeInv, CodeTypeOK, Inside, Cursor
  <2>3. AttributeLength \in Nat /\ U2(contents, place) \in Unsigned16
    <3>1. Need(contents, place, 2) /\ place.pos + 6 <= Len(contents)
      BY <2>1, <2>2 DEF Reads, Need
    <3>2. After(contents, place, 2) = [place EXCEPT !.pos = place.pos + 2]
      BY <3>1 DEF After
    <3>3. After(contents, place, 2) \in Cursor /\ Need(contents, After(contents, place, 2), 4)
      BY <2>2, <3>1, <3>2 DEF Cursor, Need
    <3> QED BY <2>2, <3>1, <3>3, FourBytes, ReadRange DEF AttributeLength
  <2>4. 6 + AttributeLength \in Nat
    BY <2>3
  <2>5. Inside(contents, place') /\ place.pos + (6 + AttributeLength) <= Len(contents)
    BY <2>1, <2>2, <2>4, ReadingMoves
  <2>6. part \in Parts
    <3>1. place.pos + 6 \in Nat /\ (place.pos + 6) + AttributeLength <= Len(contents)
      BY <2>2, <2>3, <2>5
    <3>2. Slice(place.pos + 6, AttributeLength) \in Seq(Byte)
      BY <2>2, <2>3, <3>1, SliceIsBytes
    <3> QED BY <2>3, <3>2 DEF Parts
  <2>7. ExceptionRows' = ExceptionRows
    BY <2>1 DEF ExceptionRows, Row, U2
  <2>8. parsed' \in [bytes : Seq(Byte), exceptions : Seq(ExceptionRows), attributes : Seq(Parts)]
    <3> HIDE DEF part
    <3>1. parsed \in [bytes : Seq(Byte), exceptions : Seq(ExceptionRows), attributes : Seq(Parts)]
      BY DEF CodeInv, CodeTypeOK
    <3>2. Append(parsed.attributes, part) \in Seq(Parts)
      BY <2>6, <3>1
    <3> QED BY <2>1, <3>1, <3>2
  <2>9. CodeTypeOK'
    BY <2>1, <2>2, <2>5, <2>7, <2>8 DEF CodeTypeOK, Parts
  <2> QED BY <1>1, <2>1, <2>9, ParsingKeepsCode
<1> QED BY <1>2, <1>3

LEMMA EndOfListHolds == CodeInv /\ EndOfList => CodeInv'
<1> SUFFICES ASSUME CodeInv, EndOfList PROVE CodeInv'
  OBVIOUS
<1>1. /\ stage \in Parsing /\ stage' \in Parsing
      /\ UNCHANGED <<vars, contents, place, owed, parsed, printed>>
  BY DEF EndOfList, Parsing
<1>2. ExceptionRows' = ExceptionRows
  BY <1>1 DEF ExceptionRows, Row, U2
<1>3. CodeTypeOK'
  BY <1>1, <1>2 DEF CodeInv, CodeTypeOK, Parts
<1> QED BY <1>1, <1>3, ParsingKeepsCode
-----------------------------------------------------------------------------
\* Nothing behind what is printed.
LEMMA NothingPrinted == ASSUME IsSeq(printed), printed' = printed \o <<>> PROVE printed' = printed
<1>1. PICK S : printed \in Seq(S)
  BY DEF IsSeq
<1> QED BY <1>1

\* A line that was printed stays, and so does what it shows.
LEMMA PrintedStands ==
    ASSUME UNCHANGED parsed, \A i \in DOMAIN printed : printed'[i] = printed[i] /\ i \in DOMAIN printed'
    PROVE  /\ LocalsWhole /\ Under("locals")' = Under("locals") => LocalsWhole'
           /\ FramesWhole /\ Under("frames")' = Under("frames") => FramesWhole'
           /\ LinesCut /\ Under("lines")' = Under("lines") => LinesCut'
<1>1. \A wanted : Named(wanted)' = Named(wanted)
  BY SameNames
<1>2. ASSUME NEW table, NEW bytes, WholeTable(table, bytes), Under(table)' = Under(table)
      PROVE  Len(bytes) >= 2 /\ \E h \in DOMAIN printed' : Under(table)' = h..(h + U2(bytes, StartOf))
  BY <1>2 DEF WholeTable, Block
<1>3. LocalsWhole /\ Under("locals")' = Under("locals") => LocalsWhole'
  BY <1>1, <1>2 DEF LocalsWhole, WholeTable, Block
<1>4. FramesWhole /\ Under("frames")' = Under("frames") => FramesWhole'
  BY <1>1, <1>2 DEF FramesWhole, WholeTable, Block
<1>5. ASSUME LinesCut, Under("lines")' = Under("lines"), Under("lines")' # {} PROVE LinesOf(Named("LineNumberTable")[1])'
  <2> DEFINE table == Named("LineNumberTable")[1]
  <2>1. LinesOf(table)
    BY <1>5 DEF LinesCut
  <2>2. PICK rows \in 0..U2(table, StartOf), h \in DOMAIN printed :
          /\ Under("lines") = h..(h + rows)
          /\ \A i \in 1..rows : \A n \in 1..Line :
                 printed[h + i].row[n] = 256 * table[4 * i + 2 * n - 3] + table[4 * i + 2 * n - 2]
          /\ rows < U2(table, StartOf) => Len(table) - 2 - 4 * rows < 4
    BY <2>1 DEF LinesOf
  <2>3. ASSUME NEW i \in 1..rows PROVE printed'[h + i] = printed[h + i]
    <3>1. h \in h..(h + rows) /\ h \in Int
      BY <1>5, <2>2
    <3>2. h + i \in h..(h + rows)
      BY <3>1
    <3>3. h + i \in DOMAIN printed
      BY <2>2, <3>2 DEF Under
    <3> QED BY <3>3
  <2>4. h \in DOMAIN printed' /\ table' = table
    BY <1>1, <2>2
  <2>5. \A i \in 1..rows : \A n \in 1..Line :
             printed'[h + i].row[n] = 256 * table[4 * i + 2 * n - 3] + table[4 * i + 2 * n - 2]
    BY <2>2, <2>3
  <2> HIDE DEF table
  <2>6. LinesOf(table)'
    BY <1>5, <2>2, <2>4, <2>5 DEF LinesOf, U2
  <2> QED BY <2>6 DEF table
<1> QED BY <1>3, <1>4, <1>5 DEF LinesCut

\* What is left to show of a step that prints.
LEMMA PrintingKeepsCode ==
    ASSUME CodeInv, UNCHANGED <<vars, contents, place, owed, parsed>>,
           stage' \in Printing, IsSeq(printed'), FramesInTurn', PrintedInTurn', TablesInv'
    PROVE  CodeInv'
<1>1. FramesInv' /\ CountIsKept'
  <2>1. UNCHANGED vars
    OBVIOUS
  <2> QED BY <2>1, FramesInductive, CountStaysKept DEF CodeInv
<1>2. ExceptionRows' = ExceptionRows
  BY DEF ExceptionRows, Row, U2
<1>3. CodeTypeOK'
  BY <1>2 DEF CodeInv, CodeTypeOK, Parts
<1> QED BY <1>1, <1>3 DEF CodeInv

LEMMA PrintExceptionsHolds == CodeInv /\ PrintExceptions => CodeInv'
<1> SUFFICES ASSUME CodeInv, PrintExceptions PROVE CodeInv'
  OBVIOUS
<1>1. /\ stage = "printExceptions" /\ stage' = "printLocals"
      /\ UNCHANGED <<vars, contents, place, owed, parsed>>
      /\ printed' = printed \o (IF parsed.exceptions = <<>> THEN <<>>
           ELSE <<Heading("exceptions")>> \o Rows("exceptions", parsed.exceptions))
  BY DEF PrintExceptions, Prints
<1>2. IsSeq(printed) /\ parsed.exceptions \in Seq(ExceptionRows)
  BY DEF CodeInv, CodeTypeOK
<1>3. printed = <<>> /\ \A u : Under(u) = {}
  BY <1>1, NothingUnder DEF CodeInv, PrintedInTurn, Parsing
<1>4. IsSeq(printed') /\ \A u : u # "exceptions" => Under(u)' = {}
  <2>1. CASE parsed.exceptions = <<>>
    <3>1. printed' = printed
      BY <1>1, <1>2, <2>1, NothingPrinted
    <3> QED BY <1>2, <1>3, <3>1 DEF Under
  <2>2. CASE parsed.exceptions # <<>>
    <3>1. IsSeq(parsed.exceptions)
      BY <1>2 DEF IsSeq
    <3>2. PrintsBlock("exceptions", parsed.exceptions)
      BY <1>1, <2>2 DEF PrintsBlock, BlockOf
    <3>3. IsSeq(printed') /\ \A u : u # "exceptions" => Under(u)' = Under(u)
      BY <1>2, <3>1, <3>2, BlockPrinted
    <3> QED BY <1>3, <3>3
  <2> QED BY <2>1, <2>2
<1>5. FramesInTurn'
  BY <1>1 DEF CodeInv, FramesInTurn, vars
<1>6. PrintedInTurn'
  BY <1>1, <1>4 DEF PrintedInTurn, Parsing
<1>7. TablesInv'
  BY <1>4 DEF TablesInv, LocalsWhole, FramesWhole, LinesCut
<1> QED BY <1>1, <1>4, <1>5, <1>6, <1>7, PrintingKeepsCode DEF Printing

\* emit_locals prints all of the table or nothing.
LEMMA PrintLocalsHolds == CodeInv /\ PrintLocals => CodeInv'
<1> SUFFICES ASSUME CodeInv, PrintLocals PROVE CodeInv'
  OBVIOUS
<1> DEFINE table == Named("LocalVariableTable")
           rows == RowsOf(table[1], Local)
           shown == [i \in DOMAIN rows |-> LocalLine(rows[i])]
           nothing == table = <<>> \/ ~Whole(table[1], Local)
<1>1. /\ stage = "printLocals" /\ stage' = "printLines"
      /\ UNCHANGED <<vars, contents, place, owed, parsed>>
      /\ printed' = printed \o (IF nothing THEN <<>> ELSE <<Heading("locals")>> \o Rows("locals", shown))
  BY DEF PrintLocals, Prints
<1>2. IsSeq(printed) /\ CodeTypeOK
  BY DEF CodeInv, CodeTypeOK
<1>3. Under("locals") = {} /\ Under("lines") = {} /\ Under("frames") = {}
  BY <1>1 DEF CodeInv, PrintedInTurn
<1>4. /\ IsSeq(printed') /\ Under("lines")' = {} /\ Under("frames")' = {} /\ LocalsWhole'
  <2>1. CASE nothing
    <3>1. printed' = printed
      BY <1>1, <1>2, <2>1, NothingPrinted
    <3> QED BY <1>2, <1>3, <3>1 DEF Under, LocalsWhole
  <2>2. CASE ~nothing
    <3>1. table # <<>> /\ Whole(table[1], Local)
      BY <2>2
    <3>2. table[1] \in Seq(Byte) /\ Len(table[1]) >= 2
      BY <1>2, <3>1, NamedBytes DEF Whole
    <3>3. /\ IsSeq(rows) /\ Len(rows) = U2(table[1], StartOf) /\ Len(rows) \in Nat
      <4>1. Local \in Nat /\ Local > 0
        BY DEF Local
      <4> QED BY <3>1, <3>2, <4>1, RowsPresent DEF Whole
    <3>4. IsSeq(shown) /\ Len(shown) = Len(rows)
      <4> DEFINE L(i) == LocalLine(rows[i])
      <4>1. DOMAIN rows = 1..Len(rows)
        <5> HIDE DEF rows
        <5> QED BY <3>3 DEF IsSeq
      <4> HIDE DEF L, rows
      <4>2. [i \in DOMAIN rows |-> L(i)] \in Seq({L(i) : i \in DOMAIN rows})
            /\ Len([i \in DOMAIN rows |-> L(i)]) = Len(rows)
        BY <3>3, <4>1
      <4> QED BY <4>2 DEF IsSeq, L
    <3>5. PrintsBlock("locals", shown)
      BY <1>1, <2>2 DEF PrintsBlock, BlockOf
    <3> HIDE DEF shown, rows
    <3>6. PICK h \in DOMAIN printed' : Under("locals")' = Under("locals") \cup h..(h + Len(shown))
      BY <1>2, <3>4, <3>5, BlockPrinted
    <3>7. IsSeq(printed') /\ \A u : u # "locals" => Under(u)' = Under(u)
      BY <1>2, <3>4, <3>5, BlockPrinted
    <3>8. Under("locals")' = h..(h + U2(table[1], StartOf)) /\ table' = table
      <4>1. table' = table
        BY <1>1, SameNames
      <4> QED BY <1>3, <3>3, <3>4, <3>6, <4>1
    <3>9. LocalsWhole'
      BY <3>2, <3>6, <3>8 DEF LocalsWhole, WholeTable, Block
    <3> QED BY <1>3, <3>7, <3>9
  <2> QED BY <2>1, <2>2
<1>5. FramesInTurn'
  BY <1>1 DEF CodeInv, FramesInTurn, vars
<1>6. PrintedInTurn'
  BY <1>1, <1>4 DEF PrintedInTurn, Parsing
<1>7. TablesInv'
  BY <1>4 DEF TablesInv, FramesWhole, LinesCut
<1> QED BY <1>1, <1>4, <1>5, <1>6, <1>7, PrintingKeepsCode DEF Printing

\* A row of line numbers is four bytes, two by two.
LEMMA LineBytes ==
    ASSUME NEW bytes, NEW i \in Nat, NEW n \in 1..Line
    PROVE  Row(bytes, 2 + 2 * Line * (i - 1), Line)[n]
             = 256 * bytes[4 * i + 2 * n - 3] + bytes[4 * i + 2 * n - 2]
<1> DEFINE p == 2 + 2 * Line * (i - 1) + 2 * (n - 1)
<1>1. Row(bytes, 2 + 2 * Line * (i - 1), Line)[n] = U2(bytes, [StartOf EXCEPT !.pos = p])
  BY DEF Row
<1>2. p = 4 * i + 2 * n - 4 /\ p \in Int
  BY DEF Line
<1> HIDE DEF p
<1>3. [StartOf EXCEPT !.pos = p].pos = p
  BY DEF StartOf
<1>4. p + 1 = 4 * i + 2 * n - 3 /\ p + 2 = 4 * i + 2 * n - 2
  BY <1>2 DEF Line
<1> QED BY <1>1, <1>3, <1>4 DEF U2

\* emit_line_numbers prints the rows there are bytes for.
LEMMA PrintLinesHolds == CodeInv /\ PrintLines => CodeInv'
<1> SUFFICES ASSUME CodeInv, PrintLines PROVE CodeInv'
  OBVIOUS
<1> DEFINE found == Named("LineNumberTable")
           table == found[1]
           rows == RowsOf(table, Line)
           nothing == found = <<>> \/ Len(table) < 2
<1>1. /\ stage = "printLines" /\ stage' = "findFrames"
      /\ UNCHANGED <<vars, contents, place, owed, parsed>>
      /\ printed' = printed \o (IF nothing THEN <<>> ELSE <<Heading("lines")>> \o Rows("lines", rows))
  BY DEF PrintLines, Prints
<1>2. IsSeq(printed) /\ CodeTypeOK
  BY DEF CodeInv, CodeTypeOK
<1>3. Under("lines") = {} /\ Under("frames") = {} /\ LocalsWhole
  BY <1>1 DEF CodeInv, PrintedInTurn, TablesInv
<1>4. /\ IsSeq(printed') /\ Under("frames")' = {} /\ LocalsWhole' /\ LinesCut'
  <2>1. CASE nothing
    <3>1. printed' = printed
      BY <1>1, <1>2, <2>1, NothingPrinted
    <3>2. Under("frames")' = {} /\ Under("lines")' = {} /\ Under("locals")' = Under("locals")
      BY <1>3, <3>1 DEF Under
    <3>3. LocalsWhole'
      BY <1>1, <1>3, <3>1, <3>2, PrintedStands
    <3> QED BY <1>2, <3>1, <3>2, <3>3 DEF LinesCut
  <2>2. CASE ~nothing
    <3>1. found # <<>> /\ Len(table) >= 2 /\ table \in Seq(Byte) /\ Len(table) \in Nat
      <4>1. found # <<>>
        BY <2>2
      <4>2. table \in Seq(Byte)
        BY <1>2, <4>1, NamedBytes
      <4> QED BY <2>2, <4>1, <4>2
    <3> DEFINE n == Present(table, Line)
    <3>2. /\ IsSeq(rows) /\ Len(rows) = n /\ n \in Nat /\ U2(table, StartOf) \in Nat
          /\ n <= U2(table, StartOf)
          /\ \A i \in 1..n : rows[i] = Row(table, 2 + 2 * Line * (i - 1), Line)
          /\ n < U2(table, StartOf) => n = (Len(table) - 2) \div (2 * Line)
      <4>1. Line \in Nat /\ Line > 0
        BY DEF Line
      <4> QED BY <3>1, <4>1, RowsPresent
    <3>3. PrintsBlock("lines", rows)
      BY <1>1, <2>2 DEF PrintsBlock, BlockOf
    <3> HIDE DEF rows
    <3>4. PICK h \in DOMAIN printed' :
            /\ Under("lines")' = Under("lines") \cup h..(h + Len(rows))
            /\ \A i \in 1..Len(rows) : printed'[h + i].row = rows[i]
      BY <1>2, <3>2, <3>3, BlockPrinted
    <3>5. /\ IsSeq(printed') /\ \A u : u # "lines" => Under(u)' = Under(u)
          /\ \A i \in DOMAIN printed : printed'[i] = printed[i] /\ i \in DOMAIN printed'
      BY <1>2, <3>2, <3>3, BlockPrinted
    <3>6. LocalsWhole' /\ Under("frames")' = {}
      BY <1>1, <1>3, <3>5, PrintedStands
    <3>7. found' = found
      BY <1>1, SameNames
    <3>8. n < U2(table, StartOf) => Len(table) - 2 - 4 * n < 4
      <4>1. n = (Len(table) - 2) \div (2 * Line) => Len(table) - 2 - 4 * n < 4
        <5> HIDE DEF n
        <5>1. \A m \in Nat : m - 4 * (m \div 4) < 4
          OBVIOUS
        <5>2. Len(table) - 2 \in Nat /\ 2 * Line = 4
          BY <3>1 DEF Line
        <5> QED BY <5>1, <5>2
      <4> QED BY <3>2, <4>1
    <3>9. \A i \in 1..n : \A k \in 1..Line :
             printed'[h + i].row[k] = 256 * table[4 * i + 2 * k - 3] + table[4 * i + 2 * k - 2]
      <4> SUFFICES ASSUME NEW i \in 1..n, NEW k \in 1..Line
                   PROVE  printed'[h + i].row[k] = 256 * table[4 * i + 2 * k - 3] + table[4 * i + 2 * k - 2]
        OBVIOUS
      <4>1. printed'[h + i].row = Row(table, 2 + 2 * Line * (i - 1), Line) /\ i \in Nat
        BY <3>2, <3>4
      <4> HIDE DEF table, n
      <4> QED BY <4>1, LineBytes
    <3>10. n \in 0..U2(table, StartOf) /\ Under("lines")' = h..(h + n)
      <4>1. Under("lines")' = h..(h + Len(rows)) /\ Len(rows) = n
        BY <1>3, <3>2, <3>4
      <4> HIDE DEF n, table
      <4> QED BY <3>2, <4>1
    <3>11. LinesOf(table)'
      <4>1. table' = table
        BY <3>7
      <4> HIDE DEF table, n
      <4> QED BY <3>4, <3>8, <3>9, <3>10, <4>1 DEF LinesOf, U2
    <3> QED BY <3>5, <3>6, <3>11 DEF LinesCut
  <2> QED BY <2>1, <2>2
<1>5. FramesInTurn'
  BY <1>1 DEF CodeInv, FramesInTurn, vars
<1>6. PrintedInTurn'
  BY <1>1, <1>4 DEF PrintedInTurn, Parsing
<1>7. TablesInv'
  BY <1>4 DEF TablesInv, FramesWhole
<1> QED BY <1>1, <1>4, <1>5, <1>6, <1>7, PrintingKeepsCode DEF Printing
-----------------------------------------------------------------------------
\* The parser of frames is given the bytes of the first stack map.
LEMMA FindFramesHolds == CodeInv /\ FindFrames => CodeInv'
<1> SUFFICES ASSUME CodeInv, FindFrames PROVE CodeInv'
  OBVIOUS
<1> DEFINE found == Named("StackMapTable")
<1>1. /\ stage = "findFrames"
      /\ UNCHANGED <<cursor, left, frame, lists, types, frames, outcome,
                     contents, place, owed, parsed, printed>>
      /\ \/ found = <<>> /\ stage' = "done" /\ UNCHANGED data
         \/ found # <<>> /\ stage' = "frames" /\ data' = found[1]
  BY DEF FindFrames
<1>2. outcome = "start" /\ cursor = StartOf /\ frames = <<>> /\ frame = NoFrame
  BY <1>1 DEF CodeInv, FramesInTurn, FramesInv, NothingYet
<1>3. data' \in Seq(Byte)
  BY <1>1, NamedBytes DEF CodeInv, FramesInv, TypeOK
<1>4. TypeOK'
  <2>1. cursor'.pos = 0 /\ 0 <= Len(data')
    BY <1>1, <1>2, <1>3 DEF StartOf
  <2> QED BY <1>1, <1>3, <2>1 DEF CodeInv, FramesInv, TypeOK
<1>5. FramesInv' /\ CountIsKept'
  BY <1>1, <1>2, <1>4 DEF CodeInv, FramesInv, OffsetsAscend, OffsetsNeverWrap, FrameIsOwed, NothingYet,
                          CountIsKept
<1>6. ExceptionRows' = ExceptionRows
  BY <1>1 DEF ExceptionRows, Row, U2
<1>7. CodeTypeOK'
  BY <1>1, <1>6 DEF CodeInv, CodeTypeOK, Parts, Printing
<1>8. FramesInTurn'
  <2>1. found' = found
    BY <1>1, SameNames
  <2> QED BY <1>1, <1>2, <2>1 DEF FramesInTurn
<1>9. \A u : Under(u)' = Under(u)
  BY <1>1 DEF Under
<1>10. PrintedInTurn'
  BY <1>1, <1>9 DEF CodeInv, PrintedInTurn, Parsing
<1>11. TablesInv'
  BY <1>1, <1>9, PrintedStands DEF CodeInv, TablesInv
<1> QED BY <1>5, <1>7, <1>8, <1>10, <1>11 DEF CodeInv

\* A step of the parser of frames is one of StackMap.
LEMMA ReadFramesHolds == CodeInv /\ ReadFrames => CodeInv'
<1> SUFFICES ASSUME CodeInv, ReadFrames PROVE CodeInv'
  OBVIOUS
<1>1. stage = "frames" /\ Next /\ UNCHANGED <<contents, place, stage, owed, parsed, printed>>
  BY DEF ReadFrames
<1>2. FramesInv' /\ CountIsKept'
  BY <1>1, FramesInductive, CountStaysKept DEF CodeInv
<1>3. UNCHANGED data
  BY <1>1 DEF Next, ReadCount, ReadFrame, WrappedFrame, BaseFrame, ReadType, ReadTypeCount, KeepFrame,
              Finish, Refuse
<1>4. ExceptionRows' = ExceptionRows
  BY <1>1 DEF ExceptionRows, Row, U2
<1>5. CodeTypeOK'
  BY <1>1, <1>4 DEF CodeInv, CodeTypeOK, Parts
<1>6. FramesInTurn'
  <2>1. Named("StackMapTable")' = Named("StackMapTable")
    BY <1>1, SameNames
  <2> QED BY <1>1, <1>3, <2>1 DEF CodeInv, FramesInTurn
<1>7. \A u : Under(u)' = Under(u)
  BY <1>1 DEF Under
<1>8. PrintedInTurn'
  BY <1>1, <1>7 DEF CodeInv, PrintedInTurn
<1>9. TablesInv'
  BY <1>1, <1>7, PrintedStands DEF CodeInv, TablesInv
<1> QED BY <1>2, <1>5, <1>6, <1>8, <1>9 DEF CodeInv

\* emit_stack_map prints all of the frames, or a remark.
LEMMA PrintFramesHolds == CodeInv /\ PrintFrames => CodeInv'
<1> SUFFICES ASSUME CodeInv, PrintFrames PROVE CodeInv'
  OBVIOUS
<1> DEFINE table == Named("StackMapTable")[1]
<1>1. /\ stage = "frames" /\ stage' = "done"
      /\ UNCHANGED <<vars, contents, place, owed, parsed>>
      /\ printed' = printed \o (IF outcome = "ok" THEN <<Heading("frames")>> \o Rows("frames", frames)
                                ELSE <<Heading("unreadable")>>)
  BY DEF PrintFrames, Prints
<1>2. IsSeq(printed) /\ frames \in Seq(Frame) /\ left \in Nat
  BY Unsigned16Facts DEF CodeInv, CodeTypeOK, FramesInv, TypeOK
<1>3. Under("frames") = {} /\ LocalsWhole /\ LinesCut
  BY <1>1 DEF CodeInv, PrintedInTurn, TablesInv
<1>4. IsSeq(printed') /\ LocalsWhole' /\ FramesWhole' /\ LinesCut'
  <2>1. CASE outcome = "ok"
    <3>1. Len(table) >= 2 /\ Len(frames) = U2(table, StartOf)
      BY <1>1, <1>2, <2>1 DEF CodeInv, CountIsKept, FramesInTurn
    <3>2. IsSeq(frames) /\ PrintsBlock("frames", frames)
      BY <1>1, <1>2, <2>1 DEF IsSeq, PrintsBlock, BlockOf
    <3>3. PICK h \in DOMAIN printed' : Under("frames")' = Under("frames") \cup h..(h + Len(frames))
      BY <1>2, <3>2, BlockPrinted
    <3>4. /\ IsSeq(printed') /\ \A u : u # "frames" => Under(u)' = Under(u)
          /\ \A i \in DOMAIN printed : printed'[i] = printed[i] /\ i \in DOMAIN printed'
      BY <1>2, <3>2, BlockPrinted
    <3>5. LocalsWhole' /\ LinesCut'
      BY <1>1, <1>3, <3>4, PrintedStands
    <3>6. table' = table
      BY <1>1, SameNames
    <3>7. FramesWhole'
      BY <1>3, <3>1, <3>3, <3>6 DEF FramesWhole, WholeTable, Block
    <3> QED BY <3>4, <3>5, <3>7
  <2>2. CASE outcome # "ok"
    <3> DEFINE none == <<>>
    <3>1. IsSeq(none) /\ <<Heading("unreadable")>> = <<Heading("unreadable")>> \o Rows("unreadable", none)
      <4>1. none \in Seq({})
        OBVIOUS
      <4>2. Rows("unreadable", none) = <<>>
        BY DEF Rows
      <4>3. <<Heading("unreadable")>> \in Seq({Heading("unreadable")})
        OBVIOUS
      <4> QED BY <4>1, <4>2, <4>3 DEF IsSeq
    <3>2. PrintsBlock("unreadable", none)
      BY <1>1, <2>2, <3>1 DEF PrintsBlock, BlockOf
    <3> HIDE DEF none
    <3>3. /\ IsSeq(printed') /\ \A u : u # "unreadable" => Under(u)' = Under(u)
          /\ \A i \in DOMAIN printed : printed'[i] = printed[i] /\ i \in DOMAIN printed'
      BY <1>2, <3>1, <3>2, BlockPrinted
    <3>4. LocalsWhole' /\ LinesCut'
      BY <1>1, <1>3, <3>3, PrintedStands
    <3>5. FramesWhole'
      BY <1>3, <3>3 DEF FramesWhole
    <3> QED BY <3>3, <3>4, <3>5
  <2> QED BY <2>1, <2>2
<1>5. FramesInTurn' /\ PrintedInTurn'
  BY <1>1 DEF FramesInTurn, PrintedInTurn, Parsing
<1>6. TablesInv'
  BY <1>4 DEF TablesInv
<1> QED BY <1>1, <1>4, <1>5, <1>6, PrintingKeepsCode DEF Printing
-----------------------------------------------------------------------------
LEMMA CodeInitial == CodeInit => CodeInv
<1> SUFFICES ASSUME CodeInit PROVE CodeInv
  OBVIOUS
<1>1. /\ data = <<>> /\ cursor = StartOf /\ left = 0 /\ frame = NoFrame /\ lists = 0 /\ types = 0
      /\ frames = <<>> /\ outcome = "start" /\ contents \in Contents /\ place = StartOf
      /\ stage = "head" /\ printed = <<>>
      /\ parsed = [bytes |-> <<>>, exceptions |-> <<>>, attributes |-> <<>>]
  BY DEF CodeInit
<1>2. NoFrame \in Header /\ 0 \in Unsigned16
  BY U16Facts, Unsigned16Facts DEF NoFrame, Header
<1>3. StartOf \in Cursor /\ StartOf.ok /\ StartOf.pos = 0
  BY DEF StartOf, Cursor
<1>4. FramesInv
  <2>1. data \in Seq(Byte) /\ Len(data) = 0 /\ frames \in Seq(Frame) /\ Len(frames) = 0
    BY <1>1
  <2>2. TypeOK
    BY <1>1, <1>2, <1>3, <2>1 DEF TypeOK
  <2> QED BY U16Facts, <1>1, <2>1, <2>2
          DEF FramesInv, OffsetsAscend, OffsetsNeverWrap, FrameIsOwed, NothingYet
<1>5. CountIsKept
  BY <1>1 DEF CountIsKept
<1>6. CodeTypeOK
  <2>1. contents \in Seq(Byte) /\ Len(contents) \in Nat
    BY <1>1, CodeAssumption
  <2>2. IsSeq(printed)
    <3>1. printed \in Seq({})
      BY <1>1
    <3> QED BY <3>1 DEF IsSeq
  <2>3. parsed \in [bytes : Seq(Byte), exceptions : Seq(ExceptionRows), attributes : Seq(Parts)]
    BY <1>1
  <2> QED BY <1>1, <1>3, <2>1, <2>2, <2>3 DEF CodeTypeOK, Inside, Parsing
<1>7. \A u : Under(u) = {}
  BY <1>1, NothingUnder
<1>8. FramesInTurn /\ PrintedInTurn /\ TablesInv
  BY <1>1, <1>7 DEF FramesInTurn, PrintedInTurn, TablesInv, LocalsWhole, FramesWhole, LinesCut
<1> QED BY <1>4, <1>5, <1>6, <1>8 DEF CodeInv

LEMMA CodeInductive == CodeInv /\ [CodeNext]_codeVars => CodeInv'
<1> SUFFICES ASSUME CodeInv, [CodeNext]_codeVars PROVE CodeInv'
  OBVIOUS
<1>1. CASE ReadListCount("exceptionCount", "exceptions")
  BY <1>1, ReadListCountHolds DEF Parsing
<1>2. CASE ReadListCount("attributeCount", "attributes")
  BY <1>2, ReadListCountHolds DEF Parsing
<1>3. CASE ReadCode \/ ReadException \/ ReadAttribute \/ EndOfList
  BY <1>3, ReadCodeHolds, ReadExceptionHolds, ReadAttributeHolds, EndOfListHolds
<1>4. CASE PrintExceptions \/ PrintLocals \/ PrintLines
  BY <1>4, PrintExceptionsHolds, PrintLocalsHolds, PrintLinesHolds
<1>5. CASE FindFrames \/ ReadFrames \/ PrintFrames
  BY <1>5, FindFramesHolds, ReadFramesHolds, PrintFramesHolds
<1>6. CASE UNCHANGED codeVars
  <2>1. UNCHANGED <<vars, contents, place, stage, owed, parsed, printed>>
    BY <1>6 DEF codeVars
  <2>2. FramesInv' /\ CountIsKept' /\ UNCHANGED data /\ UNCHANGED outcome
    BY <2>1, FramesInductive, CountStaysKept DEF CodeInv, vars
  <2>3. ExceptionRows' = ExceptionRows
    BY <2>1 DEF ExceptionRows, Row, U2
  <2>4. CodeTypeOK'
    BY <2>1, <2>3 DEF CodeInv, CodeTypeOK, Parts
  <2>5. FramesInTurn'
    <3>1. Named("StackMapTable")' = Named("StackMapTable")
      BY <2>1, SameNames
    <3> QED BY <2>1, <2>2, <3>1 DEF CodeInv, FramesInTurn
  <2>6. \A u : Under(u)' = Under(u)
    BY <2>1 DEF Under
  <2>7. PrintedInTurn'
    BY <2>1, <2>6 DEF CodeInv, PrintedInTurn
  <2>8. TablesInv'
    BY <2>1, <2>6, PrintedStands DEF CodeInv, TablesInv
  <2> QED BY <2>2, <2>4, <2>5, <2>7, <2>8 DEF CodeInv
<1> QED BY <1>1, <1>2, <1>3, <1>4, <1>5, <1>6 DEF CodeNext

\* The invariant holds of every attribute, from its bytes to its tables.
THEOREM CodeInvariance == CodeSpec => []CodeInv
<1> QED BY CodeInitial, CodeInductive, PTL DEF CodeSpec

\* No table of a Code attribute is ever printed as if it ended where its bytes
\* were cut: locals and frames are printed whole, line numbers up to the last
\* row that is (emit.rs, emit_locals, emit_stack_map, emit_line_numbers).
THEOREM TablesWhole == CodeSpec => []TablesEndBetweenRows
<1>1. TablesInv => TablesEndBetweenRows
  <2> SUFFICES ASSUME TablesInv PROVE TablesEndBetweenRows
    OBVIOUS
  <2>1. NoPartUnderAHeading
    BY DEF TablesInv, LocalsWhole, FramesWhole, WholeTable, NoPartUnderAHeading
  <2>2. LineNumbersAreAPrefix
    BY DEF TablesInv, LinesCut, LinesOf, LineNumbersAreAPrefix
  <2> QED BY <2>1, <2>2 DEF TablesEndBetweenRows
<1>2. CodeInv => TablesEndBetweenRows
  BY <1>1 DEF CodeInv
<1> QED BY <1>2, CodeInvariance, PTL

\* The frames printed of a stack map found in a Code attribute are about
\* instructions further and further on (stackmap.rs, parse).
THEOREM FramesAscend == CodeSpec => []OffsetsAscend
<1>1. CodeInv => OffsetsAscend
  BY DEF CodeInv, FramesInv
<1> QED BY <1>1, CodeInvariance, PTL
-----------------------------------------------------------------------------
(***************************************************************************)
(* What is listed of an assembled program.  First, that numbers are read   *)
(* as they were put.                                                       *)
(***************************************************************************)
LEMMA Put1Read ==
    /\ \A n \in Byte : n % 256 = n
    /\ \A n \in SignedByte : n % 256 \in Byte /\ Signed(n % 256, 256) = n
<1>1. ASSUME NEW n \in Byte PROVE n % 256 = n
  BY SMT DEF Byte
<1>2. ASSUME NEW n \in SignedByte PROVE n % 256 \in Byte /\ Signed(n % 256, 256) = n
  <2>1. n \in Int /\ -128 <= n /\ n <= 127
    BY SMT DEF SignedByte
  <2>2. n % 256 = IF n < 0 THEN n + 256 ELSE n
    BY <2>1, SMT
  <2> QED BY <2>1, <2>2, SMT DEF Byte, Signed
<1> QED BY <1>1, <1>2

LEMMA HalfU16 == U16 = 65536 /\ U16 \div 2 = 32768
BY SMT DEF U16

LEMMA SignedShortIs ==
    ASSUME NEW n PROVE n \in SignedShort <=> n \in Int /\ -32768 <= n /\ n < 32768
<1>1. ASSUME NEW h \in Nat PROVE n \in (-h)..(h - 1) <=> n \in Int /\ -h <= n /\ n < h
  BY SMT
<1>2. U16 \div 2 \in Nat
  BY HalfU16, SMT
<1>3. n \in SignedShort <=> n \in Int /\ -(U16 \div 2) <= n /\ n < U16 \div 2
  BY <1>1, <1>2, SMT DEF SignedShort
<1> QED BY <1>3, HalfU16, SMT

LEMMA Put2Read ==
    ASSUME NEW n \in Int
    PROVE  /\ n \in Unsigned16 => 256 * ((n \div 256) % 256) + (n % 256) = n
           /\ n \in SignedShort => Signed(256 * ((n \div 256) % 256) + (n % 256), U16) = n
<1> DEFINE m == 256 * ((n \div 256) % 256) + (n % 256)
<1>1. m = n % 65536 /\ m \in Int
  BY SMT
<1>2. n \in Unsigned16 => n >= 0 /\ n < 65536
  BY Unsigned16Facts, HalfU16, SMT
<1>3. n \in Unsigned16 => m = n
  BY <1>1, <1>2, SMT
<1>4. Signed(m, U16) = IF 2 * m < 65536 THEN m ELSE m - 65536
  BY HalfU16, SMT DEF Signed
<1>5. n \in SignedShort => Signed(m, U16) = n
  <2>1. SUFFICES ASSUME n \in SignedShort PROVE Signed(m, U16) = n
    OBVIOUS
  <2>2. -32768 <= n /\ n < 32768
    BY <2>1, SignedShortIs
  <2>3. m = IF n < 0 THEN n + 65536 ELSE n
    BY <1>1, <2>2, SMT
  <2> HIDE DEF m
  <2> QED BY <1>1, <1>4, <2>2, <2>3, SMT
<1> QED BY <1>3, <1>5, Zenon

LEMMA Put4Read ==
    ASSUME NEW n \in Int, IsSignedInt(n)
    PROVE  65536 * Signed(256 * (((n \div U16) \div 256) % 256) + ((n \div U16) % 256), U16)
               + (256 * ((n \div 256) % 256) + (n % 256)) = n
<1>1. PICK h \in Int : h = n \div U16
  BY HalfU16, SMT
<1>2. Signed(256 * ((h \div 256) % 256) + (h % 256), U16) = h
  BY <1>1, Put2Read DEF IsSignedInt
<1>3. 65536 * h + (256 * ((n \div 256) % 256) + (n % 256)) = n
  BY <1>1, HalfU16, SMT
<1> QED BY <1>1, <1>2, <1>3

LEMMA Cat ==
    ASSUME NEW a \in Seq(Int), NEW b \in Seq(Int)
    PROVE  /\ a \o b \in Seq(Int) /\ Len(a \o b) = Len(a) + Len(b)
           /\ \A j \in 1..Len(a) : (a \o b)[j] = a[j]
           /\ \A j \in 1..Len(b) : (a \o b)[Len(a) + j] = b[j]
OBVIOUS

Laid(bytes, at, e) == at + Len(e) <= Len(bytes) /\ \A j \in 1..Len(e) : bytes[at + j] = e[j]

LEMMA ShapesOf ==
    ASSUME NEW opcode \in Byte
    PROVE  /\ opcode \in Bare => ShapeOf(opcode) = "None"
           /\ opcode = 16 => ShapeOf(opcode) = "ImmI1"
           /\ opcode = 17 => ShapeOf(opcode) = "ImmI2"
           /\ opcode \in OneUnsigned => ShapeOf(opcode) \in {"Cp1", "LocalU1", "ArrayType"}
           /\ opcode \in TwoUnsigned => ShapeOf(opcode) = "Cp2"
           /\ opcode = 132 => ShapeOf(opcode) = "LocalConst"
           /\ opcode = 185 => ShapeOf(opcode) = "InvokeInterface"
           /\ opcode = 186 => ShapeOf(opcode) = "InvokeDynamic"
           /\ opcode = 197 => ShapeOf(opcode) = "MultiANewArray"
           /\ opcode \in Jumps => ShapeOf(opcode) = "Branch2"
           /\ opcode \in FarJumps => ShapeOf(opcode) = "Branch4"
           /\ opcode = 196 => ShapeOf(opcode) = "Wide"
           /\ opcode = 170 => ShapeOf(opcode) = "TableSwitch"
           /\ opcode = 171 => ShapeOf(opcode) = "LookupSwitch"
<1>1. opcode \in Bare => ShapeOf(opcode) = "None"
  BY SMTT(30) DEF Bare, ShapeOf, Byte
<1>2. /\ opcode = 16 => ShapeOf(opcode) = "ImmI1"
      /\ opcode = 17 => ShapeOf(opcode) = "ImmI2"
      /\ opcode = 132 => ShapeOf(opcode) = "LocalConst"
      /\ opcode = 185 => ShapeOf(opcode) = "InvokeInterface"
      /\ opcode = 186 => ShapeOf(opcode) = "InvokeDynamic"
      /\ opcode = 197 => ShapeOf(opcode) = "MultiANewArray"
      /\ opcode = 196 => ShapeOf(opcode) = "Wide"
      /\ opcode = 170 => ShapeOf(opcode) = "TableSwitch"
      /\ opcode = 171 => ShapeOf(opcode) = "LookupSwitch"
  <2>1. opcode = 16 => ShapeOf(opcode) = "ImmI1"
    BY SMT DEF ShapeOf
  <2>2. opcode = 17 => ShapeOf(opcode) = "ImmI2"
    BY SMT DEF ShapeOf
  <2>3. opcode = 132 => ShapeOf(opcode) = "LocalConst"
    BY SMT DEF ShapeOf
  <2>4. opcode = 185 => ShapeOf(opcode) = "InvokeInterface"
    BY SMT DEF ShapeOf
  <2>5. opcode = 186 => ShapeOf(opcode) = "InvokeDynamic"
    BY SMT DEF ShapeOf
  <2>6. opcode = 197 => ShapeOf(opcode) = "MultiANewArray"
    BY SMT DEF ShapeOf
  <2>7. opcode = 196 => ShapeOf(opcode) = "Wide"
    BY SMT DEF ShapeOf
  <2>8. opcode = 170 => ShapeOf(opcode) = "TableSwitch"
    BY SMT DEF ShapeOf
  <2>9. opcode = 171 => ShapeOf(opcode) = "LookupSwitch"
    BY SMT DEF ShapeOf
  <2> QED BY <2>1, <2>2, <2>3, <2>4, <2>5, <2>6, <2>7, <2>8, <2>9
<1>3. opcode \in OneUnsigned => ShapeOf(opcode) \in {"Cp1", "LocalU1", "ArrayType"}
  BY SMTT(30) DEF OneUnsigned, ShapeOf, Byte
<1>4. opcode \in TwoUnsigned => ShapeOf(opcode) = "Cp2"
  BY SMTT(30) DEF TwoUnsigned, ShapeOf, Byte
<1>5. opcode \in Jumps => ShapeOf(opcode) = "Branch2"
  BY SMTT(30) DEF Jumps, ShapeOf, Byte
<1>6. opcode \in FarJumps => ShapeOf(opcode) = "Branch4"
  BY SMTT(30) DEF FarJumps, ShapeOf, Byte
<1> QED BY <1>1, <1>2, <1>3, <1>4, <1>5, <1>6, Zenon

\* What is laid behind something is laid where that ends.
LEMMA LaidPieces ==
    ASSUME NEW bytes \in Seq(Byte), NEW at \in Nat, NEW x \in Seq(Int), NEW y \in Seq(Int),
           Laid(bytes, at, x \o y)
    PROVE  Laid(bytes, at, x) /\ Laid(bytes, at + Len(x), y)
<1>1. /\ x \o y \in Seq(Int) /\ Len(x \o y) = Len(x) + Len(y)
      /\ \A j \in 1..Len(x) : (x \o y)[j] = x[j]
      /\ \A j \in 1..Len(y) : (x \o y)[Len(x) + j] = y[j]
  BY Cat
<1>2. PICK e : e = x \o y
  OBVIOUS
<1>3. PICK m \in Nat, n \in Nat : m = Len(x) /\ n = Len(y)
  OBVIOUS
<1>4. at + (m + n) <= Len(bytes) /\ \A j \in 1..(m + n) : bytes[at + j] = e[j]
  BY <1>1, <1>2, <1>3 DEF Laid
<1>5. Laid(bytes, at, x)
  <2>1. \A j \in 1..m : j \in 1..(m + n)
    OBVIOUS
  <2> QED BY <1>1, <1>2, <1>3, <1>4, <2>1 DEF Laid
<1>6. Laid(bytes, at + Len(x), y)
  <2>1. \A j \in 1..n : m + j \in 1..(m + n) /\ (at + m) + j = at + (m + j)
    OBVIOUS
  <2>2. (at + m) + n <= Len(bytes)
    BY <1>4
  <2>3. ASSUME NEW j \in 1..n PROVE bytes[(at + m) + j] = y[j]
    <3>1. m + j \in 1..(m + n) /\ (at + m) + j = at + (m + j)
      BY <2>1
    <3>2. e[m + j] = y[j]
      BY <1>1, <1>2, <1>3, Zenon
    <3> QED BY <1>4, <3>1, <3>2, Zenon
  <2> QED BY <1>3, <2>2, <2>3 DEF Laid
<1> QED BY <1>5, <1>6

LEMMA PutsAreSeqs ==
    ASSUME NEW n \in Int
    PROVE  /\ Put1(n) \in Seq(Int) /\ Len(Put1(n)) = 1
           /\ Put2(n) \in Seq(Int) /\ Len(Put2(n)) = 2
           /\ Put4(n) \in Seq(Int) /\ Len(Put4(n)) = 4
<1>1. n \div U16 \in Int
  BY HalfU16, SMT
<1>2. ASSUME NEW m \in Int PROVE Put2(m) \in Seq(Int) /\ Len(Put2(m)) = 2
  <2>1. (m \div 256) % 256 \in Int /\ m % 256 \in Int
    OBVIOUS
  <2>2. PICK x \in Int, y \in Int : x = (m \div 256) % 256 /\ y = m % 256
    BY <2>1
  <2> QED BY <2>2 DEF Put2
<1>3. Put4(n) \in Seq(Int) /\ Len(Put4(n)) = 4
  <2>1. PICK h \in Int : h = n \div U16
    BY <1>1
  <2>2. /\ Put2(h) \in Seq(Int) /\ Len(Put2(h)) = 2
        /\ Put2(n) \in Seq(Int) /\ Len(Put2(n)) = 2
    BY <1>2
  <2>3. Put4(n) = Put2(h) \o Put2(n)
    BY <2>1 DEF Put4
  <2>4. /\ Put2(h) \o Put2(n) \in Seq(Int)
        /\ Len(Put2(h) \o Put2(n)) = Len(Put2(h)) + Len(Put2(n))
    BY <2>2, Cat, Zenon
  <2> QED BY <2>2, <2>3, <2>4
<1> QED BY <1>2, <1>3 DEF Put1

\* A number that was laid somewhere is what is read there.
LEMMA Get1 ==
    ASSUME NEW bytes \in Seq(Byte), NEW at \in Nat, NEW n \in Int, Laid(bytes, at, Put1(n))
    PROVE  /\ n \in Byte => B1(bytes, at) = n
           /\ n \in SignedByte => Signed(B1(bytes, at), 256) = n
<1>1. at < Len(bytes) /\ bytes[at + 1] = n % 256
  BY DEF Laid, Put1
<1>2. B1(bytes, at) = n % 256
  BY <1>1 DEF B1
<1> QED BY <1>2, Put1Read

LEMMA Get2 ==
    ASSUME NEW bytes \in Seq(Byte), NEW at \in Nat, NEW n \in Int, Laid(bytes, at, Put2(n))
    PROVE  /\ at + 2 <= Len(bytes)
           /\ bytes[at + 1] = (n \div 256) % 256 /\ bytes[at + 2] = n % 256
           /\ B2(bytes, at) = 256 * ((n \div 256) % 256) + (n % 256)
           /\ n \in Unsigned16 => B2(bytes, at) = n
           /\ n \in SignedShort => Signed(B2(bytes, at), U16) = n
<1>1. at + 2 <= Len(bytes) /\ bytes[at + 1] = (n \div 256) % 256 /\ bytes[at + 2] = n % 256
  BY DEF Laid, Put2
<1>2. B2(bytes, at) = 256 * ((n \div 256) % 256) + (n % 256)
  BY <1>1 DEF B1, B2
<1> QED BY <1>1, <1>2, Put2Read

LEMMA Get4 ==
    ASSUME NEW bytes \in Seq(Byte), NEW at \in Nat, NEW n \in Int, Laid(bytes, at, Put4(n)), IsSignedInt(n)
    PROVE  B4(bytes, at) = n
<1>1. PICK h \in Int : h = n \div U16
  BY HalfU16, SMT
<1>2. /\ Put2(h) \in Seq(Int) /\ Len(Put2(h)) = 2
      /\ Put2(n) \in Seq(Int) /\ Len(Put2(n)) = 2
  BY PutsAreSeqs
<1>3. Laid(bytes, at, Put2(h)) /\ Laid(bytes, at + 2, Put2(n))
  BY <1>1, <1>2, LaidPieces DEF Put4
<1>4. /\ B2(bytes, at) = 256 * ((h \div 256) % 256) + (h % 256)
      /\ B2(bytes, at + 2) = 256 * ((n \div 256) % 256) + (n % 256)
      /\ at + 4 <= Len(bytes)
  BY <1>3, Get2
<1>5. B4(bytes, at) = 65536 * Signed(B2(bytes, at), U16) + B2(bytes, at + 2)
  BY <1>4 DEF B4
<1>6. 65536 * Signed(256 * ((h \div 256) % 256) + (h % 256), U16)
          + (256 * ((n \div 256) % 256) + (n % 256)) = n
  <2>1. 65536 * Signed(256 * (((n \div U16) \div 256) % 256) + ((n \div U16) % 256), U16)
            + (256 * ((n \div 256) % 256) + (n % 256)) = n
    BY Put4Read
  <2> QED BY <1>1, <2>1
<1> QED BY <1>4, <1>5, <1>6
-----------------------------------------------------------------------------
\* What instruction_len and emit_operands make of an instruction at pc.
ReadBack(ins, rest) ==
    /\ rest \in Seq(Int)
    /\ Laid(code, pc + 1, rest) =>
           /\ ShapeOf(ins.opcode) # "unassigned"
           /\ EndOf(ShapeOf(ins.opcode)) = pc + 1 + Len(rest)
           /\ OperandsOf(code, pc, ShapeOf(ins.opcode)) = ins.args

LEMMA FixedEnds ==
    ASSUME size = Len(code), code \in Seq(Byte), pc \in Nat, NEW shape \in FixedShapes, NEW rest \in Seq(Int),
           Laid(code, pc + 1, rest), Len(rest) = FixedLen[shape]
    PROVE  shape # "unassigned" /\ EndOf(shape) = pc + 1 + Len(rest)
<1>1. shape \notin {"Wide", "TableSwitch", "LookupSwitch", "unassigned"}
  BY DEF FixedShapes, FixedLen
<1>2. EndOf(shape) = Within(pc + 1 + FixedLen[shape])
  BY <1>1 DEF EndOf
<1>3. (pc + 1) + Len(rest) <= size
  BY DEF Laid
<1> QED BY <1>1, <1>2, <1>3 DEF Within

\* An instruction of a fixed length reads back when its operands do.
LEMMA FixedReads ==
    ASSUME size = Len(code), code \in Seq(Byte), pc \in Nat, NEW ins \in Instr, NEW rest \in Seq(Int),
           NEW shape \in FixedShapes, ShapeOf(ins.opcode) = shape, Len(rest) = FixedLen[shape],
           Laid(code, pc + 1, rest) => OperandsOf(code, pc, shape) = ins.args
    PROVE  ReadBack(ins, rest)
BY FixedEnds, Zenon DEF ReadBack

LEMMA FixedShapesAre ==
    /\ {"None", "LocalU1", "Cp1", "ImmI1", "ArrayType", "ImmI2", "Cp2", "Branch2", "LocalConst",
        "MultiANewArray", "Branch4", "InvokeInterface", "InvokeDynamic"} \subseteq FixedShapes
    /\ FixedLen["None"] = 0
    /\ \A shape \in {"LocalU1", "Cp1", "ImmI1", "ArrayType"} : FixedLen[shape] = 1
    /\ \A shape \in {"ImmI2", "Cp2", "Branch2", "LocalConst"} : FixedLen[shape] = 2
    /\ FixedLen["MultiANewArray"] = 3
    /\ \A shape \in {"Branch4", "InvokeInterface", "InvokeDynamic"} : FixedLen[shape] = 4
BY DEF FixedShapes, FixedLen

LEMMA BareReads ==
    ASSUME size = Len(code), code \in Seq(Byte), pc \in Nat, NEW ins \in Instr,
           Len(ins.args) = 0, ins.opcode \in Bare
    PROVE  ReadBack(ins, <<>>)
<1>1. ins.args = <<>> /\ ins.opcode \in Byte
  BY DEF Instr
<1>2. PICK shape : shape = "None"
  OBVIOUS
<1>3. ShapeOf(ins.opcode) = shape /\ shape \in FixedShapes /\ FixedLen[shape] = 0
  BY <1>1, <1>2, ShapesOf, FixedShapesAre
<1>4. OperandsOf(code, pc, shape) = <<>>
  BY <1>2 DEF OperandsOf
<1>5. PICK rest : rest = <<>>
  OBVIOUS
<1>6. rest \in Seq(Int) /\ Len(rest) = 0
  BY <1>5
<1> QED BY <1>1, <1>3, <1>4, <1>5, <1>6, FixedReads

LEMMA OneBehind ==
    ASSUME size = Len(code), code \in Seq(Byte), pc \in Nat, NEW ins \in Instr, Len(ins.args) = 1,
           \/ ins.opcode \in OneUnsigned /\ ins.args[1] \in Byte
           \/ ins.opcode = 16 /\ ins.args[1] \in SignedByte
    PROVE  ReadBack(ins, Put1(ins.args[1]))
<1>1. PICK n \in Int : n = ins.args[1]
  BY DEF Instr
<1>2. ins.args = <<n>> /\ ins.opcode \in Byte
  BY <1>1 DEF Instr
<1>3. PICK rest : rest = Put1(n)
  OBVIOUS
<1>4. rest \in Seq(Int) /\ Len(rest) = 1
  BY <1>3, PutsAreSeqs
<1>5. CASE ins.opcode \in OneUnsigned /\ n \in Byte
  <2>1. PICK shape \in {"Cp1", "LocalU1", "ArrayType"} : ShapeOf(ins.opcode) = shape
    BY <1>2, <1>5, ShapesOf
  <2>2. shape \in FixedShapes /\ FixedLen[shape] = 1
    BY FixedShapesAre
  <2>3. OperandsOf(code, pc, shape) = <<B1(code, pc + 1)>>
    BY DEF OperandsOf
  <2>4. Laid(code, pc + 1, rest) => OperandsOf(code, pc, shape) = ins.args
    BY <1>2, <1>3, <1>5, <2>3, Get1
  <2> QED BY <1>1, <1>3, <1>4, <2>1, <2>2, <2>4, FixedReads
<1>6. CASE ins.opcode = 16 /\ n \in SignedByte
  <2>1. PICK shape : shape = "ImmI1"
    OBVIOUS
  <2>2. ShapeOf(ins.opcode) = shape /\ shape \in FixedShapes /\ FixedLen[shape] = 1
    BY <1>2, <1>6, <2>1, ShapesOf, FixedShapesAre
  <2>3. OperandsOf(code, pc, shape) = <<Signed(B1(code, pc + 1), 256)>>
    BY <2>1 DEF OperandsOf
  <2>4. Laid(code, pc + 1, rest) => OperandsOf(code, pc, shape) = ins.args
    BY <1>2, <1>3, <1>6, <2>3, Get1
  <2> QED BY <1>1, <1>3, <1>4, <2>2, <2>4, FixedReads
<1> QED BY <1>1, <1>5, <1>6

LEMMA TwoBehind ==
    ASSUME size = Len(code), code \in Seq(Byte), pc \in Nat, NEW ins \in Instr, Len(ins.args) = 1,
           \/ ins.opcode \in TwoUnsigned /\ ins.args[1] \in Unsigned16
           \/ ins.opcode = 17 /\ ins.args[1] \in SignedShort
    PROVE  ReadBack(ins, Put2(ins.args[1]))
<1>1. PICK n \in Int : n = ins.args[1]
  BY DEF Instr
<1>2. ins.args = <<n>> /\ ins.opcode \in Byte
  BY <1>1 DEF Instr
<1>3. PICK rest : rest = Put2(n)
  OBVIOUS
<1>4. rest \in Seq(Int) /\ Len(rest) = 2
  BY <1>3, PutsAreSeqs
<1>5. CASE ins.opcode \in TwoUnsigned /\ n \in Unsigned16
  <2>1. PICK shape : shape = "Cp2"
    OBVIOUS
  <2>2. ShapeOf(ins.opcode) = shape /\ shape \in FixedShapes /\ FixedLen[shape] = 2
    BY <1>2, <1>5, <2>1, ShapesOf, FixedShapesAre
  <2>3. OperandsOf(code, pc, shape) = <<B2(code, pc + 1)>>
    BY <2>1 DEF OperandsOf
  <2>4. Laid(code, pc + 1, rest) => OperandsOf(code, pc, shape) = ins.args
    BY <1>2, <1>3, <1>5, <2>3, Get2
  <2> QED BY <1>1, <1>3, <1>4, <2>1, <2>2, <2>4, FixedReads
<1>6. CASE ins.opcode = 17 /\ n \in SignedShort
  <2>1. PICK shape : shape = "ImmI2"
    OBVIOUS
  <2>2. ShapeOf(ins.opcode) = shape /\ shape \in FixedShapes /\ FixedLen[shape] = 2
    BY <1>2, <1>6, <2>1, ShapesOf, FixedShapesAre
  <2>3. OperandsOf(code, pc, shape) = <<Signed(B2(code, pc + 1), U16)>>
    BY <2>1 DEF OperandsOf
  <2>4. Laid(code, pc + 1, rest) => OperandsOf(code, pc, shape) = ins.args
    BY <1>2, <1>3, <1>6, <2>3, Get2
  <2> QED BY <1>1, <1>3, <1>4, <2>2, <2>4, FixedReads
<1> QED BY <1>1, <1>5, <1>6

LEMMA JumpReads ==
    ASSUME size = Len(code), code \in Seq(Byte), pc \in Nat, NEW ins \in Instr, Len(ins.args) = 1,
           ins.opcode \in Jumps, ins.args[1] - pc \in SignedShort
    PROVE  ReadBack(ins, Put2(ins.args[1] - pc))
<1>1. PICK n \in Int, d \in Int : n = ins.args[1] /\ d = n - pc
  <2>1. PICK n \in Int : n = ins.args[1]
    BY DEF Instr
  <2>2. n - pc \in Int
    OBVIOUS
  <2> QED BY <2>1, <2>2
<1>2. ins.args = <<n>> /\ ins.opcode \in Byte
  BY <1>1 DEF Instr
<1>3. PICK rest : rest = Put2(d)
  OBVIOUS
<1>4. rest \in Seq(Int) /\ Len(rest) = 2
  BY <1>3, PutsAreSeqs
<1>5. PICK shape : shape = "Branch2"
  OBVIOUS
<1>6. ShapeOf(ins.opcode) = shape /\ shape \in FixedShapes /\ FixedLen[shape] = 2
  BY <1>2, <1>5, ShapesOf, FixedShapesAre
<1>7. OperandsOf(code, pc, shape) = <<pc + Signed(B2(code, pc + 1), U16)>>
  BY <1>5 DEF OperandsOf, Branch2
<1>8. Laid(code, pc + 1, rest) => Signed(B2(code, pc + 1), U16) = d
  BY <1>1, <1>3, Get2
<1>9. Laid(code, pc + 1, rest) => OperandsOf(code, pc, shape) = ins.args
  BY <1>1, <1>2, <1>7, <1>8
<1> QED BY <1>1, <1>3, <1>4, <1>6, <1>9, FixedReads

LEMMA FarJumpReads ==
    ASSUME size = Len(code), code \in Seq(Byte), pc \in Nat, NEW ins \in Instr, Len(ins.args) = 1,
           ins.opcode \in FarJumps, IsSignedInt(ins.args[1] - pc)
    PROVE  ReadBack(ins, Put4(ins.args[1] - pc))
<1>1. PICK n \in Int, d \in Int : n = ins.args[1] /\ d = n - pc
  <2>1. PICK n \in Int : n = ins.args[1]
    BY DEF Instr
  <2>2. n - pc \in Int
    OBVIOUS
  <2> QED BY <2>1, <2>2
<1>2. ins.args = <<n>> /\ ins.opcode \in Byte
  BY <1>1 DEF Instr
<1>3. PICK rest : rest = Put4(d)
  OBVIOUS
<1>4. rest \in Seq(Int) /\ Len(rest) = 4
  BY <1>3, PutsAreSeqs
<1>5. PICK shape : shape = "Branch4"
  OBVIOUS
<1>6. ShapeOf(ins.opcode) = shape /\ shape \in FixedShapes /\ FixedLen[shape] = 4
  BY <1>2, <1>5, ShapesOf, FixedShapesAre
<1>7. OperandsOf(code, pc, shape) = <<pc + B4(code, pc + 1)>>
  BY <1>5 DEF OperandsOf, Branch4
<1>8. Laid(code, pc + 1, rest) => B4(code, pc + 1) = d
  BY <1>1, <1>3, Get4
<1>9. Laid(code, pc + 1, rest) => OperandsOf(code, pc, shape) = ins.args
  BY <1>1, <1>2, <1>7, <1>8
<1> QED BY <1>1, <1>3, <1>4, <1>6, <1>9, FixedReads

\* Two pieces behind each other.
LEMMA TwoPieces ==
    ASSUME NEW bytes \in Seq(Byte), NEW at \in Nat, NEW x \in Seq(Int), NEW y \in Seq(Int)
    PROVE  /\ x \o y \in Seq(Int) /\ Len(x \o y) = Len(x) + Len(y)
           /\ Laid(bytes, at, x \o y) => Laid(bytes, at, x) /\ Laid(bytes, at + Len(x), y)
BY Cat, LaidPieces, Zenon

LEMMA PairReads ==
    ASSUME size = Len(code), code \in Seq(Byte), pc \in Nat, NEW ins \in Instr, Len(ins.args) = 2,
           ins.opcode = 132, ins.args[1] \in Byte, ins.args[2] \in SignedByte
    PROVE  ReadBack(ins, Put1(ins.args[1]) \o Put1(ins.args[2]))
<1>1. PICK n \in Int, c \in Int : n = ins.args[1] /\ c = ins.args[2]
  BY DEF Instr
<1>2. ins.args = <<n, c>> /\ ins.opcode \in Byte
  BY <1>1 DEF Instr
<1>3. PICK x, y : x = Put1(n) /\ y = Put1(c)
  OBVIOUS
<1>4. x \in Seq(Int) /\ Len(x) = 1 /\ y \in Seq(Int) /\ Len(y) = 1
  BY <1>3, PutsAreSeqs
<1>5. PICK rest : rest = x \o y
  OBVIOUS
<1>6. /\ rest \in Seq(Int) /\ Len(rest) = Len(x) + Len(y)
      /\ Laid(code, pc + 1, rest) => Laid(code, pc + 1, x) /\ Laid(code, pc + 1 + Len(x), y)
  <2>1. pc + 1 \in Nat
    OBVIOUS
  <2>2. /\ x \o y \in Seq(Int) /\ Len(x \o y) = Len(x) + Len(y)
        /\ Laid(code, pc + 1, x \o y) => Laid(code, pc + 1, x) /\ Laid(code, pc + 1 + Len(x), y)
    BY <1>4, <2>1, TwoPieces, Zenon
  <2> QED BY <1>5, <2>2, Zenon
<1>7. PICK shape : shape = "LocalConst"
  OBVIOUS
<1>8. ShapeOf(ins.opcode) = shape /\ shape \in FixedShapes /\ FixedLen[shape] = 2
  BY <1>2, <1>7, ShapesOf, FixedShapesAre
<1>9. OperandsOf(code, pc, shape) = <<B1(code, pc + 1), Signed(B1(code, pc + 2), 256)>>
  BY <1>7 DEF OperandsOf
<1>10. pc + 1 \in Nat /\ pc + 2 \in Nat /\ pc + 1 + Len(x) = pc + 2 /\ Len(rest) = 2
  <2>1. Len(x) = 1 /\ Len(y) = 1 /\ Len(rest) = Len(x) + Len(y)
    BY <1>4, <1>6, Zenon
  <2> QED BY <2>1
<1>11. Laid(code, pc + 1, rest) => B1(code, pc + 1) = n /\ Signed(B1(code, pc + 2), 256) = c
  <2> SUFFICES ASSUME Laid(code, pc + 1, rest)
               PROVE  B1(code, pc + 1) = n /\ Signed(B1(code, pc + 2), 256) = c
    OBVIOUS
  <2>1. Laid(code, pc + 1, Put1(n)) /\ Laid(code, pc + 2, Put1(c))
    BY <1>3, <1>6, <1>10, Zenon
  <2>2. B1(code, pc + 1) = n
    BY <1>1, <1>10, <2>1, Get1
  <2> QED BY <1>1, <1>10, <2>1, <2>2, Get1
<1>12. Laid(code, pc + 1, rest) => OperandsOf(code, pc, shape) = ins.args
  BY <1>2, <1>9, <1>11
<1>13. Len(rest) = FixedLen[shape]
  BY <1>8, <1>10
<1>14. ReadBack(ins, rest)
  <2>1. rest \in Seq(Int) /\ ShapeOf(ins.opcode) = shape /\ shape \in FixedShapes
    BY <1>6, <1>8
  <2> QED BY <2>1, <1>12, <1>13, FixedReads, SMT
<1> QED BY <1>1, <1>3, <1>5, <1>14, Zenon

LEMMA InterfaceReads ==
    ASSUME size = Len(code), code \in Seq(Byte), pc \in Nat, NEW ins \in Instr, Len(ins.args) = 2,
           ins.args[1] \in Unsigned16, ins.args[2] \in Byte
    PROVE  /\ ins.opcode = 185 => ReadBack(ins, Put2(ins.args[1]) \o Put1(ins.args[2]) \o <<0>>)
           /\ ins.opcode = 197 => ReadBack(ins, Put2(ins.args[1]) \o Put1(ins.args[2]))
<1>1. PICK n \in Int, c \in Int : n = ins.args[1] /\ c = ins.args[2]
  BY DEF Instr
<1>2. ins.args = <<n, c>> /\ ins.opcode \in Byte
  BY <1>1 DEF Instr
<1>3. PICK x, y, z : x = Put2(n) /\ y = Put1(c) /\ z = <<0>>
  OBVIOUS
<1>4. /\ x \in Seq(Int) /\ Len(x) = 2 /\ y \in Seq(Int) /\ Len(y) = 1
      /\ z \in Seq(Int) /\ Len(z) = 1
  BY <1>3, PutsAreSeqs
<1>5. PICK both : both = x \o y
  OBVIOUS
<1>6. PICK rest : rest = both \o z
  OBVIOUS
<1>7. pc + 1 \in Nat /\ pc + 3 \in Nat /\ pc + 1 + Len(x) = pc + 3
  BY <1>4
<1>8. /\ both \in Seq(Int) /\ Len(both) = Len(x) + Len(y)
      /\ Laid(code, pc + 1, both) => Laid(code, pc + 1, x) /\ Laid(code, pc + 1 + Len(x), y)
  BY <1>4, <1>5, <1>7, TwoPieces
<1>9. /\ rest \in Seq(Int) /\ Len(rest) = Len(both) + Len(z)
      /\ Laid(code, pc + 1, rest) => Laid(code, pc + 1, both)
  BY <1>4, <1>6, <1>7, <1>8, TwoPieces
<1>10. Laid(code, pc + 1, both) => B2(code, pc + 1) = n /\ B1(code, pc + 3) = c
  BY <1>1, <1>3, <1>7, <1>8, Get1, Get2
<1>11. Len(both) = 3 /\ Len(rest) = 4
  BY <1>4, <1>8, <1>9
<1>12. ASSUME NEW shape, shape \in {"InvokeInterface", "MultiANewArray"}, NEW r, r \in {both, rest}
       PROVE  Laid(code, pc + 1, r) => OperandsOf(code, pc, shape) = ins.args
  <2>1. OperandsOf(code, pc, shape) = <<B2(code, pc + 1), B1(code, pc + 3)>>
    BY <1>12 DEF OperandsOf
  <2> QED BY <1>2, <1>9, <1>10, <1>12, <2>1
<1>13. ASSUME ins.opcode = 185 PROVE ReadBack(ins, rest)
  <2>1. PICK shape : shape = "InvokeInterface"
    OBVIOUS
  <2>2. ShapeOf(ins.opcode) = shape /\ shape \in FixedShapes /\ FixedLen[shape] = 4
    BY <1>2, <1>13, <2>1, ShapesOf, FixedShapesAre
  <2>3. Laid(code, pc + 1, rest) => OperandsOf(code, pc, shape) = ins.args
    BY <1>12, <2>1
  <2> QED BY <1>9, <1>11, <2>2, <2>3, FixedReads
<1>14. ASSUME ins.opcode = 197 PROVE ReadBack(ins, both)
  <2>1. PICK shape : shape = "MultiANewArray"
    OBVIOUS
  <2>2. ShapeOf(ins.opcode) = shape /\ shape \in FixedShapes /\ FixedLen[shape] = 3
    BY <1>2, <1>14, <2>1, ShapesOf, FixedShapesAre
  <2>3. Laid(code, pc + 1, both) => OperandsOf(code, pc, shape) = ins.args
    BY <1>12, <2>1
  <2> QED BY <1>8, <1>11, <2>2, <2>3, FixedReads
<1> QED BY <1>1, <1>3, <1>5, <1>6, <1>13, <1>14

LEMMA DynamicReads ==
    ASSUME size = Len(code), code \in Seq(Byte), pc \in Nat, NEW ins \in Instr, Len(ins.args) = 1,
           ins.opcode = 186, ins.args[1] \in Unsigned16
    PROVE  ReadBack(ins, Put2(ins.args[1]) \o <<0, 0>>)
<1>1. PICK n \in Int : n = ins.args[1]
  BY DEF Instr
<1>2. ins.args = <<n>> /\ ins.opcode \in Byte
  BY <1>1 DEF Instr
<1>3. PICK x, y : x = Put2(n) /\ y = <<0, 0>>
  OBVIOUS
<1>4. x \in Seq(Int) /\ Len(x) = 2 /\ y \in Seq(Int) /\ Len(y) = 2
  BY <1>3, PutsAreSeqs
<1>5. PICK rest : rest = x \o y
  OBVIOUS
<1>6. /\ rest \in Seq(Int) /\ Len(rest) = Len(x) + Len(y)
      /\ Laid(code, pc + 1, rest) => Laid(code, pc + 1, x)
  <2>1. pc + 1 \in Nat
    OBVIOUS
  <2>2. /\ x \o y \in Seq(Int) /\ Len(x \o y) = Len(x) + Len(y)
        /\ Laid(code, pc + 1, x \o y) => Laid(code, pc + 1, x) /\ Laid(code, pc + 1 + Len(x), y)
    BY <1>4, <2>1, TwoPieces, Zenon
  <2> QED BY <1>5, <2>2, Zenon
<1>7. PICK shape : shape = "InvokeDynamic"
  OBVIOUS
<1>8. ShapeOf(ins.opcode) = shape /\ shape \in FixedShapes /\ FixedLen[shape] = 4
  BY <1>2, <1>7, ShapesOf, FixedShapesAre
<1>9. OperandsOf(code, pc, shape) = <<B2(code, pc + 1)>>
  BY <1>7 DEF OperandsOf
<1>10. pc + 1 \in Nat /\ Len(rest) = 4
  BY <1>4, <1>6
<1>11. Laid(code, pc + 1, rest) => B2(code, pc + 1) = n
  BY <1>1, <1>3, <1>6, <1>10, Get2
<1>12. Laid(code, pc + 1, rest) => OperandsOf(code, pc, shape) = ins.args
  BY <1>2, <1>9, <1>11
<1>13. Len(rest) = FixedLen[shape]
  BY <1>8, <1>10
<1>14. ReadBack(ins, rest)
  <2>1. rest \in Seq(Int) /\ ShapeOf(ins.opcode) = shape /\ shape \in FixedShapes
    BY <1>6, <1>8
  <2> QED BY <2>1, <1>12, <1>13, FixedReads, SMT
<1> QED BY <1>1, <1>3, <1>5, <1>14, Zenon

LEMMA TripleIs ==
    ASSUME NEW n \in Int, NEW l \in Int, NEW c \in Int
    PROVE  <<n, l>> \o <<c>> = <<n, l, c>>
<1>1. PICK p \in Seq(Int), q \in Seq(Int) : p = <<n, l>> /\ q = <<c>>
  <2>1. <<n, l>> \in Seq(Int) /\ <<c>> \in Seq(Int)
    OBVIOUS
  <2> QED BY <2>1, Zenon
<1>2. Len(p) = 2 /\ Len(q) = 1 /\ p[1] = n /\ p[2] = l /\ q[1] = c
  BY <1>1
<1>3. /\ p \o q \in Seq(Int) /\ Len(p \o q) = Len(p) + Len(q)
      /\ \A j \in 1..Len(p) : (p \o q)[j] = p[j]
      /\ \A j \in 1..Len(q) : (p \o q)[Len(p) + j] = q[j]
  BY Cat, Zenon
<1>4. PICK e : e = p \o q
  OBVIOUS
<1>5. e \in Seq(Int) /\ Len(e) = 3 /\ e[1] = n /\ e[2] = l /\ e[3] = c
  <2>1. e \in Seq(Int) /\ Len(e) = Len(p) + Len(q)
    BY <1>3, <1>4
  <2>2. \A j \in 1..Len(p) : e[j] = p[j]
    BY <1>3, <1>4
  <2>3. \A j \in 1..Len(q) : e[Len(p) + j] = q[j]
    BY <1>3, <1>4
  <2>4. e[1] = n /\ e[2] = l
    BY <1>2, <2>2
  <2>5. e[3] = c
    BY <1>2, <2>3
  <2> QED BY <1>2, <2>1, <2>4, <2>5
<1>6. e = <<n, l, c>>
  BY <1>5
<1> QED BY <1>1, <1>4, <1>6

\* What is behind the opcode of a widened instruction, and of a switch.
WideBehind(ins) ==
    Put1(ins.args[1]) \o Put2(ins.args[2]) \o IF ins.args[1] = 132 THEN Put2(ins.args[3]) ELSE <<>>
TableBehind(ins, at) ==
    Pads(at) \o Put4(ins.args[3] - at) \o Put4(ins.args[1]) \o Put4(ins.args[2]) \o ins.targets
LookupBehind(ins, at) ==
    Pads(at) \o Put4(ins.args[2] - at) \o Put4(ins.args[1]) \o ins.targets

LEMMA WideReads ==
    ASSUME size = Len(code), code \in Seq(Byte), pc \in Nat, NEW ins \in Instr, ins.opcode = 196,
           ins.args[2] \in Unsigned16,
           \/ Len(ins.args) = 2 /\ ins.args[1] \in Byte \ {132}
           \/ Len(ins.args) = 3 /\ ins.args[1] = 132 /\ ins.args[3] \in SignedShort
    PROVE  ReadBack(ins, WideBehind(ins))
<1>1. PICK n \in Int, l \in Int : n = ins.args[1] /\ l = ins.args[2]
  BY DEF Instr
<1>2. n \in Byte /\ ins.opcode \in Byte /\ l \in Unsigned16
  BY <1>1 DEF Byte, Instr
<1>3. PICK x, y, z : x = Put1(n) /\ y = Put2(l) /\ z = IF n = 132 THEN Put2(ins.args[3]) ELSE <<>>
  OBVIOUS
<1>4. x \in Seq(Int) /\ Len(x) = 1 /\ y \in Seq(Int) /\ Len(y) = 2
  BY <1>3, PutsAreSeqs
<1>5. z \in Seq(Int) /\ Len(z) = IF n = 132 THEN 2 ELSE 0
  <2>1. CASE n = 132
    <3>1. PICK c \in Int : c = ins.args[3]
      BY <1>1, <2>1 DEF Instr
    <3> QED BY <1>3, <2>1, <3>1, PutsAreSeqs
  <2>2. CASE n # 132
    BY <1>3, <2>2
  <2> QED BY <2>1, <2>2
<1>6. PICK both, rest : both = x \o y /\ rest = both \o z
  OBVIOUS
<1>7. pc + 1 \in Nat /\ pc + 2 \in Nat /\ pc + 4 \in Nat /\ pc + 1 + Len(x) = pc + 2
  BY <1>4
<1>8. /\ both \in Seq(Int) /\ Len(both) = Len(x) + Len(y)
      /\ Laid(code, pc + 1, both) => Laid(code, pc + 1, x) /\ Laid(code, pc + 1 + Len(x), y)
  <2>1. /\ x \o y \in Seq(Int) /\ Len(x \o y) = Len(x) + Len(y)
        /\ Laid(code, pc + 1, x \o y) => Laid(code, pc + 1, x) /\ Laid(code, pc + 1 + Len(x), y)
    BY <1>4, <1>7, TwoPieces, Zenon
  <2> QED BY <1>6, <2>1, Zenon
<1>9. /\ rest \in Seq(Int) /\ Len(rest) = Len(both) + Len(z)
      /\ Laid(code, pc + 1, rest) => Laid(code, pc + 1, both) /\ Laid(code, pc + 1 + Len(both), z)
  <2>1. /\ both \o z \in Seq(Int) /\ Len(both \o z) = Len(both) + Len(z)
        /\ Laid(code, pc + 1, both \o z) => Laid(code, pc + 1, both) /\ Laid(code, pc + 1 + Len(both), z)
    <3>1. both \in Seq(Int) /\ z \in Seq(Int) /\ pc + 1 \in Nat
      BY <1>5, <1>7, <1>8
    <3> QED BY <3>1, TwoPieces, Zenon
  <2> QED BY <1>6, <2>1, Zenon
<1>10. Len(both) = 3 /\ Len(rest) = (IF n = 132 THEN 5 ELSE 3) /\ pc + 1 + Len(both) = pc + 4
  BY <1>4, <1>5, <1>8, <1>9
<1>11. PICK shape : shape = "Wide"
  OBVIOUS
<1>12. ShapeOf(ins.opcode) = shape
  BY <1>2, <1>11, ShapesOf
<1>13. SUFFICES ASSUME Laid(code, pc + 1, rest)
       PROVE  EndOf(shape) = pc + 1 + Len(rest) /\ OperandsOf(code, pc, shape) = ins.args
  <2>1. ReadBack(ins, rest)
    BY <1>9, <1>11, <1>12, <1>13 DEF ReadBack
  <2> QED BY <1>1, <1>3, <1>6, <2>1, Zenon DEF WideBehind
<1>14. B1(code, pc + 1) = n /\ B2(code, pc + 2) = l
  BY <1>2, <1>3, <1>7, <1>8, <1>9, <1>13, Get1, Get2
<1>15. pc + 1 + Len(rest) <= size
  BY <1>13 DEF Laid
<1>16. EndOf(shape) = pc + 1 + Len(rest)
  <2>1. EndOf(shape) = WideEnd(n = 132)
    BY <1>11, <1>14 DEF EndOf
  <2>2. WideEnd(n = 132) = Within(pc + IF n = 132 THEN 6 ELSE 4)
    BY <1>10, <1>15 DEF WideEnd, Has
  <2>3. pc + (IF n = 132 THEN 6 ELSE 4) = pc + 1 + Len(rest)
    BY <1>10
  <2> QED BY <1>15, <2>1, <2>2, <2>3 DEF Within
<1>17. OperandsOf(code, pc, shape) = Widened(code, pc)
  BY <1>11 DEF OperandsOf
<1>18. CASE n = 132
  <2>1. PICK c \in Int : c = ins.args[3]
    BY <1>1, <1>18 DEF Instr
  <2>2. c \in SignedShort /\ Len(ins.args) = 3
    BY <1>1, <1>18, <2>1
  <2>6. ins.args = <<n, l, c>>
    BY <1>1, <2>1, <2>2 DEF Instr
  <2>3. Signed(B2(code, pc + 4), U16) = c
    <3>1. z = Put2(c) /\ pc + 4 \in Nat
      BY <1>3, <1>7, <1>18, <2>1
    <3>2. Laid(code, pc + 4, Put2(c))
      BY <1>9, <1>10, <1>13, <3>1
    <3> QED BY <2>2, <3>1, <3>2, Get2
  <2>4. Widened(code, pc) = <<n, l>> \o <<c>>
    BY <1>14, <1>18, <2>3 DEF Widened
  <2>5. <<n, l>> \o <<c>> = <<n, l, c>>
    BY TripleIs
  <2> QED BY <1>16, <1>17, <2>6, <2>4, <2>5
<1>19. CASE n # 132
  <2>1. ins.args = <<n, l>>
    BY <1>1, <1>19 DEF Instr
  <2>2. Widened(code, pc) = <<n, l>> \o <<>>
    BY <1>14, <1>19 DEF Widened
  <2>3. <<n, l>> \o <<>> = <<n, l>>
    OBVIOUS
  <2> QED BY <1>16, <1>17, <2>1, <2>2, <2>3
<1> QED BY <1>18, <1>19

LEMMA PadsAre ==
    ASSUME NEW at \in Nat
    PROVE  /\ Pads(at) \in Seq(Int) /\ at + 1 + Len(Pads(at)) = PadToU32(at + 1)
           /\ PadToU32(at + 1) \in Nat
<1>1. (3 - at) % 4 \in Nat
  OBVIOUS
<1>2. PICK k \in Nat : k = (3 - at) % 4
  BY <1>1
<1>3. Pads(at) \in Seq(Int) /\ Len(Pads(at)) = k
  BY <1>2 DEF Pads
<1>4. (4 - ((at + 1) % 4)) % 4 = (3 - at) % 4
  OBVIOUS
<1> QED BY <1>2, <1>3, <1>4 DEF PadToU32

\* Three pieces behind each other.
LEMMA ThreePieces ==
    ASSUME NEW bytes \in Seq(Byte), NEW at \in Nat,
           NEW x \in Seq(Int), NEW y \in Seq(Int), NEW z \in Seq(Int)
    PROVE  /\ x \o y \o z \in Seq(Int) /\ Len(x \o y \o z) = Len(x) + Len(y) + Len(z)
           /\ Laid(bytes, at, x \o y \o z) =>
                  /\ Laid(bytes, at + Len(x), y)
                  /\ Laid(bytes, at + Len(x) + Len(y), z)
<1>1. /\ x \o y \in Seq(Int) /\ Len(x \o y) = Len(x) + Len(y)
      /\ Laid(bytes, at, x \o y) => Laid(bytes, at + Len(x), y)
  BY TwoPieces, Zenon
<1>2. PICK both \in Seq(Int) : both = x \o y
  BY <1>1
<1>3. /\ both \o z \in Seq(Int) /\ Len(both \o z) = Len(both) + Len(z)
      /\ Laid(bytes, at, both \o z) => Laid(bytes, at, both) /\ Laid(bytes, at + Len(both), z)
  BY TwoPieces, Zenon
<1>4. at + (Len(x) + Len(y)) = at + Len(x) + Len(y)
  OBVIOUS
<1> QED BY <1>1, <1>2, <1>3, <1>4

\* A default and a second number stand at the head of a switch.
HeadOf(at, default, n) == Pads(at) \o Put4(default) \o Put4(n)

LEMMA SwitchHead ==
    ASSUME code \in Seq(Byte), pc \in Nat, NEW default \in Int, NEW n \in Int,
           IsSignedInt(default), IsSignedInt(n)
    PROVE  /\ HeadOf(pc, default, n) \in Seq(Int)
           /\ pc + 1 + Len(HeadOf(pc, default, n)) = PadToU32(pc + 1) + 8
           /\ Laid(code, pc + 1, HeadOf(pc, default, n)) =>
                  /\ B4(code, PadToU32(pc + 1)) = default
                  /\ B4(code, PadToU32(pc + 1) + 4) = n
<1>0. PICK head : head = HeadOf(pc, default, n)
  OBVIOUS
<1>1. PICK x, y, z : x = Pads(pc) /\ y = Put4(default) /\ z = Put4(n)
  OBVIOUS
<1>2. PICK base \in Nat : base = PadToU32(pc + 1) /\ pc + 1 + Len(x) = base
  BY <1>1, PadsAre
<1>3. /\ x \in Seq(Int) /\ y \in Seq(Int) /\ Len(y) = 4 /\ z \in Seq(Int) /\ Len(z) = 4
      /\ pc + 1 \in Nat /\ base + 4 \in Nat
  BY <1>1, PutsAreSeqs, PadsAre
<1>4. head = x \o y \o z
  BY <1>0, <1>1 DEF HeadOf
<1>5. /\ x \o y \o z \in Seq(Int) /\ Len(x \o y \o z) = Len(x) + Len(y) + Len(z)
      /\ Laid(code, pc + 1, x \o y \o z) =>
             /\ Laid(code, pc + 1 + Len(x), y)
             /\ Laid(code, pc + 1 + Len(x) + Len(y), z)
  BY <1>3, ThreePieces, Zenon
<1>6. pc + 1 + Len(head) = base + 8
  BY <1>2, <1>3, <1>4, <1>5
<1>7. Laid(code, pc + 1, head) => Laid(code, base, y) /\ Laid(code, base + 4, z)
  BY <1>2, <1>3, <1>4, <1>5
<1>8. Laid(code, pc + 1, head) => B4(code, base) = default /\ B4(code, base + 4) = n
  BY <1>1, <1>3, <1>7, Get4
<1> QED BY <1>0, <1>2, <1>4, <1>5, <1>6, <1>8

LEMMA BytesAreNumbers == ASSUME NEW s \in Seq(Byte) PROVE s \in Seq(Int)
<1>1. Byte \subseteq Int
  BY DEF Byte
<1>2. s \in [1..Len(s) -> Byte]
  OBVIOUS
<1>3. s \in [1..Len(s) -> Int]
  BY <1>1, <1>2
<1> QED BY <1>3

LEMMA LookupReads ==
    ASSUME size = Len(code), code \in Seq(Byte), pc \in Nat, NEW ins \in Instr, Len(ins.args) = 2,
           ins.opcode = 171, IsSignedInt(ins.args[1]), IsSignedInt(ins.args[2] - pc),
           ins.args[1] >= 0, Len(ins.targets) = 8 * ins.args[1]
    PROVE  ReadBack(ins, LookupBehind(ins, pc))
<1>1. PICK n \in Int, t \in Int : n = ins.args[1] /\ t = ins.args[2]
  BY DEF Instr
<1>2. ins.args = <<n, t>> /\ ins.opcode \in Byte
  BY <1>1 DEF Instr
<1>0. PICK targets \in Seq(Int) : targets = ins.targets
  <2>1. ins.targets \in Seq(Byte)
    BY DEF Instr
  <2> QED BY <2>1, BytesAreNumbers
<1>3. PICK d \in Int : d = t - pc
  OBVIOUS
<1>4. PICK head : head = HeadOf(pc, d, n)
  OBVIOUS
<1>5. PICK base \in Nat : base = PadToU32(pc + 1)
  BY PadsAre
<1>6. /\ head \in Seq(Int) /\ pc + 1 + Len(head) = base + 8
      /\ Laid(code, pc + 1, head) => B4(code, base) = d /\ B4(code, base + 4) = n
  <2>1. IsSignedInt(d) /\ IsSignedInt(n)
    BY <1>1, <1>3
  <2>2. /\ HeadOf(pc, d, n) \in Seq(Int)
        /\ pc + 1 + Len(HeadOf(pc, d, n)) = PadToU32(pc + 1) + 8
        /\ Laid(code, pc + 1, HeadOf(pc, d, n)) =>
               B4(code, PadToU32(pc + 1)) = d /\ B4(code, PadToU32(pc + 1) + 4) = n
    BY <2>1, SwitchHead, Zenon
  <2> QED BY <1>4, <1>5, <2>2, Zenon
<1>7. PICK rest : rest = head \o targets
  OBVIOUS
<1>8. /\ rest \in Seq(Int) /\ Len(rest) = Len(head) + Len(targets)
      /\ Laid(code, pc + 1, rest) => Laid(code, pc + 1, head)
  <2>1. pc + 1 \in Nat
    OBVIOUS
  <2>2. /\ head \o targets \in Seq(Int)
        /\ Len(head \o targets) = Len(head) + Len(targets)
        /\ Laid(code, pc + 1, head \o targets) =>
               Laid(code, pc + 1, head) /\ Laid(code, pc + 1 + Len(head), targets)
    <3>1. head \in Seq(Int)
      BY <1>6
    <3>2. targets \in Seq(Int)
      BY <1>0
    <3> QED BY <2>1, <3>1, <3>2, TwoPieces
  <2> QED BY <1>7, <2>2
<1>9. pc + 1 + Len(rest) = base + 8 + n * 8 /\ n >= 0
  <2>1. PICK i \in Nat, k \in Nat, m \in Nat : i = Len(head) /\ k = Len(targets) /\ m = Len(rest)
    BY <1>6, <1>8
  <2>2. m = i + k /\ pc + 1 + i = base + 8
    BY <1>6, <1>8, <2>1
  <2>3. k = 8 * n /\ n >= 0
    BY <1>0, <1>1, <2>1
  <2>4. pc + 1 + m = base + 8 + n * 8
    BY <2>2, <2>3
  <2> QED BY <2>1, <2>3, <2>4
<1>10. PICK shape : shape = "LookupSwitch"
  OBVIOUS
<1>11. ShapeOf(ins.opcode) = shape
  BY <1>2, <1>10, ShapesOf
<1>12. ASSUME Laid(code, pc + 1, rest)
       PROVE  EndOf(shape) = pc + 1 + Len(rest) /\ OperandsOf(code, pc, shape) = ins.args
  <2>1. B4(code, base) = d /\ B4(code, base + 4) = n
    BY <1>6, <1>8, <1>12
  <2>2. pc + 1 + Len(rest) <= size
    BY <1>12 DEF Laid
  <2>3. EndOf(shape) = LookupEnd(n)
    BY <1>5, <1>10, <2>1 DEF EndOf
  <2>4. LookupEnd(n) = pc + 1 + Len(rest)
    <3>1. Has(PadToU32(pc + 1), 8)
      BY <1>5, <1>9, <2>2 DEF Has
    <3>2. LookupEnd(n) = Within(base + 8 + n * 8)
      BY <1>5, <1>9, <3>1 DEF LookupEnd
    <3> QED BY <1>9, <2>2, <3>2 DEF Within
  <2>5. OperandsOf(code, pc, shape) = <<B4(code, base + 4), pc + B4(code, base)>>
    BY <1>5, <1>10 DEF OperandsOf, Lookup
  <2>6. pc + d = t
    BY <1>3
  <2> QED BY <1>2, <2>1, <2>3, <2>4, <2>5, <2>6
<1>13. shape # "unassigned"
  BY <1>10
<1>14. ReadBack(ins, rest)
  BY <1>8, <1>11, <1>12, <1>13, Zenon DEF ReadBack
<1> QED BY <1>0, <1>1, <1>3, <1>4, <1>7, <1>14, Zenon DEF HeadOf, LookupBehind

LEMMA TableReads ==
    ASSUME size = Len(code), code \in Seq(Byte), pc \in Nat, NEW ins \in Instr, Len(ins.args) = 3,
           ins.opcode = 170, IsSignedInt(ins.args[1]), IsSignedInt(ins.args[2]),
           IsSignedInt(ins.args[3] - pc), ins.args[1] <= ins.args[2],
           Len(ins.targets) = 4 * (ins.args[2] - ins.args[1] + 1)
    PROVE  ReadBack(ins, TableBehind(ins, pc))
<1>1. PICK lo \in Int, hi \in Int, t \in Int : lo = ins.args[1] /\ hi = ins.args[2] /\ t = ins.args[3]
  BY DEF Instr
<1>2. ins.args = <<lo, hi, t>> /\ ins.opcode \in Byte
  BY <1>1 DEF Instr
<1>0. PICK targets \in Seq(Int) : targets = ins.targets
  <2>1. ins.targets \in Seq(Byte)
    BY DEF Instr
  <2> QED BY <2>1, BytesAreNumbers
<1>3. PICK d \in Int : d = t - pc
  OBVIOUS
<1>4. PICK head, x : head = HeadOf(pc, d, lo) /\ x = Put4(hi)
  OBVIOUS
<1>5. PICK base \in Nat : base = PadToU32(pc + 1)
  BY PadsAre
<1>6. /\ head \in Seq(Int) /\ pc + 1 + Len(head) = base + 8
      /\ Laid(code, pc + 1, head) => B4(code, base) = d /\ B4(code, base + 4) = lo
  <2>1. IsSignedInt(d) /\ IsSignedInt(lo)
    BY <1>1, <1>3
  <2>2. /\ HeadOf(pc, d, lo) \in Seq(Int)
        /\ pc + 1 + Len(HeadOf(pc, d, lo)) = PadToU32(pc + 1) + 8
        /\ Laid(code, pc + 1, HeadOf(pc, d, lo)) =>
               B4(code, PadToU32(pc + 1)) = d /\ B4(code, PadToU32(pc + 1) + 4) = lo
    BY <2>1, SwitchHead, Zenon
  <2> QED BY <1>4, <1>5, <2>2, Zenon
<1>7. PICK more, rest : more = head \o x /\ rest = more \o targets
  OBVIOUS
<1>8. x \in Seq(Int) /\ Len(x) = 4 /\ pc + 1 \in Nat /\ base + 8 \in Nat
  BY <1>4, PutsAreSeqs
<1>9. /\ more \in Seq(Int) /\ Len(more) = Len(head) + Len(x)
      /\ Laid(code, pc + 1, more) => Laid(code, pc + 1, head) /\ Laid(code, pc + 1 + Len(head), x)
  <2>1. /\ head \o x \in Seq(Int) /\ Len(head \o x) = Len(head) + Len(x)
        /\ Laid(code, pc + 1, head \o x) =>
               Laid(code, pc + 1, head) /\ Laid(code, pc + 1 + Len(head), x)
    BY <1>6, <1>8, TwoPieces, Zenon
  <2> QED BY <1>7, <2>1, Zenon
<1>10. /\ rest \in Seq(Int) /\ Len(rest) = Len(more) + Len(targets)
       /\ Laid(code, pc + 1, rest) => Laid(code, pc + 1, more)
  <2>1. more \in Seq(Int) /\ targets \in Seq(Int) /\ pc + 1 \in Nat
    BY <1>8, <1>9
  <2>2. \A a, b \in Seq(Int) :
            /\ a \o b \in Seq(Int) /\ Len(a \o b) = Len(a) + Len(b)
            /\ Laid(code, pc + 1, a \o b) => Laid(code, pc + 1, a) /\ Laid(code, pc + 1 + Len(a), b)
    BY <2>1, TwoPieces, Zenon
  <2>3. rest = more \o targets
    BY <1>7
  <2>4. rest \in Seq(Int) /\ Len(rest) = Len(more) + Len(targets)
    BY <2>1, <2>2, <2>3
  <2> QED BY <2>1, <2>2, <2>3, <2>4, Zenon
<1>11. pc + 1 + Len(rest) = base + 12 + (hi - lo + 1) * 4 /\ ~(hi < lo) /\ hi - lo + 1 >= 1
  <2>1. PICK i \in Nat, k \in Nat, m \in Nat : i = Len(head) /\ k = Len(targets) /\ m = Len(rest)
    BY <1>6, <1>10
  <2>2. m = i + 4 + k /\ pc + 1 + i = base + 8
    BY <1>6, <1>8, <1>9, <1>10, <2>1
  <2>3. k = 4 * (hi - lo + 1) /\ lo <= hi
    BY <1>0, <1>1, <2>1
  <2>4. pc + 1 + m = base + 12 + (hi - lo + 1) * 4
    BY <2>2, <2>3
  <2> QED BY <2>1, <2>3, <2>4
<1>12. PICK shape : shape = "TableSwitch"
  OBVIOUS
<1>13. ShapeOf(ins.opcode) = shape
  BY <1>2, <1>12, ShapesOf
<1>14. ASSUME Laid(code, pc + 1, rest)
       PROVE  EndOf(shape) = pc + 1 + Len(rest) /\ OperandsOf(code, pc, shape) = ins.args
  <2>1. B4(code, base) = d /\ B4(code, base + 4) = lo
    BY <1>6, <1>9, <1>10, <1>14
  <2>2. B4(code, base + 8) = hi
    <3>1. Laid(code, base + 8, Put4(hi))
      BY <1>4, <1>6, <1>9, <1>10, <1>14
    <3>2. IsSignedInt(hi)
      BY <1>1
    <3> QED BY <1>8, <3>1, <3>2, Get4, Zenon
  <2>3. pc + 1 + Len(rest) <= size
    BY <1>14 DEF Laid
  <2>4. EndOf(shape) = TableEnd(lo, hi)
    BY <1>5, <1>12, <2>1, <2>2 DEF EndOf
  <2>5. TableEnd(lo, hi) = pc + 1 + Len(rest)
    <3>1. Has(PadToU32(pc + 1), 12)
      BY <1>5, <1>11, <2>3 DEF Has
    <3>2. TableEnd(lo, hi) = Within(base + 12 + (hi - lo + 1) * 4)
      BY <1>5, <1>11, <3>1 DEF TableEnd
    <3> QED BY <1>11, <2>3, <3>2 DEF Within
  <2>6. OperandsOf(code, pc, shape) = <<B4(code, base + 4), B4(code, base + 8), pc + B4(code, base)>>
    BY <1>5, <1>12 DEF OperandsOf, Table
  <2>7. pc + d = t
    BY <1>3
  <2> QED BY <1>2, <2>1, <2>2, <2>4, <2>5, <2>6, <2>7
<1>15. shape # "unassigned"
  BY <1>12
<1>16. ReadBack(ins, rest)
  BY <1>10, <1>13, <1>14, <1>15, Zenon DEF ReadBack
<1> QED BY <1>0, <1>1, <1>3, <1>4, <1>7, <1>16, Zenon DEF HeadOf, TableBehind

\* What is behind an opcode is a question with one answer.
LEMMA KindsApart ==
    ASSUME NEW opcode \in Byte
    PROVE  /\ opcode \in OneUnsigned \cup {16} => opcode \notin Bare
           /\ opcode \in TwoUnsigned \cup {17} => opcode \notin Bare \cup OneUnsigned \cup {16}
           /\ opcode \in {132, 185, 186, 197, 196, 170, 171} =>
                  opcode \notin Bare \cup OneUnsigned \cup {16} \cup TwoUnsigned \cup {17} \cup Jumps \cup FarJumps
           /\ opcode \in Jumps =>
                  /\ opcode \notin Bare \cup OneUnsigned \cup {16} \cup TwoUnsigned \cup {17}
                  /\ opcode \notin {132, 185, 186, 197, 196, 170, 171}
           /\ opcode \in FarJumps =>
                  /\ opcode \notin Bare \cup OneUnsigned \cup {16} \cup TwoUnsigned \cup {17} \cup Jumps
                  /\ opcode \notin {132, 185, 186, 197, 196, 170, 171}
BY SMTT(60) DEF Byte, Bare, OneUnsigned, TwoUnsigned, Jumps, FarJumps

LEMMA BehindIs ==
    ASSUME NEW ins \in Instr, NEW at
    PROVE  /\ ins.opcode \in Bare => Behind(ins, at) = <<>>
           /\ ins.opcode \in OneUnsigned \cup {16} => Behind(ins, at) = Put1(ins.args[1])
           /\ ins.opcode \in TwoUnsigned \cup {17} => Behind(ins, at) = Put2(ins.args[1])
           /\ ins.opcode \in Jumps => Behind(ins, at) = Put2(ins.args[1] - at)
           /\ ins.opcode \in FarJumps => Behind(ins, at) = Put4(ins.args[1] - at)
<1>0. ins.opcode \in Byte
  BY DEF Instr
<1>1. ASSUME ins.opcode \in Bare PROVE Behind(ins, at) = <<>>
  BY <1>0, <1>1, KindsApart DEF Behind
<1>2. ASSUME ins.opcode \in OneUnsigned \cup {16} PROVE Behind(ins, at) = Put1(ins.args[1])
  BY <1>0, <1>2, KindsApart DEF Behind
<1>3. ASSUME ins.opcode \in TwoUnsigned \cup {17} PROVE Behind(ins, at) = Put2(ins.args[1])
  BY <1>0, <1>3, KindsApart DEF Behind
<1>4. ASSUME ins.opcode \in Jumps PROVE Behind(ins, at) = Put2(ins.args[1] - at)
  BY <1>0, <1>4, KindsApart DEF Behind
<1>5. ASSUME ins.opcode \in FarJumps PROVE Behind(ins, at) = Put4(ins.args[1] - at)
  BY <1>0, <1>5, KindsApart DEF Behind
<1> QED BY <1>1, <1>2, <1>3, <1>4, <1>5

LEMMA BehindIinc ==
    ASSUME NEW ins \in Instr, NEW at, ins.opcode = 132
    PROVE  Behind(ins, at) = Put1(ins.args[1]) \o Put1(ins.args[2])
<1>1. ins.opcode \in Byte
  BY DEF Instr
<1>2. /\ ins.opcode \notin Bare /\ ins.opcode \notin OneUnsigned \cup {16}
      /\ ins.opcode \notin TwoUnsigned \cup {17} /\ ins.opcode \notin Jumps /\ ins.opcode \notin FarJumps
  BY <1>1, KindsApart
<1>4. ins.opcode # 185 /\ ins.opcode # 186 /\ ins.opcode # 197 /\ ins.opcode # 196 /\ ins.opcode # 170 /\ ins.opcode # 171
  OBVIOUS
<1> QED BY <1>2, <1>4, ZenonT(30) DEF Behind

LEMMA BehindInterface ==
    ASSUME NEW ins \in Instr, NEW at, ins.opcode = 185
    PROVE  Behind(ins, at) = Put2(ins.args[1]) \o Put1(ins.args[2]) \o <<0>>
<1>1. ins.opcode \in Byte
  BY DEF Instr
<1>2. /\ ins.opcode \notin Bare /\ ins.opcode \notin OneUnsigned \cup {16}
      /\ ins.opcode \notin TwoUnsigned \cup {17} /\ ins.opcode \notin Jumps /\ ins.opcode \notin FarJumps
  BY <1>1, KindsApart
<1>4. ins.opcode # 132 /\ ins.opcode # 186 /\ ins.opcode # 197 /\ ins.opcode # 196 /\ ins.opcode # 170 /\ ins.opcode # 171
  OBVIOUS
<1> QED BY <1>2, <1>4, ZenonT(30) DEF Behind

LEMMA BehindDynamic ==
    ASSUME NEW ins \in Instr, NEW at, ins.opcode = 186
    PROVE  Behind(ins, at) = Put2(ins.args[1]) \o <<0, 0>>
<1>1. ins.opcode \in Byte
  BY DEF Instr
<1>2. /\ ins.opcode \notin Bare /\ ins.opcode \notin OneUnsigned \cup {16}
      /\ ins.opcode \notin TwoUnsigned \cup {17} /\ ins.opcode \notin Jumps /\ ins.opcode \notin FarJumps
  BY <1>1, KindsApart
<1>4. ins.opcode # 132 /\ ins.opcode # 185 /\ ins.opcode # 197 /\ ins.opcode # 196 /\ ins.opcode # 170 /\ ins.opcode # 171
  OBVIOUS
<1> QED BY <1>2, <1>4, ZenonT(30) DEF Behind

LEMMA BehindArray ==
    ASSUME NEW ins \in Instr, NEW at, ins.opcode = 197
    PROVE  Behind(ins, at) = Put2(ins.args[1]) \o Put1(ins.args[2])
<1>1. ins.opcode \in Byte
  BY DEF Instr
<1>2. /\ ins.opcode \notin Bare /\ ins.opcode \notin OneUnsigned \cup {16}
      /\ ins.opcode \notin TwoUnsigned \cup {17} /\ ins.opcode \notin Jumps /\ ins.opcode \notin FarJumps
  BY <1>1, KindsApart
<1>4. ins.opcode # 132 /\ ins.opcode # 185 /\ ins.opcode # 186 /\ ins.opcode # 196 /\ ins.opcode # 170 /\ ins.opcode # 171
  OBVIOUS
<1> QED BY <1>2, <1>4, ZenonT(30) DEF Behind

LEMMA BehindWide ==
    ASSUME NEW ins \in Instr, NEW at, ins.opcode = 196
    PROVE  Behind(ins, at) = WideBehind(ins)
<1>1. ins.opcode \in Byte
  BY DEF Instr
<1>2. /\ ins.opcode \notin Bare /\ ins.opcode \notin OneUnsigned \cup {16}
      /\ ins.opcode \notin TwoUnsigned \cup {17} /\ ins.opcode \notin Jumps /\ ins.opcode \notin FarJumps
  BY <1>1, KindsApart
<1>4. ins.opcode # 132 /\ ins.opcode # 185 /\ ins.opcode # 186 /\ ins.opcode # 197 /\ ins.opcode # 170 /\ ins.opcode # 171
  OBVIOUS
<1> QED BY <1>2, <1>4, ZenonT(30) DEF Behind, WideBehind

LEMMA BehindTable ==
    ASSUME NEW ins \in Instr, NEW at, ins.opcode = 170
    PROVE  Behind(ins, at) = TableBehind(ins, at)
<1>1. ins.opcode \in Byte
  BY DEF Instr
<1>2. /\ ins.opcode \notin Bare /\ ins.opcode \notin OneUnsigned \cup {16}
      /\ ins.opcode \notin TwoUnsigned \cup {17} /\ ins.opcode \notin Jumps /\ ins.opcode \notin FarJumps
  BY <1>1, KindsApart
<1>4. ins.opcode # 132 /\ ins.opcode # 185 /\ ins.opcode # 186 /\ ins.opcode # 197 /\ ins.opcode # 196 /\ ins.opcode # 171
  OBVIOUS
<1> QED BY <1>2, <1>4, ZenonT(30) DEF Behind, TableBehind

LEMMA BehindLookup ==
    ASSUME NEW ins \in Instr, NEW at, ins.opcode = 171
    PROVE  Behind(ins, at) = LookupBehind(ins, at)
<1>1. ins.opcode \in Byte
  BY DEF Instr
<1>2. /\ ins.opcode \notin Bare /\ ins.opcode \notin OneUnsigned \cup {16}
      /\ ins.opcode \notin TwoUnsigned \cup {17} /\ ins.opcode \notin Jumps /\ ins.opcode \notin FarJumps
  BY <1>1, KindsApart
<1>4. ins.opcode # 132 /\ ins.opcode # 185 /\ ins.opcode # 186 /\ ins.opcode # 197 /\ ins.opcode # 196 /\ ins.opcode # 170
  OBVIOUS
<1> QED BY <1>2, <1>4, ZenonT(30) DEF Behind, LookupBehind

\* Whatever the instruction, it reads as it was written.
LEMMA AnyReads ==
    ASSUME size = Len(code), code \in Seq(Byte), pc \in Nat, NEW ins \in Instr, Fits(ins, pc)
    PROVE  ReadBack(ins, Behind(ins, pc))
<1>1. CASE ins.opcode \in Bare /\ Len(ins.args) = 0
  BY <1>1, BehindIs, BareReads
<1>2. CASE /\ Len(ins.args) = 1
           /\ \/ ins.opcode \in OneUnsigned /\ ins.args[1] \in Byte
              \/ ins.opcode = 16 /\ ins.args[1] \in SignedByte
  <2>1. Behind(ins, pc) = Put1(ins.args[1])
    BY <1>2, BehindIs
  <2>2. ReadBack(ins, Put1(ins.args[1]))
    BY <1>2, OneBehind
  <2> QED BY <2>1, <2>2, Zenon
<1>3. CASE /\ Len(ins.args) = 1
           /\ \/ ins.opcode \in TwoUnsigned /\ ins.args[1] \in Unsigned16
              \/ ins.opcode = 17 /\ ins.args[1] \in SignedShort
  <2>1. Behind(ins, pc) = Put2(ins.args[1])
    BY <1>3, BehindIs
  <2>2. ReadBack(ins, Put2(ins.args[1]))
    BY <1>3, TwoBehind
  <2> QED BY <2>1, <2>2, Zenon
<1>4. CASE ins.opcode = 186 /\ Len(ins.args) = 1 /\ ins.args[1] \in Unsigned16
  <2>1. Behind(ins, pc) = Put2(ins.args[1]) \o <<0, 0>>
    <3>1. ins.opcode = 186
      BY <1>4
    <3> QED BY <3>1, BehindDynamic, SMT
  <2>2. ReadBack(ins, Put2(ins.args[1]) \o <<0, 0>>)
    BY <1>4, DynamicReads
  <2> QED BY <2>1, <2>2, Zenon
<1>5. CASE /\ ins.opcode = 132 /\ Len(ins.args) = 2
           /\ ins.args[1] \in Byte /\ ins.args[2] \in SignedByte
  <2>1. Behind(ins, pc) = Put1(ins.args[1]) \o Put1(ins.args[2])
    <3>1. ins.opcode = 132
      BY <1>5
    <3> QED BY <3>1, BehindIinc, SMT
  <2>2. ReadBack(ins, Put1(ins.args[1]) \o Put1(ins.args[2]))
    BY <1>5, PairReads
  <2> QED BY <2>1, <2>2, Zenon
<1>6. CASE /\ ins.opcode \in {185, 197} /\ Len(ins.args) = 2
           /\ ins.args[1] \in Unsigned16 /\ ins.args[2] \in Byte
  <2>1. CASE ins.opcode = 185
    <3>1. Behind(ins, pc) = Put2(ins.args[1]) \o Put1(ins.args[2]) \o <<0>>
      BY <2>1, BehindInterface, SMT
    <3>2. ReadBack(ins, Put2(ins.args[1]) \o Put1(ins.args[2]) \o <<0>>)
      BY <1>6, <2>1, InterfaceReads
    <3> QED BY <3>1, <3>2, Zenon
  <2>2. CASE ins.opcode = 197
    <3>1. Behind(ins, pc) = Put2(ins.args[1]) \o Put1(ins.args[2])
      BY <2>2, BehindArray, SMT
    <3>2. ReadBack(ins, Put2(ins.args[1]) \o Put1(ins.args[2]))
      BY <1>6, <2>2, InterfaceReads
    <3> QED BY <3>1, <3>2, Zenon
  <2> QED BY <1>6, <2>1, <2>2
<1>7. CASE ins.opcode \in Jumps /\ Len(ins.args) = 1 /\ ins.args[1] - pc \in SignedShort
  BY <1>7, BehindIs, JumpReads
<1>8. CASE ins.opcode \in FarJumps /\ Len(ins.args) = 1 /\ IsSignedInt(ins.args[1] - pc)
  BY <1>8, BehindIs, FarJumpReads
<1>9. CASE /\ ins.opcode = 196 /\ ins.args[2] \in Unsigned16
           /\ \/ Len(ins.args) = 2 /\ ins.args[1] \in Byte \ {132}
              \/ Len(ins.args) = 3 /\ ins.args[1] = 132 /\ ins.args[3] \in SignedShort
  <2>1. Behind(ins, pc) = WideBehind(ins)
    <3>1. ins.opcode = 196
      BY <1>9
    <3> QED BY <3>1, BehindWide, SMT
  <2>2. ReadBack(ins, WideBehind(ins))
    BY <1>9, WideReads
  <2> QED BY <2>1, <2>2, Zenon
<1>10. CASE /\ ins.opcode = 170 /\ Len(ins.args) = 3
            /\ IsSignedInt(ins.args[1]) /\ IsSignedInt(ins.args[2])
            /\ IsSignedInt(ins.args[3] - pc) /\ ins.args[1] <= ins.args[2]
            /\ Len(ins.targets) = 4 * (ins.args[2] - ins.args[1] + 1)
  <2>1. Behind(ins, pc) = TableBehind(ins, pc)
    <3>1. ins.opcode = 170
      BY <1>10
    <3> QED BY <3>1, BehindTable, SMT
  <2>2. ReadBack(ins, TableBehind(ins, pc))
    BY <1>10, TableReads
  <2> QED BY <2>1, <2>2, Zenon
<1>11. CASE /\ ins.opcode = 171 /\ Len(ins.args) = 2
            /\ IsSignedInt(ins.args[1]) /\ IsSignedInt(ins.args[2] - pc)
            /\ ins.args[1] >= 0 /\ Len(ins.targets) = 8 * ins.args[1]
  <2>1. Behind(ins, pc) = LookupBehind(ins, pc)
    <3>1. ins.opcode = 171
      BY <1>11
    <3> QED BY <3>1, BehindLookup, SMT
  <2>2. ReadBack(ins, LookupBehind(ins, pc))
    BY <1>11, LookupReads
  <2> QED BY <2>1, <2>2, Zenon
<1> QED BY <1>1, <1>2, <1>3, <1>4, <1>5, <1>6, <1>7, <1>8, <1>9, <1>10, <1>11, Zenon DEF Fits
-----------------------------------------------------------------------------
(***************************************************************************)
(* The operands of an instruction are read before its end, wherever that   *)
(* is, so what follows is never part of them.                              *)
(***************************************************************************)
\* An instruction of this shape from at to here holds all that is read of it.
Covers(at, to, shape) ==
    /\ at < to /\ to <= Len(code)
    /\ shape \in FixedShapes => to = at + 1 + FixedLen[shape]
    /\ shape = "Wide" => at + 1 < to /\ to = at + IF B1(code, at + 1) = 132 THEN 6 ELSE 4
    /\ shape = "TableSwitch" => PadToU32(at + 1) + 12 <= to
    /\ shape = "LookupSwitch" => PadToU32(at + 1) + 8 <= to

\* What instruction_len does not refuse is covered.
LEMMA EndCovers ==
    ASSUME SameArray, pc \in 0..size, pc < size,
           NEW shape, shape = ShapeOf(code[pc + 1]), shape # "unassigned", EndOf(shape) # Truncated
    PROVE  shape \in Shapes /\ EndOf(shape) \in Nat /\ Covers(pc, EndOf(shape), shape)
<1>1. size \in Nat /\ size = Len(code) /\ pc \in Nat /\ shape \in Shapes
  BY InstructionsAssumption, BytecodeAssumption, TableNamesShapes DEF SameArray
<1>2. PICK end : end = EndOf(shape)
  OBVIOUS
<1>3. end \in Ends(shape) /\ end # Truncated
  BY <1>1, <1>2, EndIsAnEnd DEF SameArray
<1>8. end \in Nat /\ pc < end /\ end <= size
  <2>1. shape \in Used
    BY <1>1, BytecodeAssumption
  <2> QED BY <1>1, <1>3, <2>1, EndsMoveOn
<1>4. ASSUME shape \in FixedShapes PROVE end = pc + 1 + FixedLen[shape]
  <2>1. shape \notin {"Wide", "TableSwitch", "LookupSwitch"}
    BY <1>4 DEF FixedShapes, FixedLen
  <2> QED BY <1>2, <2>1 DEF EndOf, Within
<1>5. ASSUME shape = "Wide" PROVE pc + 1 < end /\ end = pc + IF B1(code, pc + 1) = 132 THEN 6 ELSE 4
  <2>1. end = WideEnd(B1(code, pc + 1) = 132)
    BY <1>2, <1>5 DEF EndOf
  <2>2. end # Truncated
    BY <1>2
  <2>3. end = pc + IF B1(code, pc + 1) = 132 THEN 6 ELSE 4
    BY <2>1, <2>2 DEF WideEnd, Within
  <2> QED BY <1>1, <2>3
<1>6. ASSUME shape = "TableSwitch" PROVE PadToU32(pc + 1) + 12 <= end
  <2>1. PICK low \in Int, high \in Int : end = TableEnd(low, high)
    <3>1. Ends(shape) = {TableEnd(low, high) : low, high \in Bounds}
      BY <1>6 DEF Ends, FixedShapes, FixedLen
    <3>2. PICK low \in Bounds, high \in Bounds : end = TableEnd(low, high)
      BY <1>3, <3>1
    <3> QED BY <3>2, InstructionsAssumption
  <2>2. PICK base \in Nat : base = PadToU32(pc + 1)
    BY <1>1, PadsAre
  <2>3. ~(high < low) /\ end = base + 12 + (high - low + 1) * 4
    BY <1>3, <2>1, <2>2 DEF TableEnd, Within
  <2>4. base + 12 <= end
    BY <2>3
  <2> QED BY <2>2, <2>4
<1>7. ASSUME shape = "LookupSwitch" PROVE PadToU32(pc + 1) + 8 <= end
  <2>1. PICK n \in Int : end = LookupEnd(n)
    <3>1. Ends(shape) = {LookupEnd(n) : n \in PairCounts}
      BY <1>7 DEF Ends, FixedShapes, FixedLen
    <3>2. PICK n \in PairCounts : end = LookupEnd(n)
      BY <1>3, <3>1
    <3> QED BY <3>2, InstructionsAssumption
  <2>2. PICK base \in Nat : base = PadToU32(pc + 1)
    BY <1>1, PadsAre
  <2>3. ~(n < 0) /\ end = base + 8 + n * 8
    BY <1>3, <2>1, <2>2 DEF LookupEnd, Within
  <2>4. base + 8 <= end
    BY <2>3
  <2> QED BY <2>2, <2>4
<1> QED BY <1>1, <1>2, <1>4, <1>5, <1>6, <1>7, <1>8 DEF Covers

\* Bytes that agree up to a place give the same numbers before it.
LEMMA SameNumbers ==
    ASSUME NEW a \in Seq(Byte), NEW b \in Seq(Byte), NEW to \in Nat, to <= Len(a), to <= Len(b),
           \A j \in 1..to : a[j] = b[j]
    PROVE  /\ \A at \in Nat : at + 1 <= to => B1(a, at) = B1(b, at)
           /\ \A at \in Nat : at + 2 <= to => B2(a, at) = B2(b, at)
           /\ \A at \in Nat : at + 4 <= to => B4(a, at) = B4(b, at)
<1>1. ASSUME NEW at \in Nat, at + 1 <= to PROVE B1(a, at) = B1(b, at)
  <2>1. at + 1 \in 1..to /\ at < Len(a) /\ at < Len(b)
    BY <1>1
  <2> QED BY <2>1 DEF B1
<1>2. ASSUME NEW at \in Nat, at + 2 <= to PROVE B2(a, at) = B2(b, at)
  <2>1. at + 1 \in Nat /\ at + 1 <= to /\ (at + 1) + 1 <= to
    BY <1>2
  <2>2. B1(a, at) = B1(b, at) /\ B1(a, at + 1) = B1(b, at + 1)
    BY <1>1, <2>1
  <2> QED BY <2>2 DEF B2
<1>3. ASSUME NEW at \in Nat, at + 4 <= to PROVE B4(a, at) = B4(b, at)
  <2>1. at + 2 \in Nat /\ at + 2 <= to /\ (at + 2) + 2 <= to
    BY <1>3
  <2>2. B2(a, at) = B2(b, at) /\ B2(a, at + 2) = B2(b, at + 2)
    BY <1>2, <2>1
  <2>3. ~(at + 4 > Len(a)) /\ ~(at + 4 > Len(b))
    BY <1>3
  <2> QED BY <2>2, <2>3, SMT DEF B4
<1> QED BY <1>1, <1>2, <1>3

\* Whatever follows an instruction, its operands are the same.
LEMMA OwnBytes ==
    ASSUME code \in Seq(Byte), NEW at \in Nat, NEW to \in Nat, NEW shape \in Shapes,
           Covers(at, to, shape), NEW tail \in Seq(Byte)
    PROVE  OperandsOf(SubSeq(code, 1, to) \o tail, at, shape) = OperandsOf(code, at, shape)
<1>1. at < to /\ to <= Len(code) /\ Len(code) \in Nat
  BY DEF Covers
<1>10. PICK front \in Seq(Byte) : front = SubSeq(code, 1, to)
  <2>1. SubSeq(code, 1, to) \in Seq(Byte)
    BY <1>1
  <2> QED BY <2>1, Zenon
<1>11. Len(front) = to /\ \A j \in 1..to : front[j] = code[j]
  BY <1>1, <1>10
<1>12. front \in Seq(Byte) /\ tail \in Seq(Byte)
  OBVIOUS
<1>13. /\ front \o tail \in Seq(Byte) /\ Len(front \o tail) = Len(front) + Len(tail)
       /\ \A j \in 1..(Len(front) + Len(tail)) :
              (front \o tail)[j] = IF j <= Len(front) THEN front[j] ELSE tail[j - Len(front)]
  BY <1>12, ConcatProperties, Zenon
<1>14. PICK own \in Seq(Byte) : own = front \o tail
  BY <1>13, Zenon
<1>2. own = SubSeq(code, 1, to) \o tail
  BY <1>10, <1>14, Zenon
<1>3. to <= Len(own) /\ \A j \in 1..to : own[j] = code[j]
  <2>1. PICK n \in Nat : n = Len(tail)
    OBVIOUS
  <2>2. /\ Len(own) = to + n
        /\ \A j \in 1..(to + n) : own[j] = IF j <= to THEN front[j] ELSE tail[j - to]
    BY <1>11, <1>13, <1>14, <2>1, Zenon
  <2>3. to <= to + n /\ \A j \in 1..to : j \in 1..(to + n) /\ j <= to
    BY <1>1, <2>1
  <2> QED BY <1>11, <2>2, <2>3, Zenon
<1>4. /\ \A i \in Nat : i + 1 <= to => B1(own, i) = B1(code, i)
      /\ \A i \in Nat : i + 2 <= to => B2(own, i) = B2(code, i)
      /\ \A i \in Nat : i + 4 <= to => B4(own, i) = B4(code, i)
  <2>1. own \in Seq(Byte) /\ code \in Seq(Byte) /\ to \in Nat /\ to <= Len(own) /\ to <= Len(code)
    BY <1>1, <1>3, <1>14
  <2> QED BY <1>3, <2>1, SameNumbers, Zenon
<1>5. at + 1 \in Nat /\ at + 2 \in Nat /\ at + 3 \in Nat /\ at + 4 \in Nat
  OBVIOUS
<1>6. CASE shape \in FixedShapes
  <2>1. to = at + 1 + FixedLen[shape]
    BY <1>6 DEF Covers
  <2>2. CASE shape = "None"
    BY <1>2, <2>2 DEF OperandsOf
  <2>3. CASE shape \in {"LocalU1", "Cp1", "ImmI1", "ArrayType"}
    <3>1. (at + 1) + 1 <= to
      BY <2>1, <2>3, FixedShapesAre
    <3>2. B1(own, at + 1) = B1(code, at + 1)
      BY <1>4, <1>5, <3>1
    <3> QED BY <1>2, <2>3, <3>2 DEF OperandsOf
  <2>4. CASE shape \in {"ImmI2", "Cp2", "Branch2"}
    <3>1. (at + 1) + 2 <= to
      BY <2>1, <2>4, FixedShapesAre
    <3>2. B2(own, at + 1) = B2(code, at + 1)
      BY <1>4, <1>5, <3>1
    <3> QED BY <1>2, <2>4, <3>2 DEF OperandsOf, Branch2
  <2>5. CASE shape = "LocalConst"
    <3>1. (at + 1) + 1 <= to /\ (at + 2) + 1 <= to
      BY <2>1, <2>5, FixedShapesAre
    <3>2. B1(own, at + 1) = B1(code, at + 1) /\ B1(own, at + 2) = B1(code, at + 2)
      BY <1>4, <1>5, <3>1
    <3> QED BY <1>2, <2>5, <3>2 DEF OperandsOf
  <2>6. CASE shape \in {"MultiANewArray", "InvokeInterface", "InvokeDynamic"}
    <3>1. (at + 1) + 2 <= to /\ (at + 3) + 1 <= to
      BY <2>1, <2>6, FixedShapesAre
    <3>2. B2(own, at + 1) = B2(code, at + 1) /\ B1(own, at + 3) = B1(code, at + 3)
      BY <1>4, <1>5, <3>1
    <3> QED BY <1>2, <2>6, <3>2 DEF OperandsOf
  <2>7. CASE shape = "Branch4"
    <3>1. (at + 1) + 4 <= to
      BY <2>1, <2>7, FixedShapesAre
    <3>2. B4(own, at + 1) = B4(code, at + 1)
      BY <1>4, <1>5, <3>1
    <3> QED BY <1>2, <2>7, <3>2 DEF OperandsOf, Branch4
  <2> QED BY <1>6, <2>2, <2>3, <2>4, <2>5, <2>6, <2>7 DEF FixedShapes, FixedLen
<1>7. CASE shape = "Wide"
  <2>1. (at + 1) + 1 <= to /\ to = at + IF B1(code, at + 1) = 132 THEN 6 ELSE 4
    BY <1>7 DEF Covers
  <2>2. B1(own, at + 1) = B1(code, at + 1)
    BY <1>4, <1>5, <2>1
  <2>3. B2(own, at + 2) = B2(code, at + 2)
    BY <1>4, <1>5, <2>1
  <2>4. B1(code, at + 1) = 132 => B2(own, at + 4) = B2(code, at + 4)
    BY <1>4, <1>5, <2>1
  <2>5. Widened(own, at) = Widened(code, at)
    BY <2>2, <2>3, <2>4 DEF Widened
  <2> QED BY <1>2, <1>7, <2>5 DEF OperandsOf
<1>8. CASE shape = "TableSwitch"
  <2>1. PICK base \in Nat : base = PadToU32(at + 1)
    BY PadsAre
  <2>2. base + 4 <= to /\ (base + 4) + 4 <= to /\ (base + 8) + 4 <= to /\ base + 4 \in Nat /\ base + 8 \in Nat
    <3>1. base + 12 <= to
      BY <1>8, <2>1 DEF Covers
    <3> QED BY <3>1
  <2>3. /\ B4(own, base) = B4(code, base) /\ B4(own, base + 4) = B4(code, base + 4)
        /\ B4(own, base + 8) = B4(code, base + 8)
    BY <1>4, <2>2
  <2>4. Table(own, at, base) = Table(code, at, base)
    BY <2>3 DEF Table
  <2> QED BY <1>2, <1>8, <2>1, <2>4 DEF OperandsOf
<1>9. CASE shape = "LookupSwitch"
  <2>1. PICK base \in Nat : base = PadToU32(at + 1)
    BY PadsAre
  <2>2. base + 4 <= to /\ (base + 4) + 4 <= to /\ base + 4 \in Nat
    BY <1>9, <2>1 DEF Covers
  <2>3. B4(own, base) = B4(code, base) /\ B4(own, base + 4) = B4(code, base + 4)
    BY <1>4, <2>2
  <2>4. Lookup(own, at, base) = Lookup(code, at, base)
    BY <2>3 DEF Lookup
  <2> QED BY <1>2, <1>9, <2>1, <2>4 DEF OperandsOf
<1> QED BY <1>6, <1>7, <1>8, <1>9 DEF Shapes
-----------------------------------------------------------------------------
(***************************************************************************)
(* The walk, line by line.                                                 *)
(***************************************************************************)
\* Each operand list is that of its line, and of bytes the line covers.
OperandsAreRead ==
    /\ IsSeq(operands)
    /\ Len(operands) <= Len(lines)
    /\ stopped \in {"no", "end"} => Len(operands) = Len(lines)
    /\ \A i \in 1..Len(operands) :
           /\ lines[i].shape \in Shapes
           /\ Covers(lines[i].at, lines[i].to, lines[i].shape)
           /\ operands[i] = OperandsOf(code, lines[i].at, lines[i].shape)

\* As far as the walk of an assembled program has come, it is that program.
ReadSoFar(w) ==
    /\ stopped \in {"no", "end"}
    /\ Len(lines) <= Len(w.program)
    /\ pc = w.starts[Len(lines) + 1]
    /\ \A i \in 1..Len(lines) :
           lines[i].at = w.starts[i] /\ operands[i] = w.program[i].args

ProgramsSoFar == \A w \in Written : w.bytes = code => ReadSoFar(w)

ListingInv == WalkInv /\ SameArray /\ OperandsAreRead /\ ProgramsSoFar

\* What operands appended do to those there are.
LEMMA OperandsAppended ==
    ASSUME IsSeq(operands), NEW args, operands' = Append(operands, args)
    PROVE  /\ IsSeq(operands') /\ Len(operands) \in Nat /\ Len(operands') = Len(operands) + 1
           /\ operands'[Len(operands) + 1] = args
           /\ \A i \in 1..Len(operands) : operands'[i] = operands[i]
<1>1. PICK S : operands \in Seq(S)
  BY DEF IsSeq
<1> DEFINE T == S \cup {args}
<1>2. operands \in Seq(T) /\ args \in T
  BY <1>1
<1> HIDE DEF T
<1> QED BY <1>2, AppendProperties DEF IsSeq

\* A turn of the loop ends in a remark, or prints an instruction.
Remarked ==
    /\ \E why \in Remarks : lines' = Append(lines, [at |-> pc, to |-> pc, shape |-> why])
    /\ stopped' \in Remarks /\ operands' = operands /\ UNCHANGED <<size, pc, code>>

Listed(shape, end) ==
    /\ lines' = Append(lines, [at |-> pc, to |-> end, shape |-> shape])
    /\ operands' = Append(operands, OperandsOf(code, pc, shape))
    /\ pc' = end /\ UNCHANGED <<size, stopped, code>>

LEMMA TurnOfTheLoop ==
    ASSUME Decode, NEW shape, shape = ShapeOf(code[pc + 1])
    PROVE  \/ /\ Remarked
              /\ shape = "unassigned" \/ EndOf(shape) = Truncated
           \/ /\ Listed(shape, EndOf(shape))
              /\ shape # "unassigned" /\ EndOf(shape) # Truncated
<1>1. CASE shape = "unassigned"
  BY <1>1 DEF Decode, Stop, Remarked, Remarks
<1>2. CASE shape # "unassigned" /\ EndOf(shape) = Truncated
  BY <1>2 DEF Decode, Instruction, Stop, Remarked, Remarks
<1>3. CASE shape # "unassigned" /\ EndOf(shape) # Truncated
  BY <1>3 DEF Decode, Instruction, Listed
<1> QED BY <1>1, <1>2, <1>3

LEMMA OperandsInitial == DecodeInit => OperandsAreRead
<1> SUFFICES ASSUME DecodeInit PROVE OperandsAreRead
  OBVIOUS
<1>1. operands = <<>> /\ lines = <<>>
  BY DEF DecodeInit, WalkInit
<1>2. operands \in Seq({})
  BY <1>1
<1>3. Len(operands) = 0 /\ Len(lines) = 0 /\ 1..Len(operands) = {}
  BY <1>1
<1> QED BY <1>2, <1>3 DEF OperandsAreRead, IsSeq

LEMMA ListingTypes ==
    ASSUME ListingInv
    PROVE  /\ size \in Nat /\ pc \in 0..size /\ Len(lines) \in Nat /\ Len(operands) \in Nat
           /\ size = Len(code) /\ code \in Seq(Byte) /\ code \in Codes
           /\ WalkTypeOK /\ IsSeq(operands)
           /\ \A i \in 1..Len(lines) : lines[i].at \in 0..size /\ lines[i].to \in 0..size
<1>1. lines \in Seq(ListedLine) /\ size \in Nat /\ pc \in 0..size
  BY InstructionsAssumption DEF ListingInv, WalkInv, WalkTypeOK, ListedLine
<1>2. Len(lines) \in Nat /\ \A i \in 1..Len(lines) : lines[i] \in ListedLine
  BY <1>1
<1>3. Len(operands) \in Nat /\ IsSeq(operands)
  BY DEF ListingInv, OperandsAreRead, IsSeq
<1>4. code \in Codes /\ code \in Seq(Byte) /\ size = Len(code)
  BY BytecodeAssumption DEF ListingInv, SameArray
<1> QED BY <1>1, <1>2, <1>3, <1>4 DEF ListingInv, WalkInv, ListedLine

LEMMA RemarkKeepsOperands == ListingInv /\ Remarked => OperandsAreRead'
<1> SUFFICES ASSUME ListingInv, Remarked PROVE OperandsAreRead'
  OBVIOUS
<1>1. PICK why \in Remarks : lines' = Append(lines, [at |-> pc, to |-> pc, shape |-> why])
  BY DEF Remarked
<1>2. PICK line : line = [at |-> pc, to |-> pc, shape |-> why]
  OBVIOUS
<1>3. line \in ListedLine
  BY <1>2, ListingTypes DEF ListedLine
<1>4. /\ Len(lines') = Len(lines) + 1 /\ Len(lines) \in Nat
      /\ \A i \in 1..Len(lines) : lines'[i] = lines[i]
  BY <1>1, <1>2, <1>3, ListingTypes, Appended DEF Remarked
<1>5. operands' = operands /\ code' = code /\ stopped' \notin {"no", "end"}
  BY DEF Remarked, Remarks
<1>6. Len(operands) \in Nat /\ Len(operands) <= Len(lines)
  BY ListingTypes DEF ListingInv, OperandsAreRead
<1>7. ASSUME NEW i \in 1..Len(operands')
      PROVE  /\ lines'[i].shape \in Shapes
             /\ Covers(lines[i].at, lines[i].to, lines[i].shape)' /\ lines'[i] = lines[i]
             /\ operands'[i] = OperandsOf(code', lines'[i].at, lines'[i].shape)
  <2>1. i \in 1..Len(operands) /\ lines'[i] = lines[i]
    BY <1>4, <1>5, <1>6
  <2> QED BY <1>5, <2>1 DEF ListingInv, OperandsAreRead, Covers
<1> QED BY <1>4, <1>5, <1>6, <1>7 DEF ListingInv, OperandsAreRead, Covers

LEMMA InstructionKeepsOperands ==
    ASSUME ListingInv, stopped = "no", pc < size, NEW shape, shape = ShapeOf(code[pc + 1]),
           shape # "unassigned", EndOf(shape) # Truncated, Listed(shape, EndOf(shape))
    PROVE  OperandsAreRead'
<1>1. shape \in Shapes /\ EndOf(shape) \in Nat /\ Covers(pc, EndOf(shape), shape)
  BY ListingTypes, EndCovers DEF ListingInv
<1>2. PICK end \in Nat : end = EndOf(shape)
  BY <1>1
<1>3. PICK line : line = [at |-> pc, to |-> end, shape |-> shape]
  OBVIOUS
<1>4. line \in ListedLine /\ line.at = pc /\ line.to = end /\ line.shape = shape
  BY <1>1, <1>2, <1>3, ListingTypes DEF ListedLine, Covers
<1>5. /\ Len(lines') = Len(lines) + 1 /\ Len(lines) \in Nat
      /\ lines'[Len(lines) + 1] = line
      /\ \A i \in 1..Len(lines) : lines'[i] = lines[i]
  BY <1>2, <1>3, <1>4, ListingTypes, Appended DEF Listed
<1>6. PICK args : args = OperandsOf(code, pc, shape)
  OBVIOUS
<1>7. /\ IsSeq(operands') /\ Len(operands) \in Nat /\ Len(operands') = Len(operands) + 1
      /\ operands'[Len(operands) + 1] = args
      /\ \A i \in 1..Len(operands) : operands'[i] = operands[i]
  BY <1>6, ListingTypes, OperandsAppended DEF Listed
<1>8. Len(operands) = Len(lines) /\ code' = code /\ stopped' = stopped
  BY DEF ListingInv, OperandsAreRead, Listed
<1>9. ASSUME NEW i \in 1..Len(operands')
      PROVE  /\ lines'[i].shape \in Shapes
             /\ Covers(lines'[i].at, lines'[i].to, lines'[i].shape)
             /\ operands'[i] = OperandsOf(code, lines'[i].at, lines'[i].shape)
  <2>1. CASE i \in 1..Len(operands)
    <3>1. lines'[i] = lines[i] /\ operands'[i] = operands[i]
      BY <1>5, <1>7, <1>8, <2>1
    <3> QED BY <2>1, <3>1 DEF ListingInv, OperandsAreRead
  <2>2. CASE i \notin 1..Len(operands)
    <3>1. i = Len(operands) + 1
      BY <1>7, <2>2
    <3>2. lines'[i] = line /\ operands'[i] = args
      BY <1>5, <1>7, <1>8, <3>1
    <3> QED BY <1>1, <1>2, <1>4, <1>6, <3>2
  <2> QED BY <2>1, <2>2
<1>10. ASSUME NEW i \in 1..Len(operands') PROVE Covers(lines[i].at, lines[i].to, lines[i].shape)'
  BY <1>8, <1>9, <1>10 DEF Covers
<1> QED BY <1>5, <1>7, <1>8, <1>9, <1>10 DEF OperandsAreRead
-----------------------------------------------------------------------------
\* Where an assembled program has an instruction, it is found and read.
LEMMA WrittenTypes ==
    ASSUME NEW w \in Written
    PROVE  /\ Len(w.program) \in Nat /\ w.starts \in Seq(0..Len(w.bytes))
           /\ Len(w.starts) = Len(w.program) + 1
           /\ w.starts[1] = 0 /\ w.starts[Len(w.program) + 1] = Len(w.bytes)
           /\ \A i \in 1..Len(w.program) :
                  LET bytes == Encode(w.program[i], w.starts[i])
                  IN  /\ w.program[i] \in Instr
                      /\ Fits(w.program[i], w.starts[i])
                      /\ w.starts[i + 1] = w.starts[i] + Len(bytes)
                      /\ \A j \in 1..Len(bytes) : w.bytes[w.starts[i] + j] = bytes[j]
<1>1. Assembled(w)
  BY AssemblyAssumption
<1>2. w.program \in Seq(Instr)
  BY <1>1, Zenon DEF Assembled
<1>3. /\ w.starts \in Seq(0..Len(w.bytes)) /\ Len(w.starts) = Len(w.program) + 1
      /\ w.starts[1] = 0 /\ w.starts[Len(w.program) + 1] = Len(w.bytes)
  BY <1>1, Zenon DEF Assembled
<1>4. ASSUME NEW i \in 1..Len(w.program), NEW bytes, bytes = Encode(w.program[i], w.starts[i])
      PROVE  /\ Fits(w.program[i], w.starts[i])
             /\ w.starts[i + 1] = w.starts[i] + Len(bytes)
             /\ \A j \in 1..Len(bytes) : w.bytes[w.starts[i] + j] = bytes[j]
  BY <1>1, <1>4, Zenon DEF Assembled
<1>5. Len(w.program) \in Nat /\ \A i \in 1..Len(w.program) : w.program[i] \in Instr
  BY <1>2
<1> QED BY <1>3, <1>4, <1>5, Zenon

\* An opcode and what is behind it.
LEMMA EncodeIs ==
    ASSUME NEW ins \in Instr, NEW at \in Nat, NEW rest \in Seq(Int), rest = Behind(ins, at)
    PROVE  /\ Len(Encode(ins, at)) = 1 + Len(rest)
           /\ Encode(ins, at)[1] = ins.opcode
           /\ \A j \in 1..Len(rest) : Encode(ins, at)[1 + j] = rest[j]
<1>1. ins.opcode \in Int
  <2>1. ins.opcode \in Byte
    BY DEF Instr
  <2>2. Byte \subseteq Int
    BY DEF Byte
  <2> QED BY <2>1, <2>2
<1>2. PICK a \in Seq(Int) : a = <<ins.opcode>>
  <2>1. <<ins.opcode>> \in Seq(Int)
    BY <1>1
  <2> QED BY <2>1, Zenon
<1>3. Len(a) = 1 /\ a[1] = ins.opcode
  BY <1>2
<1>4. /\ Len(a \o rest) = Len(a) + Len(rest)
      /\ \A j \in 1..Len(a) : (a \o rest)[j] = a[j]
      /\ \A j \in 1..Len(rest) : (a \o rest)[Len(a) + j] = rest[j]
  BY Cat, Zenon
<1>5. PICK e : e = a \o rest
  OBVIOUS
<1>6. Len(e) = 1 + Len(rest) /\ e[1] = ins.opcode /\ \A j \in 1..Len(rest) : e[1 + j] = rest[j]
  BY <1>3, <1>4, <1>5
<1>7. e = Encode(ins, at)
  BY <1>2, <1>5, Zenon DEF Encode
<1> QED BY <1>6, <1>7

LEMMA NextIsRead ==
    ASSUME ListingInv, stopped = "no", pc < size, NEW w \in Written, w.bytes = code,
           NEW k \in Nat, k = Len(lines) + 1
    PROVE  /\ k \in 1..Len(w.program)
           /\ ShapeOf(code[pc + 1]) # "unassigned"
           /\ EndOf(ShapeOf(code[pc + 1])) \in Nat
           /\ EndOf(ShapeOf(code[pc + 1])) = w.starts[k + 1]
           /\ OperandsOf(code, pc, ShapeOf(code[pc + 1])) = w.program[k].args
<1>1. /\ size \in Nat /\ size = Len(code) /\ pc \in Nat /\ code \in Seq(Byte) /\ Len(lines) \in Nat
  BY ListingTypes
<1>2. ReadSoFar(w)
  BY DEF ListingInv, ProgramsSoFar
<1>3. pc = w.starts[k] /\ Len(lines) <= Len(w.program)
  BY <1>2 DEF ReadSoFar
<1>4. k \in 1..Len(w.program)
  <2>1. Len(w.program) \in Nat /\ w.starts[Len(w.program) + 1] = size
    BY <1>1, WrittenTypes
  <2>2. k # Len(w.program) + 1
    BY <1>1, <1>3, <2>1
  <2> QED BY <1>1, <1>3, <2>1, <2>2
<1>5. PICK ins \in Instr : ins = w.program[k]
  BY <1>4, WrittenTypes
<1>6. PICK bytes : bytes = Encode(ins, pc)
  OBVIOUS
<1>7. /\ Fits(ins, pc) /\ w.starts[k + 1] = pc + Len(bytes)
      /\ \A j \in 1..Len(bytes) : code[pc + j] = bytes[j]
  BY <1>3, <1>4, <1>5, <1>6, WrittenTypes
<1>8. PICK rest : rest = Behind(ins, pc)
  OBVIOUS
<1>9. ReadBack(ins, rest)
  BY <1>1, <1>7, <1>8, AnyReads
<1>10. rest \in Seq(Int)
  BY <1>9 DEF ReadBack
<1>11. /\ Len(bytes) = 1 + Len(rest) /\ bytes[1] = ins.opcode
       /\ \A j \in 1..Len(rest) : bytes[1 + j] = rest[j]
  <2>1. /\ Len(Encode(ins, pc)) = 1 + Len(rest) /\ Encode(ins, pc)[1] = ins.opcode
        /\ \A j \in 1..Len(rest) : Encode(ins, pc)[1 + j] = rest[j]
    BY <1>1, <1>8, <1>10, EncodeIs
  <2> QED BY <1>6, <2>1
<1>12. PICK n \in Nat : n = Len(rest)
  BY <1>10
<1>13. w.starts[k + 1] = pc + 1 + n /\ w.starts[k + 1] <= size
  <2>1. w.starts[k + 1] = pc + (1 + n)
    BY <1>7, <1>11, <1>12
  <2>2. k + 1 \in 1..Len(w.starts)
    BY <1>4, WrittenTypes
  <2>3. w.starts[k + 1] \in 0..Len(w.bytes)
    BY <2>2, WrittenTypes
  <2> QED BY <1>1, <2>1, <2>3
<1>14. code[pc + 1] = ins.opcode
  <2>1. 1 \in 1..Len(bytes)
    BY <1>11, <1>12
  <2> QED BY <1>7, <1>11, <2>1
<1>15. Laid(code, pc + 1, rest)
  <2>1. ASSUME NEW j \in 1..n PROVE code[(pc + 1) + j] = rest[j]
    <3>1. 1 + j \in 1..Len(bytes) /\ pc + (1 + j) = (pc + 1) + j
      BY <1>1, <1>11, <1>12
    <3> QED BY <1>7, <1>11, <1>12, <3>1
  <2> QED BY <1>1, <1>12, <1>13, <2>1 DEF Laid
<1>16. /\ ShapeOf(ins.opcode) # "unassigned"
       /\ EndOf(ShapeOf(ins.opcode)) = pc + 1 + n
       /\ OperandsOf(code, pc, ShapeOf(ins.opcode)) = ins.args
  BY <1>9, <1>12, <1>15 DEF ReadBack
<1> QED BY <1>1, <1>4, <1>5, <1>12, <1>13, <1>14, <1>16

LEMMA RemarkMeansNoProgram ==
    ASSUME ListingInv, Decode, NEW w \in Written, w.bytes = code
    PROVE  Listed(ShapeOf(code[pc + 1]), EndOf(ShapeOf(code[pc + 1])))
<1>1. PICK shape : shape = ShapeOf(code[pc + 1])
  OBVIOUS
<1>2. stopped = "no" /\ pc < size /\ Len(lines) \in Nat
  <2>1. Len(lines) \in Nat
    BY ListingTypes
  <2> QED BY <2>1 DEF Decode
<1>5. PICK k \in Nat : k = Len(lines) + 1
  BY <1>2
<1>3. shape # "unassigned" /\ EndOf(shape) \in Nat
  BY <1>1, <1>2, <1>5, NextIsRead
<1>4. EndOf(shape) # Truncated
  BY <1>3 DEF Truncated
<1> QED BY <1>1, <1>3, <1>4, TurnOfTheLoop

LEMMA ProgramGoesOn ==
    ASSUME ListingInv, Decode, NEW w \in Written, w.bytes = code'
    PROVE  ReadSoFar(w)'
<1>1. stopped = "no" /\ pc < size /\ code' = code
  BY DEF Decode
<1>2. PICK shape : shape = ShapeOf(code[pc + 1])
  OBVIOUS
<1>3. PICK k \in Nat : k = Len(lines) + 1 /\ Len(lines) \in Nat
  BY ListingTypes
<1>4. /\ k \in 1..Len(w.program) /\ shape # "unassigned"
      /\ EndOf(shape) \in Nat /\ EndOf(shape) = w.starts[k + 1]
      /\ OperandsOf(code, pc, shape) = w.program[k].args
  BY <1>1, <1>2, <1>3, NextIsRead
<1>5. PICK end \in Nat : end = EndOf(shape)
  BY <1>4
<1>6. Listed(shape, end)
  BY <1>1, <1>2, <1>5, RemarkMeansNoProgram
<1>7. PICK line : line = [at |-> pc, to |-> end, shape |-> shape]
  OBVIOUS
<1>8. line \in ListedLine /\ line.at = pc
  <2>1. shape \in Shapes
    BY <1>2, <1>4, TableNamesShapes
  <2>2. k + 1 \in 1..Len(w.starts)
    BY <1>4, WrittenTypes
  <2>3. end \in 0..Len(w.bytes)
    BY <1>4, <1>5, <2>2, WrittenTypes
  <2>4. end \in 0..size
    BY <1>1, <2>3, ListingTypes
  <2> QED BY <1>7, <2>1, <2>4, ListingTypes DEF ListedLine
<1>9. /\ Len(lines') = k /\ lines'[k] = line
      /\ \A i \in 1..Len(lines) : lines'[i] = lines[i]
  BY <1>3, <1>6, <1>7, <1>8, ListingTypes, Appended DEF Listed
<1>10. PICK args : args = OperandsOf(code, pc, shape)
  OBVIOUS
<1>11. /\ Len(operands') = Len(operands) + 1
       /\ operands'[Len(operands) + 1] = args
       /\ \A i \in 1..Len(operands) : operands'[i] = operands[i]
  BY <1>6, <1>10, ListingTypes, OperandsAppended DEF Listed
<1>12. Len(operands) = Len(lines)
  BY <1>1 DEF ListingInv, OperandsAreRead
<1>13. ReadSoFar(w)
  BY <1>1 DEF ListingInv, ProgramsSoFar
<1>14. pc' = end /\ stopped' = stopped
  BY <1>6 DEF Listed
<1>15. ASSUME NEW i \in 1..k
       PROVE  lines'[i].at = w.starts[i] /\ operands'[i] = w.program[i].args
  <2>1. CASE i = k
    BY <1>3, <1>4, <1>8, <1>9, <1>10, <1>11, <1>12, <1>13, <2>1 DEF ReadSoFar
  <2>2. CASE i # k
    <3>1. i \in 1..Len(lines) /\ i \in 1..Len(operands)
      BY <1>3, <1>12, <2>2
    <3> QED BY <1>9, <1>11, <1>13, <3>1 DEF ReadSoFar
  <2> QED BY <2>1, <2>2
<1>16. k <= Len(w.program) /\ end = w.starts[k + 1] /\ stopped' \in {"no", "end"}
  BY <1>1, <1>4, <1>5, <1>14, WrittenTypes
<1> QED BY <1>9, <1>14, <1>15, <1>16 DEF ReadSoFar

LEMMA ListingInitial == DecodeInit => ListingInv
<1> SUFFICES ASSUME DecodeInit PROVE ListingInv
  OBVIOUS
<1>1. WalkInv /\ SameArray /\ OperandsAreRead
  BY WalkInitial, SameArrayInit, OperandsInitial DEF DecodeInit
<1>2. ASSUME NEW w \in Written PROVE ReadSoFar(w)
  <2>1. Len(lines) = 0 /\ pc = 0 /\ stopped = "no"
    BY DEF DecodeInit, WalkInit
  <2>2. Len(w.program) \in Nat /\ w.starts[1] = 0
    BY WrittenTypes
  <2> QED BY <2>1, <2>2 DEF ReadSoFar
<1> QED BY <1>1, <1>2 DEF ListingInv, ProgramsSoFar

LEMMA ListingInductive == ListingInv /\ [DecodeNext]_decodeVars => ListingInv'
<1> SUFFICES ASSUME ListingInv, [DecodeNext]_decodeVars PROVE ListingInv'
  OBVIOUS
<1>1. SameArray' /\ WalkInv'
  BY SameArrayNext, StepIsAStep, WalkInductive DEF ListingInv, WalkInv
<1>2. CASE Decode
  <2>1. OperandsAreRead'
    <3>1. stopped = "no" /\ pc < size
      BY <1>2 DEF Decode
    <3> QED BY <1>2, <3>1, TurnOfTheLoop, RemarkKeepsOperands, InstructionKeepsOperands
  <2>2. ProgramsSoFar'
    BY <1>2, ProgramGoesOn DEF ProgramsSoFar
  <2> QED BY <1>1, <2>1, <2>2 DEF ListingInv
<1>3. CASE DecodeEnd
  <2>1. /\ lines' = lines /\ operands' = operands /\ code' = code /\ pc' = pc
        /\ stopped = "no" /\ stopped' = "end"
    BY <1>3 DEF DecodeEnd, EndOfCode
  <2>2. OperandsAreRead'
    BY <2>1 DEF ListingInv, OperandsAreRead, Covers
  <2>3. ProgramsSoFar'
    BY <2>1 DEF ListingInv, ProgramsSoFar, ReadSoFar
  <2> QED BY <1>1, <2>2, <2>3 DEF ListingInv
<1>4. CASE UNCHANGED decodeVars
  <2>1. UNCHANGED <<lines, operands, code, pc, stopped>>
    BY <1>4 DEF decodeVars, walkVars
  <2>2. OperandsAreRead'
    BY <2>1 DEF ListingInv, OperandsAreRead, Covers
  <2>3. ProgramsSoFar'
    BY <2>1 DEF ListingInv, ProgramsSoFar, ReadSoFar
  <2> QED BY <1>1, <2>2, <2>3 DEF ListingInv
<1> QED BY <1>2, <1>3, <1>4 DEF DecodeNext

LEMMA ReadAreOwn == ListingInv => OperandsAreItsOwn
<1> SUFFICES ASSUME ListingInv PROVE OperandsAreItsOwn
  OBVIOUS
<1>1. SUFFICES ASSUME NEW i \in 1..Len(operands), NEW tail \in {<<>>, [n \in 1..12 |-> 7]}
      PROVE  operands[i] = OperandsOf(SubSeq(code, 1, lines[i].to) \o tail, lines[i].at, lines[i].shape)
  <2>1. DOMAIN operands = 1..Len(operands)
    BY ListingTypes DEF IsSeq
  <2> QED BY <2>1, Zenon DEF OperandsAreItsOwn
<1>2. tail \in Seq(Byte)
  <2>1. <<>> \in Seq(Byte) /\ [n \in 1..12 |-> 7] \in Seq(Byte)
    BY DEF Byte
  <2> QED BY <2>1
<1>3. i \in 1..Len(lines)
  BY ListingTypes DEF ListingInv, OperandsAreRead
<1>4. lines[i].at \in Nat /\ lines[i].to \in Nat
  BY <1>3, ListingTypes
<1>5. /\ lines[i].shape \in Shapes /\ Covers(lines[i].at, lines[i].to, lines[i].shape)
      /\ operands[i] = OperandsOf(code, lines[i].at, lines[i].shape)
  BY DEF ListingInv, OperandsAreRead
<1>6. code \in Seq(Byte)
  BY ListingTypes
<1>7. OperandsOf(SubSeq(code, 1, lines[i].to) \o tail, lines[i].at, lines[i].shape)
          = OperandsOf(code, lines[i].at, lines[i].shape)
  BY <1>2, <1>4, <1>5, <1>6, OwnBytes, Zenon
<1> QED BY <1>5, <1>7

LEMMA SoFarIsTheWhole == ListingInv => ReadAsWritten
<1> SUFFICES ASSUME ListingInv, stopped # "no", NEW w \in Written, w.bytes = code
    PROVE  /\ stopped = "end"
           /\ Len(lines) = Len(w.program) /\ Len(operands) = Len(w.program)
           /\ \A i \in 1..Len(lines) :
                  lines[i].at = w.starts[i] /\ operands[i] = w.program[i].args
  BY DEF ReadAsWritten
<1>1. ReadSoFar(w)
  BY DEF ListingInv, ProgramsSoFar
<1>2. stopped = "end" /\ pc = size /\ size = Len(code) /\ Len(lines) \in Nat
  BY <1>1, ListingTypes DEF ReadSoFar, ListingInv, WalkInv, NothingAfterARemark
<1>3. Len(lines) = Len(w.program)
  <2>1. Len(lines) <= Len(w.program) /\ w.starts[Len(lines) + 1] = Len(w.bytes)
    BY <1>1, <1>2 DEF ReadSoFar
  <2>2. SUFFICES ASSUME Len(lines) < Len(w.program) PROVE FALSE
    BY <1>2, <2>1, WrittenTypes
  <2>3. PICK k \in 1..Len(w.program) : k = Len(lines) + 1
    BY <1>2, <2>2, WrittenTypes
  <2>4. w.starts[k] = size /\ w.starts[k + 1] \in 0..size
    <3>1. k + 1 \in 1..Len(w.starts)
      BY <2>3, WrittenTypes
    <3>2. w.starts[k + 1] \in 0..Len(w.bytes)
      <4>1. w.starts \in Seq(0..Len(w.bytes))
        BY WrittenTypes
      <4> QED BY <3>1, <4>1, ElementOfSeq, Zenon
    <3> QED BY <1>2, <2>1, <2>3, <3>2
  <2>5. PICK ins \in Instr : ins = w.program[k] /\ Fits(ins, size)
    BY <2>3, <2>4, WrittenTypes
  <2>6. PICK rest : rest = Behind(ins, size)
    OBVIOUS
  <2>7. rest \in Seq(Int)
    BY <1>2, <2>5, <2>6, ListingTypes, AnyReads DEF ReadBack
  <2>8. w.starts[k + 1] = size + (1 + Len(rest))
    <3>1. w.starts[k + 1] = w.starts[k] + Len(Encode(w.program[k], w.starts[k]))
      BY <2>3, WrittenTypes
    <3>2. size \in Nat
      BY ListingTypes
    <3>3. Len(Encode(ins, size)) = 1 + Len(rest)
      BY <2>6, <2>7, <3>2, EncodeIs
    <3> QED BY <2>4, <2>5, <3>1, <3>3
  <2> QED BY <2>4, <2>7, <2>8, ListingTypes
<1> QED BY <1>1, <1>2, <1>3 DEF ReadSoFar, ListingInv, OperandsAreRead

\* What is listed of an assembled program is that program, whichever it is, and
\* of any other bytes each operand comes from the instruction it stands behind
\* (emit.rs, emit_instructions and emit_operands, with the opcode table).
THEOREM ProgramsListed == DecodeSpec => []ListingIsTheProgram
<1>1. ListingInv => ListingIsTheProgram
  BY ReadAreOwn, SoFarIsTheWhole DEF ListingIsTheProgram
<1> QED BY <1>1, ListingInitial, ListingInductive, PTL DEF DecodeSpec
-----------------------------------------------------------------------------
(***************************************************************************)
(* StackMap, for every map that its bytes say.  The reader is in step with *)
(* the map: the frames kept are its first ones, and the cursor is where    *)
(* the next frame is, or the next type of the frame at hand.  It refuses   *)
(* nothing that is whole.                                                  *)
(***************************************************************************)
\* Of a list of types, so many are still to be read.
AtType(l) ==
    /\ types <= Len(l.tags)
    /\ cursor.pos = l.places[Len(l.tags) + 1 - types]
    /\ \A i \in 1..(Len(l.tags) - types) : l.tags[i] <= 8

WithinFrame(f, delta) ==
    /\ frame = [delta |-> delta, kind |-> f.kind, unset |-> f.unset]
    /\ lists <= Len(f.lists) /\ (f.kind # "full" => lists = 0)
    /\ \A l \in 1..(Len(f.lists) - lists - 1) : SoundList(f.lists[l])
    /\ IF lists = Len(f.lists) THEN types = 0 /\ cursor.pos = ListsFrom(f)
       ELSE AtType(f.lists[Len(f.lists) - lists])

FramesKept(map) ==
    /\ Len(frames) + left = Len(map)
    /\ \A i \in 1..Len(frames) : Sound(map[i]) /\ frames[i] = MeantFrames(map)[i]

InStep(map) ==
    IF frame = NoFrame THEN lists = 0 /\ types = 0 /\ cursor.pos = BehindFrame(map, Len(frames))
    ELSE WithinFrame(map[Len(frames) + 1], DeltaOf(map, Len(frames) + 1))

ReadsMap(map) ==
    /\ outcome = "start" => lists = 0 /\ types = 0
    /\ outcome = "reading" => FramesKept(map) /\ InStep(map)
    /\ outcome = "ok" => WholeMap(data, map) /\ frames = MeantFrames(map)
    /\ outcome = "malformed" => ~WholeMap(data, map)
-----------------------------------------------------------------------------
\* Where a read fits, the cursor moves by its width.
LEMMA AfterIs ==
    ASSUME NEW bytes, NEW c \in Cursor, NEW w \in Nat, Need(bytes, c, w)
    PROVE  After(bytes, c, w) \in Cursor /\ After(bytes, c, w).ok /\ After(bytes, c, w).pos = c.pos + w
<1>1. c.pos \in Nat /\ c.ok
  BY DEF Cursor, Need
<1>2. After(bytes, c, w) = [c EXCEPT !.pos = c.pos + w]
  BY DEF After
<1> QED BY <1>1, <1>2 DEF Cursor

\* What fits, fits where the bytes end no earlier.
LEMMA NeedIs ==
    ASSUME NEW bytes \in Seq(Byte), NEW c \in Cursor, c.ok, NEW w \in Nat
    PROVE  Need(bytes, c, w) <=> c.pos + w <= Len(bytes)
<1>1. c.pos \in Nat /\ Len(bytes) \in Nat
  BY DEF Cursor
<1> QED BY <1>1 DEF Need

\* What is said is read.
LEMMA SaidOne ==
    ASSUME NEW bytes \in Seq(Byte), NEW c \in Cursor, NEW n,
           Need(bytes, c, 1), Says1(bytes, c.pos, n)
    PROVE  U1(bytes, c) = n
<1>1. c.pos \in Nat /\ Len(bytes) \in Nat
  BY DEF Cursor
<1>2. c.pos < Len(bytes)
  BY <1>1 DEF Need
<1> QED BY <1>2 DEF Says1, U1

LEMMA SaidTwo ==
    ASSUME NEW bytes \in Seq(Byte), NEW c \in Cursor, NEW n \in Nat,
           Need(bytes, c, 2), Says2(bytes, c.pos, n)
    PROVE  U2(bytes, c) = n
<1>1. c.pos \in Nat /\ Len(bytes) \in Nat
  BY DEF Cursor
<1>2. c.pos < Len(bytes) /\ c.pos + 1 < Len(bytes) /\ (c.pos + 1) + 1 = c.pos + 2
  BY <1>1 DEF Need
<1>3. bytes[c.pos + 1] = n \div 256 /\ bytes[(c.pos + 1) + 1] = n % 256
  BY <1>2 DEF Says2, Says1
<1>4. 256 * (n \div 256) + (n % 256) = n
  OBVIOUS
<1> QED BY <1>2, <1>3, <1>4 DEF U2
-----------------------------------------------------------------------------
LEMMA FrameTypes ==
    ASSUME NEW f \in WrittenFrame
    PROVE  /\ f.offset \in Nat /\ f.wrapped \in BOOLEAN /\ f.unset \in Nat /\ f.unset \in Unsigned16
           /\ f.type \in 0..255 /\ f.from \in Nat /\ f.to \in Nat
           /\ f.kind \in Kinds \cup {"none"}
           /\ f.lists \in Seq(TypeList) /\ Len(f.lists) \in Nat
           /\ \A l \in 1..Len(f.lists) : f.lists[l] \in TypeList
           /\ Base(f) \in Nat /\ ListsFrom(f) \in Nat /\ Base(f) >= f.from /\ ListsFrom(f) > Base(f)
<1>1. /\ f.offset \in Nat /\ f.wrapped \in BOOLEAN /\ f.unset \in Unsigned16
      /\ f.type \in 0..255 /\ f.from \in Nat /\ f.to \in Nat
      /\ f.kind \in Kinds \cup {"none"}
      /\ f.lists \in Seq(TypeList)
  BY DEF WrittenFrame, Byte
<1>2. f.unset \in Nat
  BY <1>1, Unsigned16Facts
<1>3. \A l \in 1..Len(f.lists) : f.lists[l] \in TypeList
  BY <1>1, ElementOfSeq
<1>4. Base(f) \in Nat /\ Base(f) >= f.from
  BY <1>1, <1>2 DEF Base
<1>5. ListsFrom(f) \in Nat /\ ListsFrom(f) > Base(f)
  BY <1>1, <1>4 DEF ListsFrom
<1>6. Len(f.lists) \in Nat
  BY <1>1
<1> QED BY <1>1, <1>2, <1>3, <1>4, <1>5, <1>6

LEMMA ListTypes ==
    ASSUME NEW l \in TypeList
    PROVE  /\ l.tags \in Seq(Byte) /\ Len(l.tags) \in Nat /\ l.places \in Seq(Nat)
           /\ \A i \in 1..Len(l.tags) : l.tags[i] \in 0..255
           /\ \A i \in 1..Len(l.places) : l.places[i] \in Nat
<1>1. l.tags \in Seq(Byte) /\ l.places \in Seq(Nat)
  BY DEF TypeList
<1>2. \A i \in 1..Len(l.tags) : l.tags[i] \in Byte
  BY <1>1, ElementOfSeq
<1>3. \A i \in 1..Len(l.places) : l.places[i] \in Nat
  BY <1>1, ElementOfSeq
<1> QED BY <1>1, <1>2, <1>3 DEF Byte

\* The type of a frame that means something says its kind, and what follows it.
LEMMA FormSays ==
    ASSUME NEW f \in WrittenFrame, NEW delta \in Nat, HasForm(f, delta)
    PROVE  /\ f.type \in (0..255) \ Reserved /\ Kind(f.type) = f.kind /\ f.kind # "none"
           /\ TypesOf(f.type) = IF Len(f.lists) = 1 THEN Len(f.lists[1].tags) ELSE 0
           /\ ListsOf(f.type) = IF f.kind = "full" THEN Len(f.lists) ELSE 0
           /\ f.kind = "full" <=> Len(f.lists) = 2
           /\ Len(f.lists) <= 2
           /\ f.type < 64 => delta = f.type
           /\ f.type >= 64 /\ f.type < 128 => delta = f.type - 64
           /\ f.type < 128 \/ f.type > 246
<1> DEFINE t == f.type
<1>t. t \in 0..255
  BY FrameTypes
<1>1. CASE f.kind = "same" /\ f.lists = <<>> /\ (f.type = 251 \/ (f.type = delta /\ delta < 64))
  <2>1. t \in 0..63 \/ t = 251
    <3>1. t = 251 \/ (t = delta /\ delta < 64)
      BY <1>1
    <3> HIDE DEF t
    <3> QED BY <3>1, <1>t
  <2>2. Kind(t) = "same" /\ TypesOf(t) = 0 /\ ListsOf(t) = 0 /\ t \notin Reserved
    <3> HIDE DEF t
    <3> QED BY <2>1 DEF Kind, TypesOf, ListsOf, Reserved
  <2>3. Len(f.lists) = 0
    BY <1>1
  <2> QED BY <1>1, <1>t, <2>1, <2>2, <2>3
<1>2. CASE /\ f.kind = "same_locals_1_stack_item" /\ (f.type = 247 \/ (f.type = 64 + delta /\ delta < 64))
           /\ Len(f.lists) = 1 /\ Len(f.lists[1].tags) = 1
  <2>1. t \in 64..127 \/ t = 247
    <3>1. t = 247 \/ (t = 64 + delta /\ delta < 64)
      BY <1>2
    <3> HIDE DEF t
    <3> QED BY <3>1, <1>t
  <2>2. Kind(t) = "same_locals_1_stack_item" /\ TypesOf(t) = 1 /\ ListsOf(t) = 0 /\ t \notin Reserved
    <3> HIDE DEF t
    <3> QED BY <2>1 DEF Kind, TypesOf, ListsOf, Reserved
  <2> QED BY <1>2, <1>t, <2>1, <2>2
<1>3. CASE f.kind = "chop" /\ f.lists = <<>> /\ f.type \in 248..250
  <2>2. Kind(t) = "chop" /\ TypesOf(t) = 0 /\ ListsOf(t) = 0 /\ t \notin Reserved
    <3>1. t \in 248..250
      BY <1>3
    <3> HIDE DEF t
    <3> QED BY <3>1 DEF Kind, TypesOf, ListsOf, Reserved
  <2>3. Len(f.lists) = 0
    BY <1>3
  <2> QED BY <1>3, <1>t, <2>2, <2>3
<1>4. CASE f.kind = "append" /\ Len(f.lists) = 1 /\ f.type \in 252..254 /\ Len(f.lists[1].tags) = f.type - 251
  <2>2. Kind(t) = "append" /\ TypesOf(t) = t - 251 /\ ListsOf(t) = 0 /\ t \notin Reserved
    <3>1. t \in 252..254
      BY <1>4
    <3> HIDE DEF t
    <3> QED BY <3>1 DEF Kind, TypesOf, ListsOf, Reserved
  <2> QED BY <1>4, <1>t, <2>2
<1>5. CASE f.kind = "full" /\ Len(f.lists) = 2 /\ f.type = 255
  <2>2. Kind(t) = "full" /\ TypesOf(t) = 0 /\ ListsOf(t) = 2 /\ t \notin Reserved
    <3>1. t = 255
      BY <1>5
    <3> HIDE DEF t
    <3> QED BY <3>1 DEF Kind, TypesOf, ListsOf, Reserved
  <2> QED BY <1>5, <1>t, <2>2
<1> QED BY <1>1, <1>2, <1>3, <1>4, <1>5 DEF HasForm
-----------------------------------------------------------------------------
LEMMA MapIs ==
    ASSUME NEW bytes, NEW map, SaysMap(bytes, map)
    PROVE  /\ map \in Seq(WrittenFrame) /\ Len(map) \in Nat /\ Len(map) \in Unsigned16
           /\ Says2(bytes, 0, Len(map))
           /\ BehindFrame(map, 0) = 2 /\ BehindFrame(map, 0) <= BehindFrame(map, Len(map))
           /\ BehindFrame(map, Len(map)) \in Nat /\ Len(bytes) <= BehindFrame(map, Len(map))
<1>1. /\ map \in Seq(WrittenFrame) /\ Len(map) \in Unsigned16 /\ Says2(bytes, 0, Len(map))
      /\ \A i \in 0..Len(map) : BehindFrame(map, i) <= BehindFrame(map, Len(map))
      /\ Len(bytes) <= BehindFrame(map, Len(map))
  BY DEF SaysMap
<1>2. Len(map) \in Nat
  BY <1>1
<1>3. BehindFrame(map, 0) = 2 /\ BehindFrame(map, 0) <= BehindFrame(map, Len(map))
  BY <1>1, <1>2 DEF BehindFrame
<1>4. BehindFrame(map, Len(map)) \in Nat
  <2>1. CASE Len(map) = 0
    BY <2>1 DEF BehindFrame
  <2>2. CASE Len(map) # 0
    <3>1. map[Len(map)] \in WrittenFrame
      BY <1>1, <1>2, <2>2
    <3>2. map[Len(map)].to \in Nat
      BY <3>1, FrameTypes
    <3> QED BY <2>2, <3>2 DEF BehindFrame
  <2> QED BY <2>1, <2>2
<1> QED BY <1>1, <1>2, <1>3, <1>4

LEMMA FrameOfMap ==
    ASSUME NEW bytes, NEW map, SaysMap(bytes, map), NEW k \in 1..Len(map)
    PROVE  /\ map[k] \in WrittenFrame /\ map[k].from = BehindFrame(map, k - 1)
           /\ SaysFrame(bytes, map[k], DeltaOf(map, k))
           /\ BehindFrame(map, k) = map[k].to /\ map[k].to <= BehindFrame(map, Len(map))
<1>1. map \in Seq(WrittenFrame) /\ Len(map) \in Nat
  BY MapIs
<1>2. map[k] \in WrittenFrame
  BY <1>1
<1>3. map[k].from = BehindFrame(map, k - 1) /\ SaysFrame(bytes, map[k], DeltaOf(map, k))
  BY DEF SaysMap
<1>4. BehindFrame(map, k) = map[k].to
  BY <1>1 DEF BehindFrame
<1>5. BehindFrame(map, k) <= BehindFrame(map, Len(map))
  <2>1. k \in 0..Len(map)
    BY <1>1
  <2> QED BY <2>1 DEF SaysMap
<1> QED BY <1>2, <1>3, <1>4, <1>5

\* Of a map that is whole, every frame is.
WholeFrame(bytes, f) == Sound(f) /\ f.to <= Len(bytes)

LEMMA FrameOfWhole ==
    ASSUME NEW bytes, NEW map, SaysMap(bytes, map), WholeMap(bytes, map), NEW k \in 1..Len(map)
    PROVE  WholeFrame(bytes, map[k])
<1>1. map[k].to <= BehindFrame(map, Len(map))
  BY FrameOfMap
<1> QED BY <1>1 DEF WholeMap, WholeFrame

\* The step is refused though nothing is missing, or reads what was meant.
HeaderDone(f, delta) ==
    \/ Refuse /\ ~WholeFrame(data, f)
    \/ WithinFrame(f, delta)' /\ frame' # NoFrame /\ UNCHANGED <<data, left, frames, outcome>>

LEMMA HeaderRead ==
    ASSUME data \in Seq(Byte), NEW f \in WrittenFrame, NEW delta, SaysFrame(data, f, delta),
           NEW c \in Cursor, c.ok, c.pos = Base(f) + 1, BaseFrame(f.type, c, f.unset)
    PROVE  HeaderDone(f, delta)
<1>t. /\ f.type \in 0..255 /\ Base(f) \in Nat /\ ListsFrom(f) \in Nat /\ f.to \in Nat
      /\ Len(f.lists) \in Nat /\ \A l \in 1..Len(f.lists) : f.lists[l] \in TypeList
  BY FrameTypes
<1>0. Len(data) \in Nat
  OBVIOUS
<1>1. CASE f.kind = "none"
  <2>1. f.type \in Reserved
    BY <1>1 DEF SaysFrame, Reserved
  <2>2. ~Sound(f)
    BY <1>1 DEF Sound
  <2> QED BY <2>1, <2>2 DEF BaseFrame, HeaderDone, WholeFrame
<1>2. CASE f.kind # "none"
  <2> DEFINE width == IF ShortDelta(f.type) THEN 0 ELSE 2
  <2>1. /\ HasForm(f, delta) /\ delta \in Unsigned16
        /\ f.type > 246 => Says2(data, Base(f) + 1, delta)
        /\ ListsFrom(f) <= f.to
        /\ \A l \in 1..Len(f.lists) : SaysList(data, f, l)
    BY <1>2 DEF SaysFrame
  <2>2. delta \in Nat
    BY <2>1, Unsigned16Facts
  <2>3. /\ f.type \in (0..255) \ Reserved /\ Kind(f.type) = f.kind
        /\ TypesOf(f.type) = IF Len(f.lists) = 1 THEN Len(f.lists[1].tags) ELSE 0
        /\ ListsOf(f.type) = IF f.kind = "full" THEN Len(f.lists) ELSE 0
        /\ f.kind = "full" <=> Len(f.lists) = 2
        /\ Len(f.lists) <= 2
        /\ f.type < 64 => delta = f.type
        /\ f.type >= 64 /\ f.type < 128 => delta = f.type - 64
        /\ f.type < 128 \/ f.type > 246
    BY <2>1, <2>2, FormSays
  <2>4. width \in Nat /\ ListsFrom(f) = c.pos + width
    BY <1>t DEF ListsFrom, ShortDelta
  <2>5. CASE ~Need(data, c, width)
    <3>1. ~(ListsFrom(f) <= Len(data))
      <4> HIDE DEF width
      <4> QED BY <2>4, <2>5, NeedIs
    <3>2. ~(f.to <= Len(data))
      BY <1>t, <1>0, <2>1, <3>1
    <3> QED BY <2>5, <3>2 DEF BaseFrame, HeaderDone, WholeFrame
  <2>6. CASE Need(data, c, width)
    <3>1. /\ frame' = [delta |-> Delta(f.type, c), kind |-> f.kind, unset |-> f.unset]
          /\ cursor' = After(data, c, width)
          /\ types' = TypesOf(f.type) /\ lists' = ListsOf(f.type)
          /\ UNCHANGED <<data, left, frames, outcome>>
      BY <2>3, <2>6 DEF BaseFrame
    <3>2. cursor'.pos = ListsFrom(f)
      <4> HIDE DEF width
      <4> QED BY <2>4, <2>6, <3>1, AfterIs
    <3>3. Delta(f.type, c) = delta
      <4>1. PICK type \in 0..255 : type = f.type
        BY <1>t
      <4>2. /\ type < 64 => delta = type
            /\ type >= 64 /\ type < 128 => delta = type - 64
            /\ type < 128 \/ type > 246
        BY <2>3, <4>1
      <4>3. ASSUME ~(type < 128) PROVE U2(data, c) = delta
        <5>1. type > 246 /\ ~ShortDelta(type)
          BY <4>2, <4>3 DEF ShortDelta
        <5>2. Need(data, c, 2)
          BY <2>6, <4>1, <5>1
        <5>3. Says2(data, c.pos, delta)
          BY <2>1, <4>1, <5>1
        <5> QED BY <2>2, <5>2, <5>3, SaidTwo
      <4>4. Delta(type, c) = delta
        <5>1. CASE type < 64
          <6>1. Delta(type, c) = type
            BY <5>1 DEF Delta
          <6> QED BY <4>2, <5>1, <6>1
        <5>2. CASE type >= 64 /\ type < 128
          <6>1. Delta(type, c) = type - 64
            BY <5>2 DEF Delta
          <6>2. delta = type - 64
            BY <4>2, <5>2
          <6> QED BY <6>1, <6>2
        <5>3. CASE ~(type < 128)
          <6>1. Delta(type, c) = U2(data, c)
            BY <5>3 DEF Delta
          <6> QED BY <4>3, <5>3, <6>1
        <5>4. type < 64 \/ (type >= 64 /\ type < 128) \/ ~(type < 128)
          OBVIOUS
        <5> QED BY <5>1, <5>2, <5>3, <5>4, Zenon
      <4> QED BY <4>1, <4>4
    <3>4. frame' = [delta |-> delta, kind |-> f.kind, unset |-> f.unset]
      BY <3>1, <3>3
    <3>5. frame' # NoFrame
      BY <1>2, <3>4 DEF NoFrame
    <3>p. PICK n \in Nat : n = Len(f.lists)
      BY <1>t
    <3>n. (n = 2 /\ lists' = 2) \/ (n \in 0..1 /\ lists' = 0)
      <4>1. CASE f.kind = "full"
        BY <2>3, <3>1, <3>p, <4>1
      <4>2. CASE f.kind # "full"
        <5>1. n # 2 /\ n <= 2 /\ lists' = 0
          BY <2>3, <3>1, <3>p, <4>2
        <5>2. n = 0 \/ n = 1
          BY <5>1
        <5> QED BY <5>1, <5>2
      <4> QED BY <4>1, <4>2
    <3>6. lists' <= Len(f.lists) /\ (f.kind # "full" => lists' = 0) /\ Len(f.lists) - lists' - 1 < 1
      <4>1. f.kind # "full" => lists' = 0
        BY <2>3, <3>1
      <4>2. lists' <= n /\ n - lists' - 1 < 1
        BY <3>n
      <4> QED BY <3>p, <4>1, <4>2
    <3>7. CASE Len(f.lists) # 1
      <4>1. lists' = Len(f.lists) /\ types' = 0
        <5>1. types' = 0
          BY <2>3, <3>1, <3>7
        <5>2. n # 1
          BY <3>p, <3>7
        <5>3. lists' = n
          BY <3>n, <5>2
        <5> QED BY <3>p, <5>1, <5>3
      <4>2. \A i \in 1..(Len(f.lists) - lists' - 1) : FALSE
        BY <1>t, <4>1
      <4> QED BY <3>1, <3>2, <3>4, <3>5, <3>6, <4>1, <4>2 DEF HeaderDone, WithinFrame
    <3>8. CASE Len(f.lists) = 1
      <4> DEFINE l == f.lists[1]
      <4>1. lists' = 0 /\ types' = Len(l.tags) /\ f.kind # "full"
        BY <2>3, <3>1, <3>8
      <4>2. SaysTypes(data, l, ListsFrom(f), f.to)
        <5>1. SaysList(data, f, 1)
          BY <2>1, <3>8
        <5>2. SaysTypes(data, f.lists[1], BehindList(f, 1 - 1), f.to)
          BY <4>1, <5>1 DEF SaysList
        <5> QED BY <5>2 DEF BehindList
      <4>3. l \in TypeList /\ Len(l.tags) \in Nat
        BY <1>t, <3>8, ListTypes
      <4> HIDE DEF l
      <4>4. l.places[1] = ListsFrom(f)
        BY <4>2 DEF SaysTypes
      <4>5. AtType(l)'
        <5>1. types' <= Len(l.tags) /\ Len(l.tags) + 1 - types' = 1 /\ Len(l.tags) - types' = 0
          BY <4>1, <4>3
        <5> QED BY <3>2, <4>4, <5>1 DEF AtType
      <4>6. AtType(f.lists[Len(f.lists) - lists])' /\ ~(lists' = Len(f.lists))
        BY <3>8, <4>1, <4>5 DEF l
      <4>7. \A i \in 1..(Len(f.lists) - lists' - 1) : FALSE
        BY <1>t, <3>6, <4>1
      <4> QED BY <3>1, <3>4, <3>5, <3>6, <4>6, <4>7 DEF HeaderDone, WithinFrame
    <3> QED BY <3>7, <3>8
  <2> QED BY <2>5, <2>6
<1> QED BY <1>1, <1>2

\* A frame that is whole has its header.
LEMMA WholeHasHeader ==
    ASSUME NEW bytes \in Seq(Byte), NEW f \in WrittenFrame, NEW delta, SaysFrame(bytes, f, delta),
           WholeFrame(bytes, f)
    PROVE  ListsFrom(f) <= Len(bytes)
<1>1. f.kind # "none" /\ f.to <= Len(bytes)
  BY DEF WholeFrame, Sound
<1>2. ListsFrom(f) <= f.to
  BY <1>1 DEF SaysFrame
<1> QED BY <1>1, <1>2, FrameTypes

LEMMA RefusedIsNotWhole ==
    ASSUME data \in Seq(Byte), NEW f \in WrittenFrame, NEW delta, SaysFrame(data, f, delta),
           NEW n \in Int, n > Len(data), ListsFrom(f) >= n, Refuse
    PROVE  HeaderDone(f, delta)
<1>1. ListsFrom(f) \in Nat /\ Len(data) \in Nat
  BY FrameTypes
<1>2. ~WholeFrame(data, f)
  BY <1>1, WholeHasHeader
<1> QED BY <1>2 DEF HeaderDone

\* A wrapper, and the header inside it.
LEMMA WrappedRead ==
    ASSUME data \in Seq(Byte), NEW f \in WrittenFrame, NEW delta, SaysFrame(data, f, delta),
           f.wrapped, NEW c \in Cursor, c.ok, c.pos = f.from + 1, WrappedFrame(c)
    PROVE  HeaderDone(f, delta)
<1> DEFINE fields == After(data, c, 2)
           base == After(data, fields, 2 * U2(data, c))
<1>t. /\ f.from \in Nat /\ f.unset \in Nat /\ Base(f) \in Nat /\ ListsFrom(f) \in Nat /\ ListsFrom(f) > Base(f)
      /\ f.type \in 0..255
  BY FrameTypes
<1>0. Len(data) \in Nat /\ Base(f) = f.from + (3 + 2 * f.unset)
  BY DEF Base
<1>1. CASE ~Need(data, c, 2)
  <2>1. c.pos + 2 > Len(data)
    <3>1. ~(c.pos + 2 <= Len(data))
      BY <1>1, NeedIs
    <3> QED BY <1>t, <1>0, <3>1
  <2>2. Refuse /\ c.pos + 2 \in Int /\ ListsFrom(f) >= c.pos + 2
    BY <1>t, <1>0, <1>1 DEF WrappedFrame
  <2> QED BY <2>1, <2>2, RefusedIsNotWhole
<1>2. CASE Need(data, c, 2)
  <2>1. Says2(data, c.pos, f.unset)
    BY DEF SaysFrame
  <2>2. U2(data, c) = f.unset
    BY <1>t, <1>2, <2>1, SaidTwo
  <2>3. fields \in Cursor /\ fields.ok /\ fields.pos = f.from + 3
    BY <1>t, <1>2, AfterIs
  <2>4. 2 * f.unset \in Nat /\ base = After(data, fields, 2 * f.unset)
    BY <1>t, <2>2
  <2>r. IF ~Need(data, c, 2) \/ ~Need(data, base, 1) THEN Refuse
        ELSE BaseFrame(U1(data, base), After(data, base, 1), U2(data, c))
    BY DEF WrappedFrame
  <2> HIDE DEF base, fields
  <2>5. CASE ~Need(data, fields, 2 * f.unset)
    <3>1. fields.pos + 2 * f.unset > Len(data)
      <4>1. ~(fields.pos + 2 * f.unset <= Len(data))
        BY <2>3, <2>4, <2>5, NeedIs
      <4> QED BY <1>t, <1>0, <2>3, <4>1
    <3>2. ~Need(data, base, 1)
      BY <2>3, <2>4, <2>5, NothingBehindFailure
    <3>3. Refuse
      BY <3>2, <2>r
    <3>4. Base(f) \in Int /\ Base(f) > Len(data) /\ ListsFrom(f) >= Base(f)
      BY <1>t, <1>0, <2>3, <3>1
    <3> QED BY <3>3, <3>4, RefusedIsNotWhole
  <2>6. CASE Need(data, fields, 2 * f.unset)
    <3>1. base \in Cursor /\ base.ok /\ base.pos = fields.pos + 2 * f.unset
      BY <2>3, <2>4, <2>6, AfterIs
    <3>2. base.pos = Base(f)
      BY <1>t, <1>0, <2>3, <3>1
    <3>3. CASE ~Need(data, base, 1)
      <4>1. Base(f) + 1 > Len(data)
        BY <1>t, <1>0, <3>1, <3>2, <3>3, NeedIs
      <4>2. Refuse
        BY <3>3, <2>r
      <4>3. Base(f) + 1 \in Int /\ ListsFrom(f) >= Base(f) + 1
        BY <1>t
      <4> QED BY <4>1, <4>2, <4>3, RefusedIsNotWhole
    <3>4. CASE Need(data, base, 1)
      <4>1. Says1(data, base.pos, f.type)
        BY <3>2 DEF SaysFrame
      <4>2. U1(data, base) = f.type
        BY <3>1, <3>4, <4>1, SaidOne
      <4>3. /\ After(data, base, 1) \in Cursor /\ After(data, base, 1).ok
            /\ After(data, base, 1).pos = Base(f) + 1
        BY <3>1, <3>2, <3>4, AfterIs
      <4>4. BaseFrame(U1(data, base), After(data, base, 1), U2(data, c))
        BY <1>2, <3>4, <2>r
      <4>5. BaseFrame(f.type, After(data, base, 1), f.unset)
        BY <2>2, <4>2, <4>4
      <4> QED BY <4>3, <4>5, HeaderRead
    <3> QED BY <3>3, <3>4
  <2> QED BY <2>5, <2>6
<1> QED BY <1>1, <1>2

\* The header of a frame.
LEMMA FrameRead ==
    ASSUME FramesInv, NEW f \in WrittenFrame, NEW delta, SaysFrame(data, f, delta),
           cursor.pos = f.from, ReadFrame
    PROVE  HeaderDone(f, delta)
<1>d. data \in Seq(Byte) /\ cursor \in Cursor /\ cursor.ok
  BY DEF FramesInv, TypeOK
<1>t. /\ f.from \in Nat /\ f.unset \in Nat /\ Base(f) \in Nat /\ ListsFrom(f) \in Nat
      /\ ListsFrom(f) > Base(f) /\ Base(f) >= f.from
  BY FrameTypes
<1>0. Len(data) \in Nat
  BY <1>d
<1>1. CASE ~Need(data, cursor, 1)
  <2>1. cursor.pos + 1 > Len(data)
    BY <1>d, <1>t, <1>0, <1>1, NeedIs
  <2>2. Refuse
    BY <1>1 DEF ReadFrame
  <2>3. cursor.pos + 1 \in Int /\ ListsFrom(f) >= cursor.pos + 1
    BY <1>t
  <2> QED BY <1>d, <2>1, <2>2, <2>3, RefusedIsNotWhole
<1>2. CASE Need(data, cursor, 1)
  <2> DEFINE c == After(data, cursor, 1)
  <2>1. c \in Cursor /\ c.ok /\ c.pos = f.from + 1
    BY <1>d, <1>2, AfterIs
  <2>2. IF U1(data, cursor) = EarlyLarval THEN WrappedFrame(c) ELSE BaseFrame(U1(data, cursor), c, 0)
    BY <1>2 DEF ReadFrame
  <2> HIDE DEF c
  <2>3. CASE f.wrapped
    <3>1. Says1(data, cursor.pos, 246)
      BY <2>3 DEF SaysFrame
    <3>2. U1(data, cursor) = EarlyLarval
      BY <1>d, <1>2, <3>1, SaidOne DEF EarlyLarval
    <3>3. WrappedFrame(c)
      BY <2>2, <3>2
    <3> QED BY <1>d, <2>1, <2>3, <3>3, WrappedRead
  <2>4. CASE ~f.wrapped
    <3>1. f.unset = 0 /\ f.type # EarlyLarval /\ Says1(data, Base(f), f.type)
      BY <2>4 DEF SaysFrame, EarlyLarval
    <3>2. Base(f) = f.from
      BY <1>t, <2>4 DEF Base
    <3>3. U1(data, cursor) = f.type
      BY <1>d, <1>2, <3>1, <3>2, SaidOne
    <3>4. BaseFrame(f.type, c, f.unset)
      BY <2>2, <3>1, <3>3
    <3>5. c.pos = Base(f) + 1
      BY <2>1, <3>2
    <3> QED BY <1>d, <2>1, <3>4, <3>5, HeaderRead
  <2> QED BY <2>3, <2>4
<1> QED BY <1>1, <1>2

-----------------------------------------------------------------------------
\* A frame under construction means something.
LEMMA FrameSays ==
    ASSUME FramesInv, NEW f \in WrittenFrame, NEW delta, SaysFrame(data, f, delta),
           frame # NoFrame, WithinFrame(f, delta)
    PROVE  /\ f.kind # "none" /\ HasForm(f, delta) /\ Len(f.lists) <= 2
           /\ lists > 0 => f.kind = "full" /\ Len(f.lists) = 2
           /\ \A l \in 1..Len(f.lists) : SaysList(data, f, l)
           /\ f.to = BehindList(f, Len(f.lists))
           /\ lists \in 0..Len(f.lists) /\ types \in Nat
<1>1. frame.kind \in Kinds /\ frame.kind = f.kind /\ lists \in 0..2 /\ types \in Nat
  BY Unsigned16Facts DEF FramesInv, TypeOK, FrameIsOwed, WithinFrame
<1>2. f.kind # "none"
  BY <1>1 DEF Kinds
<1>3. /\ HasForm(f, delta) /\ delta \in Unsigned16
      /\ \A l \in 1..Len(f.lists) : SaysList(data, f, l)
      /\ f.to = BehindList(f, Len(f.lists))
  BY <1>2 DEF SaysFrame
<1>4. delta \in Nat
  BY <1>3, Unsigned16Facts
<1>5. Len(f.lists) <= 2 /\ (f.kind = "full" <=> Len(f.lists) = 2)
  BY <1>3, <1>4, FormSays
<1>6. lists <= Len(f.lists) /\ (f.kind # "full" => lists = 0)
  BY DEF WithinFrame
<1>7. lists \in 0..Len(f.lists)
  <2>1. Len(f.lists) \in Nat
    BY FrameTypes
  <2> QED BY <1>1, <1>6, <2>1
<1>8. lists > 0 => f.kind = "full" /\ Len(f.lists) = 2
  <2>1. lists > 0 => lists # 0
    BY <1>1
  <2> QED BY <1>5, <1>6, <2>1
<1> QED BY <1>1, <1>2, <1>3, <1>5, <1>7, <1>8

\* Where the types of a list are.
TypeStands(bytes, l, i, to) ==
    /\ Says1(bytes, l.places[i], l.tags[i]) /\ l.places[i] \in Nat
    /\ l.places[i + 1] = l.places[i] + TypeWidth(l.tags[i])
    /\ l.places[i + 1] <= to
    /\ \E tag \in 0..255 : tag = l.tags[i]

LEMMA TypesStand ==
    ASSUME NEW bytes, NEW l \in TypeList, NEW from, NEW to \in Nat, SaysTypes(bytes, l, from, to),
           NEW i \in 1..Len(l.tags)
    PROVE  TypeStands(bytes, l, i, to)
<1>1. /\ Len(l.tags) \in Nat /\ l.tags[i] \in 0..255
      /\ \A j \in 1..Len(l.places) : l.places[j] \in Nat
  BY ListTypes
<1>2. /\ Len(l.places) = Len(l.tags) + 1
      /\ \A j \in 1..Len(l.places) : l.places[j] <= to
      /\ Says1(bytes, l.places[i], l.tags[i])
      /\ l.places[i + 1] = l.places[i] + TypeWidth(l.tags[i])
  BY DEF SaysTypes
<1>3. i \in 1..Len(l.places) /\ i + 1 \in 1..Len(l.places)
  BY <1>1, <1>2
<1>4. \E tag \in 0..255 : tag = l.tags[i]
  BY <1>1
<1> QED BY <1>1, <1>2, <1>3, <1>4 DEF TypeStands

LEMMA TypesOfList ==
    ASSUME NEW f \in WrittenFrame, NEW l \in 1..Len(f.lists), SaysList(data, f, l)
    PROVE  /\ f.lists[l] \in TypeList /\ f.to \in Nat
           /\ \E from : SaysTypes(data, f.lists[l], from, f.to)
<1>1. f.lists[l] \in TypeList /\ f.to \in Nat
  BY FrameTypes
<1>2. \E from : SaysTypes(data, f.lists[l], from, f.to)
  BY DEF SaysList
<1> QED BY <1>1, <1>2

\* A type.
TypeDone(f, delta) ==
    \/ Refuse /\ ~WholeFrame(data, f)
    \/ WithinFrame(f, delta)' /\ UNCHANGED <<data, left, frame, frames, outcome>>

LEMMA TypeRead ==
    ASSUME FramesInv, NEW f \in WrittenFrame, NEW delta, SaysFrame(data, f, delta),
           frame # NoFrame, WithinFrame(f, delta), ReadType
    PROVE  TypeDone(f, delta)
<1> DEFINE tag == U1(data, cursor)
<1>d. data \in Seq(Byte) /\ cursor \in Cursor /\ cursor.ok /\ Len(data) \in Nat /\ cursor.pos \in Nat
  BY DEF FramesInv, TypeOK, Cursor
<1>1. /\ lists \in 0..Len(f.lists) /\ types \in Nat /\ types > 0
      /\ \A n \in 1..Len(f.lists) : SaysList(data, f, n)
  BY FrameSays DEF ReadType
<1>2. lists # Len(f.lists) /\ AtType(f.lists[Len(f.lists) - lists])
  BY <1>1 DEF WithinFrame
<1>3. PICK at \in 1..Len(f.lists) : at = Len(f.lists) - lists
  <2>1. Len(f.lists) \in Nat
    BY FrameTypes
  <2> QED BY <1>1, <1>2, <2>1
<1>4. PICK l \in TypeList, to \in Nat :
          l = f.lists[at] /\ to = f.to /\ \E from : SaysTypes(data, l, from, to)
  <2>1. SaysList(data, f, at)
    BY <1>1, <1>3
  <2>2. /\ f.lists[at] \in TypeList /\ f.to \in Nat
        /\ \E from : SaysTypes(data, f.lists[at], from, f.to)
    BY <2>1, TypesOfList
  <2>3. PICK from : SaysTypes(data, f.lists[at], from, f.to)
    BY <2>2
  <2>4. PICK l \in TypeList : l = f.lists[at]
    BY FrameTypes
  <2>5. PICK to \in Nat : to = f.to
    BY FrameTypes
  <2>6. SaysTypes(data, l, from, to)
    BY <2>3, <2>4, <2>5
  <2> QED BY <2>4, <2>5, <2>6
<1>5. PICK n \in Nat, t \in Nat : n = Len(l.tags) /\ t = types /\ t > 0
  BY <1>1, <1>4, ListTypes
<1>6. /\ t <= n /\ cursor.pos = l.places[n + 1 - t]
      /\ \A k \in 1..(n - t) : l.tags[k] <= 8
  BY <1>2, <1>3, <1>4, <1>5 DEF AtType
<1>7. PICK i \in 1..n : i = n + 1 - t /\ n - t = i - 1 /\ i + 1 = n + 1 - (t - 1)
  <2>1. t <= n /\ t > 0
    BY <1>5, <1>6
  <2> QED BY <2>1
<1>p. cursor.pos = l.places[i] /\ \A k \in 1..(i - 1) : l.tags[k] <= 8
  BY <1>6, <1>7
<1>8. PICK b \in 0..255 :
          /\ b = l.tags[i] /\ Says1(data, l.places[i], b) /\ l.places[i] \in Nat
          /\ l.places[i + 1] = l.places[i] + TypeWidth(b) /\ l.places[i + 1] <= to
  <2>1. i \in 1..Len(l.tags)
    BY <1>5
  <2>2. TypeStands(data, l, i, to)
    BY <1>4, <2>1, TypesStand
  <2> QED BY <2>2 DEF TypeStands
<1>9. PICK wide \in {1, 3} : wide = TypeWidth(b)
  BY DEF TypeWidth
<1>e. PICK next \in Nat : next = l.places[i + 1] /\ next = cursor.pos + wide /\ next <= to
  BY <1>d, <1>8, <1>9, <1>p
<1>10. ASSUME NEW w \in Nat, w <= wide, ~Need(data, cursor, w)
       PROVE  ~WholeFrame(data, f)
  <2>1. ~(cursor.pos + w <= Len(data))
    BY <1>d, <1>10, NeedIs
  <2>2. ~(to <= Len(data))
    BY <1>d, <1>e, <1>10, <2>1
  <2> QED BY <1>4, <2>2 DEF WholeFrame
<1>11. CASE ~Need(data, cursor, 1)
  <2>1. Refuse
    BY <1>11 DEF ReadType
  <2> QED BY <1>10, <1>11, <2>1 DEF TypeDone
<1>12. CASE Need(data, cursor, 1)
  <2>1. tag = b
    BY <1>d, <1>8, <1>12, <1>p, SaidOne
  <2>w. wide = IF tag \in {7, 8} THEN 3 ELSE 1
    BY <1>9, <2>1 DEF TypeWidth
  <2>2. IF tag > 8 \/ ~Need(data, cursor, wide) THEN Refuse
        ELSE /\ cursor' = After(data, cursor, wide)
             /\ types' = types - 1
             /\ UNCHANGED <<data, left, frame, lists, frames, outcome>>
    BY <1>12, <2>w DEF ReadType
  <2> HIDE DEF tag
  <2>3. CASE tag > 8
    <3>1. ~SoundList(l)
      <4>1. ~(b <= 8)
        BY <2>1, <2>3
      <4>2. ~(l.tags[i] <= 8) /\ i \in 1..Len(l.tags)
        BY <1>5, <1>8, <4>1
      <4> QED BY <4>2 DEF SoundList
    <3>2. ~Sound(f)
      BY <1>3, <1>4, <3>1 DEF Sound
    <3> QED BY <2>2, <2>3, <3>2 DEF TypeDone, WholeFrame
  <2>4. CASE ~Need(data, cursor, wide)
    BY <1>10, <2>2, <2>4 DEF TypeDone
  <2>5. CASE ~(tag > 8) /\ Need(data, cursor, wide)
    <3>1. /\ cursor' = After(data, cursor, wide)
          /\ types' = types - 1
          /\ UNCHANGED <<data, left, frame, lists, frames, outcome>>
      BY <2>2, <2>5
    <3>2. cursor'.pos = l.places[i + 1]
      BY <1>d, <1>e, <2>5, <3>1, AfterIs
    <3>3. PICK u \in Nat : u = types' /\ u <= n /\ n + 1 - u = i + 1 /\ n - u = i
      <4>1. t - 1 \in Nat /\ t - 1 <= n /\ n + 1 - (t - 1) = i + 1 /\ n - (t - 1) = i
        BY <1>7
      <4>2. types' = t - 1
        BY <1>5, <3>1
      <4> QED BY <4>1, <4>2
    <3>4. \A k \in 1..i : l.tags[k] <= 8
      <4>1. l.tags[i] <= 8
        <5>1. b <= 8
          BY <2>1, <2>5
        <5> QED BY <1>8, <5>1
      <4>2. \A k \in 1..i : k = i \/ k \in 1..(i - 1)
        OBVIOUS
      <4> QED BY <1>p, <4>1, <4>2
    <3>5. u <= n /\ cursor'.pos = l.places[n + 1 - u] /\ \A k \in 1..(n - u) : l.tags[k] <= 8
      BY <3>2, <3>3, <3>4
    <3>6. AtType(f.lists[Len(f.lists) - lists])'
      <4>1. f.lists[Len(f.lists) - lists'] = l
        BY <1>3, <1>4, <3>1
      <4> QED BY <1>5, <3>3, <3>5, <4>1 DEF AtType
    <3>7. UNCHANGED <<lists, frame>> /\ lists' # Len(f.lists)
      BY <1>2, <3>1
    <3>8. WithinFrame(f, delta)'
      <4>1. \A k \in 1..(Len(f.lists) - lists - 1) : SoundList(f.lists[k])
        BY DEF WithinFrame
      <4> QED BY <3>6, <3>7 DEF WithinFrame
    <3> QED BY <3>1, <3>8 DEF TypeDone
  <2> QED BY <2>3, <2>4, <2>5
<1> QED BY <1>11, <1>12

\* The count of a list.
LEMMA TypeCountRead ==
    ASSUME FramesInv, NEW f \in WrittenFrame, NEW delta, SaysFrame(data, f, delta),
           frame # NoFrame, WithinFrame(f, delta), ReadTypeCount
    PROVE  TypeDone(f, delta)
<1>d. data \in Seq(Byte) /\ cursor \in Cursor /\ cursor.ok /\ Len(data) \in Nat /\ cursor.pos \in Nat
  BY DEF FramesInv, TypeOK, Cursor
<1>1. /\ lists \in 1..2 /\ types = 0 /\ f.kind = "full" /\ Len(f.lists) = 2
      /\ \A n \in 1..Len(f.lists) : SaysList(data, f, n)
  <2>1. lists > 0 /\ types = 0
    BY DEF ReadTypeCount
  <2>2. /\ lists \in 0..Len(f.lists) /\ f.kind = "full" /\ Len(f.lists) = 2
        /\ \A n \in 1..Len(f.lists) : SaysList(data, f, n)
    BY <2>1, FrameSays
  <2> QED BY <2>1, <2>2
<1>2. PICK k \in 1..2 : k = 3 - lists
  BY <1>1
<1>3. PICK l : l = f.lists[k]
  OBVIOUS
<1>4. l \in TypeList /\ f.to \in Nat /\ SaysList(data, f, k) /\ f.lists[1] \in TypeList
  <2>1. k \in 1..Len(f.lists) /\ 1 \in 1..Len(f.lists)
    BY <1>1, <1>2
  <2> QED BY <1>1, <1>3, <2>1, TypesOfList
<1>5. cursor.pos = BehindList(f, k - 1) /\ (k = 2 => SoundList(f.lists[1]))
  <2>1. CASE lists = 2
    <3>1. k = 1 /\ cursor.pos = ListsFrom(f)
      BY <1>1, <1>2, <2>1 DEF WithinFrame
    <3> QED BY <3>1 DEF BehindList
  <2>2. CASE lists = 1
    <3>1. k = 2 /\ AtType(f.lists[1])
      <4>1. lists # Len(f.lists) /\ Len(f.lists) - lists = 1
        BY <1>1, <2>2
      <4>2. k = 2
        BY <1>2, <2>2
      <4> QED BY <4>1, <4>2 DEF WithinFrame
    <3>2. Len(f.lists[1].tags) \in Nat
      BY <1>4, ListTypes
    <3>3. cursor.pos = ListEnd(f.lists[1]) /\ SoundList(f.lists[1])
      BY <1>1, <3>1, <3>2 DEF AtType, ListEnd, SoundList
    <3> QED BY <3>1, <3>3 DEF BehindList
  <2> QED BY <1>1, <2>1, <2>2
<1>6. Says2(data, cursor.pos, Len(l.tags)) /\ SaysTypes(data, l, cursor.pos + 2, f.to)
  <2>1. Says2(data, BehindList(f, k - 1), Len(l.tags)) /\ SaysTypes(data, l, BehindList(f, k - 1) + 2, f.to)
    BY <1>1, <1>3, <1>4 DEF SaysList
  <2> QED BY <1>5, <2>1
<1>7. Len(l.tags) \in Nat /\ l.places[1] = cursor.pos + 2 /\ l.places[1] <= f.to
  <2>1. Len(l.tags) \in Nat
    BY <1>4, ListTypes
  <2>2. /\ l.places[1] = cursor.pos + 2 /\ Len(l.places) = Len(l.tags) + 1
        /\ \A i \in 1..Len(l.places) : l.places[i] <= f.to
    BY <1>6 DEF SaysTypes
  <2>3. 1 \in 1..Len(l.places)
    BY <2>1, <2>2
  <2> QED BY <2>1, <2>2, <2>3
<1>8. CASE ~Need(data, cursor, 2)
  <2>1. ~(cursor.pos + 2 <= Len(data))
    BY <1>d, <1>8, NeedIs
  <2>2. ~(f.to <= Len(data))
    BY <1>d, <1>4, <1>7, <2>1
  <2> QED BY <1>8, <2>2 DEF ReadTypeCount, TypeDone, WholeFrame
<1>9. CASE Need(data, cursor, 2)
  <2>1. /\ types' = U2(data, cursor) /\ cursor' = After(data, cursor, 2) /\ lists' = lists - 1
        /\ UNCHANGED <<data, left, frame, frames, outcome>>
    BY <1>9 DEF ReadTypeCount
  <2>2. types' = Len(l.tags)
    BY <1>d, <1>6, <1>7, <1>9, <2>1, SaidTwo
  <2>3. cursor'.pos = l.places[1]
    BY <1>d, <1>7, <1>9, <2>1, AfterIs
  <2>4. /\ types' <= Len(l.tags) /\ cursor'.pos = l.places[Len(l.tags) + 1 - types']
        /\ \A n \in 1..(Len(l.tags) - types') : l.tags[n] <= 8
    <3>1. types' <= Len(l.tags) /\ Len(l.tags) + 1 - types' = 1 /\ Len(l.tags) - types' = 0
      BY <1>7, <2>2
    <3> QED BY <2>3, <3>1
  <2>5. /\ lists' <= Len(f.lists) /\ lists' # Len(f.lists)
        /\ Len(f.lists) - lists' = k /\ Len(f.lists) - lists' - 1 = k - 1
    BY <1>1, <1>2, <2>1
  <2>6. AtType(f.lists[Len(f.lists) - lists])'
    BY <1>3, <2>4, <2>5 DEF AtType
  <2>7. \A i \in 1..(k - 1) : SoundList(f.lists[i])
    <3>1. \A i \in 1..(k - 1) : i = 1 /\ k = 2
      BY <1>2
    <3> QED BY <1>5, <3>1
  <2>8. WithinFrame(f, delta)'
    <3>1. frame' = [delta |-> delta, kind |-> f.kind, unset |-> f.unset]
      BY <2>1 DEF WithinFrame
    <3> QED BY <1>1, <2>5, <2>6, <2>7, <3>1 DEF WithinFrame
  <2> QED BY <2>1, <2>8 DEF TypeDone
<1> QED BY <1>8, <1>9

\* The end of a frame.
LEMMA FrameDone ==
    ASSUME FramesInv, NEW f \in WrittenFrame, NEW delta, SaysFrame(data, f, delta),
           frame # NoFrame, WithinFrame(f, delta), types = 0, lists = 0
    PROVE  Sound(f) /\ cursor.pos = f.to
<1>1. /\ f.kind # "none" /\ f.to = BehindList(f, Len(f.lists)) /\ Len(f.lists) \in Nat
      /\ \A l \in 1..Len(f.lists) : f.lists[l] \in TypeList
  BY FrameSays, FrameTypes
<1>2. CASE Len(f.lists) = 0
  <2>1. cursor.pos = ListsFrom(f)
    BY <1>2 DEF WithinFrame
  <2> QED BY <1>1, <1>2, <2>1 DEF Sound, BehindList
<1>3. CASE Len(f.lists) # 0
  <2>1. PICK n \in Nat : n = Len(f.lists)
    BY <1>1
  <2>2. n # 0 /\ n \in 1..n /\ n - lists = n /\ n - lists - 1 = n - 1 /\ lists # n
    BY <1>3, <2>1
  <2>3. AtType(f.lists[n]) /\ \A l \in 1..(n - 1) : SoundList(f.lists[l])
    BY <2>1, <2>2 DEF WithinFrame
  <2>4. Len(f.lists[n].tags) \in Nat
    BY <1>1, <2>1, <2>2, ListTypes
  <2>5. cursor.pos = ListEnd(f.lists[n]) /\ SoundList(f.lists[n])
    BY <2>3, <2>4 DEF AtType, ListEnd, SoundList
  <2>6. \A l \in 1..n : l = n \/ l \in 1..(n - 1)
    OBVIOUS
  <2>7. \A l \in 1..n : SoundList(f.lists[l])
    BY <2>3, <2>5, <2>6
  <2> QED BY <1>1, <2>1, <2>2, <2>5, <2>7 DEF Sound, BehindList
<1> QED BY <1>2, <1>3
-----------------------------------------------------------------------------
\* What is refused is not whole.
LEMMA RefusedMap ==
    ASSUME NEW map, Refuse, ~WholeMap(data, map)
    PROVE  ReadsMap(map)'
BY DEF Refuse, ReadsMap, WholeMap

LEMMA MeantFrame ==
    ASSUME NEW map \in Seq(WrittenFrame), NEW i \in 1..Len(map)
    PROVE  MeantFrames(map)[i] = [offset |-> map[i].offset, kind |-> map[i].kind, unset |-> map[i].unset]
BY DEF MeantFrames

LEMMA MapCountRead ==
    ASSUME FramesInv, NEW map, SaysMap(data, map), ReadsMap(map), ReadCount
    PROVE  ReadsMap(map)'
<1>1. /\ outcome = "start" /\ frames = <<>> /\ frame = NoFrame /\ cursor = StartOf
      /\ lists = 0 /\ types = 0 /\ data \in Seq(Byte) /\ Len(data) \in Nat
  BY DEF ReadCount, FramesInv, TypeOK, NothingYet, ReadsMap
<1>2. StartOf \in Cursor /\ StartOf.ok /\ StartOf.pos = 0
  BY DEF StartOf, Cursor
<1>3. /\ Len(map) \in Nat /\ Says2(data, 0, Len(map)) /\ BehindFrame(map, 0) = 2
      /\ BehindFrame(map, Len(map)) \in Nat /\ 2 <= BehindFrame(map, Len(map))
  BY MapIs
<1>4. CASE ~Need(data, cursor, 2)
  <2>1. ~(0 + 2 <= Len(data))
    BY <1>1, <1>2, <1>4, NeedIs
  <2>2. Len(data) # BehindFrame(map, Len(map))
    BY <1>1, <1>3, <2>1
  <2> QED BY <1>4, <2>2, RefusedMap DEF ReadCount, WholeMap
<1>5. CASE Need(data, cursor, 2)
  <2>1. /\ left' = U2(data, StartOf) /\ cursor' = After(data, StartOf, 2) /\ outcome' = "reading"
        /\ UNCHANGED <<data, frame, lists, types, frames>>
    BY <1>1, <1>5 DEF ReadCount
  <2>2. left' = Len(map)
    BY <1>1, <1>2, <1>3, <1>5, <2>1, SaidTwo
  <2>3. cursor'.pos = 2
    BY <1>1, <1>2, <1>5, <2>1, AfterIs
  <2>4. Len(frames') = 0
    BY <1>1, <2>1
  <2>5. FramesKept(map)'
    BY <1>3, <2>2, <2>4 DEF FramesKept
  <2>6. InStep(map)'
    <3>1. frame' = NoFrame /\ lists' = 0 /\ types' = 0 /\ cursor'.pos = BehindFrame(map, Len(frames'))
      BY <1>1, <1>3, <2>1, <2>3, <2>4
    <3> QED BY <3>1 DEF InStep
  <2> QED BY <2>1, <2>5, <2>6 DEF ReadsMap
<1> QED BY <1>4, <1>5

\* The frame at hand is one of the map.
LEMMA FrameAtHand ==
    ASSUME FramesInv, NEW map, SaysMap(data, map), FramesKept(map), left > 0
    PROVE  Len(frames) + 1 \in 1..Len(map) /\ Len(frames) \in Nat /\ left \in Nat
<1>1. Len(frames) \in Nat /\ left \in Nat /\ Len(map) \in Nat
  BY MapIs, Unsigned16Facts DEF FramesInv, TypeOK
<1>2. Len(frames) + left = Len(map)
  BY DEF FramesKept
<1> QED BY <1>1, <1>2

\* A step within a frame.
LEMMA SameFrames ==
    ASSUME NEW map, FramesKept(map), UNCHANGED <<data, left, frames, outcome>>, outcome = "reading",
           frame' # NoFrame, WithinFrame(map[Len(frames) + 1], DeltaOf(map, Len(frames) + 1))'
    PROVE  ReadsMap(map)'
<1>1. FramesKept(map)'
  BY DEF FramesKept
<1>2. InStep(map)'
  BY DEF InStep
<1> QED BY <1>1, <1>2 DEF ReadsMap

LEMMA MapFrameRead ==
    ASSUME FramesInv, NEW map, SaysMap(data, map), ReadsMap(map), ReadFrame
    PROVE  ReadsMap(map)'
<1>1. outcome = "reading" /\ frame = NoFrame /\ left > 0
  BY DEF ReadFrame
<1>2. FramesKept(map) /\ cursor.pos = BehindFrame(map, Len(frames))
  BY <1>1 DEF ReadsMap, InStep
<1>3. PICK k \in 1..Len(map) : k = Len(frames) + 1 /\ k - 1 = Len(frames)
  BY <1>1, <1>2, FrameAtHand
<1>4. /\ map[k] \in WrittenFrame /\ map[k].from = BehindFrame(map, k - 1)
      /\ SaysFrame(data, map[k], DeltaOf(map, k))
  BY FrameOfMap
<1>5. HeaderDone(map[k], DeltaOf(map, k))
  BY <1>2, <1>3, <1>4, FrameRead
<1>6. CASE Refuse /\ ~WholeFrame(data, map[k])
  BY <1>6, FrameOfWhole, RefusedMap
<1>7. CASE /\ WithinFrame(map[k], DeltaOf(map, k))' /\ frame' # NoFrame
           /\ UNCHANGED <<data, left, frames, outcome>>
  <2>1. WithinFrame(map[Len(frames) + 1], DeltaOf(map, Len(frames) + 1))'
    BY <1>3, <1>7
  <2> QED BY <1>1, <1>2, <1>7, <2>1, SameFrames
<1> QED BY <1>5, <1>6, <1>7 DEF HeaderDone

LEMMA MapTypeRead ==
    ASSUME FramesInv, NEW map, SaysMap(data, map), ReadsMap(map), ReadType \/ ReadTypeCount
    PROVE  ReadsMap(map)'
<1>1. outcome = "reading" /\ FramesKept(map) /\ InStep(map)
  BY DEF ReadType, ReadTypeCount, ReadsMap
<1>2. frame # NoFrame /\ left > 0
  <2>1. types \in Nat /\ lists \in 0..2
    BY Unsigned16Facts DEF FramesInv, TypeOK
  <2>2. types # 0 \/ lists # 0
    BY <2>1 DEF ReadType, ReadTypeCount
  <2> QED BY <1>1, <2>2 DEF InStep, FramesInv, FrameIsOwed
<1>3. PICK k \in 1..Len(map) : k = Len(frames) + 1
  BY <1>1, <1>2, FrameAtHand
<1>4. map[k] \in WrittenFrame /\ SaysFrame(data, map[k], DeltaOf(map, k))
  BY FrameOfMap
<1>5. WithinFrame(map[k], DeltaOf(map, k))
  BY <1>1, <1>2, <1>3 DEF InStep
<1>6. TypeDone(map[k], DeltaOf(map, k))
  BY <1>2, <1>4, <1>5, TypeRead, TypeCountRead
<1>7. CASE Refuse /\ ~WholeFrame(data, map[k])
  BY <1>7, FrameOfWhole, RefusedMap
<1>8. CASE WithinFrame(map[k], DeltaOf(map, k))' /\ UNCHANGED <<data, left, frame, frames, outcome>>
  <2>1. WithinFrame(map[Len(frames) + 1], DeltaOf(map, Len(frames) + 1))'
    BY <1>3, <1>8
  <2>2. frame' # NoFrame
    BY <1>2, <1>8
  <2> QED BY <1>1, <1>8, <2>1, <2>2, SameFrames
<1> QED BY <1>6, <1>7, <1>8 DEF TypeDone

LEMMA MapFrameKept ==
    ASSUME FramesInv, NEW map, SaysMap(data, map), ReadsMap(map), KeepFrame
    PROVE  ReadsMap(map)'
<1>1. /\ outcome = "reading" /\ frame # NoFrame /\ types = 0 /\ lists = 0 /\ left > 0
      /\ FramesKept(map) /\ InStep(map)
  BY DEF KeepFrame, ReadsMap, FramesInv, FrameIsOwed
<1>2. PICK k \in 1..Len(map) : k = Len(frames) + 1
  BY <1>1, FrameAtHand
<1>3. map[k] \in WrittenFrame /\ SaysFrame(data, map[k], DeltaOf(map, k)) /\ BehindFrame(map, k) = map[k].to
  BY FrameOfMap
<1>4. WithinFrame(map[k], DeltaOf(map, k))
  BY <1>1, <1>2 DEF InStep
<1>5. Sound(map[k]) /\ cursor.pos = map[k].to
  BY <1>1, <1>3, <1>4, FrameDone
<1>6. /\ frames \in Seq(Frame) /\ Len(frames) \in Nat /\ left \in Nat /\ map \in Seq(WrittenFrame)
      /\ Len(map) \in Nat /\ Len(frames) + left = Len(map)
      /\ \A i \in 1..Len(frames) : Sound(map[i]) /\ frames[i] = MeantFrames(map)[i]
  BY <1>1, MapIs, Unsigned16Facts DEF FramesInv, TypeOK, FramesKept
<1>7. OffsetOf(DeltaOf(map, k)) = map[k].offset
  <2>1. CASE frames = <<>>
    <3>1. k = 1
      BY <1>2, <2>1
    <3> QED BY <2>1, <3>1 DEF OffsetOf, DeltaOf
  <2>2. CASE frames # <<>>
    <3>0. k - 1 \in 1..Len(map) /\ k # 1 /\ Len(frames) = k - 1 /\ Len(frames) \in 1..Len(frames)
      BY <1>2, <1>6, <2>2
    <3>1. PICK j \in 1..Len(map) : j = k - 1
      BY <3>0
    <3>2. frames[Len(frames)].offset = map[j].offset
      <4>1. frames[Len(frames)] = MeantFrames(map)[j]
        BY <1>6, <3>0, <3>1
      <4>2. MeantFrames(map)[j].offset = map[j].offset
        <5>1. MeantFrames(map)[j] = [offset |-> map[j].offset, kind |-> map[j].kind, unset |-> map[j].unset]
          BY <1>6, MeantFrame
        <5> QED BY <5>1
      <4> QED BY <4>1, <4>2
    <3>3. map[k].offset \in Nat /\ map[j].offset \in Nat
      <4>1. map[j] \in WrittenFrame
        BY <1>6, <3>1
      <4> QED BY <1>3, <4>1, FrameTypes
    <3>4. OffsetOf(DeltaOf(map, k)) = map[j].offset + (map[k].offset - map[j].offset - 1) + 1
      BY <2>2, <3>0, <3>1, <3>2 DEF OffsetOf, DeltaOf
    <3> QED BY <3>3, <3>4
  <2> QED BY <2>1, <2>2
<1>8. /\ frames' = Append(frames, MeantFrames(map)[k])
      /\ frame' = NoFrame /\ left' = left - 1 /\ UNCHANGED <<data, cursor, lists, types, outcome>>
  <2>1. frame.delta = DeltaOf(map, k) /\ frame.kind = map[k].kind /\ frame.unset = map[k].unset
    BY <1>4 DEF WithinFrame
  <2>2. MeantFrames(map)[k] = [offset |-> map[k].offset, kind |-> map[k].kind, unset |-> map[k].unset]
    BY <1>6, MeantFrame
  <2> QED BY <1>7, <2>1, <2>2 DEF KeepFrame
<1>9. /\ Len(frames') = k /\ \A i \in 1..(k - 1) : frames'[i] = frames[i]
      /\ frames'[k] = MeantFrames(map)[k]
  BY <1>2, <1>6, <1>8
<1>10. FramesKept(map)'
  <2>1. Len(frames') + left' = Len(map)
    <3>1. /\ Len(frames') = k /\ k = Len(frames) + 1 /\ left' = left - 1
          /\ Len(frames) \in Nat /\ left \in Nat /\ Len(frames) + left = Len(map)
      BY <1>2, <1>6, <1>8, <1>9
    <3> QED BY <3>1
  <2>2. ASSUME NEW i \in 1..Len(frames') PROVE Sound(map[i]) /\ frames'[i] = MeantFrames(map)[i]
    <3>1. PICK n \in Nat : n = Len(frames) /\ k = n + 1 /\ Len(frames') = n + 1
      BY <1>2, <1>6, <1>9
    <3>2. i = k \/ (i \in 1..(k - 1) /\ i \in 1..n)
      BY <3>1
    <3> QED BY <1>5, <1>6, <1>9, <3>1, <3>2
  <2> QED BY <2>1, <2>2 DEF FramesKept
<1>11. InStep(map)'
  <2>1. cursor'.pos = BehindFrame(map, Len(frames')) /\ lists' = 0 /\ types' = 0
    BY <1>1, <1>3, <1>5, <1>8, <1>9
  <2> QED BY <1>8, <2>1 DEF InStep
<1> QED BY <1>1, <1>8, <1>10, <1>11 DEF ReadsMap

LEMMA MapFinished ==
    ASSUME FramesInv, NEW map, SaysMap(data, map), ReadsMap(map), Finish
    PROVE  ReadsMap(map)'
<1>1. outcome = "reading" /\ left = 0 /\ frame = NoFrame /\ FramesKept(map) /\ InStep(map)
  BY DEF Finish, ReadsMap, FramesInv, FrameIsOwed
<1>2. /\ frames \in Seq(Frame) /\ Len(frames) \in Nat /\ Len(map) \in Nat /\ Len(data) \in Nat
      /\ cursor.pos \in Nat /\ cursor.pos <= Len(data)
      /\ BehindFrame(map, Len(map)) \in Nat /\ Len(data) <= BehindFrame(map, Len(map))
  BY MapIs DEF FramesInv, TypeOK, Cursor
<1>n. Len(frames) = Len(map)
  <2>1. Len(frames) + left = Len(map)
    BY <1>1 DEF FramesKept
  <2> QED BY <1>1, <1>2, <2>1
<1>3. Len(frames) = Len(map) /\ \A i \in 1..Len(frames) : Sound(map[i]) /\ frames[i] = MeantFrames(map)[i]
  BY <1>1, <1>n DEF FramesKept
<1>4. cursor.pos = BehindFrame(map, Len(map))
  BY <1>1, <1>3 DEF InStep
<1>5. WholeMap(data, map)
  BY <1>2, <1>3, <1>4 DEF WholeMap
<1>6. frames = MeantFrames(map)
  <2> DEFINE M(i) == [offset |-> map[i].offset, kind |-> map[i].kind, unset |-> map[i].unset]
  <2>1. MeantFrames(map) = [i \in 1..Len(map) |-> M(i)]
    BY DEF MeantFrames
  <2>2. frames = [i \in 1..Len(map) |-> frames[i]]
    BY <1>2, <1>3
  <2>3. \A i \in 1..Len(map) : frames[i] = M(i)
    BY <1>3, <2>1
  <2> HIDE DEF M
  <2> QED BY <2>1, <2>2, <2>3
<1>7. outcome' = "ok" /\ UNCHANGED <<data, frames>>
  BY DEF Finish
<1> QED BY <1>5, <1>6, <1>7 DEF ReadsMap

\* Every step keeps in step with the map.
LEMMA MapStaysRead ==
    ASSUME FramesInv, NEW map, SaysMap(data, map), ReadsMap(map), [Next]_vars
    PROVE  ReadsMap(map)'
<1>1. CASE UNCHANGED vars
  BY <1>1 DEF vars, ReadsMap, FramesKept, InStep, WithinFrame, AtType
<1> QED BY <1>1, MapCountRead, MapFrameRead, MapTypeRead, MapFrameKept, MapFinished DEF Next
-----------------------------------------------------------------------------
(***************************************************************************)
(* CodeAttribute, for every compiled method.  What is parsed is what the   *)
(* bytes say, as far as they go; what is printed is what was parsed.       *)
(***************************************************************************)
\* Four bytes, many bytes, and rows.
LEMMA HighAndLow ==
    ASSUME NEW n \in Nat
    PROVE  /\ U16 * (n \div U16) + (n % U16) = n
           /\ n \div U16 \in Nat /\ n % U16 \in Nat
BY DEF U16

LEMMA SaidFour ==
    ASSUME NEW bytes \in Seq(Byte), NEW c \in Cursor, NEW n \in Nat,
           Need(bytes, c, 4), Says4(bytes, c.pos, n)
    PROVE  U4(bytes, c) = n
<1>1. c.pos \in Nat /\ Len(bytes) \in Nat /\ c.ok
  BY DEF Cursor, Need
<1>2. c.pos + 4 <= Len(bytes)
  BY <1>1 DEF Need
<1>3. Need(bytes, c, 2)
  BY <1>1, <1>2 DEF Need
<1>4. /\ After(bytes, c, 2) \in Cursor /\ After(bytes, c, 2).ok
      /\ After(bytes, c, 2).pos = c.pos + 2
  BY <1>3, AfterIs
<1>5. Need(bytes, After(bytes, c, 2), 2)
  BY <1>1, <1>2, <1>4 DEF Need
<1>6. n \div U16 \in Nat /\ n % U16 \in Nat /\ U16 * (n \div U16) + (n % U16) = n
  BY HighAndLow
<1>7. Says2(bytes, c.pos, n \div U16) /\ Says2(bytes, After(bytes, c, 2).pos, n % U16)
  BY <1>4 DEF Says4
<1>8. U2(bytes, c) = n \div U16
  BY <1>3, <1>6, <1>7, SaidTwo
<1>9. U2(bytes, After(bytes, c, 2)) = n % U16
  BY <1>4, <1>5, <1>6, <1>7, SaidTwo
<1> QED BY <1>6, <1>8, <1>9 DEF U4

LEMMA SaidAll ==
    ASSUME contents \in Seq(Byte), NEW at \in Nat, NEW s \in Seq(Byte),
           SaysAll(contents, at, s), at + Len(s) <= Len(contents)
    PROVE  Slice(at, Len(s)) = s
<1> DEFINE t == Slice(at, Len(s))
<1>1. Len(contents) \in Nat /\ Len(s) \in Nat
  OBVIOUS
<1>2. /\ \A i \in (at + 1)..(at + Len(s)) : contents[i] \in Byte
  <2> SUFFICES ASSUME NEW i \in (at + 1)..(at + Len(s)) PROVE contents[i] \in Byte
    OBVIOUS
  <2>1. i \in 1..Len(contents)
    BY <1>1
  <2> QED BY <2>1
<1>3. t = [i \in 1..Len(s) |-> contents[at + i]]
  <2>1. t = SubSeq(contents, at + 1, at + Len(s))
    BY DEF Slice
  <2>2. SubSeq(contents, at + 1, at + Len(s)) = [i \in 1..((at + Len(s)) - (at + 1) + 1) |-> contents[i + (at + 1) - 1]]
    BY <1>1
  <2>3. (at + Len(s)) - (at + 1) + 1 = Len(s) /\ \A i \in 1..Len(s) : i + (at + 1) - 1 = at + i
    BY <1>1
  <2> HIDE DEF t
  <2> QED BY <2>1, <2>2, <2>3
<1>4. \A i \in 1..Len(s) : contents[at + i] = s[i]
  <2> SUFFICES ASSUME NEW i \in 1..Len(s) PROVE contents[at + i] = s[i]
    OBVIOUS
  <2>1. at + i - 1 < Len(contents) /\ (at + i - 1) + 1 = at + i
    BY <1>1
  <2> QED BY <2>1 DEF SaysAll, Says1
<1>5. s = [i \in 1..Len(s) |-> s[i]]
  OBVIOUS
<1> HIDE DEF t
<1> QED BY <1>3, <1>4, <1>5 DEF t

\* One row.
LEMMA SaidRow ==
    ASSUME NEW bytes \in Seq(Byte), NEW from \in Nat, NEW fields \in Nat,
           NEW row \in [1..fields -> Unsigned16], from + 2 * fields <= Len(bytes),
           \A n \in 1..fields : Says2(bytes, from + 2 * (n - 1), row[n])
    PROVE  Row(bytes, from, fields) = row
<1>1. ASSUME NEW n \in 1..fields PROVE U2(bytes, [StartOf EXCEPT !.pos = from + 2 * (n - 1)]) = row[n]
  <2>1. PICK p \in Nat : p = from + 2 * (n - 1)
    OBVIOUS
  <2>2. PICK c : c = [StartOf EXCEPT !.pos = p]
    OBVIOUS
  <2>3. c \in Cursor /\ c.ok /\ c.pos = p
    BY <2>2 DEF StartOf, Cursor
  <2>4. Need(bytes, c, 2)
    <3>1. p + 2 <= Len(bytes)
      BY <2>1
    <3> QED BY <2>3, <3>1, NeedIs
  <2>5. row[n] \in Nat
    BY Unsigned16Facts
  <2>6. Says2(bytes, c.pos, row[n])
    BY <2>1, <2>3
  <2>7. U2(bytes, c) = row[n]
    BY <2>3, <2>4, <2>5, <2>6, SaidTwo
  <2> QED BY <2>1, <2>2, <2>7
<1>2. Row(bytes, from, fields) = [n \in 1..fields |-> U2(bytes, [StartOf EXCEPT !.pos = from + 2 * (n - 1)])]
  BY DEF Row
<1>3. row = [n \in 1..fields |-> row[n]]
  OBVIOUS
<1> QED BY <1>1, <1>2, <1>3

\* Where a row is, and that it is there.
RowPlace(at, fields, i) == at + 2 + 2 * fields * (i - 1)
RowFits(bytes, at, fields, i) == RowPlace(at, fields, i) + 2 * fields <= Len(bytes)

LEMMA SaidRows ==
    ASSUME NEW bytes \in Seq(Byte), NEW at \in Nat, NEW rows, NEW fields \in Nat,
           SaysRows(bytes, at, rows, fields), NEW i \in 1..Len(rows),
           RowFits(bytes, at, fields, i)
    PROVE  Row(bytes, RowPlace(at, fields, i), fields) = rows[i]
<1>1. rows \in Seq([1..fields -> Unsigned16]) /\ Len(rows) \in Nat
  BY Unsigned16Facts DEF SaysRows
<1>2. rows[i] \in [1..fields -> Unsigned16]
  BY <1>1, ElementOfSeq
<1>3. 2 * fields * (i - 1) \in Nat
  <2>1. i - 1 \in Nat /\ 2 * fields \in Nat
    BY <1>1
  <2> QED BY <2>1
<1>4. PICK from \in Nat : from = at + 2 + 2 * fields * (i - 1) /\ from = RowPlace(at, fields, i)
  BY <1>3 DEF RowPlace
<1>5. \A n \in 1..fields : Says2(bytes, from + 2 * (n - 1), rows[i][n])
  BY <1>4 DEF SaysRows
<1>6. from + 2 * fields <= Len(bytes)
  BY <1>4 DEF RowFits
<1>7. Row(bytes, from, fields) = rows[i]
  BY <1>2, <1>5, <1>6, SaidRow
<1> QED BY <1>4, <1>7
-----------------------------------------------------------------------------
LEMMA MethodIs ==
    ASSUME NEW bytes, NEW m, SaysMethod(bytes, m)
    PROVE  /\ m.code \in Seq(Byte) /\ Len(m.code) \in Nat
           /\ Says4(bytes, 4, Len(m.code)) /\ SaysAll(bytes, 8, m.code)
           /\ m.exceptions \in Seq([1..Exceptional -> Unsigned16]) /\ Len(m.exceptions) \in Nat
           /\ SaysRows(bytes, ExceptionsAt(m), m.exceptions, Exceptional)
           /\ Says2(bytes, ExceptionsAt(m), Len(m.exceptions))
           /\ m.attributes \in Seq(WrittenAttribute) /\ Len(m.attributes) \in Nat
           /\ Says2(bytes, AttributesAt(m), Len(m.attributes))
<1>1. /\ m \in WrittenMethod
      /\ Says4(bytes, 4, Len(m.code)) /\ SaysAll(bytes, 8, m.code)
      /\ SaysRows(bytes, ExceptionsAt(m), m.exceptions, Exceptional)
      /\ Says2(bytes, AttributesAt(m), Len(m.attributes))
  BY DEF SaysMethod
<1>2. /\ m.code \in Seq(Byte) /\ m.exceptions \in Seq([1..Exceptional -> Unsigned16])
      /\ m.attributes \in Seq(WrittenAttribute)
  BY <1>1 DEF WrittenMethod
<1>3. Len(m.code) \in Nat /\ Len(m.exceptions) \in Nat /\ Len(m.attributes) \in Nat
  BY <1>2
<1>4. Says2(bytes, ExceptionsAt(m), Len(m.exceptions))
  BY <1>1 DEF SaysRows
<1> QED BY <1>1, <1>2, <1>3, <1>4

LEMMA MethodPlaces ==
    ASSUME NEW bytes, NEW m, SaysMethod(bytes, m)
    PROVE  /\ ExceptionsAt(m) = 8 + Len(m.code) /\ ExceptionsAt(m) \in Nat
           /\ AttributesAt(m) = ExceptionsAt(m) + 2 + 8 * Len(m.exceptions) /\ AttributesAt(m) \in Nat
           /\ m.places[1] = AttributesAt(m) + 2
           /\ \A i \in 1..(Len(m.attributes) + 1) : m.places[i] \in Nat /\ m.places[i] <= LengthOf(m)
           /\ LengthOf(m) \in Nat /\ AttributesAt(m) + 2 <= LengthOf(m)
           /\ Len(bytes) <= LengthOf(m)
<1>1. Len(m.code) \in Nat /\ Len(m.exceptions) \in Nat /\ Len(m.attributes) \in Nat
  BY MethodIs
<1>2. ExceptionsAt(m) = 8 + Len(m.code) /\ ExceptionsAt(m) \in Nat
  BY <1>1 DEF ExceptionsAt
<1>3. AttributesAt(m) = ExceptionsAt(m) + 2 + 8 * Len(m.exceptions) /\ AttributesAt(m) \in Nat
  <2>1. PICK at \in Nat, n \in Nat : at = ExceptionsAt(m) /\ n = Len(m.exceptions)
    BY <1>1, <1>2
  <2>2. AttributesAt(m) = at + 2 + 2 * Exceptional * n
    BY <2>1 DEF AttributesAt, RowsEnd
  <2>3. AttributesAt(m) = at + 2 + 8 * n /\ AttributesAt(m) \in Nat
    BY <2>2 DEF Exceptional
  <2> QED BY <2>1, <2>3
<1>4. /\ m \in WrittenMethod /\ Len(m.places) = Len(m.attributes) + 1 /\ m.places[1] = AttributesAt(m) + 2
      /\ \A i \in 1..(Len(m.attributes) + 1) : m.places[i] <= LengthOf(m)
      /\ Len(bytes) <= LengthOf(m)
  BY DEF SaysMethod
<1>5. m.places \in Seq(Nat)
  BY <1>4 DEF WrittenMethod
<1>6. \A i \in 1..(Len(m.attributes) + 1) : m.places[i] \in Nat
  BY <1>4, <1>5, ElementOfSeq
<1>7. 1 \in 1..(Len(m.attributes) + 1) /\ Len(m.attributes) + 1 \in 1..(Len(m.attributes) + 1)
  BY <1>1
<1>8. LengthOf(m) \in Nat /\ AttributesAt(m) + 2 <= LengthOf(m)
  BY <1>4, <1>6, <1>7 DEF LengthOf
<1> QED BY <1>2, <1>3, <1>4, <1>6, <1>8

LEMMA AttributeIs ==
    ASSUME NEW bytes, NEW m, SaysMethod(bytes, m), NEW i \in 1..Len(m.attributes)
    PROVE  LET a == m.attributes[i]
           IN  /\ a.name \in Nat /\ a.name \in Unsigned16 /\ a.bytes \in Seq(Byte) /\ Len(a.bytes) \in Nat
               /\ Says2(bytes, m.places[i], a.name)
               /\ Says4(bytes, m.places[i] + 2, Len(a.bytes))
               /\ SaysAll(bytes, m.places[i] + 6, a.bytes)
               /\ m.places[i] \in Nat /\ m.places[i + 1] \in Nat
               /\ m.places[i + 1] = m.places[i] + 6 + Len(a.bytes)
               /\ m.places[i + 1] <= LengthOf(m)
               /\ SaysTable(a)
<1> DEFINE a == m.attributes[i]
<1>1. /\ Says2(bytes, m.places[i], a.name) /\ Says4(bytes, m.places[i] + 2, Len(a.bytes))
      /\ SaysAll(bytes, m.places[i] + 6, a.bytes)
      /\ m.places[i + 1] = m.places[i] + 6 + Len(a.bytes)
      /\ SaysTable(a)
  BY DEF SaysMethod
<1>2. m.attributes \in Seq(WrittenAttribute) /\ Len(m.attributes) \in Nat
  BY MethodIs
<1>3. a \in WrittenAttribute
  BY <1>2, ElementOfSeq
<1>4. a.name \in Nat /\ a.name \in Unsigned16 /\ a.bytes \in Seq(Byte) /\ Len(a.bytes) \in Nat
  <2>1. a.name \in Unsigned16 /\ a.bytes \in Seq(Byte)
    BY <1>3 DEF WrittenAttribute
  <2> QED BY <2>1, Unsigned16Facts
<1>5. i \in 1..(Len(m.attributes) + 1) /\ i + 1 \in 1..(Len(m.attributes) + 1)
  BY <1>2
<1>6. /\ m.places[i] \in Nat /\ m.places[i + 1] \in Nat /\ m.places[i + 1] <= LengthOf(m)
  BY <1>5, MethodPlaces
<1> QED BY <1>1, <1>4, <1>6
-----------------------------------------------------------------------------
\* What was read of a method so far, stage by stage.
AttributeMeant(a) == [name |-> NameOf[a.name], data |-> a.bytes]
ExceptionsRead(m) == \A i \in 1..Len(parsed.exceptions) : parsed.exceptions[i] = m.exceptions[i]
AttributesRead(m) ==
    \A i \in 1..Len(parsed.attributes) : parsed.attributes[i] = AttributeMeant(m.attributes[i])

AllParsed(m) ==
    /\ parsed.bytes = m.code /\ parsed.exceptions = m.exceptions
    /\ Len(parsed.attributes) = Len(m.attributes) /\ AttributesRead(m)
    /\ Len(contents) = LengthOf(m)

ParsedSoFar(m) ==
    /\ stage = "head" => place.pos = 0 /\ parsed.exceptions = <<>> /\ parsed.attributes = <<>>
    /\ stage = "exceptionCount" =>
           /\ place.pos = ExceptionsAt(m)
           /\ parsed.bytes = m.code /\ parsed.exceptions = <<>> /\ parsed.attributes = <<>>
    /\ stage = "exceptions" =>
           /\ place.pos = ExceptionsAt(m) + 2 + 8 * Len(parsed.exceptions)
           /\ owed \in Nat /\ Len(parsed.exceptions) + owed = Len(m.exceptions)
           /\ parsed.bytes = m.code /\ ExceptionsRead(m) /\ parsed.attributes = <<>>
    /\ stage = "attributeCount" =>
           /\ place.pos = AttributesAt(m)
           /\ parsed.bytes = m.code /\ parsed.exceptions = m.exceptions /\ parsed.attributes = <<>>
    /\ stage = "attributes" =>
           /\ place.pos = m.places[Len(parsed.attributes) + 1]
           /\ owed \in Nat /\ Len(parsed.attributes) + owed = Len(m.attributes)
           /\ parsed.bytes = m.code /\ parsed.exceptions = m.exceptions /\ AttributesRead(m)
    /\ stage \in Printing \cup {"printExceptions"} => AllParsed(m)
    /\ stage = "malformed" => Len(contents) < LengthOf(m)

LEMMA MalformedParse ==
    ASSUME NEW m, Malformed, Len(contents) < LengthOf(m)
    PROVE  ParsedSoFar(m)'
BY DEF Malformed, ParsedSoFar, Printing

\* What does not fit is not all there.
LEMMA ShortMethod ==
    ASSUME CodeTypeOK, NEW m, SaysMethod(contents, m), NEW w \in Nat, ~Reads(w),
           place.pos + w <= LengthOf(m), Malformed
    PROVE  ParsedSoFar(m)'
<1>1. contents \in Seq(Byte) /\ place \in Cursor /\ place.ok /\ Len(contents) \in Nat /\ place.pos \in Nat
  BY DEF CodeTypeOK, Inside, Cursor
<1>2. LengthOf(m) \in Nat
  BY MethodPlaces
<1>3. ~(place.pos + w <= Len(contents))
  BY <1>1, NeedIs DEF Reads
<1>4. Len(contents) < LengthOf(m)
  BY <1>1, <1>2, <1>3
<1> QED BY <1>4, MalformedParse

LEMMA ParseHead ==
    ASSUME CodeInv, NEW m, SaysMethod(contents, m), ParsedSoFar(m), ReadCode
    PROVE  ParsedSoFar(m)'
<1>1. stage = "head" /\ place.pos = 0 /\ parsed.exceptions = <<>> /\ parsed.attributes = <<>> /\ CodeTypeOK
  BY DEF ReadCode, TooShort, ParsedSoFar, CodeInv
<1>2. /\ contents \in Seq(Byte) /\ place \in Cursor /\ place.ok /\ Len(contents) \in Nat
      /\ parsed \in [bytes : Seq(Byte), exceptions : Seq(ExceptionRows), attributes : Seq(Parts)]
  BY <1>1 DEF CodeTypeOK, Inside
<1>3. /\ m.code \in Seq(Byte) /\ Len(m.code) \in Nat /\ ExceptionsAt(m) = 8 + Len(m.code)
      /\ Says4(contents, 4, Len(m.code)) /\ SaysAll(contents, 8, m.code)
      /\ ExceptionsAt(m) \in Nat /\ AttributesAt(m) = ExceptionsAt(m) + 2 + 8 * Len(m.exceptions)
      /\ Len(m.exceptions) \in Nat
      /\ LengthOf(m) \in Nat /\ AttributesAt(m) + 2 <= LengthOf(m)
  BY MethodIs, MethodPlaces
<1>4. 8 + Len(m.code) <= LengthOf(m)
  <2>1. /\ ExceptionsAt(m) \in Nat /\ AttributesAt(m) = ExceptionsAt(m) + 2 + 8 * Len(m.exceptions)
        /\ Len(m.exceptions) \in Nat /\ LengthOf(m) \in Nat /\ AttributesAt(m) + 2 <= LengthOf(m)
    BY <1>3
  <2>2. ExceptionsAt(m) <= LengthOf(m)
    BY <2>1
  <2> QED BY <1>3, <2>2
<1>5. CASE ~Reads(8)
  <2>1. Malformed
    BY <1>1, <1>5 DEF ReadCode, Reading, TooShort
  <2>2. place.pos + 8 <= LengthOf(m)
    BY <1>1, <1>3, <1>4
  <2> QED BY <1>1, <1>5, <2>1, <2>2, ShortMethod
<1>6. CASE Reads(8)
  <2>1. CodeLength = Len(m.code)
    <3>1. Need(contents, place, 4) /\ 8 <= Len(contents)
      BY <1>1, <1>2, <1>6 DEF Reads, Need
    <3>2. PICK c : c = After(contents, place, 4)
      OBVIOUS
    <3>3. c \in Cursor /\ c.ok /\ c.pos = 4
      BY <1>1, <1>2, <3>1, <3>2, AfterIs
    <3>4. Need(contents, c, 4)
      BY <1>2, <3>1, <3>3 DEF Need
    <3> QED BY <1>2, <1>3, <3>2, <3>3, <3>4, SaidFour DEF CodeLength
  <2>2. CASE ~Reads(8 + Len(m.code))
    <3>1. Malformed
      BY <1>1, <1>6, <2>1, <2>2 DEF ReadCode, Reading, TooShort
    <3>2. 8 + Len(m.code) \in Nat /\ place.pos + (8 + Len(m.code)) <= LengthOf(m)
      BY <1>1, <1>3, <1>4
    <3> QED BY <1>1, <2>2, <3>1, <3>2, ShortMethod
  <2>3. CASE Reads(8 + Len(m.code))
    <3>1. /\ Reading("head", 8 + Len(m.code)) /\ stage' = "exceptionCount"
          /\ parsed' = [parsed EXCEPT !.bytes = Slice(place.pos + 8, Len(m.code))]
      BY <1>6, <2>1, <2>3 DEF ReadCode, TooShort
    <3>2. place'.pos = ExceptionsAt(m)
      <4>1. 8 + Len(m.code) \in Nat
        BY <1>3
      <4>2. place'.pos = place.pos + (8 + Len(m.code))
        BY <1>2, <2>3, <3>1, <4>1, AfterIs DEF Reading, Reads
      <4>3. place'.pos = 8 + Len(m.code)
        BY <1>1, <4>1, <4>2
      <4> QED BY <1>3, <4>3
    <3>3. Slice(8, Len(m.code)) = m.code
      <4>1. 8 + Len(m.code) <= Len(contents)
        <5>1. 8 + Len(m.code) \in Nat
          BY <1>3
        <5>2. place.pos + (8 + Len(m.code)) <= Len(contents)
          BY <1>2, <2>3, <5>1, NeedIs DEF Reads
        <5> QED BY <1>1, <1>3, <5>2
      <4> QED BY <1>2, <1>3, <4>1, SaidAll
    <3>4. /\ parsed'.bytes = m.code /\ parsed'.exceptions = <<>> /\ parsed'.attributes = <<>>
      <4>1. place.pos + 8 = 8
        BY <1>1
      <4> QED BY <1>1, <1>2, <3>1, <3>3, <4>1
    <3> QED BY <3>1, <3>2, <3>4 DEF ParsedSoFar, Printing
  <2> QED BY <2>2, <2>3
<1> QED BY <1>5, <1>6

LEMMA ParseCount ==
    ASSUME CodeInv, NEW m, SaysMethod(contents, m), ParsedSoFar(m),
           ReadListCount("exceptionCount", "exceptions") \/ ReadListCount("attributeCount", "attributes")
    PROVE  ParsedSoFar(m)'
<1>t. contents \in Seq(Byte) /\ place \in Cursor /\ place.ok /\ Len(contents) \in Nat /\ CodeTypeOK
  BY DEF CodeInv, CodeTypeOK, Inside
<1>m. /\ ExceptionsAt(m) \in Nat /\ AttributesAt(m) = ExceptionsAt(m) + 2 + 8 * Len(m.exceptions)
      /\ Len(m.exceptions) \in Nat /\ Len(m.attributes) \in Nat /\ AttributesAt(m) \in Nat
      /\ LengthOf(m) \in Nat /\ AttributesAt(m) + 2 <= LengthOf(m)
      /\ Says2(contents, ExceptionsAt(m), Len(m.exceptions))
      /\ Says2(contents, AttributesAt(m), Len(m.attributes))
      /\ m.places[1] = AttributesAt(m) + 2
  BY MethodIs, MethodPlaces
<1>1. CASE ReadListCount("exceptionCount", "exceptions")
  <2>1. /\ stage = "exceptionCount" /\ place.pos = ExceptionsAt(m) /\ parsed.bytes = m.code
        /\ parsed.exceptions = <<>> /\ parsed.attributes = <<>>
    BY <1>1 DEF ReadListCount, TooShort, Reading, ParsedSoFar
  <2>2. CASE ~Reads(2)
    <3>1. Malformed
      BY <1>1, <2>2 DEF ReadListCount, TooShort, Reading
    <3>2. place.pos + 2 <= LengthOf(m)
      BY <1>m, <2>1
    <3> QED BY <1>t, <2>2, <3>1, <3>2, ShortMethod
  <2>3. CASE Reads(2)
    <3>1. /\ place' = After(contents, place, 2) /\ owed' = U2(contents, place) /\ stage' = "exceptions"
          /\ UNCHANGED parsed
      BY <1>1, <2>3 DEF ReadListCount, TooShort, Reading
    <3>2. owed' = Len(m.exceptions)
      BY <1>t, <1>m, <2>1, <2>3, <3>1, SaidTwo DEF Reads
    <3>3. place'.pos = ExceptionsAt(m) + 2
      BY <1>t, <2>1, <2>3, <3>1, AfterIs DEF Reads
    <3>4. Len(parsed'.exceptions) = 0 /\ ExceptionsRead(m)'
      <4>1. Len(parsed'.exceptions) = 0
        BY <2>1, <3>1
      <4> QED BY <4>1 DEF ExceptionsRead
    <3>5. place'.pos = ExceptionsAt(m) + 2 + 8 * Len(parsed'.exceptions)
          /\ owed' \in Nat /\ Len(parsed'.exceptions) + owed' = Len(m.exceptions)
      BY <1>m, <3>2, <3>3, <3>4
    <3> QED BY <2>1, <3>1, <3>4, <3>5 DEF ParsedSoFar, Printing
  <2> QED BY <2>2, <2>3
<1>2. CASE ReadListCount("attributeCount", "attributes")
  <2>1. /\ stage = "attributeCount" /\ place.pos = AttributesAt(m) /\ parsed.bytes = m.code
        /\ parsed.exceptions = m.exceptions /\ parsed.attributes = <<>>
    BY <1>2 DEF ReadListCount, TooShort, Reading, ParsedSoFar
  <2>2. CASE ~Reads(2)
    <3>1. Malformed
      BY <1>2, <2>2 DEF ReadListCount, TooShort, Reading
    <3>2. place.pos + 2 <= LengthOf(m)
      BY <1>m, <2>1
    <3> QED BY <1>t, <2>2, <3>1, <3>2, ShortMethod
  <2>3. CASE Reads(2)
    <3>1. /\ place' = After(contents, place, 2) /\ owed' = U2(contents, place) /\ stage' = "attributes"
          /\ UNCHANGED parsed
      BY <1>2, <2>3 DEF ReadListCount, TooShort, Reading
    <3>2. owed' = Len(m.attributes)
      BY <1>t, <1>m, <2>1, <2>3, <3>1, SaidTwo DEF Reads
    <3>3. place'.pos = m.places[1]
      BY <1>t, <1>m, <2>1, <2>3, <3>1, AfterIs DEF Reads
    <3>4. Len(parsed'.attributes) = 0 /\ AttributesRead(m)'
      <4>1. Len(parsed'.attributes) = 0
        BY <2>1, <3>1
      <4> QED BY <4>1 DEF AttributesRead
    <3>5. place'.pos = m.places[Len(parsed'.attributes) + 1]
          /\ owed' \in Nat /\ Len(parsed'.attributes) + owed' = Len(m.attributes)
      BY <1>m, <3>2, <3>3, <3>4
    <3> QED BY <2>1, <3>1, <3>4, <3>5 DEF ParsedSoFar, Printing
  <2> QED BY <2>2, <2>3
<1> QED BY <1>1, <1>2

LEMMA ParseException ==
    ASSUME CodeInv, NEW m, SaysMethod(contents, m), ParsedSoFar(m), ReadException
    PROVE  ParsedSoFar(m)'
<1> DEFINE w == 2 * Exceptional
           row == Row(contents, place.pos, Exceptional)
<1>t. /\ contents \in Seq(Byte) /\ place \in Cursor /\ place.ok /\ Len(contents) \in Nat /\ CodeTypeOK
      /\ parsed \in [bytes : Seq(Byte), exceptions : Seq(ExceptionRows), attributes : Seq(Parts)]
      /\ place.pos \in Nat
  BY DEF CodeInv, CodeTypeOK, Inside, Cursor
<1>1. /\ stage = "exceptions" /\ owed > 0
      /\ place.pos = ExceptionsAt(m) + 2 + 8 * Len(parsed.exceptions)
      /\ owed \in Nat /\ Len(parsed.exceptions) + owed = Len(m.exceptions)
      /\ parsed.bytes = m.code /\ ExceptionsRead(m) /\ parsed.attributes = <<>>
  BY DEF ReadException, TooShort, Reading, ParsedSoFar
<1>2. parsed.exceptions \in Seq(ExceptionRows) /\ Len(parsed.exceptions) \in Nat
  BY <1>t
<1>3. PICK k \in 1..Len(m.exceptions) : k = Len(parsed.exceptions) + 1 /\ k - 1 = Len(parsed.exceptions)
  <2>1. Len(m.exceptions) \in Nat
    BY MethodIs
  <2>2. Len(parsed.exceptions) + 1 \in 1..Len(m.exceptions)
    BY <1>1, <1>2, <2>1
  <2> QED BY <1>2, <2>2
<1>4. w \in Nat /\ w = 8
  BY DEF Exceptional
<1>5. /\ ExceptionsAt(m) \in Nat /\ Len(m.exceptions) \in Nat
      /\ ExceptionsAt(m) + 2 + 8 * Len(m.exceptions) < LengthOf(m) /\ LengthOf(m) \in Nat
      /\ SaysRows(contents, ExceptionsAt(m), m.exceptions, Exceptional)
  <2>1. /\ ExceptionsAt(m) \in Nat /\ Len(m.exceptions) \in Nat /\ LengthOf(m) \in Nat
        /\ AttributesAt(m) = ExceptionsAt(m) + 2 + 8 * Len(m.exceptions)
        /\ AttributesAt(m) + 2 <= LengthOf(m) /\ AttributesAt(m) \in Nat
        /\ SaysRows(contents, ExceptionsAt(m), m.exceptions, Exceptional)
    BY MethodIs, MethodPlaces
  <2>2. AttributesAt(m) < LengthOf(m)
    BY <2>1
  <2> QED BY <2>1, <2>2
<1>6. place.pos = ExceptionsAt(m) + 2 + 8 * (k - 1) /\ place.pos + w <= LengthOf(m)
  <2>1. PICK e \in Nat, p \in Nat, q \in Nat, n \in Nat :
           e = ExceptionsAt(m) /\ p = place.pos /\ q = LengthOf(m) /\ n = Len(m.exceptions)
    BY <1>t, <1>5
  <2>2. p = e + 2 + 8 * (k - 1)
    BY <1>1, <1>3, <2>1
  <2>3. p + 8 <= q
    <3>1. e + 2 + 8 * n < q /\ k \in Nat /\ k <= n
      BY <1>3, <1>5, <2>1
    <3> QED BY <2>2, <3>1
  <2> QED BY <1>4, <2>1, <2>2, <2>3
<1>7. CASE ~Reads(w)
  <2>1. Malformed
    BY <1>7 DEF ReadException, TooShort, Reading
  <2> QED BY <1>t, <1>4, <1>6, <1>7, <2>1, ShortMethod
<1>8. CASE Reads(w)
  <2>1. /\ place' = After(contents, place, w)
        /\ parsed' = [parsed EXCEPT !.exceptions = Append(parsed.exceptions, row)]
        /\ owed' = owed - 1 /\ UNCHANGED <<vars, contents, stage, printed>>
    BY <1>8 DEF ReadException, TooShort, Reading
  <2>2. row = m.exceptions[k]
    <3>1. PICK p \in Nat : p = place.pos
      BY <1>t
    <3>2. p + 8 <= Len(contents)
      BY <1>t, <1>4, <1>8, <3>1, NeedIs DEF Reads
    <3>3. p = RowPlace(ExceptionsAt(m), Exceptional, k)
      <4>1. PICK e \in Nat : e = ExceptionsAt(m)
        BY <1>5
      <4>2. p = e + 2 + 8 * (k - 1)
        BY <1>6, <3>1, <4>1
      <4>3. RowPlace(e, Exceptional, k) = e + 2 + 8 * (k - 1)
        BY DEF RowPlace, Exceptional
      <4> QED BY <4>1, <4>2, <4>3
    <3>4. Exceptional \in Nat /\ RowFits(contents, ExceptionsAt(m), Exceptional, k)
      <4>1. p + 2 * Exceptional <= Len(contents)
        BY <3>2 DEF Exceptional
      <4>2. RowPlace(ExceptionsAt(m), Exceptional, k) + 2 * Exceptional <= Len(contents)
        BY <3>3, <4>1
      <4> QED BY <4>2 DEF RowFits, Exceptional
    <3>5. Row(contents, RowPlace(ExceptionsAt(m), Exceptional, k), Exceptional) = m.exceptions[k]
      BY <1>t, <1>5, <3>4, SaidRows
    <3> QED BY <3>1, <3>3, <3>5
  <2> HIDE DEF row
  <2>3. /\ parsed'.bytes = parsed.bytes /\ parsed'.attributes = parsed.attributes
        /\ parsed'.exceptions = Append(parsed.exceptions, row)
    BY <1>t, <2>1
  <2>4. /\ Len(parsed'.exceptions) = k /\ parsed'.exceptions[k] = row
        /\ \A i \in 1..(k - 1) : parsed'.exceptions[i] = parsed.exceptions[i]
    BY <1>2, <1>3, <2>3
  <2>5. ExceptionsRead(m)'
    <3>1. ASSUME NEW i \in 1..k PROVE parsed'.exceptions[i] = m.exceptions[i]
      <4>1. i = k \/ i \in 1..(k - 1)
        OBVIOUS
      <4>2. \A j \in 1..(k - 1) : parsed.exceptions[j] = m.exceptions[j]
        BY <1>1, <1>3 DEF ExceptionsRead
      <4> QED BY <2>2, <2>4, <4>1, <4>2
    <3> QED BY <2>4, <3>1 DEF ExceptionsRead
  <2>6. place'.pos = ExceptionsAt(m) + 2 + 8 * Len(parsed'.exceptions)
    <3>1. place'.pos = place.pos + 8
      BY <1>t, <1>4, <1>8, <2>1, AfterIs DEF Reads
    <3>2. PICK e \in Nat, p \in Nat : e = ExceptionsAt(m) /\ p = place.pos
      BY <1>t, <1>5
    <3>3. p = e + 2 + 8 * (k - 1) /\ place'.pos = p + 8
      BY <1>6, <3>1, <3>2
    <3>4. place'.pos = e + 2 + 8 * k
      BY <3>3
    <3> QED BY <2>4, <3>2, <3>4
  <2>7. owed' \in Nat /\ Len(parsed'.exceptions) + owed' = Len(m.exceptions)
    BY <1>1, <1>2, <1>3, <2>1, <2>4
  <2> QED BY <1>1, <2>1, <2>3, <2>5, <2>6, <2>7 DEF ParsedSoFar, Printing
<1> QED BY <1>7, <1>8

LEMMA ParseAttribute ==
    ASSUME CodeInv, NEW m, SaysMethod(contents, m), ParsedSoFar(m), ReadAttribute
    PROVE  ParsedSoFar(m)'
<1>t. /\ contents \in Seq(Byte) /\ place \in Cursor /\ place.ok /\ Len(contents) \in Nat /\ CodeTypeOK
      /\ parsed \in [bytes : Seq(Byte), exceptions : Seq(ExceptionRows), attributes : Seq(Parts)]
      /\ place.pos \in Nat
  BY DEF CodeInv, CodeTypeOK, Inside, Cursor
<1>1. /\ stage = "attributes" /\ owed > 0
      /\ place.pos = m.places[Len(parsed.attributes) + 1]
      /\ owed \in Nat /\ Len(parsed.attributes) + owed = Len(m.attributes)
      /\ parsed.bytes = m.code /\ parsed.exceptions = m.exceptions /\ AttributesRead(m)
  BY DEF ReadAttribute, TooShort, Reading, ParsedSoFar
<1>2. parsed.attributes \in Seq(Parts) /\ Len(parsed.attributes) \in Nat
  BY <1>t
<1>3. PICK k \in 1..Len(m.attributes) : k = Len(parsed.attributes) + 1 /\ k - 1 = Len(parsed.attributes)
  <2>1. Len(m.attributes) \in Nat
    BY MethodIs
  <2>2. Len(parsed.attributes) + 1 \in 1..Len(m.attributes)
    BY <1>1, <1>2, <2>1
  <2> QED BY <1>2, <2>2
<1>4. PICK a : a = m.attributes[k]
  OBVIOUS
<1>5. /\ a.name \in Nat /\ a.bytes \in Seq(Byte) /\ Len(a.bytes) \in Nat
      /\ Says2(contents, place.pos, a.name) /\ Says4(contents, place.pos + 2, Len(a.bytes))
      /\ SaysAll(contents, place.pos + 6, a.bytes)
      /\ m.places[k + 1] = place.pos + 6 + Len(a.bytes)
      /\ m.places[k + 1] <= LengthOf(m) /\ LengthOf(m) \in Nat
  <2>1. m.places[k] = place.pos
    BY <1>1, <1>3
  <2>2. SaysMethod(contents, m)
    OBVIOUS
  <2>3. /\ a.name \in Nat /\ a.bytes \in Seq(Byte) /\ Len(a.bytes) \in Nat
        /\ Says2(contents, m.places[k], a.name) /\ Says4(contents, m.places[k] + 2, Len(a.bytes))
        /\ SaysAll(contents, m.places[k] + 6, a.bytes)
        /\ m.places[k + 1] = m.places[k] + 6 + Len(a.bytes)
        /\ m.places[k + 1] <= LengthOf(m)
    BY <1>4, <2>2, AttributeIs, Zenon
  <2>4. LengthOf(m) \in Nat
    BY <2>2, MethodPlaces
  <2> QED BY <2>1, <2>3, <2>4
<1>n. PICK p \in Nat, l \in Nat, q \in Nat :
           p = place.pos /\ l = Len(a.bytes) /\ q = m.places[k + 1] /\ q = p + 6 + l
  BY <1>t, <1>5
<1>o. q = p + 6 + l /\ p \in Nat /\ l \in Nat
  BY <1>n
<1>6. CASE ~Reads(6)
  <2>1. Malformed
    BY <1>6 DEF ReadAttribute, TooShort, Reading
  <2>2. place.pos + 6 <= LengthOf(m)
    BY <1>t, <1>5
  <2> QED BY <1>t, <1>6, <2>1, <2>2, ShortMethod
<1>7. CASE Reads(6)
  <2>1. AttributeLength = Len(a.bytes) /\ U2(contents, place) = a.name
    <3>1. Need(contents, place, 2) /\ place.pos + 6 <= Len(contents)
      BY <1>t, <1>7 DEF Reads, Need
    <3>2. PICK c : c = After(contents, place, 2)
      OBVIOUS
    <3>3. c \in Cursor /\ c.ok /\ c.pos = place.pos + 2
      BY <1>t, <3>1, <3>2, AfterIs
    <3>4. Need(contents, c, 4)
      BY <1>t, <3>1, <3>3 DEF Need
    <3>5. U4(contents, c) = Len(a.bytes)
      BY <1>t, <1>5, <3>3, <3>4, SaidFour
    <3>6. U2(contents, place) = a.name
      BY <1>t, <1>5, <3>1, SaidTwo
    <3> QED BY <3>2, <3>5, <3>6 DEF AttributeLength
  <2>2. 6 + Len(a.bytes) \in Nat /\ place.pos + (6 + Len(a.bytes)) = m.places[k + 1]
    <3>1. 6 + l \in Nat /\ p + (6 + l) = q
      BY <1>o
    <3> QED BY <1>n, <3>1
  <2>3. CASE ~Reads(6 + Len(a.bytes))
    <3>1. Malformed
      BY <1>7, <2>1, <2>3 DEF ReadAttribute, Reading, TooShort
    <3>2. place.pos + (6 + Len(a.bytes)) <= LengthOf(m)
      BY <1>5, <2>2
    <3> QED BY <1>t, <2>2, <2>3, <3>1, <3>2, ShortMethod
  <2>4. CASE Reads(6 + Len(a.bytes))
    <3> DEFINE part == [name |-> NameOf[U2(contents, place)], data |-> Slice(place.pos + 6, Len(a.bytes))]
    <3>1. /\ place' = After(contents, place, 6 + Len(a.bytes))
          /\ parsed' = [parsed EXCEPT !.attributes = Append(parsed.attributes, part)]
          /\ owed' = owed - 1 /\ UNCHANGED <<vars, contents, stage, printed>>
      BY <1>7, <2>1, <2>4 DEF ReadAttribute, TooShort, Reading
    <3>2. part = AttributeMeant(a)
      <4>1. (place.pos + 6) + Len(a.bytes) <= Len(contents) /\ place.pos + 6 \in Nat
        <5>1. place.pos + (6 + Len(a.bytes)) <= Len(contents)
          BY <1>t, <2>2, <2>4, NeedIs DEF Reads
        <5>2. (p + 6) + l = p + (6 + l) /\ p + 6 \in Nat
          BY <1>o
        <5> QED BY <1>n, <5>1, <5>2
      <4>2. Slice(place.pos + 6, Len(a.bytes)) = a.bytes
        BY <1>t, <1>5, <4>1, SaidAll
      <4> QED BY <2>1, <4>2 DEF AttributeMeant
    <3> HIDE DEF part
    <3>3. /\ parsed'.bytes = parsed.bytes /\ parsed'.exceptions = parsed.exceptions
          /\ parsed'.attributes = Append(parsed.attributes, part)
      BY <1>t, <3>1
    <3>4. /\ Len(parsed'.attributes) = k /\ parsed'.attributes[k] = part
          /\ \A i \in 1..(k - 1) : parsed'.attributes[i] = parsed.attributes[i]
      BY <1>2, <1>3, <3>3
    <3>5. AttributesRead(m)'
      <4>1. ASSUME NEW i \in 1..k PROVE parsed'.attributes[i] = AttributeMeant(m.attributes[i])
        <5>1. i = k \/ i \in 1..(k - 1)
          OBVIOUS
        <5>2. \A j \in 1..(k - 1) : parsed.attributes[j] = AttributeMeant(m.attributes[j])
          BY <1>1, <1>3 DEF AttributesRead
        <5> QED BY <1>4, <3>2, <3>4, <5>1, <5>2
      <4>2. \A i \in 1..Len(parsed'.attributes) : parsed'.attributes[i] = AttributeMeant(m.attributes[i])
        BY <3>4, <4>1
      <4> QED BY <4>2 DEF AttributesRead, AttributeMeant
    <3>6. place'.pos = m.places[Len(parsed'.attributes) + 1]
      <4>1. place'.pos = m.places[k + 1]
        <5>1. PICK v \in Nat : v = 6 + Len(a.bytes)
          BY <2>2
        <5>2. Need(contents, place, v) /\ place' = After(contents, place, v)
          BY <2>4, <3>1, <5>1 DEF Reads
        <5>3. place'.pos = place.pos + v
          BY <1>t, <5>2, AfterIs
        <5> QED BY <2>2, <5>1, <5>3
      <4> QED BY <3>4, <4>1
    <3>7. owed' \in Nat /\ Len(parsed'.attributes) + owed' = Len(m.attributes)
      <4>1. PICK o \in Nat, n \in Nat : o = owed /\ n = Len(parsed.attributes)
        BY <1>1, <1>2
      <4>2. o > 0 /\ n + o = Len(m.attributes) /\ k = n + 1 /\ owed' = o - 1
        BY <1>1, <1>3, <3>1, <4>1
      <4>3. owed' \in Nat /\ k + owed' = Len(m.attributes)
        BY <4>2
      <4> QED BY <3>4, <4>3
    <3> QED BY <1>1, <3>1, <3>3, <3>5, <3>6, <3>7 DEF ParsedSoFar, Printing
  <2> QED BY <2>3, <2>4
<1> QED BY <1>6, <1>7

\* The end of a list.
LEMMA ParseEnd ==
    ASSUME CodeInv, NEW m, SaysMethod(contents, m), ParsedSoFar(m), EndOfList
    PROVE  ParsedSoFar(m)'
<1>t. /\ parsed \in [bytes : Seq(Byte), exceptions : Seq(ExceptionRows), attributes : Seq(Parts)]
      /\ Len(contents) \in Nat /\ place.pos \in Nat /\ place.pos <= Len(contents)
  BY DEF CodeInv, CodeTypeOK, Inside, Cursor
<1>m. /\ m.exceptions \in Seq([1..Exceptional -> Unsigned16]) /\ Len(m.exceptions) \in Nat
      /\ Len(m.attributes) \in Nat
      /\ AttributesAt(m) = ExceptionsAt(m) + 2 + 8 * Len(m.exceptions)
      /\ LengthOf(m) \in Nat /\ Len(contents) <= LengthOf(m)
  BY MethodIs, MethodPlaces
<1>1. CASE stage = "exceptions"
  <2>1. /\ owed = 0 /\ stage' = "attributeCount" /\ UNCHANGED <<contents, place, owed, parsed>>
        /\ place.pos = ExceptionsAt(m) + 2 + 8 * Len(parsed.exceptions)
        /\ Len(parsed.exceptions) + owed = Len(m.exceptions)
        /\ parsed.bytes = m.code /\ ExceptionsRead(m) /\ parsed.attributes = <<>>
    BY <1>1 DEF EndOfList, ParsedSoFar
  <2>2. parsed.exceptions \in Seq(ExceptionRows) /\ Len(parsed.exceptions) \in Nat
    BY <1>t
  <2>3. Len(parsed.exceptions) = Len(m.exceptions)
    BY <2>1, <2>2
  <2>4. parsed.exceptions = m.exceptions
    <3> DEFINE s == parsed.exceptions
               t == m.exceptions
    <3>1. \A i \in 1..Len(s) : s[i] = t[i]
      BY <2>1 DEF ExceptionsRead
    <3>2. s \in Seq(ExceptionRows) /\ t \in Seq([1..Exceptional -> Unsigned16]) /\ Len(s) = Len(t)
      BY <1>m, <2>2, <2>3
    <3> HIDE DEF s, t
    <3>3. s = [i \in 1..Len(s) |-> s[i]] /\ t = [i \in 1..Len(t) |-> t[i]]
      BY <3>2
    <3>4. s = t
      BY <3>1, <3>2, <3>3
    <3> QED BY <3>4 DEF s, t
  <2>5. place.pos = AttributesAt(m)
    BY <1>m, <2>1, <2>3
  <2> QED BY <2>1, <2>4, <2>5 DEF ParsedSoFar, Printing
<1>2. CASE stage = "attributes"
  <2>1. /\ owed = 0 /\ stage' = "printExceptions" /\ UNCHANGED <<contents, place, owed, parsed>>
        /\ place.pos = m.places[Len(parsed.attributes) + 1]
        /\ Len(parsed.attributes) + owed = Len(m.attributes)
        /\ parsed.bytes = m.code /\ parsed.exceptions = m.exceptions /\ AttributesRead(m)
    BY <1>2 DEF EndOfList, ParsedSoFar
  <2>2. Len(parsed.attributes) \in Nat
    BY <1>t
  <2>3. Len(parsed.attributes) = Len(m.attributes)
    BY <2>1, <2>2
  <2>4. Len(contents) = LengthOf(m)
    <3>1. place.pos = LengthOf(m)
      BY <2>1, <2>3 DEF LengthOf
    <3> QED BY <1>t, <1>m, <3>1
  <2>5. AllParsed(m)
    BY <2>1, <2>3, <2>4 DEF AllParsed
  <2>6. AllParsed(m)'
    BY <2>1, <2>5 DEF AllParsed, AttributesRead
  <2> QED BY <2>1, <2>6 DEF ParsedSoFar, Printing
<1> QED BY <1>1, <1>2 DEF EndOfList

\* Printing changes nothing that was parsed.
LEMMA ParsedStays ==
    ASSUME NEW m, AllParsed(m), UNCHANGED <<contents, parsed>>, stage' \in Printing
    PROVE  ParsedSoFar(m)'
<1>1. AllParsed(m)'
  BY DEF AllParsed, AttributesRead
<1> QED BY <1>1 DEF ParsedSoFar, Printing
-----------------------------------------------------------------------------
\* The first attribute of a name, if there is one, is the one that is printed.
LEMMA NamedIs ==
    ASSUME NEW m, SaysMethod(contents, m), AllParsed(m), CodeTypeOK, NEW wanted
    PROVE  \/ Named(wanted) = <<>> /\ FirstNamed(m, wanted) = {}
           \/ \E i \in 1..Len(m.attributes) :
                  /\ FirstNamed(m, wanted) = {i} /\ NameOf[m.attributes[i].name] = wanted
                  /\ Named(wanted) = <<m.attributes[i].bytes>>
<1> DEFINE found == {i \in DOMAIN parsed.attributes : parsed.attributes[i].name = wanted}
           first == CHOOSE i \in found : \A j \in found : i <= j
           n == Len(m.attributes)
<1>1. n \in Nat /\ DOMAIN parsed.attributes = 1..n
  <2>1. parsed.attributes \in Seq(Parts)
    BY DEF CodeTypeOK
  <2>2. Len(parsed.attributes) = n
    BY DEF AllParsed
  <2> QED BY <2>1, <2>2
<1>2. \A i \in 1..n : /\ parsed.attributes[i].name = NameOf[m.attributes[i].name]
                       /\ parsed.attributes[i].data = m.attributes[i].bytes
  <2> TAKE i \in 1..n
  <2>1. Len(parsed.attributes) = n /\ AttributesRead(m)
    BY DEF AllParsed
  <2>2. parsed.attributes[i] = AttributeMeant(m.attributes[i])
    BY <2>1 DEF AttributesRead
  <2> QED BY <2>2 DEF AttributeMeant
<1>3. found = {i \in 1..n : NameOf[m.attributes[i].name] = wanted}
  BY <1>1, <1>2
<1>4. Named(wanted) = IF found = {} THEN <<>> ELSE <<parsed.attributes[first].data>>
  BY DEF Named
<1>5. \A i : i \in FirstNamed(m, wanted) <=> i \in found /\ \A j \in 1..(i - 1) : j \notin found
  <2>1. ASSUME NEW i PROVE i \in FirstNamed(m, wanted) <=> i \in found /\ \A j \in 1..(i - 1) : j \notin found
    <3>1. CASE i \notin 1..n
      BY <1>3, <3>1 DEF FirstNamed
    <3>2. CASE i \in 1..n
      <4>1. \A j \in 1..(i - 1) : j \in 1..n
        BY <1>1, <3>2
      <4>2. i \in FirstNamed(m, wanted) <=>
              /\ NameOf[m.attributes[i].name] = wanted
              /\ \A j \in 1..(i - 1) : NameOf[m.attributes[j].name] # wanted
        BY <3>2 DEF FirstNamed
      <4>3. \A j \in 1..n : j \in found <=> NameOf[m.attributes[j].name] = wanted
        BY <1>3
      <4> HIDE DEF found
      <4> QED BY <3>2, <4>1, <4>2, <4>3
    <3> QED BY <3>1, <3>2
  <2> QED BY <2>1
<1>6. CASE found = {}
  <2>1. FirstNamed(m, wanted) = {}
    <3> HIDE DEF found
    <3> QED BY <1>5, <1>6
  <2> QED BY <1>4, <1>6, <2>1
<1>7. CASE found # {}
  <2>1. found \in SUBSET Nat /\ found \subseteq 1..n
    BY <1>1, <1>3
  <2> HIDE DEF found
  <2>2. \E i \in found : \A j \in found : i <= j
    BY <1>7, <2>1, LeastElement
  <2>3. first \in found /\ \A j \in found : first <= j
    BY <2>2
  <2> HIDE DEF first
  <2>4. first \in 1..n
    BY <2>1, <2>3
  <2>5. FirstNamed(m, wanted) = {first}
    <3>1. first \in FirstNamed(m, wanted)
      <4>1. \A j \in 1..(first - 1) : j \notin found
        <5>1. \A j \in 1..(first - 1) : ~(first <= j)
          BY <2>4
        <5> QED BY <2>3, <5>1
      <4> QED BY <1>5, <2>3, <4>1
    <3>2. ASSUME NEW i \in FirstNamed(m, wanted) PROVE i = first
      <4>1. i \in found /\ \A j \in 1..(i - 1) : j \notin found
        BY <1>5, <3>2
      <4>2. first <= i /\ ~(first \in 1..(i - 1)) /\ i \in Nat
        BY <2>1, <2>3, <4>1
      <4> QED BY <2>4, <4>2
    <3> QED BY <3>1, <3>2
  <2>6. NameOf[m.attributes[first].name] = wanted
    BY <1>3, <2>3
  <2>7. Named(wanted) = <<m.attributes[first].bytes>>
    BY <1>2, <1>4, <1>7, <2>4
  <2> QED BY <2>4, <2>5, <2>6, <2>7
<1> QED BY <1>6, <1>7

\* There is room for so many if and only if the quotient is no less.
LEMMA QuotientAtLeast ==
    ASSUME NEW s \in Nat, NEW D \in Nat, D > 0, NEW k \in Nat
    PROVE  s \div D \in Nat /\ D * k \in Nat /\ (s \div D >= k <=> s >= D * k)
<1>1. PICK q \in Nat : q = s \div D /\ D * q <= s /\ s < D * q + D
  OBVIOUS
<1>2. /\ D * q = q * D /\ q * D \in Nat /\ D * k = k * D /\ k * D \in Nat
      /\ (q + 1) * D = q * D + D /\ q + 1 \in Nat
  OBVIOUS
<1>3. ASSUME k <= q PROVE s >= D * k
  <2>1. k * D <= q * D
    BY <1>3, ProductMonotone
  <2> QED BY <1>1, <1>2, <2>1
<1>4. ASSUME ~(k <= q) PROVE ~(s >= D * k)
  <2>1. q + 1 <= k
    BY <1>4
  <2>2. (q + 1) * D <= k * D
    BY <1>2, <2>1, ProductMonotone
  <2> QED BY <1>1, <1>2, <2>2
<1> QED BY <1>1, <1>2, <1>3, <1>4

\* A table of rows that is whole is what was meant.
LEMMA RowsMeant ==
    ASSUME NEW bytes \in Seq(Byte), NEW rows, NEW fields \in Nat, fields > 0,
           SaysRows(bytes, 0, rows, fields), Len(bytes) <= RowsEnd(0, rows, fields)
    PROVE  /\ Len(rows) \in Nat
           /\ Whole(bytes, fields) <=> Len(bytes) = RowsEnd(0, rows, fields)
           /\ Whole(bytes, fields) =>
                  /\ IsSeq(RowsOf(bytes, fields)) /\ Len(RowsOf(bytes, fields)) = Len(rows)
                  /\ \A i \in 1..Len(rows) : RowsOf(bytes, fields)[i] = rows[i]
<1>1. PICK n \in Nat, z \in Nat, d \in Nat : n = Len(rows) /\ z = Len(bytes) /\ d = 2 * fields /\ d > 0
  <2>1. Len(rows) \in Nat
    BY Unsigned16Facts DEF SaysRows
  <2> QED BY <2>1
<1>2. Says2(bytes, 0, n) /\ Len(rows) \in Nat
  BY <1>1 DEF SaysRows
<1>3. d * n \in Nat /\ RowsEnd(0, rows, fields) = 2 + d * n /\ z <= 2 + d * n
  <2>1. RowsEnd(0, rows, fields) = 0 + 2 + d * n
    BY <1>1 DEF RowsEnd
  <2>2. d * n \in Nat
    BY <1>1
  <2> QED BY <1>1, <2>1, <2>2
<1>4. CASE z < 2
  <2>1. ~Whole(bytes, fields)
    BY <1>1, <1>4 DEF Whole
  <2>2. z # 2 + d * n
    BY <1>3, <1>4
  <2> QED BY <1>1, <1>2, <1>3, <2>1, <2>2
<1>5. CASE z >= 2
  <2>1. U2(bytes, StartOf) = n
    <3>1. StartOf \in Cursor /\ StartOf.ok /\ StartOf.pos = 0
      BY DEF StartOf, Cursor
    <3>2. Need(bytes, StartOf, 2)
      BY <1>1, <1>5, <3>1 DEF Need
    <3> QED BY <1>2, <3>1, <3>2, SaidTwo
  <2>2. PICK q : q = (z - 2) \div d
    OBVIOUS
  <2>3. Present(bytes, fields) = IF q < n THEN q ELSE n
    BY <1>1, <1>5, <2>1, <2>2 DEF Present
  <2>4. q \in Nat /\ (q >= n <=> z - 2 >= d * n)
    <3>1. z - 2 \in Nat /\ d > 0
      BY <1>1, <1>5
    <3> QED BY <2>2, <3>1, QuotientAtLeast
  <2>5. Present(bytes, fields) = n <=> z = 2 + d * n
    BY <1>3, <1>5, <2>3, <2>4
  <2>6. Whole(bytes, fields) <=> Len(bytes) = RowsEnd(0, rows, fields)
    BY <1>1, <1>3, <1>5, <2>1, <2>5 DEF Whole
  <2>7. CASE Whole(bytes, fields)
    <3>1. Present(bytes, fields) = n /\ z = 2 + d * n
      BY <2>1, <2>5, <2>7 DEF Whole
    <3>2. /\ IsSeq(RowsOf(bytes, fields)) /\ Len(RowsOf(bytes, fields)) = n
          /\ \A i \in 1..n : RowsOf(bytes, fields)[i] = Row(bytes, 2 + 2 * fields * (i - 1), fields)
      <4>1. Len(bytes) >= 2
        BY <1>1, <1>5
      <4> QED BY <3>1, <4>1, RowsPresent
    <3>3. ASSUME NEW i \in 1..n PROVE RowsOf(bytes, fields)[i] = rows[i]
      <4>1. PICK j \in Nat : j = i - 1 /\ j + 1 <= n
        OBVIOUS
      <4>2. d * j \in Nat /\ d * j + d <= d * n
        <5>1. (j + 1) * d <= n * d
          BY <1>1, <4>1, ProductMonotone
        <5>2. (j + 1) * d = d * j + d /\ n * d = d * n /\ d * j \in Nat
          OBVIOUS
        <5> QED BY <5>1, <5>2
      <4>3. PICK p \in Nat : p = 2 + d * j /\ p + d <= z
        <5>1. 2 + d * j \in Nat /\ (2 + d * j) + d <= z
          BY <1>3, <3>1, <4>2
        <5> QED BY <5>1
      <4>4. RowPlace(0, fields, i) = p /\ 2 + 2 * fields * (i - 1) = p
        <5>1. 2 * fields * (i - 1) = d * j
          BY <1>1, <4>1
        <5>2. d * j \in Nat
          BY <4>2
        <5> QED BY <4>3, <5>1, <5>2 DEF RowPlace
      <4>5. RowFits(bytes, 0, fields, i)
        BY <1>1, <4>3, <4>4 DEF RowFits
      <4>6. Row(bytes, RowPlace(0, fields, i), fields) = rows[i]
        <5>1. i \in 1..Len(rows) /\ 0 \in Nat
          BY <1>1
        <5> QED BY <4>5, <5>1, SaidRows
      <4> QED BY <3>2, <4>4, <4>6
    <3> QED BY <1>1, <1>2, <2>6, <3>2, <3>3
  <2> QED BY <1>2, <2>6, <2>7
<1> QED BY <1>4, <1>5, <1>1

-----------------------------------------------------------------------------
\* What was printed of a method so far.
ShownSoFar(m) ==
    /\ stage \in Printing => ExceptionsAsMeant(m)
    /\ stage \in Printing \ {"printLocals"} => LocalsAsMeant(m)
    /\ stage = "frames" =>
           \E i \in FirstNamed(m, "StackMapTable") :
               /\ data = m.attributes[i].bytes
               /\ SaysMap(data, m.attributes[i].map) /\ ReadsMap(m.attributes[i].map)
    /\ stage = "done" => FramesAsMeant(m)

\* Lines that stand show what they showed.
Stand == \A i \in DOMAIN printed : printed'[i] = printed[i] /\ i \in DOMAIN printed'

LEMMA ShownStands ==
    ASSUME IsSeq(printed), Stand, NEW h \in DOMAIN printed, NEW n \in Nat,
           NEW table, Under(table) = h..(h + n)
    PROVE  h \in DOMAIN printed' /\ \A i \in 1..n : printed'[h + i] = printed[h + i]
<1>1. h \in DOMAIN printed'
  BY DEF Stand
<1>2. ASSUME NEW i \in 1..n PROVE printed'[h + i] = printed[h + i]
  <2>1. h + i \in h..(h + n)
    <3>1. h \in Nat
      BY DEF IsSeq
    <3> QED BY <3>1
  <2>2. h + i \in DOMAIN printed
    BY <2>1 DEF Under
  <2> QED BY <2>2 DEF Stand
<1> QED BY <1>1, <1>2

LEMMA MeantStands ==
    ASSUME IsSeq(printed), Stand, NEW m, Len(m.exceptions) \in Nat
    PROVE  /\ UNCHANGED Under("exceptions") /\ ExceptionsAsMeant(m) => ExceptionsAsMeant(m)'
           /\ UNCHANGED Under("locals") /\ LocalsAsMeant(m) /\
              (\A i \in FirstNamed(m, "LocalVariableTable") : Len(m.attributes[i].rows) \in Nat)
                 => LocalsAsMeant(m)'
<1>1. ASSUME NEW table, NEW rows, Len(rows) \in Nat, UNCHANGED Under(table), Shows(table, rows)
      PROVE  Shows(table, rows)'
  <2>1. PICK h \in DOMAIN printed :
          Under(table) = h..(h + Len(rows)) /\ \A i \in 1..Len(rows) : printed[h + i].row = rows[i]
    BY <1>1 DEF Shows
  <2>2. h \in DOMAIN printed' /\ \A i \in 1..Len(rows) : printed'[h + i] = printed[h + i]
    BY <1>1, <2>1, ShownStands
  <2>3. Under(table)' = h..(h + Len(rows)) /\ \A i \in 1..Len(rows) : printed'[h + i].row = rows[i]
    BY <1>1, <2>1, <2>2
  <2> QED BY <2>2, <2>3 DEF Shows
<1>2. ASSUME NEW rows, Len(rows) \in Nat, UNCHANGED Under("locals"), ShowsLocals(rows)
      PROVE  ShowsLocals(rows)'
  <2> DEFINE IsShown(shown, row) ==
               /\ <<shown[1], shown[2], shown[3], shown[4]>> = <<row[5], row[3], row[4], row[1]>>
               /\ row[1] + row[2] < U16 => shown[5] = row[1] + row[2]
  <2>1. PICK h \in DOMAIN printed :
          Under("locals") = h..(h + Len(rows)) /\ \A i \in 1..Len(rows) : IsShown(printed[h + i].row, rows[i])
    BY <1>2 DEF ShowsLocals
  <2>2. h \in DOMAIN printed' /\ \A i \in 1..Len(rows) : printed'[h + i] = printed[h + i]
    BY <1>2, <2>1, ShownStands
  <2>3. \A i \in 1..Len(rows) : IsShown(printed'[h + i].row, rows[i])
    <3> HIDE DEF IsShown
    <3> QED BY <2>1, <2>2
  <2>4. Under("locals")' = h..(h + Len(rows))
    BY <1>2, <2>1
  <2> QED BY <2>2, <2>3, <2>4 DEF ShowsLocals
<1>3. ASSUME UNCHANGED Under("exceptions"), ExceptionsAsMeant(m) PROVE ExceptionsAsMeant(m)'
  <2>1. CASE m.exceptions = <<>>
    BY <1>3, <2>1 DEF ExceptionsAsMeant
  <2>2. CASE m.exceptions # <<>>
    <3>1. Shows("exceptions", m.exceptions)
      BY <1>3, <2>2 DEF ExceptionsAsMeant
    <3>2. Shows("exceptions", m.exceptions)'
      BY <1>1, <1>3, <3>1
    <3> QED BY <2>2, <3>2 DEF ExceptionsAsMeant
  <2> QED BY <2>1, <2>2
<1>4. ASSUME UNCHANGED Under("locals"), LocalsAsMeant(m),
             \A i \in FirstNamed(m, "LocalVariableTable") : Len(m.attributes[i].rows) \in Nat
      PROVE  LocalsAsMeant(m)'
  <2>1. CASE Under("locals") = {} /\ \A i \in FirstNamed(m, "LocalVariableTable") :
                 Len(m.attributes[i].bytes) < RowsEnd(0, m.attributes[i].rows, Local)
    BY <1>4, <2>1 DEF LocalsAsMeant
  <2>2. ASSUME NEW i \in FirstNamed(m, "LocalVariableTable"),
               Len(m.attributes[i].bytes) = RowsEnd(0, m.attributes[i].rows, Local),
               ShowsLocals(m.attributes[i].rows)
        PROVE  LocalsAsMeant(m)'
    <3>1. ShowsLocals(m.attributes[i].rows)'
      BY <1>2, <1>4, <2>2
    <3> QED BY <2>2, <3>1 DEF LocalsAsMeant
  <2> QED BY <1>4, <2>1, <2>2 DEF LocalsAsMeant
<1> QED BY <1>3, <1>4
-----------------------------------------------------------------------------
\* The rows and the frames of a table that is named so.
LEMMA TableOfName ==
    ASSUME NEW bytes, NEW m, SaysMethod(bytes, m), NEW wanted, NEW i \in FirstNamed(m, wanted)
    PROVE  /\ m.attributes[i].bytes \in Seq(Byte) /\ Len(m.attributes[i].bytes) \in Nat
           /\ wanted = "LocalVariableTable" =>
                  /\ SaysRows(m.attributes[i].bytes, 0, m.attributes[i].rows, Local)
                  /\ Len(m.attributes[i].bytes) <= RowsEnd(0, m.attributes[i].rows, Local)
                  /\ Len(m.attributes[i].rows) \in Nat /\ RowsEnd(0, m.attributes[i].rows, Local) \in Nat
           /\ wanted = "StackMapTable" => SaysMap(m.attributes[i].bytes, m.attributes[i].map)
<1>1. i \in 1..Len(m.attributes) /\ NameOf[m.attributes[i].name] = wanted
  BY DEF FirstNamed
<1>2. /\ m.attributes[i].bytes \in Seq(Byte) /\ Len(m.attributes[i].bytes) \in Nat
      /\ SaysTable(m.attributes[i])
  BY <1>1, AttributeIs
<1>3. ASSUME wanted = "LocalVariableTable"
      PROVE  /\ SaysRows(m.attributes[i].bytes, 0, m.attributes[i].rows, Local)
             /\ Len(m.attributes[i].bytes) <= RowsEnd(0, m.attributes[i].rows, Local)
             /\ Len(m.attributes[i].rows) \in Nat /\ RowsEnd(0, m.attributes[i].rows, Local) \in Nat
  <2>1. /\ SaysRows(m.attributes[i].bytes, 0, m.attributes[i].rows, Local)
        /\ Len(m.attributes[i].bytes) <= RowsEnd(0, m.attributes[i].rows, Local)
    BY <1>1, <1>2, <1>3 DEF SaysTable
  <2>2. Len(m.attributes[i].rows) \in Nat
    BY <2>1, Unsigned16Facts DEF SaysRows
  <2>3. PICK n \in Nat : n = Len(m.attributes[i].rows)
    BY <2>2
  <2>4. RowsEnd(0, m.attributes[i].rows, Local) = 0 + 2 + 2 * Local * n
    BY <2>3 DEF RowsEnd
  <2>5. RowsEnd(0, m.attributes[i].rows, Local) \in Nat
    BY <2>4 DEF Local
  <2> QED BY <2>1, <2>2, <2>5
<1> QED BY <1>1, <1>2, <1>3 DEF SaysTable

\* What was shown before a line of another table is shown behind it.
LEMMA StillShown ==
    ASSUME CodeInv, NEW m, SaysMethod(contents, m), ShownSoFar(m), Stand, UNCHANGED Under("exceptions")
    PROVE  /\ stage \in Printing => ExceptionsAsMeant(m)'
           /\ stage \in Printing \ {"printLocals"} /\ UNCHANGED Under("locals") => LocalsAsMeant(m)'
<1>1. IsSeq(printed) /\ Len(m.exceptions) \in Nat
  BY MethodIs DEF CodeInv, CodeTypeOK
<1>2. \A i \in FirstNamed(m, "LocalVariableTable") : Len(m.attributes[i].rows) \in Nat
  BY TableOfName
<1> QED BY <1>1, <1>2, MeantStands DEF ShownSoFar

LEMMA ShowExceptions ==
    ASSUME CodeInv, NEW m, SaysMethod(contents, m), ParsedSoFar(m), PrintExceptions
    PROVE  ParsedSoFar(m)' /\ ShownSoFar(m)'
<1>1. /\ stage = "printExceptions" /\ stage' = "printLocals" /\ UNCHANGED <<contents, parsed>>
      /\ printed' = printed \o (IF parsed.exceptions = <<>> THEN <<>>
           ELSE <<Heading("exceptions")>> \o Rows("exceptions", parsed.exceptions))
  BY DEF PrintExceptions, Prints
<1>2. AllParsed(m)
  BY <1>1 DEF ParsedSoFar
<1>3. ParsedSoFar(m)'
  BY <1>1, <1>2, ParsedStays DEF Printing
<1>4. IsSeq(printed) /\ parsed.exceptions \in Seq(ExceptionRows) /\ parsed.exceptions = m.exceptions
  BY <1>2 DEF CodeInv, CodeTypeOK, AllParsed
<1>5. printed = <<>> /\ \A u : Under(u) = {}
  BY <1>1, NothingUnder DEF CodeInv, PrintedInTurn, Parsing
<1>6. ExceptionsAsMeant(m)'
  <2>1. CASE parsed.exceptions = <<>>
    <3>1. printed' = printed
      BY <1>1, <1>4, <2>1, NothingPrinted
    <3>2. Under("exceptions")' = {}
      BY <1>5, <3>1 DEF Under
    <3> QED BY <1>4, <2>1, <3>2 DEF ExceptionsAsMeant
  <2>2. CASE parsed.exceptions # <<>>
    <3>1. IsSeq(m.exceptions)
      BY <1>4 DEF IsSeq
    <3>2. PrintsBlock("exceptions", m.exceptions)
      BY <1>1, <1>4, <2>2 DEF PrintsBlock, BlockOf
    <3>3. PICK h \in DOMAIN printed' :
            /\ Under("exceptions")' = Under("exceptions") \cup h..(h + Len(m.exceptions))
            /\ \A i \in 1..Len(m.exceptions) : printed'[h + i].row = m.exceptions[i]
      BY <1>4, <3>1, <3>2, BlockPrinted
    <3>4. Shows("exceptions", m.exceptions)'
      BY <1>5, <3>3 DEF Shows
    <3> QED BY <1>4, <2>2, <3>4 DEF ExceptionsAsMeant
  <2> QED BY <2>1, <2>2
<1> QED BY <1>1, <1>3, <1>6 DEF ShownSoFar, Printing

\* A local is shown where it was meant to live.
LEMMA LocalShown ==
    ASSUME NEW row \in [1..Local -> Unsigned16]
    PROVE  LET shown == LocalLine(row)
           IN  /\ <<shown[1], shown[2], shown[3], shown[4]>> = <<row[5], row[3], row[4], row[1]>>
               /\ row[1] + row[2] < U16 => shown[5] = row[1] + row[2]
<1>1. row[1] \in Nat /\ row[2] \in Nat
  BY Unsigned16Facts DEF Local
<1>2. PICK s \in Nat : s = row[1] + row[2]
  BY <1>1
<1>3. s < U16 => s % U16 = s
  BY DEF U16
<1>4. /\ LocalLine(row)[1] = row[5] /\ LocalLine(row)[2] = row[3] /\ LocalLine(row)[3] = row[4]
      /\ LocalLine(row)[4] = row[1] /\ LocalLine(row)[5] = s % U16
  BY <1>2 DEF LocalLine
<1> QED BY <1>2, <1>3, <1>4

LEMMA ShowLocals ==
    ASSUME CodeInv, NEW m, SaysMethod(contents, m), ParsedSoFar(m), ShownSoFar(m), PrintLocals
    PROVE  ParsedSoFar(m)' /\ ShownSoFar(m)'
<1> DEFINE table == Named("LocalVariableTable")
           rows == RowsOf(table[1], Local)
           shown == [i \in DOMAIN rows |-> LocalLine(rows[i])]
           nothing == table = <<>> \/ ~Whole(table[1], Local)
<1>1. /\ stage = "printLocals" /\ stage' = "printLines" /\ UNCHANGED <<contents, parsed>>
      /\ printed' = printed \o (IF nothing THEN <<>> ELSE <<Heading("locals")>> \o Rows("locals", shown))
  BY DEF PrintLocals, Prints
<1>2. AllParsed(m)
  BY <1>1 DEF ParsedSoFar, Printing
<1>3. ParsedSoFar(m)'
  BY <1>1, <1>2, ParsedStays DEF Printing
<1>4. IsSeq(printed) /\ CodeTypeOK /\ Under("locals") = {}
  BY <1>1 DEF CodeInv, CodeTypeOK, PrintedInTurn
<1>5. \/ table = <<>> /\ FirstNamed(m, "LocalVariableTable") = {}
      \/ \E i \in 1..Len(m.attributes) :
             /\ FirstNamed(m, "LocalVariableTable") = {i}
             /\ table = <<m.attributes[i].bytes>>
  <2> HIDE DEF table
  <2> QED BY <1>2, <1>4, NamedIs DEF table
<1>6. ASSUME nothing, \A i \in FirstNamed(m, "LocalVariableTable") :
                          Len(m.attributes[i].bytes) < RowsEnd(0, m.attributes[i].rows, Local)
      PROVE  Stand /\ UNCHANGED Under("exceptions") /\ LocalsAsMeant(m)'
  <2>1. printed' = printed
    BY <1>1, <1>4, <1>6, NothingPrinted
  <2>2. Stand /\ UNCHANGED Under("exceptions") /\ Under("locals")' = {}
    BY <1>4, <2>1 DEF Stand, Under
  <2> QED BY <1>6, <2>2 DEF LocalsAsMeant
<1>7. Stand /\ UNCHANGED Under("exceptions") /\ LocalsAsMeant(m)'
  <2>1. CASE table = <<>> /\ FirstNamed(m, "LocalVariableTable") = {}
    BY <1>6, <2>1
  <2>2. CASE table # <<>> \/ FirstNamed(m, "LocalVariableTable") # {}
    <3>1. PICK i \in 1..Len(m.attributes) :
            /\ FirstNamed(m, "LocalVariableTable") = {i} /\ table = <<m.attributes[i].bytes>>
      BY <1>5, <2>2
    <3>2. PICK bytes, meant : bytes = m.attributes[i].bytes /\ meant = m.attributes[i].rows
      OBVIOUS
    <3>3. /\ bytes \in Seq(Byte) /\ Len(bytes) \in Nat /\ SaysRows(bytes, 0, meant, Local)
          /\ Len(bytes) <= RowsEnd(0, meant, Local) /\ RowsEnd(0, meant, Local) \in Nat
      <4>1. i \in FirstNamed(m, "LocalVariableTable")
        BY <3>1
      <4> QED BY <3>2, <4>1, TableOfName
    <3>4. /\ Len(meant) \in Nat /\ Whole(bytes, Local) <=> Len(bytes) = RowsEnd(0, meant, Local)
          /\ Whole(bytes, Local) =>
                 /\ IsSeq(RowsOf(bytes, Local)) /\ Len(RowsOf(bytes, Local)) = Len(meant)
                 /\ \A j \in 1..Len(meant) : RowsOf(bytes, Local)[j] = meant[j]
      <4>1. Local \in Nat /\ Local > 0
        BY DEF Local
      <4> QED BY <3>3, <4>1, RowsMeant
    <3>5. table # <<>> /\ table[1] = bytes
      BY <3>1, <3>2
    <3>6. CASE ~Whole(bytes, Local)
      <4>1. nothing
        BY <3>5, <3>6
      <4>2. Len(bytes) < RowsEnd(0, meant, Local)
        BY <3>3, <3>4, <3>6
      <4> HIDE DEF nothing
      <4> QED BY <1>6, <3>1, <3>2, <4>1, <4>2
    <3>7. CASE Whole(bytes, Local)
      <4>1. ~nothing
        BY <3>5, <3>7
      <4>2. PICK block : block = shown
        OBVIOUS
      <4>3. IsSeq(block) /\ Len(block) = Len(meant) /\ \A j \in 1..Len(meant) : block[j] = LocalLine(meant[j])
        <5> DEFINE L(j) == LocalLine(meant[j])
        <5>1. rows = RowsOf(bytes, Local)
          BY <3>5
        <5> HIDE DEF rows
        <5>2. DOMAIN rows = 1..Len(meant) /\ \A j \in 1..Len(meant) : rows[j] = meant[j]
          BY <3>4, <3>7, <5>1 DEF IsSeq
        <5>3. block = [j \in 1..Len(meant) |-> L(j)]
          BY <4>2, <5>2
        <5> HIDE DEF L
        <5>4. block \in Seq({L(j) : j \in 1..Len(meant)}) /\ Len(block) = Len(meant)
          BY <3>4, <5>3
        <5> QED BY <5>3, <5>4 DEF IsSeq, L
      <4>4. PrintsBlock("locals", block)
        BY <1>1, <4>1, <4>2 DEF PrintsBlock, BlockOf
      <4> HIDE DEF shown, rows, nothing
      <4>5. PICK h \in DOMAIN printed' :
              /\ Under("locals")' = Under("locals") \cup h..(h + Len(block))
              /\ \A j \in 1..Len(block) : printed'[h + j].row = block[j]
        BY <1>4, <4>3, <4>4, BlockPrinted
      <4>6. Stand /\ UNCHANGED Under("exceptions")
        <5>1. /\ \A u : u # "locals" => Under(u)' = Under(u)
              /\ \A j \in DOMAIN printed : printed'[j] = printed[j] /\ j \in DOMAIN printed'
          BY <1>4, <4>3, <4>4, BlockPrinted
        <5> QED BY <5>1 DEF Stand
      <4>7. ASSUME NEW j \in 1..Len(meant)
            PROVE  printed'[h + j].row = LocalLine(meant[j]) /\ meant[j] \in [1..Local -> Unsigned16]
        <5>1. meant \in Seq([1..Local -> Unsigned16])
          BY <3>3 DEF SaysRows
        <5> QED BY <4>3, <4>5, <5>1, ElementOfSeq
      <4>8. ShowsLocals(meant)'
        <5>1. Under("locals")' = h..(h + Len(meant))
          BY <1>4, <4>3, <4>5
        <5>2. \A j \in 1..Len(meant) :
                LET s == printed'[h + j].row
                IN  /\ <<s[1], s[2], s[3], s[4]>> = <<meant[j][5], meant[j][3], meant[j][4], meant[j][1]>>
                    /\ meant[j][1] + meant[j][2] < U16 => s[5] = meant[j][1] + meant[j][2]
          BY <4>7, LocalShown
        <5> QED BY <5>1, <5>2 DEF ShowsLocals
      <4>9. LocalsAsMeant(m)'
        BY <3>1, <3>2, <3>4, <3>7, <4>8 DEF LocalsAsMeant
      <4> QED BY <4>6, <4>9
    <3> QED BY <3>6, <3>7
  <2> QED BY <2>1, <2>2
<1>8. ExceptionsAsMeant(m)'
  BY <1>1, <1>7, StillShown DEF Printing
<1> QED BY <1>1, <1>3, <1>7, <1>8 DEF ShownSoFar

LEMMA ShowLines ==
    ASSUME CodeInv, NEW m, SaysMethod(contents, m), ParsedSoFar(m), ShownSoFar(m), PrintLines
    PROVE  ParsedSoFar(m)' /\ ShownSoFar(m)'
<1> DEFINE found == Named("LineNumberTable")
           rows == RowsOf(found[1], Line)
           nothing == found = <<>> \/ Len(found[1]) < 2
<1>1. /\ stage = "printLines" /\ stage' = "findFrames" /\ UNCHANGED <<contents, parsed>>
      /\ printed' = printed \o (IF nothing THEN <<>> ELSE <<Heading("lines")>> \o Rows("lines", rows))
  BY DEF PrintLines, Prints
<1>2. ParsedSoFar(m)'
  <2>1. AllParsed(m)
    BY <1>1 DEF ParsedSoFar, Printing
  <2> QED BY <1>1, <2>1, ParsedStays DEF Printing
<1>3. IsSeq(printed) /\ CodeTypeOK
  BY DEF CodeInv, CodeTypeOK
<1>4. Stand /\ UNCHANGED Under("exceptions") /\ UNCHANGED Under("locals")
  <2>1. CASE nothing
    <3>1. printed' = printed
      BY <1>1, <1>3, <2>1, NothingPrinted
    <3> QED BY <3>1 DEF Stand, Under
  <2>2. CASE ~nothing
    <3>1. found # <<>>
      BY <2>2
    <3>2. found[1] \in Seq(Byte) /\ Len(found[1]) \in Nat
      BY <1>3, <3>1, NamedBytes
    <3>3. Len(found[1]) >= 2
      BY <2>2, <3>2
    <3>4. IsSeq(rows)
      <4>1. Line \in Nat /\ Line > 0
        BY DEF Line
      <4> QED BY <3>2, <3>3, <4>1, RowsPresent
    <3>5. PrintsBlock("lines", rows)
      BY <1>1, <2>2 DEF PrintsBlock, BlockOf
    <3> HIDE DEF rows
    <3>6. /\ \A u : u # "lines" => Under(u)' = Under(u)
          /\ \A j \in DOMAIN printed : printed'[j] = printed[j] /\ j \in DOMAIN printed'
      BY <1>3, <3>4, <3>5, BlockPrinted
    <3> QED BY <3>6 DEF Stand
  <2> QED BY <2>1, <2>2
<1>5. ExceptionsAsMeant(m)' /\ LocalsAsMeant(m)'
  BY <1>1, <1>4, StillShown DEF Printing
<1> QED BY <1>1, <1>2, <1>5 DEF ShownSoFar

\* The parser of frames is given the bytes of the first stack map.
LEMMA ShowFound ==
    ASSUME CodeInv, NEW m, SaysMethod(contents, m), ParsedSoFar(m), ShownSoFar(m), FindFrames,
           outcome = "start" => lists = 0 /\ types = 0
    PROVE  ParsedSoFar(m)' /\ ShownSoFar(m)'
<1> DEFINE found == Named("StackMapTable")
<1>1. /\ stage = "findFrames"
      /\ UNCHANGED <<lists, types, outcome, contents, parsed, printed>>
      /\ \/ found = <<>> /\ stage' = "done"
         \/ found # <<>> /\ stage' = "frames" /\ data' = found[1]
  BY DEF FindFrames
<1>2. AllParsed(m) /\ CodeTypeOK /\ outcome = "start" /\ Under("frames") = {}
  BY <1>1 DEF ParsedSoFar, Printing, CodeInv, FramesInTurn, PrintedInTurn
<1>3. ParsedSoFar(m)'
  BY <1>1, <1>2, ParsedStays DEF Printing
<1>4. Stand /\ \A u : Under(u)' = Under(u)
  BY <1>1 DEF Stand, Under
<1>5. ExceptionsAsMeant(m)' /\ LocalsAsMeant(m)'
  BY <1>1, <1>4, StillShown DEF Printing
<1>6. \/ found = <<>> /\ FirstNamed(m, "StackMapTable") = {}
      \/ \E i \in 1..Len(m.attributes) :
             /\ FirstNamed(m, "StackMapTable") = {i} /\ found = <<m.attributes[i].bytes>>
  <2> HIDE DEF found
  <2> QED BY <1>2, NamedIs DEF found
<1>7. CASE found = <<>> /\ FirstNamed(m, "StackMapTable") = {}
  <2>1. FramesAsMeant(m)'
    BY <1>2, <1>4, <1>7 DEF FramesAsMeant
  <2> QED BY <1>1, <1>3, <1>5, <1>7, <2>1 DEF ShownSoFar
<1>8. ASSUME NEW i \in 1..Len(m.attributes),
             FirstNamed(m, "StackMapTable") = {i}, found = <<m.attributes[i].bytes>>
      PROVE  ParsedSoFar(m)' /\ ShownSoFar(m)'
  <2>1. stage' = "frames" /\ data' = m.attributes[i].bytes
    BY <1>1, <1>8
  <2>2. i \in FirstNamed(m, "StackMapTable") /\ SaysMap(m.attributes[i].bytes, m.attributes[i].map)
    BY <1>8, TableOfName
  <2>3. ReadsMap(m.attributes[i].map)'
    BY <1>1, <1>2 DEF ReadsMap
  <2> QED BY <1>3, <1>5, <2>1, <2>2, <2>3 DEF ShownSoFar
<1> QED BY <1>6, <1>7, <1>8

LEMMA ShowReading ==
    ASSUME CodeInv, NEW m, SaysMethod(contents, m), ParsedSoFar(m), ShownSoFar(m), ReadFrames
    PROVE  ParsedSoFar(m)' /\ ShownSoFar(m)'
<1>1. /\ stage = "frames" /\ stage' = "frames" /\ UNCHANGED <<contents, parsed, printed>> /\ Next /\ FramesInv
  BY DEF ReadFrames, CodeInv
<1>2. ParsedSoFar(m)'
  <2>1. AllParsed(m)
    BY <1>1 DEF ParsedSoFar, Printing
  <2> QED BY <1>1, <2>1, ParsedStays DEF Printing
<1>3. Stand /\ \A u : Under(u)' = Under(u)
  BY <1>1 DEF Stand, Under
<1>4. ExceptionsAsMeant(m)' /\ LocalsAsMeant(m)'
  BY <1>1, <1>3, StillShown DEF Printing
<1>5. UNCHANGED data
  BY <1>1 DEF Next, ReadCount, ReadFrame, WrappedFrame, BaseFrame, ReadType, ReadTypeCount, KeepFrame,
              Finish, Refuse
<1>6. PICK i \in FirstNamed(m, "StackMapTable") :
          data = m.attributes[i].bytes /\ SaysMap(data, m.attributes[i].map) /\ ReadsMap(m.attributes[i].map)
  BY <1>1 DEF ShownSoFar
<1>7. ReadsMap(m.attributes[i].map)'
  BY <1>1, <1>6, MapStaysRead
<1> QED BY <1>1, <1>2, <1>4, <1>5, <1>6, <1>7 DEF ShownSoFar

LEMMA ShowFrames ==
    ASSUME CodeInv, NEW m, SaysMethod(contents, m), ParsedSoFar(m), ShownSoFar(m), PrintFrames
    PROVE  ParsedSoFar(m)' /\ ShownSoFar(m)'
<1>1. /\ stage = "frames" /\ stage' = "done" /\ UNCHANGED <<contents, parsed>>
      /\ outcome \in {"ok", "malformed"}
      /\ printed' = printed \o (IF outcome = "ok" THEN <<Heading("frames")>> \o Rows("frames", frames)
                                ELSE <<Heading("unreadable")>>)
  BY DEF PrintFrames, Prints
<1>2. AllParsed(m) /\ CodeTypeOK /\ Under("frames") = {} /\ IsSeq(printed) /\ frames \in Seq(Frame)
  BY <1>1 DEF ParsedSoFar, Printing, CodeInv, CodeTypeOK, PrintedInTurn, FramesInv, TypeOK
<1>3. ParsedSoFar(m)'
  BY <1>1, <1>2, ParsedStays DEF Printing
<1>4. PICK i \in FirstNamed(m, "StackMapTable") :
          data = m.attributes[i].bytes /\ SaysMap(data, m.attributes[i].map) /\ ReadsMap(m.attributes[i].map)
  BY <1>1 DEF ShownSoFar
<1>5. FirstNamed(m, "StackMapTable") = {i}
  BY <1>2, <1>4, NamedIs
<1>6. Stand /\ UNCHANGED Under("exceptions") /\ UNCHANGED Under("locals") /\ FramesAsMeant(m)'
  <2>1. CASE outcome = "ok"
    <3>1. WholeMap(data, m.attributes[i].map) /\ frames = MeantFrames(m.attributes[i].map)
      BY <1>4, <2>1 DEF ReadsMap
    <3>2. PICK meant : meant = MeantFrames(m.attributes[i].map)
      OBVIOUS
    <3>3. IsSeq(meant) /\ PrintsBlock("frames", meant)
      <4>1. frames = meant
        BY <3>1, <3>2
      <4> QED BY <1>1, <1>2, <2>1, <4>1 DEF IsSeq, PrintsBlock, BlockOf
    <3>4. PICK h \in DOMAIN printed' :
            /\ Under("frames")' = Under("frames") \cup h..(h + Len(meant))
            /\ \A j \in 1..Len(meant) : printed'[h + j].row = meant[j]
      BY <1>2, <3>3, BlockPrinted
    <3>5. /\ \A u : u # "frames" => Under(u)' = Under(u)
          /\ \A j \in DOMAIN printed : printed'[j] = printed[j] /\ j \in DOMAIN printed'
      BY <1>2, <3>3, BlockPrinted
    <3>6. Shows("frames", meant)'
      BY <1>2, <3>4 DEF Shows
    <3>7. FramesAsMeant(m)'
      BY <1>4, <3>1, <3>2, <3>6 DEF FramesAsMeant
    <3> QED BY <3>5, <3>7 DEF Stand
  <2>2. CASE outcome # "ok"
    <3> DEFINE none == <<>>
    <3>1. IsSeq(none) /\ <<Heading("unreadable")>> = <<Heading("unreadable")>> \o Rows("unreadable", none)
      <4>1. none \in Seq({})
        OBVIOUS
      <4>2. Rows("unreadable", none) = <<>>
        BY DEF Rows
      <4>3. <<Heading("unreadable")>> \in Seq({Heading("unreadable")})
        OBVIOUS
      <4> QED BY <4>1, <4>2, <4>3 DEF IsSeq
    <3>2. PrintsBlock("unreadable", none)
      BY <1>1, <2>2, <3>1 DEF PrintsBlock, BlockOf
    <3> HIDE DEF none
    <3>3. /\ \A u : u # "unreadable" => Under(u)' = Under(u)
          /\ \A j \in DOMAIN printed : printed'[j] = printed[j] /\ j \in DOMAIN printed'
      BY <1>2, <3>1, <3>2, BlockPrinted
    <3>4. ~WholeMap(m.attributes[i].bytes, m.attributes[i].map)
      BY <1>1, <1>4, <2>2 DEF ReadsMap
    <3>5. FramesAsMeant(m)'
      BY <1>2, <1>5, <3>3, <3>4 DEF FramesAsMeant
    <3> QED BY <3>3, <3>5 DEF Stand
  <2> QED BY <2>1, <2>2
<1>7. ExceptionsAsMeant(m)' /\ LocalsAsMeant(m)'
  BY <1>1, <1>6, StillShown DEF Printing
<1> QED BY <1>1, <1>3, <1>6, <1>7 DEF ShownSoFar
-----------------------------------------------------------------------------
\* The invariant: of every method that was compiled to these bytes, what was
\* read and printed so far is what it means.
NothingOwed == outcome = "start" => lists = 0 /\ types = 0
MeantSoFar == \A w \in Compiled : w.bytes = contents => ParsedSoFar(w.method) /\ ShownSoFar(w.method)
MeantInv == CodeInv /\ NothingOwed /\ MeantSoFar

LEMMA NothingIsOwed == NothingOwed /\ [CodeNext]_codeVars => NothingOwed'
<1> SUFFICES ASSUME NothingOwed, [CodeNext]_codeVars PROVE NothingOwed'
  OBVIOUS
<1>1. CASE ReadFrames
  <2>1. outcome' # "start"
    BY <1>1 DEF ReadFrames, Next, ReadCount, ReadFrame, WrappedFrame, BaseFrame, ReadType, ReadTypeCount,
                KeepFrame, Finish, Refuse
  <2> QED BY <2>1 DEF NothingOwed
<1>2. CASE ~ReadFrames
  <2>1. UNCHANGED <<outcome, lists, types>>
    BY <1>2 DEF CodeNext, ReadCode, ReadListCount, ReadException, ReadAttribute, EndOfList,
                PrintExceptions, PrintLocals, PrintLines, PrintFrames, FindFrames, Prints, TooShort, Malformed,
                codeVars, vars
  <2> QED BY <2>1 DEF NothingOwed
<1> QED BY <1>1, <1>2

LEMMA MeantInitial == CodeInit => MeantInv
<1> SUFFICES ASSUME CodeInit PROVE MeantInv
  OBVIOUS
<1>1. /\ stage = "head" /\ place = StartOf /\ lists = 0 /\ types = 0
      /\ parsed = [bytes |-> <<>>, exceptions |-> <<>>, attributes |-> <<>>]
  BY DEF CodeInit
<1>2. NothingOwed
  BY <1>1 DEF NothingOwed
<1>3. ASSUME NEW m PROVE ParsedSoFar(m) /\ ShownSoFar(m)
  <2>1. place.pos = 0 /\ parsed.exceptions = <<>> /\ parsed.attributes = <<>>
    BY <1>1 DEF StartOf
  <2> QED BY <1>1, <2>1 DEF ParsedSoFar, ShownSoFar, Printing
<1> QED BY <1>2, <1>3, CodeInitial DEF MeantInv, MeantSoFar

LEMMA MethodStaysMeant ==
    ASSUME CodeInv, NothingOwed, NEW m, SaysMethod(contents, m), ParsedSoFar(m), ShownSoFar(m),
           [CodeNext]_codeVars
    PROVE  ParsedSoFar(m)' /\ ShownSoFar(m)'
<1>1. ASSUME stage' \notin Printing PROVE ShownSoFar(m)'
  BY <1>1 DEF ShownSoFar, Printing
<1>2. CASE ReadCode \/ ReadException \/ ReadAttribute \/ EndOfList
           \/ ReadListCount("exceptionCount", "exceptions") \/ ReadListCount("attributeCount", "attributes")
  <2>1. ParsedSoFar(m)'
    BY <1>2, ParseHead, ParseException, ParseAttribute, ParseEnd, ParseCount
  <2>2. stage' \notin Printing
    BY <1>2 DEF ReadCode, ReadListCount, ReadException, ReadAttribute, EndOfList, TooShort, Reading, Malformed,
                Printing
  <2> QED BY <1>1, <2>1, <2>2
<1>3. CASE PrintExceptions \/ PrintLocals \/ PrintLines
  BY <1>3, ShowExceptions, ShowLocals, ShowLines
<1>4. CASE FindFrames \/ ReadFrames \/ PrintFrames
  BY <1>4, ShowFound, ShowReading, ShowFrames DEF NothingOwed
<1>5. CASE UNCHANGED codeVars
  <2>1. UNCHANGED <<data, cursor, left, frame, lists, types, frames, outcome,
                    contents, place, stage, owed, parsed, printed>>
    BY <1>5 DEF codeVars, vars
  <2>2. ParsedSoFar(m)'
    BY <2>1 DEF ParsedSoFar, ExceptionsRead, AttributesRead, AllParsed
  <2>3. Stand /\ \A u : Under(u)' = Under(u)
    BY <2>1 DEF Stand, Under
  <2>4. /\ stage \in Printing => ExceptionsAsMeant(m)'
        /\ stage \in Printing \ {"printLocals"} => LocalsAsMeant(m)'
    BY <2>3, StillShown
  <2>5. stage = "done" => FramesAsMeant(m)'
    BY <2>1 DEF ShownSoFar, FramesAsMeant, Shows, Under
  <2>6. ASSUME NEW map, ReadsMap(map) PROVE ReadsMap(map)'
    BY <2>1, <2>6 DEF ReadsMap, FramesKept, InStep, WithinFrame, AtType
  <2>7. stage = "frames" =>
           \E i \in FirstNamed(m, "StackMapTable") :
               /\ data' = m.attributes[i].bytes
               /\ SaysMap(data', m.attributes[i].map) /\ ReadsMap(m.attributes[i].map)'
    BY <2>1, <2>6 DEF ShownSoFar
  <2> QED BY <2>1, <2>2, <2>4, <2>5, <2>7 DEF ShownSoFar
<1> QED BY <1>2, <1>3, <1>4, <1>5 DEF CodeNext

LEMMA MeantInductive == MeantInv /\ [CodeNext]_codeVars => MeantInv'
<1> SUFFICES ASSUME MeantInv, [CodeNext]_codeVars PROVE MeantInv'
  OBVIOUS
<1>1. UNCHANGED contents
  BY DEF CodeNext, ReadCode, ReadListCount, ReadException, ReadAttribute, EndOfList, PrintExceptions,
         PrintLocals, PrintLines, PrintFrames, FindFrames, ReadFrames, Prints, TooShort, Malformed, codeVars
<1>2. ASSUME NEW w \in Compiled, w.bytes = contents PROVE ParsedSoFar(w.method)' /\ ShownSoFar(w.method)'
  <2>1. SaysMethod(contents, w.method)
    BY <1>2, CompiledAssumption
  <2> QED BY <1>2, <2>1, MethodStaysMeant DEF MeantInv, MeantSoFar
<1>3. MeantSoFar'
  BY <1>1, <1>2 DEF MeantSoFar
<1> QED BY <1>3, CodeInductive, NothingIsOwed DEF MeantInv

LEMMA MeantIsPrinted == MeantInv => PrintedAsMeant
<1> SUFFICES ASSUME MeantInv, stage \in {"done", "malformed"}, NEW w \in Compiled, w.bytes = contents
             PROVE  /\ stage = "done" <=> Len(contents) = LengthOf(w.method)
                    /\ stage = "done" =>
                           /\ parsed.bytes = w.method.code
                           /\ ExceptionsAsMeant(w.method)
                           /\ LocalsAsMeant(w.method)
                           /\ FramesAsMeant(w.method)
  BY DEF PrintedAsMeant
<1>1. SaysMethod(contents, w.method) /\ ParsedSoFar(w.method) /\ ShownSoFar(w.method)
  BY CompiledAssumption DEF MeantInv, MeantSoFar
<1>2. LengthOf(w.method) \in Nat
  BY <1>1, MethodPlaces
<1>3. CASE stage = "done"
  <2>1. AllParsed(w.method)
    BY <1>1, <1>3 DEF ParsedSoFar, Printing
  <2> QED BY <1>1, <1>3, <2>1 DEF ShownSoFar, Printing, AllParsed
<1>4. CASE stage = "malformed"
  <2>1. Len(contents) < LengthOf(w.method) /\ Len(contents) \in Nat
    BY <1>1, <1>4 DEF ParsedSoFar, MeantInv, CodeInv, CodeTypeOK
  <2>2. Len(contents) # LengthOf(w.method)
    BY <1>2, <2>1
  <2> QED BY <1>4, <2>2
<1> QED BY <1>3, <1>4

\* A method is refused if and only if its bytes are cut short, and of one that
\* is not the listing shows the code, the exceptions, the locals and the frames
\* it was compiled with: Code::parse, emit_locals, emit_stack_map and StackMap,
\* for methods of any length, with any attributes and with stack maps of any
\* frames, wrapped ones among them.
THEOREM CompiledPrinted == CodeSpec => []PrintedAsMeant
<1> QED BY MeantInitial, MeantInductive, MeantIsPrinted, PTL DEF CodeSpec
=============================================================================
