---------------------------- MODULE Instructions ----------------------------
(***************************************************************************)
(* The walk over the instruction array of a method: emit_instructions      *)
(* (bk-jvm/src/emit.rs) with instruction_len and the shapes of the opcode  *)
(* table (bk-jvm/src/opcodes.rs).                                          *)
(*                                                                         *)
(* The array is any bytes whatever: each byte and each operand is chosen   *)
(* when it is read, and only its length decides what can be read.  Where   *)
(* an instruction ends is where the next one is taken to start, so a wrong *)
(* length turns all that follows into nonsense that looks plausible.       *)
(***************************************************************************)
EXTENDS Integers, Sequences

CONSTANTS
    CodeSizes,  \* lengths of an instruction array
    Used,       \* the shapes of instruction found in it
    Bounds,     \* what low and high of a tableswitch can be
    PairCounts  \* what the pair count of a lookupswitch can be

VARIABLES
    size,       \* bytes.len()
    pc,         \* the offset the next instruction starts at
    count,      \* instructions counted
    lines,      \* what was printed: [at, to, shape]
    stopped     \* "no", or why the walk ended

walkVars == <<size, pc, count, lines, stopped>>
-----------------------------------------------------------------------------
\* Operands::fixed_len: operand bytes after the opcode.
FixedLen ==
    [None |-> 0, LocalU1 |-> 1, Cp1 |-> 1, ImmI1 |-> 1, ArrayType |-> 1,
     ImmI2 |-> 2, Cp2 |-> 2, Branch2 |-> 2, LocalConst |-> 2, MultiANewArray |-> 3,
     Branch4 |-> 4, InvokeInterface |-> 4, InvokeDynamic |-> 4]

FixedShapes == DOMAIN FixedLen
Shapes == FixedShapes \cup {"Wide", "TableSwitch", "LookupSwitch"}

ASSUME InstructionsAssumption ==
    /\ CodeSizes \subseteq Nat
    /\ Used \subseteq Shapes
    /\ Bounds \subseteq Int
    /\ PairCounts \subseteq Int

\* pad_to_u32: the next four-byte boundary from the start of the array.
PadToU32(offset) == offset + ((4 - (offset % 4)) % 4)

\* read_i32 at this offset succeeds.
Has(at, width) == at + width <= size

Truncated == -1

\* What instruction_len makes of an end: none when it passes the array's.
Within(end) == IF end <= size THEN end ELSE Truncated

\* A default, low, high, and a target for each value from low to high.
TableEnd(low, high) ==
    IF ~Has(PadToU32(pc + 1), 12) \/ high < low THEN Truncated
    ELSE Within(PadToU32(pc + 1) + 12 + (high - low + 1) * 4)

\* A default, a pair count, and the pairs.
LookupEnd(pairs) ==
    IF ~Has(PadToU32(pc + 1), 8) \/ pairs < 0 THEN Truncated
    ELSE Within(PadToU32(pc + 1) + 8 + pairs * 8)

\* A widened iinc has six bytes, any other widened instruction four.
WideEnd(iinc) == IF Has(pc + 1, 1) THEN Within(pc + IF iinc THEN 6 ELSE 4) ELSE Truncated

\* Where an instruction of this shape at pc can end.
Ends(shape) ==
    CASE shape \in FixedShapes  -> {Within(pc + 1 + FixedLen[shape])}
      [] shape = "Wide"         -> {WideEnd(iinc) : iinc \in BOOLEAN}
      [] shape = "TableSwitch"  -> {TableEnd(low, high) : low, high \in Bounds}
      [] shape = "LookupSwitch" -> {LookupEnd(pairs) : pairs \in PairCounts}
-----------------------------------------------------------------------------
WalkInit ==
    /\ size \in CodeSizes
    /\ pc = 0
    /\ count = 0
    /\ lines = <<>>
    /\ stopped = "no"

\* A line that says what is wrong ends the walk: "an unassigned opcode makes
\* every following offset a guess".
Stop(why) ==
    /\ stopped' = why
    /\ lines' = Append(lines, [at |-> pc, to |-> pc, shape |-> why])
    /\ UNCHANGED <<size, pc, count>>

\* Mutant: a truncated instruction is counted and the walk goes on.
InstructionUnchecked(shape, end) ==
    /\ count' = count + 1
    /\ lines' = Append(lines, [at |-> pc, to |-> end, shape |-> shape])
    /\ pc' = IF end = Truncated THEN size ELSE end
    /\ UNCHANGED <<size, stopped>>

\* Mutant: a truncated instruction is passed over without moving on.
InstructionStuck(shape, end) ==
    IF end = Truncated
    THEN UNCHANGED walkVars
    ELSE /\ count' = count + 1
         /\ lines' = Append(lines, [at |-> pc, to |-> end, shape |-> shape])
         /\ pc' = end
         /\ UNCHANGED <<size, stopped>>

Instruction(shape, end) ==
    IF end = Truncated
    THEN Stop("truncated instruction")
    ELSE /\ count' = count + 1
         /\ lines' = Append(lines, [at |-> pc, to |-> end, shape |-> shape])
         /\ pc' = end
         /\ UNCHANGED <<size, stopped>>

\* One turn of the loop.
Walk ==
    /\ stopped = "no"
    /\ pc < size
    /\ \/ Stop("unknown opcode")
       \/ \E shape \in Used : \E end \in Ends(shape) : Instruction(shape, end)

EndOfCode ==
    /\ stopped = "no"
    /\ pc >= size
    /\ stopped' = "end"
    /\ UNCHANGED <<size, pc, count, lines>>

WalkNext == Walk \/ EndOfCode

WalkSpec == WalkInit /\ [][WalkNext]_walkVars
-----------------------------------------------------------------------------
(***************************************************************************)
(* Properties.                                                             *)
(***************************************************************************)
Remarks == {"unknown opcode", "truncated instruction"}

\* Every variable keeps its type, and pc never passes the end of the array.
WalkTypeOK ==
    /\ size \in CodeSizes
    /\ pc \in 0..size
    /\ count \in Nat
    /\ lines \in Seq([at : 0..size, to : 0..size, shape : Shapes \cup Remarks])
    /\ stopped \in {"no", "end"} \cup Remarks

\* The instructions printed tile the array from its start up to pc: each
\* starts where the one before ended, and none is empty.
InstructionsTile ==
    /\ Len(lines) = 0 => pc = 0
    /\ \A i \in 1..Len(lines) :
           /\ lines[i].at = IF i = 1 THEN 0 ELSE lines[i - 1].to
           /\ lines[i].shape \in Shapes => lines[i].at < lines[i].to
           /\ i = Len(lines) => lines[i].to = pc

\* The count is that of the instructions printed, and it is at most pc, which
\* is how a u32 is wide enough for it.
CountIsWhatWasPrinted ==
    /\ count = Len(lines) - (IF stopped \in Remarks THEN 1 ELSE 0)
    /\ count <= pc

\* The walk stops short of the end only behind a remark, and a remark is the
\* last line: the listing never goes on past bytes it could not read.
NothingAfterARemark ==
    /\ stopped = "end" => pc = size
    /\ \A i \in 1..Len(lines) :
           lines[i].shape \in Remarks => i = Len(lines) /\ stopped = lines[i].shape
=============================================================================
