------------------------------ MODULE Bytecode ------------------------------
(***************************************************************************)
(* The walk of Instructions over real bytes: the opcode table              *)
(* (bk-jvm/src/opcodes.rs) says of each opcode what follows it, and        *)
(* emit_operands (bk-jvm/src/emit.rs) what is printed of that.             *)
(*                                                                         *)
(* The length of an instruction and its operands are computed apart, from  *)
(* the same bytes: instruction_len refuses what does not fit, emit_operands*)
(* reads 0 where there is no byte.  Nothing but the table keeps them in    *)
(* step.                                                                   *)
(***************************************************************************)
EXTENDS Instructions, Reader

CONSTANT Codes      \* instruction arrays, as bytes

VARIABLES
    code,       \* the array
    operands    \* what was printed behind each mnemonic, as numbers

decodeVars == <<walkVars, code, operands>>
-----------------------------------------------------------------------------
\* The opcode table: what follows each opcode.  Three of those with nothing
\* behind them are reserved for debuggers: they are named like the others.
ShapeOf(opcode) ==
    CASE opcode = 16                                -> "ImmI1"
      [] opcode = 17                                -> "ImmI2"
      [] opcode = 18                                -> "Cp1"
      [] opcode \in {19, 20, 187, 189, 192, 193}
                    \cup 178..184                   -> "Cp2"
      [] opcode \in 21..25 \cup 54..58 \cup {169}   -> "LocalU1"
      [] opcode = 132                               -> "LocalConst"
      [] opcode \in 153..168 \cup {198, 199}        -> "Branch2"
      [] opcode = 170                               -> "TableSwitch"
      [] opcode = 171                               -> "LookupSwitch"
      [] opcode = 185                               -> "InvokeInterface"
      [] opcode = 186                               -> "InvokeDynamic"
      [] opcode = 188                               -> "ArrayType"
      [] opcode = 196                               -> "Wide"
      [] opcode = 197                               -> "MultiANewArray"
      [] opcode \in {200, 201}                      -> "Branch4"
      [] opcode \in 203..253                        -> "unassigned"
      [] OTHER                                      -> "None"

\* get(at).unwrap_or(0).
B1(bytes, at) == IF at < Len(bytes) THEN bytes[at + 1] ELSE 0
B2(bytes, at) == 256 * B1(bytes, at) + B1(bytes, at + 1)

\* A number of two's complement, of this many values.
Signed(n, values) == IF 2 * n < values THEN n ELSE n - values

\* read_i32(at).unwrap_or(0).
B4(bytes, at) ==
    IF at + 4 > Len(bytes) THEN 0
    ELSE 65536 * Signed(B2(bytes, at), U16) + B2(bytes, at + 2)

\* Mutant: a case of a lookupswitch has four bytes.
EndOfCases(shape) ==
    CASE shape = "Wide"         -> WideEnd(B1(code, pc + 1) = 132)
      [] shape = "TableSwitch"  -> TableEnd(B4(code, PadToU32(pc + 1) + 4),
                                            B4(code, PadToU32(pc + 1) + 8))
      [] shape = "LookupSwitch" -> Within(PadToU32(pc + 1) + 8 +
                                          4 * B4(code, PadToU32(pc + 1) + 4))
      [] OTHER                  -> Within(pc + 1 + FixedLen[shape])

\* instruction_len, as the end of the instruction at pc.
EndOf(shape) ==
    CASE shape = "Wide"         -> WideEnd(B1(code, pc + 1) = 132)
      [] shape = "TableSwitch"  -> TableEnd(B4(code, PadToU32(pc + 1) + 4),
                                            B4(code, PadToU32(pc + 1) + 8))
      [] shape = "LookupSwitch" -> LookupEnd(B4(code, PadToU32(pc + 1) + 4))
      [] OTHER                  -> Within(pc + 1 + FixedLen[shape])

\* Mutant: a branch of two bytes only goes forward.
Branch2Unsigned(bytes, at) == <<at + B2(bytes, at + 1)>>

\* The target of a branch, from the start of the array.
Branch2(bytes, at) == <<at + Signed(B2(bytes, at + 1), U16)>>
Branch4(bytes, at) == <<at + B4(bytes, at + 1)>>

\* A widened instruction: its opcode, its local and, of iinc, its constant.
Widened(bytes, at) ==
    <<B1(bytes, at + 1), B2(bytes, at + 2)>> \o
    IF B1(bytes, at + 1) = 132 THEN <<Signed(B2(bytes, at + 4), U16)>> ELSE <<>>

\* A switch: its bounds or its number of cases, and its default target.
Table(bytes, at, base) ==
    <<B4(bytes, base + 4), B4(bytes, base + 8), at + B4(bytes, base)>>
Lookup(bytes, at, base) == <<B4(bytes, base + 4), at + B4(bytes, base)>>

\* emit_operands: the numbers printed, at the start of the instruction.
OperandsOf(bytes, at, shape) ==
    CASE shape = "None"                           -> <<>>
      [] shape \in {"LocalU1", "ArrayType", "Cp1"} -> <<B1(bytes, at + 1)>>
      [] shape = "ImmI1"        -> <<Signed(B1(bytes, at + 1), 256)>>
      [] shape = "ImmI2"        -> <<Signed(B2(bytes, at + 1), U16)>>
      [] shape = "LocalConst"   -> <<B1(bytes, at + 1), Signed(B1(bytes, at + 2), 256)>>
      [] shape \in {"Cp2", "InvokeDynamic"}        -> <<B2(bytes, at + 1)>>
      [] shape \in {"InvokeInterface", "MultiANewArray"}
                                -> <<B2(bytes, at + 1), B1(bytes, at + 3)>>
      [] shape = "Branch2"      -> Branch2(bytes, at)
      [] shape = "Branch4"      -> Branch4(bytes, at)
      [] shape = "Wide"         -> Widened(bytes, at)
      [] shape = "TableSwitch"  -> Table(bytes, at, PadToU32(at + 1))
      [] shape = "LookupSwitch" -> Lookup(bytes, at, PadToU32(at + 1))

\* Where an opcode of a switch may stand, and the numbers behind it that decide
\* where it ends: low and high, or the pair count.
Places(bytes, opcode) == {i \in DOMAIN bytes : bytes[i] = opcode}
LowsAndHighs(bytes) ==
    {B4(bytes, PadToU32(i) + n) : i \in Places(bytes, 170), n \in {4, 8}}
Pairs(bytes) == {B4(bytes, PadToU32(i) + 4) : i \in Places(bytes, 171)}

ASSUME BytecodeAssumption ==
    /\ Codes \subseteq Seq(Byte)
    /\ \A bytes \in Codes : /\ Len(bytes) \in CodeSizes
                            /\ LowsAndHighs(bytes) \subseteq Bounds
                            /\ Pairs(bytes) \subseteq PairCounts
    /\ Used = Shapes
-----------------------------------------------------------------------------
DecodeInit ==
    /\ code \in Codes
    /\ size = Len(code)
    /\ WalkInit
    /\ operands = <<>>

\* An instruction that fits, one that does not, and a byte that is none.
Decode ==
    /\ stopped = "no"
    /\ pc < size
    /\ LET shape == ShapeOf(code[pc + 1]) IN
       IF shape = "unassigned"
       THEN Stop("unknown opcode") /\ UNCHANGED operands
       ELSE /\ Instruction(shape, EndOf(shape))
            /\ operands' = IF EndOf(shape) = Truncated THEN operands
                           ELSE Append(operands, OperandsOf(code, pc, shape))
    /\ UNCHANGED code

DecodeEnd == EndOfCode /\ UNCHANGED <<code, operands>>

DecodeNext == Decode \/ DecodeEnd

\* emit_instructions is a loop without I/O: while it can turn, it does.
DecodeSpec == DecodeInit /\ [][DecodeNext]_decodeVars /\ WF_decodeVars(DecodeNext)
-----------------------------------------------------------------------------
(***************************************************************************)
(* Properties.                                                             *)
(***************************************************************************)
\* The operands printed of an instruction are made of its own bytes: whatever
\* the bytes behind it were, or if there were none, they would read the same.
\* So the 0 that stands for a missing byte is never printed.
OperandsAreItsOwn ==
    \A i \in DOMAIN operands :
        LET line == lines[i]
            Own(tail) == OperandsOf(SubSeq(code, 1, line.to) \o tail, line.at, line.shape)
        IN  \A tail \in {<<>>, [n \in 1..12 |-> 7]} : operands[i] = Own(tail)

\* The walk of real bytes is one the walk of any bytes allows.
IsAWalk == WalkSpec

\* Every walk comes to an end: no instruction ends where it starts or before.
WalkEnds == <>(stopped # "no")
=============================================================================
