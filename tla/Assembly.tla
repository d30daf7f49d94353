------------------------------ MODULE Assembly ------------------------------
(***************************************************************************)
(* What an array of instructions means: programs, and the bytes of each    *)
(* instruction as the format of class files lays them out.  What is listed *)
(* of an assembled program is that program.                                *)
(***************************************************************************)
EXTENDS Bytecode

CONSTANT Written    \* assembled programs: [program, starts, bytes]
-----------------------------------------------------------------------------
(***************************************************************************)
(* An instruction as it is meant is an opcode, the numbers behind it, a    *)
(* branch as the place it goes to, and the targets of a switch as bytes.   *)
(***************************************************************************)
SignedByte == -128..127
SignedShort == (-(U16 \div 2))..(U16 \div 2 - 1)
IsSignedInt(n) == n \div U16 \in SignedShort

\* Opcodes by what is behind them.
OneUnsigned == {18, 188} \cup 21..25 \cup 54..58 \cup {169}
TwoUnsigned == 19..20 \cup 178..184 \cup {187, 189, 192, 193}
Jumps == 153..168 \cup {198, 199}
FarJumps == {200, 201}
Unassigned == 203..253
Bare == 0..15 \cup 26..53 \cup 59..131 \cup 133..152 \cup 172..177
        \cup {190, 191, 194, 195, 202, 254, 255}

Instr == [opcode : Byte \ Unassigned, args : Seq(Int), targets : Seq(Byte)]

\* The numbers fit an instruction at this place, and so does the size of what is
\* behind them.
Fits(ins, at) ==
    LET a == ins.args
        n == Len(ins.args)
    IN  \/ ins.opcode \in Bare /\ n = 0
        \/ ins.opcode \in OneUnsigned /\ n = 1 /\ a[1] \in Byte
        \/ ins.opcode = 16 /\ n = 1 /\ a[1] \in SignedByte
        \/ ins.opcode = 17 /\ n = 1 /\ a[1] \in SignedShort
        \/ ins.opcode \in TwoUnsigned \cup {186} /\ n = 1 /\ a[1] \in Unsigned16
        \/ ins.opcode = 132 /\ n = 2 /\ a[1] \in Byte /\ a[2] \in SignedByte
        \/ ins.opcode \in {185, 197} /\ n = 2 /\ a[1] \in Unsigned16 /\ a[2] \in Byte
        \/ ins.opcode \in Jumps /\ n = 1 /\ a[1] - at \in SignedShort
        \/ ins.opcode \in FarJumps /\ n = 1 /\ IsSignedInt(a[1] - at)
        \/ ins.opcode = 196 /\ n = 2 /\ a[1] \in Byte \ {132} /\ a[2] \in Unsigned16
        \/ ins.opcode = 196 /\ n = 3 /\ a[1] = 132 /\ a[2] \in Unsigned16 /\ a[3] \in SignedShort
        \/ ins.opcode = 170 /\ n = 3 /\ IsSignedInt(a[1]) /\ IsSignedInt(a[2])
                            /\ IsSignedInt(a[3] - at) /\ a[1] <= a[2]
                            /\ Len(ins.targets) = 4 * (a[2] - a[1] + 1)
        \/ ins.opcode = 171 /\ n = 2 /\ IsSignedInt(a[1]) /\ IsSignedInt(a[2] - at)
                            /\ a[1] >= 0 /\ Len(ins.targets) = 8 * a[1]

\* Big-endian numbers.
Put1(n) == <<n % 256>>
Put2(n) == <<(n \div 256) % 256, n % 256>>
Put4(n) == Put2(n \div U16) \o Put2(n)

\* A switch goes on at the next multiple of four.
Pads(at) == [i \in 1..((3 - at) % 4) |-> 0]

\* The bytes behind the opcode of an instruction at this place, and all of them.
Behind(ins, at) ==
    LET a == ins.args
    IN  CASE ins.opcode \in Bare                  -> <<>>
          [] ins.opcode \in OneUnsigned \cup {16}     -> Put1(a[1])
          [] ins.opcode \in TwoUnsigned \cup {17}    -> Put2(a[1])
          [] ins.opcode = 132                     -> Put1(a[1]) \o Put1(a[2])
          [] ins.opcode = 185                     -> Put2(a[1]) \o Put1(a[2]) \o <<0>>
          [] ins.opcode = 186                     -> Put2(a[1]) \o <<0, 0>>
          [] ins.opcode = 197                     -> Put2(a[1]) \o Put1(a[2])
          [] ins.opcode \in Jumps                 -> Put2(a[1] - at)
          [] ins.opcode \in FarJumps              -> Put4(a[1] - at)
          [] ins.opcode = 196                     ->
                 Put1(a[1]) \o Put2(a[2]) \o IF a[1] = 132 THEN Put2(a[3]) ELSE <<>>
          [] ins.opcode = 170                     ->
                 Pads(at) \o Put4(a[3] - at) \o Put4(a[1]) \o Put4(a[2]) \o ins.targets
          [] ins.opcode = 171                     ->
                 Pads(at) \o Put4(a[2] - at) \o Put4(a[1]) \o ins.targets

Encode(ins, at) == <<ins.opcode>> \o Behind(ins, at)

\* Each instruction stands where the one before it ends, and the last ends
\* where the array does.
Assembled(w) ==
    LET n == Len(w.program)
    IN  /\ w.program \in Seq(Instr)
        /\ w.starts \in Seq(0..Len(w.bytes)) /\ Len(w.starts) = n + 1
        /\ w.starts[1] = 0 /\ w.starts[n + 1] = Len(w.bytes)
        /\ \A i \in 1..n :
               LET bytes == Encode(w.program[i], w.starts[i])
               IN  /\ Fits(w.program[i], w.starts[i])
                   /\ w.starts[i + 1] = w.starts[i] + Len(bytes)
                   /\ \A j \in 1..Len(bytes) : w.bytes[w.starts[i] + j] = bytes[j]

ASSUME AssemblyAssumption == \A w \in Written : Assembled(w)
-----------------------------------------------------------------------------
(***************************************************************************)
(* Properties.                                                             *)
(***************************************************************************)
\* What is listed of an assembled program is that program: each instruction
\* where it was put, each operand the number it was written from, a branch the
\* place it goes to, and no remark.
ReadAsWritten ==
    stopped # "no" =>
        \A w \in Written : w.bytes = code =>
            /\ stopped = "end"
            /\ Len(lines) = Len(w.program) /\ Len(operands) = Len(w.program)
            /\ \A i \in 1..Len(lines) :
                   lines[i].at = w.starts[i] /\ operands[i] = w.program[i].args

\* A program reads as it was meant, and of bytes that are no program, what is
\* read comes from where it is said to.
ListingIsTheProgram == OperandsAreItsOwn /\ ReadAsWritten
=============================================================================
