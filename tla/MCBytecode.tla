----------------------------- MODULE MCBytecode -----------------------------
(***************************************************************************)
(* Programs of up to three instructions, written as an assembler would,    *)
(* whole and cut short at every byte, and arrays that are no program.      *)
(***************************************************************************)
EXTENDS Assembly, SequencesExt

\* An instruction as it is meant, its targets whatever they are.
I(opcode, args) ==
    [opcode |-> opcode, args |-> args,
     targets |-> [i \in 1..(CASE opcode = 170 -> 4 * (args[2] - args[1] + 1)
                              [] opcode = 171 -> 8 * args[1]
                              [] OTHER        -> 0) |-> 7]]

Simple == {I(0, <<>>), I(202, <<>>), I(16, <<-3>>), I(17, <<-300>>), I(18, <<200>>),
           I(21, <<255>>), I(132, <<7, -1>>), I(182, <<513>>), I(188, <<10>>),
           I(185, <<258, 3>>), I(186, <<259>>), I(197, <<260, 2>>)}
Branches == {I(167, <<0>>), I(167, <<300>>), I(200, <<-1>>), I(201, <<70000>>)}
Wides == {I(196, <<21, 300>>), I(196, <<132, 301, -2>>)}
Switches == {I(170, <<-1, 1, 0>>), I(170, <<5, 5, 9>>), I(171, <<0, 1>>), I(171, <<2, -4>>)}

All == Simple \cup Branches \cup Wides \cup Switches
Programs == {<<i>> : i \in All} \cup {<<i, j>> : i, j \in All}
            \cup {<<i, j, k>> : i, k \in Branches \cup Wides \cup Switches, j \in Simple}

\* An assembler: each instruction behind the one before it.
Put(w, ins) ==
    LET bytes == w.bytes \o Encode(ins, Len(w.bytes))
    IN  [program |-> Append(w.program, ins), starts |-> Append(w.starts, Len(bytes)),
         bytes |-> bytes]
Assemble(program) ==
    FoldLeft(Put, [program |-> <<>>, starts |-> <<0>>, bytes |-> <<>>], program)

SomeWritten == {Assemble(p) : p \in Programs}
Whole == {w.bytes : w \in SomeWritten}

Cut(bytes) == {SubSeq(bytes, 1, n) : n \in 0..(Len(bytes) - 1)}
Cuts == UNION {Cut(Assemble(<<i>>).bytes) \cup Cut(Assemble(<<I(0, <<>>), i>>).bytes) : i \in All}

\* A byte that is no opcode, bounds the wrong way round, and a switch far
\* larger than the array.
NoPrograms == {<<0, 203, 0>>, <<253>>, <<254, 255>>,
               <<0, 170, 0, 0, 0, 0, 0, 9, 0, 0, 0, 8, 0, 0, 0, 0>>,
               <<171, 0, 0, 0, 0, 0, 0, 9, 255, 255, 255, 255>>,
               <<171, 0, 0, 0, 0, 0, 0, 9, 1, 0, 0, 0>>}

SomeCodes == Whole \cup Cuts \cup NoPrograms
Lengths == 0..61
SomeBounds == {-1, 0, 1, 5, 8}
SomePairs == {-1, 0, 2, 16777216}
=============================================================================
