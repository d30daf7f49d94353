---------------------------- MODULE CodeAttribute ----------------------------
(***************************************************************************)
(* A Code attribute from its bytes to the tables printed of it:            *)
(* Code::parse and parse_local_variable_table (bk-jvm/src/class.rs),       *)
(* emit_exception_table, emit_locals, emit_line_numbers and emit_stack_map *)
(* (emit.rs), which hands the bytes of its table to StackMap.              *)
(*                                                                         *)
(* Every other table is a count and rows of u16.  Code::parse reads all of *)
(* the exceptions or fails; the locals are read whole before one is        *)
(* printed, and passed over if they cannot be; line numbers are printed as *)
(* they are read; a stack map is printed whole or remarked upon.  The      *)
(* tables are found by name, in the attributes of the Code.                *)
(***************************************************************************)
EXTENDS StackMap

CONSTANTS
    Contents,   \* the contents of a Code attribute, as bytes
    NameOf      \* the text of each index of the pool an attribute is named by

ASSUME CodeAssumption == Contents \subseteq Seq(Byte)

VARIABLES
    contents,   \* the attribute
    place,      \* its Reader
    stage,      \* what is read or printed next
    owed,       \* items of the list still to be read
    parsed,     \* Code: [bytes, exceptions, attributes]
    printed     \* the lines printed: [table, row]

codeVars == <<vars, contents, place, stage, owed, parsed, printed>>

Exceptional == 4    \* the fields of ExceptionEntry, of LocalVariable and
Local == 5          \* of a line number
Line == 2
-----------------------------------------------------------------------------
\* A cursor fails before the end of the bytes it is given.
Reads(width) == Need(contents, place, width)

U4(bytes, c) == U16 * U2(bytes, c) + U2(bytes, After(bytes, c, 2))

\* So many u16 from this place of these bytes.
Row(bytes, from, fields) == [i \in 1..fields |-> U2(bytes, [StartOf EXCEPT !.pos = from + 2 * (i - 1)])]

\* The slice an attribute hands out.
Slice(from, length) == SubSeq(contents, from + 1, from + length)

Heading(table) == [table |-> table, row |-> <<>>]
Rows(table, rows) == [i \in DOMAIN rows |-> [table |-> table, row |-> rows[i]]]

\* An error of the reader drops what was read.
Malformed == stage' = "malformed" /\ UNCHANGED <<vars, contents, place, owed, parsed, printed>>

\* After a read of this width the next stage, or none.
Reading(part, width) == stage = part /\ Reads(width) /\ place' = After(contents, place, width)
TooShort(part, width) == stage = part /\ ~Reads(width) /\ Malformed
-----------------------------------------------------------------------------
CodeInit ==
    /\ data = <<>> /\ cursor = StartOf /\ left = 0
    /\ frame = NoFrame /\ lists = 0 /\ types = 0 /\ frames = <<>>
    /\ outcome = "start"
    /\ contents \in Contents
    /\ place = StartOf
    /\ stage = "head"
    /\ owed = 0
    /\ parsed = [bytes |-> <<>>, exceptions |-> <<>>, attributes |-> <<>>]
    /\ printed = <<>>

CodeLength == U4(contents, After(contents, place, 4))

\* max_stack, max_locals, and the instructions behind their length.
ReadCode ==
    \/ TooShort("head", 8)
    \/ stage = "head" /\ Reads(8) /\ ~Reads(8 + CodeLength) /\ Malformed
    \/ /\ stage = "head" /\ Reads(8) /\ Reading("head", 8 + CodeLength)
       /\ parsed' = [parsed EXCEPT !.bytes = Slice(place.pos + 8, CodeLength)]
       /\ stage' = "exceptionCount"
       /\ UNCHANGED <<vars, contents, owed, printed>>

ReadListCount(part, next) ==
    \/ TooShort(part, 2)
    \/ /\ Reading(part, 2)
       /\ owed' = U2(contents, place)
       /\ stage' = next
       /\ UNCHANGED <<vars, contents, parsed, printed>>

ReadException ==
    /\ owed > 0
    /\ \/ TooShort("exceptions", 2 * Exceptional)
       \/ /\ Reading("exceptions", 2 * Exceptional)
          /\ parsed' = [parsed EXCEPT !.exceptions =
                          Append(@, Row(contents, place.pos, Exceptional))]
          /\ owed' = owed - 1
          /\ UNCHANGED <<vars, contents, stage, printed>>

AttributeLength == U4(contents, After(contents, place, 2))

\* Name, length and as many bytes.
ReadAttribute ==
    /\ owed > 0
    /\ \/ TooShort("attributes", 6)
       \/ stage = "attributes" /\ Reads(6) /\ ~Reads(6 + AttributeLength) /\ Malformed
       \/ /\ stage = "attributes" /\ Reads(6) /\ Reading("attributes", 6 + AttributeLength)
          /\ parsed' = [parsed EXCEPT !.attributes = Append(@,
                         [name |-> NameOf[U2(contents, place)],
                          data |-> Slice(place.pos + 6, AttributeLength)])]
          /\ owed' = owed - 1
          /\ UNCHANGED <<vars, contents, stage, printed>>

\* The end of a list of Code::parse.
EndOfList ==
    /\ owed = 0
    /\ \/ stage = "exceptions" /\ stage' = "attributeCount"
       \/ stage = "attributes" /\ stage' = "printExceptions"
    /\ UNCHANGED <<vars, contents, place, owed, parsed, printed>>

Prints(from, to, lines) ==
    /\ stage = from
    /\ stage' = to
    /\ printed' = printed \o lines
    /\ UNCHANGED <<vars, contents, place, owed, parsed>>

\* emit_exception_table, where there is one.
PrintExceptions ==
    Prints("printExceptions", "printLocals",
           IF parsed.exceptions = <<>> THEN <<>>
           ELSE <<Heading("exceptions")>> \o Rows("exceptions", parsed.exceptions))

\* The contents of the first attribute of that name, if there is one.
Named(wanted) ==
    LET found == {i \in DOMAIN parsed.attributes : parsed.attributes[i].name = wanted}
    IN  IF found = {} THEN <<>>
        ELSE <<parsed.attributes[CHOOSE i \in found : \A j \in found : i <= j].data>>

\* The rows of a table its bytes are enough for, at most as many as declared.
Present(bytes, fields) ==
    IF Len(bytes) < 2 THEN 0
    ELSE LET n == (Len(bytes) - 2) \div (2 * fields)
         IN  IF n < U2(bytes, StartOf) THEN n ELSE U2(bytes, StartOf)

RowsOf(bytes, fields) ==
    [i \in 1..Present(bytes, fields) |-> Row(bytes, 2 + 2 * fields * (i - 1), fields)]

\* parse_local_variable_table succeeds.
Whole(bytes, fields) == Len(bytes) >= 2 /\ Present(bytes, fields) = U2(bytes, StartOf)

\* What is printed of a local: its slot, name and descriptor, and the range it
\* lives in, the end of which wraps in a release build.
LocalLine(row) == <<row[5], row[3], row[4], row[1], (row[1] + row[2]) % U16>>

\* emit_locals: all of the table or nothing.
PrintLocals ==
    LET table == Named("LocalVariableTable")
        rows == RowsOf(table[1], Local)
    IN  Prints("printLocals", "printLines",
               IF table = <<>> \/ ~Whole(table[1], Local) THEN <<>>
               ELSE <<Heading("locals")>> \o
                    Rows("locals", [i \in DOMAIN rows |-> LocalLine(rows[i])]))

\* emit_line_numbers: as much of the table as there is, if its count is.
PrintLines ==
    LET table == Named("LineNumberTable")
    IN  Prints("printLines", "findFrames",
               IF table = <<>> \/ Len(table[1]) < 2 THEN <<>>
               ELSE <<Heading("lines")>> \o Rows("lines", RowsOf(table[1], Line)))

\* code_attribute finds the stack map and its parser is given the bytes.
FindFrames ==
    /\ stage = "findFrames"
    /\ LET table == Named("StackMapTable")
       IN  IF table = <<>> THEN stage' = "done" /\ UNCHANGED data
           ELSE stage' = "frames" /\ data' = table[1]
    /\ UNCHANGED <<cursor, left, frame, lists, types, frames, outcome,
                   contents, place, owed, parsed, printed>>

ReadFrames ==
    /\ stage = "frames"
    /\ Next
    /\ UNCHANGED <<contents, place, stage, owed, parsed, printed>>

\* Mutant: the frames before the one that cannot be read are printed.
PrintFramesCut ==
    /\ outcome \in {"ok", "malformed"}
    /\ Prints("frames", "done", <<Heading("frames")>> \o Rows("frames", frames))

\* emit_stack_map: all of the frames, or a remark.
PrintFrames ==
    /\ outcome \in {"ok", "malformed"}
    /\ Prints("frames", "done",
              IF outcome = "ok" THEN <<Heading("frames")>> \o Rows("frames", frames)
              ELSE <<Heading("unreadable")>>)

CodeNext ==
    \/ ReadCode
    \/ ReadListCount("exceptionCount", "exceptions") \/ ReadException
    \/ ReadListCount("attributeCount", "attributes") \/ ReadAttribute
    \/ EndOfList
    \/ PrintExceptions \/ PrintLocals \/ PrintLines
    \/ FindFrames \/ ReadFrames \/ PrintFrames

CodeSpec == CodeInit /\ [][CodeNext]_codeVars
-----------------------------------------------------------------------------
(***************************************************************************)
(* Properties.                                                             *)
(***************************************************************************)
\* The lines of a table.
Under(table) == {i \in DOMAIN printed : printed[i].table = table}

\* They are these: a heading and so many rows behind it.
Block(table, rows) == \E h \in DOMAIN printed : Under(table) = h..(h + rows)

\* Under the heading of a table of locals or of a stack map stands the whole
\* of it, as many rows as the first table of that name declares, whatever its
\* bytes are.
NoPartUnderAHeading ==
    \A t \in {<<"locals", "LocalVariableTable">>, <<"frames", "StackMapTable">>} :
        Under(t[1]) # {} =>
            LET table == Named(t[2])[1]
            IN  Len(table) >= 2 /\ Block(t[1], U2(table, StartOf))

\* Line numbers are cut without a remark, but only where their bytes end: what
\* is printed is the beginning of the first table, byte for byte, and if rows
\* are missing there are too few bytes left for one more.
LineNumbersAreAPrefix ==
    stage = "done" /\ Under("lines") # {} =>
        LET table == Named("LineNumberTable")[1]
        IN  \E rows \in 0..U2(table, StartOf), h \in DOMAIN printed :
                /\ Under("lines") = h..(h + rows)
                /\ \A i \in 1..rows : \A n \in 1..Line :
                       printed[h + i].row[n] = 256 * table[4 * i + 2 * n - 3] + table[4 * i + 2 * n - 2]
                /\ rows < U2(table, StartOf) => Len(table) - 2 - 4 * rows < 4

\* A table that ends in the middle of a row is never printed as if it ended
\* there: all of it is, or none of it, or the rows before that one.
TablesEndBetweenRows == NoPartUnderAHeading /\ LineNumbersAreAPrefix
=============================================================================
