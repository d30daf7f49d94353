---------------------------- MODULE CompiledCode ----------------------------
(***************************************************************************)
(* What a Code attribute means: methods as they are compiled, and where    *)
(* the format of class files puts each number of one.  What is printed of  *)
(* a compiled method is that method.                                       *)
(*                                                                         *)
(* The bytes may be cut short, those of the method and those of a table in *)
(* it: every number stands where it belongs, as far as the bytes go.       *)
(***************************************************************************)
EXTENDS CodeAttribute

CONSTANT Compiled   \* Code attributes: [bytes, method]
-----------------------------------------------------------------------------
\* Big-endian numbers of one, two and four bytes, and many bytes.
Says1(bytes, at, n) == at < Len(bytes) => bytes[at + 1] = n
Says2(bytes, at, n) == Says1(bytes, at, n \div 256) /\ Says1(bytes, at + 1, n % 256)
Says4(bytes, at, n) == Says2(bytes, at, n \div U16) /\ Says2(bytes, at + 2, n % U16)
SaysAll(bytes, at, s) == \A i \in 1..Len(s) : Says1(bytes, at + i - 1, s[i])

\* Rows of so many numbers of two bytes, behind their count.
SaysRows(bytes, at, rows, fields) ==
    /\ rows \in Seq([1..fields -> Unsigned16]) /\ Len(rows) \in Unsigned16
    /\ Says2(bytes, at, Len(rows))
    /\ \A i \in 1..Len(rows), n \in 1..fields :
           Says2(bytes, at + 2 + 2 * fields * (i - 1) + 2 * (n - 1), rows[i][n])
RowsEnd(at, rows, fields) == at + 2 + 2 * fields * Len(rows)
-----------------------------------------------------------------------------
(***************************************************************************)
(* A frame as it is meant has the offset of the instruction it is about, a *)
(* kind, how many fields are unset if it is wrapped, and lists of types.   *)
(* One of no kind is of a type that means nothing.                         *)
(***************************************************************************)
TypeList == [tags : Seq(Byte), places : Seq(Nat)]
WrittenFrame ==
    [offset : Nat, kind : Kinds \cup {"none"}, wrapped : BOOLEAN, unset : Unsigned16,
     type : Byte, lists : Seq(TypeList), from : Nat, to : Nat]

\* There is a kind, and every type is one of nine.
SoundList(l) == \A i \in 1..Len(l.tags) : l.tags[i] <= 8
Sound(f) == f.kind # "none" /\ \A l \in 1..Len(f.lists) : SoundList(f.lists[l])

\* The types of frames of each kind: the delta is within the type or behind
\* it, and there are so many lists.
HasForm(f, delta) ==
    \/ f.kind = "same" /\ f.lists = <<>> /\ (f.type = 251 \/ (f.type = delta /\ delta < 64))
    \/ /\ f.kind = "same_locals_1_stack_item" /\ (f.type = 247 \/ (f.type = 64 + delta /\ delta < 64))
       /\ Len(f.lists) = 1 /\ Len(f.lists[1].tags) = 1
    \/ f.kind = "chop" /\ f.lists = <<>> /\ f.type \in 248..250
    \/ f.kind = "append" /\ Len(f.lists) = 1 /\ f.type \in 252..254 /\ Len(f.lists[1].tags) = f.type - 251
    \/ f.kind = "full" /\ Len(f.lists) = 2 /\ f.type = 255

\* Types one behind the other, some of which name something by two bytes more.
TypeWidth(tag) == IF tag \in {7, 8} THEN 3 ELSE 1
ListEnd(l) == l.places[Len(l.tags) + 1]
SaysTypes(bytes, l, from, to) ==
    /\ Len(l.tags) \in Unsigned16 /\ Len(l.places) = Len(l.tags) + 1
    /\ l.places[1] = from
    /\ \A i \in 1..Len(l.places) : l.places[i] <= to
    /\ \A i \in 1..Len(l.tags) :
           /\ Says1(bytes, l.places[i], l.tags[i])
           /\ l.places[i + 1] = l.places[i] + TypeWidth(l.tags[i])

\* Where the frame inside a wrapper is, where its lists start, and where each is.
Base(f) == f.from + IF f.wrapped THEN 3 + 2 * f.unset ELSE 0
ListsFrom(f) == Base(f) + IF f.type < 128 THEN 1 ELSE 3
BehindList(f, l) == IF l = 0 THEN ListsFrom(f) ELSE ListEnd(f.lists[l])

\* The lists of a full frame are behind their counts.
SaysList(bytes, f, l) ==
    LET before == BehindList(f, l - 1)
    IN  IF f.kind = "full"
        THEN Says2(bytes, before, Len(f.lists[l].tags)) /\ SaysTypes(bytes, f.lists[l], before + 2, f.to)
        ELSE SaysTypes(bytes, f.lists[l], before, f.to)

SaysFrame(bytes, f, delta) ==
    /\ IF f.wrapped THEN Says1(bytes, f.from, 246) /\ Says2(bytes, f.from + 1, f.unset)
       ELSE f.unset = 0 /\ f.type # 246
    /\ Says1(bytes, Base(f), f.type)
    /\ IF f.kind = "none" THEN f.type \in 128..246
       ELSE /\ HasForm(f, delta)
            /\ delta \in Unsigned16 /\ (f.type > 246 => Says2(bytes, Base(f) + 1, delta))
            /\ ListsFrom(f) <= f.to
            /\ \A l \in 1..Len(f.lists) : SaysList(bytes, f, l)
            /\ f.to = BehindList(f, Len(f.lists))

\* The bytes between the instruction a frame is about and that of the one
\* before it, not counting it.
DeltaOf(map, i) == IF i = 1 THEN map[1].offset ELSE map[i].offset - map[i - 1].offset - 1
BehindFrame(map, i) == IF i = 0 THEN 2 ELSE map[i].to

SaysMap(bytes, map) ==
    LET n == Len(map)
    IN  /\ map \in Seq(WrittenFrame) /\ n \in Unsigned16 /\ Says2(bytes, 0, n)
        /\ \A i \in 1..n :
               /\ map[i].from = BehindFrame(map, i - 1)
               /\ SaysFrame(bytes, map[i], DeltaOf(map, i))
        /\ \A i \in 0..n : BehindFrame(map, i) <= BehindFrame(map, n)
        /\ Len(bytes) <= BehindFrame(map, n)

\* The map is all there and can be read.
WholeMap(bytes, map) ==
    Len(bytes) = BehindFrame(map, Len(map)) /\ \A i \in 1..Len(map) : Sound(map[i])

MeantFrames(map) ==
    [i \in 1..Len(map) |-> [offset |-> map[i].offset, kind |-> map[i].kind, unset |-> map[i].unset]]
-----------------------------------------------------------------------------
(***************************************************************************)
(* A method: its code, its exceptions, and its attributes, each of which   *)
(* is named by an index of the pool and has bytes.  Those of a table of    *)
(* locals say rows, and those of a stack map say frames.                   *)
(***************************************************************************)
WrittenAttribute ==
    [name : Unsigned16, bytes : Seq(Byte), rows : Seq([1..Local -> Unsigned16]), map : Seq(WrittenFrame)]
WrittenMethod ==
    [code : Seq(Byte), exceptions : Seq([1..Exceptional -> Unsigned16]),
     attributes : Seq(WrittenAttribute), places : Seq(Nat)]

SaysTable(a) ==
    /\ NameOf[a.name] = "LocalVariableTable" =>
           SaysRows(a.bytes, 0, a.rows, Local) /\ Len(a.bytes) <= RowsEnd(0, a.rows, Local)
    /\ NameOf[a.name] = "StackMapTable" => SaysMap(a.bytes, a.map)

ExceptionsAt(m) == 8 + Len(m.code)
AttributesAt(m) == RowsEnd(ExceptionsAt(m), m.exceptions, Exceptional)
LengthOf(m) == m.places[Len(m.attributes) + 1]

SaysMethod(bytes, m) ==
    LET n == Len(m.attributes)
    IN  /\ m \in WrittenMethod
        /\ Len(m.code) \div U16 \in Unsigned16 /\ Says4(bytes, 4, Len(m.code)) /\ SaysAll(bytes, 8, m.code)
        /\ SaysRows(bytes, ExceptionsAt(m), m.exceptions, Exceptional)
        /\ n \in Unsigned16 /\ Says2(bytes, AttributesAt(m), n)
        /\ Len(m.places) = n + 1 /\ m.places[1] = AttributesAt(m) + 2
        /\ \A i \in 1..n :
               LET a == m.attributes[i]
                   at == m.places[i]
               IN  /\ Says2(bytes, at, a.name)
                   /\ Len(a.bytes) \div U16 \in Unsigned16 /\ Says4(bytes, at + 2, Len(a.bytes))
                   /\ SaysAll(bytes, at + 6, a.bytes)
                   /\ m.places[i + 1] = at + 6 + Len(a.bytes)
                   /\ SaysTable(a)
        /\ \A i \in 1..(n + 1) : m.places[i] <= LengthOf(m)
        /\ Len(bytes) <= LengthOf(m)

ASSUME CompiledAssumption == \A w \in Compiled : SaysMethod(w.bytes, w.method)

\* The first attribute of a name, if there is one.
FirstNamed(m, wanted) ==
    {i \in 1..Len(m.attributes) :
        /\ NameOf[m.attributes[i].name] = wanted
        /\ \A j \in 1..(i - 1) : NameOf[m.attributes[j].name] # wanted}
-----------------------------------------------------------------------------
(***************************************************************************)
(* Properties.                                                             *)
(***************************************************************************)
\* Under the heading of a table are these rows, in order.
Shows(table, rows) ==
    \E h \in DOMAIN printed :
        /\ Under(table) = h..(h + Len(rows))
        /\ \A i \in 1..Len(rows) : printed[h + i].row = rows[i]

\* A local lives where it was meant to, unless the end of its range is past
\* what two bytes hold.
ShowsLocals(rows) ==
    \E h \in DOMAIN printed :
        /\ Under("locals") = h..(h + Len(rows))
        /\ \A i \in 1..Len(rows) :
               LET shown == printed[h + i].row
                   row == rows[i]
               IN  /\ <<shown[1], shown[2], shown[3], shown[4]>> = <<row[5], row[3], row[4], row[1]>>
                   /\ row[1] + row[2] < U16 => shown[5] = row[1] + row[2]

ExceptionsAsMeant(m) ==
    IF m.exceptions = <<>> THEN Under("exceptions") = {} ELSE Shows("exceptions", m.exceptions)

\* The first table of locals is shown if it is whole, and no other.
LocalsAsMeant(m) ==
    \/ Under("locals") = {} /\ \A i \in FirstNamed(m, "LocalVariableTable") :
            Len(m.attributes[i].bytes) < RowsEnd(0, m.attributes[i].rows, Local)
    \/ \E i \in FirstNamed(m, "LocalVariableTable") :
            /\ Len(m.attributes[i].bytes) = RowsEnd(0, m.attributes[i].rows, Local)
            /\ ShowsLocals(m.attributes[i].rows)

\* The first stack map is shown as the frames it was written from, if it is
\* whole and all of them can be read: the reader stays in step with wrappers
\* of any frame.
FramesAsMeant(m) ==
    \/ Under("frames") = {} /\ \A i \in FirstNamed(m, "StackMapTable") :
            ~WholeMap(m.attributes[i].bytes, m.attributes[i].map)
    \/ \E i \in FirstNamed(m, "StackMapTable") :
            /\ WholeMap(m.attributes[i].bytes, m.attributes[i].map)
            /\ Shows("frames", MeantFrames(m.attributes[i].map))

\* A compiled method is refused if and only if it is cut short.  Of one that is
\* not, the listing shows the code, the exceptions, the locals and the frames
\* it was compiled with.
PrintedAsMeant ==
    stage \in {"done", "malformed"} =>
        \A w \in Compiled : w.bytes = contents =>
            /\ stage = "done" <=> Len(contents) = LengthOf(w.method)
            /\ stage = "done" =>
                   /\ parsed.bytes = w.method.code
                   /\ ExceptionsAsMeant(w.method)
                   /\ LocalsAsMeant(w.method)
                   /\ FramesAsMeant(w.method)
=============================================================================
