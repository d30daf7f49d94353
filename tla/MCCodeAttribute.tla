--------------------------- MODULE MCCodeAttribute ---------------------------
(***************************************************************************)
(* Code attributes written from what they mean, whole and cut short at     *)
(* every byte, with tables that are whole, cut within, repeated, under     *)
(* another index with the same text, or under another name; and with stack *)
(* maps of up to three frames, every kind of frame among them, whole and   *)
(* cut short at every byte.                                                *)
(***************************************************************************)
EXTENDS CompiledCode, SequencesExt

B2(n) == <<n \div 256, n % 256>>
B4(n) == <<0, 0>> \o B2(n)

\* A frame as a compiler means it.
Make(delta, kind, type, typed) ==
    [delta |-> delta, kind |-> kind, wrapped |-> FALSE, unset |-> 0, type |-> type, lists |-> typed]

PlainFrames ==
    {Make(5, "same", 5, <<>>),
     Make(0, "same", 251, <<>>),
     Make(2, "same_locals_1_stack_item", 66, <<<<7>>>>),
     Make(300, "same_locals_1_stack_item", 247, <<<<1>>>>),
     Make(7, "chop", 249, <<>>),
     Make(4, "append", 253, <<<<1, 8>>>>),
     Make(65535, "full", 255, <<<<6>>, <<1, 4>>>>)}

Wrap(inner, fields) == [inner EXCEPT !.wrapped = TRUE, !.unset = fields]

GoodFrames == PlainFrames \cup {Wrap(f, 0) : f \in PlainFrames} \cup {Wrap(f, 2) : f \in PlainFrames}

\* Types no compiler means anything by, of frames and within one.
BadFrames ==
    {Make(0, "none", 128, <<>>), Make(1, "none", 245, <<>>),
     Wrap(Make(5, "none", 246, <<>>), 0), Make(0, "same_locals_1_stack_item", 64, <<<<9>>>>)}

Tables == {<<>>} \cup {<<f>> : f \in GoodFrames} \cup {<<f, g>> : f, g \in GoodFrames}
          \cup {<<f, g, h>> : f \in PlainFrames, g \in PlainFrames, h \in PlainFrames}

\* A compiler: each type behind the one before it, each list, and each frame.
PutType(l, tag) ==
    LET bytes == l.bytes \o <<tag>> \o IF TypeWidth(tag) = 3 THEN <<0, 9>> ELSE <<>>
    IN  [tags |-> Append(l.tags, tag), places |-> Append(l.places, Len(bytes)), bytes |-> bytes]

PutList(f, tags) ==
    LET before == f.bytes \o IF f.kind = "full" THEN B2(Len(tags)) ELSE <<>>
        l == FoldLeft(PutType, [tags |-> <<>>, places |-> <<Len(before)>>, bytes |-> before], tags)
    IN  [f EXCEPT !.bytes = l.bytes,
                       !.lists = Append(@, [tags |-> l.tags, places |-> l.places])]

PutFrame(map, f) ==
    LET wrapper == IF f.wrapped THEN <<246>> \o B2(f.unset) \o [i \in 1..(2 * f.unset) |-> 17] ELSE <<>>
        head == map.bytes \o wrapper \o <<f.type>> \o IF f.type < 128 THEN <<>> ELSE B2(f.delta)
        end == FoldLeft(PutList, [kind |-> f.kind, lists |-> <<>>, bytes |-> head], f.lists)
        offset == IF map.frames = <<>> THEN f.delta ELSE Last(map.frames).offset + f.delta + 1
    IN  [bytes |-> end.bytes,
         frames |-> Append(map.frames,
             [offset |-> offset, kind |-> f.kind, wrapped |-> f.wrapped, unset |-> f.unset,
              type |-> f.type, lists |-> end.lists, from |-> Len(map.bytes), to |-> Len(end.bytes)])]

\* The bytes of a stack map, and the frames they say.
MapOf(table) == FoldLeft(PutFrame, [bytes |-> <<0, Len(table)>>, frames |-> <<>>], table)
CutMap(map, n) == [map EXCEPT !.bytes = SubSeq(@, 1, n)]
CutsOf(map) == {CutMap(map, n) : n \in 0..(Len(map.bytes) - 1)}

SomeMaps ==
    {MapOf(t) : t \in Tables} \cup {MapOf(<<f>>) : f \in BadFrames}
    \cup {MapOf(<<f, g>>) : f \in GoodFrames, g \in BadFrames}
    \cup UNION {CutsOf(MapOf(<<f>>)) : f \in GoodFrames \cup BadFrames}
-----------------------------------------------------------------------------
Names == [n \in 0..(U16 - 1) |->
             CASE n \in {3, 5} -> "LocalVariableTable" [] n = 4 -> "LineNumberTable"
               [] n \in {7, 8} -> "StackMapTable" [] OTHER -> "other"]

\* A table of these rows, with so many bytes cut off its end.
Table(rows, cut) ==
    LET all == B2(Len(rows)) \o FlattenSeq([i \in DOMAIN rows |->
                                   FlattenSeq([n \in DOMAIN rows[i] |-> B2(rows[i][n])])])
    IN  SubSeq(all, 1, Len(all) - cut)

Attribute(name, rows, cut) ==
    [name |-> name, bytes |-> Table(rows, cut), rows |-> IF name \in {3, 5} THEN rows ELSE <<>>, map |-> <<>>]
Map(map) == [name |-> 7, bytes |-> map.bytes, rows |-> <<>>, map |-> map.frames]

PutAttribute(w, a) ==
    LET bytes == w.bytes \o B2(a.name) \o B4(Len(a.bytes)) \o a.bytes
    IN  [bytes |-> bytes, places |-> Append(w.places, Len(bytes))]

\* A method whole, and without its last bytes.
Compile(code, exceptions, attributes) ==
    LET head == <<0, 4, 1, 2>> \o B4(Len(code)) \o code \o Table(exceptions, 0) \o B2(Len(attributes))
        end == FoldLeft(PutAttribute, [bytes |-> head, places |-> <<Len(head)>>], attributes)
    IN  [bytes |-> end.bytes,
         method |-> [code |-> code, exceptions |-> exceptions, attributes |-> attributes,
                     places |-> end.places]]
WithoutLast(w, n) == [w EXCEPT !.bytes = SubSeq(@, 1, Len(@) - n)]

Locals == <<<<0, 300, 10, 11, 1>>, <<2, 3, 12, 13, 0>>>>
Lines == <<<<0, 10>>, <<3, 300>>>>
SomeExceptions == <<<<0, 1, 2, 0>>, <<0, 300, 3, 9>>>>

SomeAttributes ==
    {Attribute(3, Locals, c) : c \in {0, 1, 10, 21}} \cup {Attribute(3, <<<<65535, 2, 1, 1, 1>>>>, 0)}
    \cup {Attribute(5, <<<<1, 1, 10, 11, 2>>>>, 0)}
    \cup {Attribute(4, Lines, c) : c \in {0, 3, 4, 9}} \cup {Attribute(4, <<<<7, 7>>>>, 0)}
    \cup {Attribute(6, <<<<1>>>>, 1)}

Methods(someAttributes) ==
    {Compile(b, e, a) : b \in {<<>>, <<3, 177>>}, e \in {<<>>, SomeExceptions}, a \in someAttributes}

\* A stack map alone, and one before and behind another table, itself included.
FewMaps ==
    {Map(MapOf(<<f>>)) : f \in BadFrames \cup {Make(5, "same", 5, <<>>)}}
    \cup {[Map(MapOf(<<Make(9, "same", 9, <<>>)>>)) EXCEPT !.name = 8]}
Mapped ==
    {Compile(<<3, 177>>, <<>>, a) :
        a \in {<<Map(map)>> : map \in SomeMaps}
              \cup UNION {{<<x, b>>, <<b, x>>} : x \in SomeAttributes \cup FewMaps, b \in FewMaps}}

Single == {<<x>> : x \in SomeAttributes}
SomeCompiled ==
    Methods({<<>>} \cup Single \cup {<<x, y>> : x, y \in SomeAttributes}) \cup Mapped
    \cup {WithoutLast(w, n) : w \in {u \in Methods({<<>>} \cup Single) : u.method.exceptions # <<>>}, n \in 1..17}
    \cup UNION {{WithoutLast(w, n) : n \in 1..Len(w.bytes)} : w \in Methods({<<>>})}

SomeContents == {w.bytes : w \in SomeCompiled}
SomeTables == {map.bytes : map \in SomeMaps}
=============================================================================
