--------------------------- MODULE MCClassListing ---------------------------
(***************************************************************************)
(* Classes with no, one and two methods, one for each way a Code attribute *)
(* and its tables can be, under every flag alone and beside METHODS, under *)
(* all of them and all but METHODS; pools of two constants that may refer  *)
(* anywhere, and a pool as a compiler writes it, in some orders, with a    *)
(* long among the constants, as it is, with one reference bent to any      *)
(* slot, and with a string in the place of the class; and access flags, up *)
(* to two at once and all of them.                                         *)
(***************************************************************************)
EXTENDS ClassListing

Absent == [found |-> "absent", entries |-> 0]
NotRead == [found |-> "unreadable", entries |-> 0]
Entries(n) == [found |-> "read", entries |-> n]
NoLines == [found |-> "absent", declared |-> 0, present |-> 0]
LineTable(says, present) == [found |-> "read", declared |-> says, present |-> present]

Plain == [code |-> "read", opcodes |-> 2, remark |-> FALSE, exceptions |-> 0,
          locals |-> Absent, lines |-> NoLines, frames |-> Absent]

SomeMethods ==
    {[Plain EXCEPT !.code = "none"], [Plain EXCEPT !.code = "malformed"],
     [Plain EXCEPT !.opcodes = 0, !.lines = [NoLines EXCEPT !.found = "unreadable"]],
     [Plain EXCEPT !.opcodes = 1, !.remark = TRUE, !.exceptions = 2, !.locals = NotRead],
     [Plain EXCEPT !.locals = Entries(2), !.frames = Entries(1)],
     [Plain EXCEPT !.lines = LineTable(2, 2), !.frames = NotRead],
     [Plain EXCEPT !.lines = LineTable(2, 1), !.locals = Entries(1), !.frames = Entries(0),
                   !.exceptions = 1]}

-----------------------------------------------------------------------------
Make(tag, refs, text) == [tag |-> tag, refs |-> refs, text |-> text]
Slots(c) == IF c.tag \in {"Long", "Double"} THEN <<c, Unusable>> ELSE <<c>>
PoolOf(constants) == <<Unusable>> \o FlattenSeq([i \in DOMAIN constants |-> Slots(constants[i])])

Near == 0..3
Any1 ==
    {Make("Utf8", <<>>, t) : t \in {"a", "object"}} \cup {Make("Double", <<>>, "1.5"), Make("Integer", <<>>, "7")}
    \cup {Make(tag, <<n>>, "") : tag \in {"Class", "String", "MethodType"}, n \in Near}
    \cup {Make("MethodHandle", <<n>>, "REF_getField") : n \in Near}
    \cup {Make(tag, <<m, n>>, "") : tag \in {"NameAndType", "InterfaceMethodref"}, m, n \in Near}
    \cup {Make("Dynamic", <<0, n>>, "") : n \in Near}
Anything == {PoolOf(<<c, d>>) : c, d \in Any1}

\* As a compiler writes it: the refs are places in this list.
Meant == <<Make("Utf8", <<>>, "a"), Make("Utf8", <<>>, "b"), Make("Long", <<>>, "9"),
           Make("Class", <<1>>, ""), Make("NameAndType", <<2, 1>>, ""),
           Make("Methodref", <<4, 5>>, "")>>

\* In another order the slots are others: the place of each, counting two
\* for the long.
Orders == {p \in [1..6 -> 1..6] : Cardinality({p[i] : i \in 1..6}) = 6 /\ p[1] < p[2]}
SlotIn(p, k) ==
    LET i == CHOOSE j \in 1..6 : p[j] = k
    IN  i + (IF \E j \in 1..(i - 1) : p[j] = 3 THEN 1 ELSE 0)
Ordered(p) ==
    [i \in 1..6 |->
        [Meant[p[i]] EXCEPT !.refs = [n \in DOMAIN @ |-> SlotIn(p, @[n])]]]
Bent(constants) ==
    {[constants EXCEPT ![i].refs = [@ EXCEPT ![1] = n]] :
        i \in {j \in 1..6 : constants[j].refs # <<>>}, n \in 0..8}
    \cup {[constants EXCEPT ![i].refs = [@ EXCEPT ![2] = n]] :
        i \in {j \in 1..6 : Len(constants[j].refs) = 2}, n \in 0..8}
Misnamed(constants) ==
    [i \in 1..6 |-> IF constants[i].tag = "Class" THEN [constants[i] EXCEPT !.tag = "String"]
                    ELSE constants[i]]

SomeOrders == {q \in Orders : q[4] = 3 /\ q[1] = 1}

Compiled ==
    {PoolOf(Ordered(p)) : p \in {q \in Orders : q[1] \in {3, 6}}}
    \cup {PoolOf(c) : c \in UNION {Bent(Ordered(p)) \cup {Misnamed(Ordered(p))} : p \in SomeOrders}}
-----------------------------------------------------------------------------
Listed(c, view, pool, super, indices) ==
    [class |-> c, view |-> view, entries |-> pool, this |-> 1, super |-> super,
     interfaces |-> <<(super + 1) % 4, (super + 3) % 8>>, indices |-> indices,
     preview |-> FALSE, access |-> {}, fields |-> [i \in 1..c.fields |-> {}],
     methods |-> [i \in DOMAIN c.methods |-> {}]]

\* One for the control, one for the pool, one for the access flags.
Shapes ==
    {[pool |-> 2, fields |-> f, methods |-> ms] : f \in {0, 2}, ms \in BoundedSeq(SomeMethods, 2)}
Namer(pool) ==
    [pool |-> Len(pool) - Cardinality(Holes(pool)), fields |-> 0,
     methods |-> <<[Plain EXCEPT !.exceptions = 1, !.locals = Entries(1), !.frames = Entries(1)]>>]
Flagged == [pool |-> 0, fields |-> 1, methods |-> <<[Plain EXCEPT !.code = "none"]>>]

SomeViews ==
    {ViewFlags, ViewFlags \ {"METHODS"}}
    \cup {{f} : f \in ViewFlags} \cup {{"METHODS", f} : f \in ViewFlags}
Pair == PoolOf(<<Make("Utf8", <<>>, "a"), Make("Class", <<1>>, "")>>)
FewFlags == {Bits} \cup {{a, b} : a, b \in Bits} \cup {{}}

SomeFiles ==
    {Listed(c, v, Pair, 2, {}) : c \in Shapes, v \in SomeViews}
    \cup {Listed(Namer(p), ViewFlags, p, 2, 0..3) : p \in Anything}
    \cup {Listed(Namer(p), ViewFlags, p, s, {0, 1, 2, 3, 5, 8}) : p \in Compiled, s \in {0, 5}}
    \cup {[Listed(Flagged, {"METHODS"}, <<Unusable>>, 0, {})
               EXCEPT !.preview = p, !.access = s, !.fields = <<s>>, !.methods = <<s>>] :
               p \in BOOLEAN, s \in FewFlags}
SomeClasses == {f.class : f \in SomeFiles}
=============================================================================
