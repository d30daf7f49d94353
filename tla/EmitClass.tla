----------------------------- MODULE EmitClass -----------------------------
(***************************************************************************)
(* The listing of one class: emit_class (bk-jvm/src/emit.rs), with the     *)
(* parts of a Code attribute it reads (bk-jvm/src/class.rs).               *)
(*                                                                         *)
(* The class file has parsed; each Code attribute is parsed only when its  *)
(* method is reached, and the tables inside it only when they are printed, *)
(* so a listing can fail half way.  A line of the listing is abstracted to *)
(* the section it belongs to and the method it is about; what the walk of  *)
(* Instructions prints for a method is a number of instructions and        *)
(* perhaps a remark.                                                       *)
(***************************************************************************)
EXTENDS FiniteSets, Totals

CONSTANTS
    Classes,        \* the classes listed: see Class
    FlagSets,       \* what ViewOptions::flags can hold
    CounterSize     \* the number of values of TOTAL_OPCODES, which wraps

\* A method: what its Code attribute holds.  "none" is an abstract or native
\* method, "malformed" an attribute that does not parse.  A table is "absent",
\* "unreadable" or "read", with its entries; of the line numbers, the count
\* declared and the entries the bytes are enough for.
Found == {"absent", "unreadable", "read"}
Tables ==
    [code : {"none", "malformed", "read"},
     opcodes : Nat, remark : BOOLEAN,
     exceptions : Nat,
     locals : [found : Found, entries : Nat],
     lines : [found : Found, declared : Nat, present : Nat],
     frames : [found : Found, entries : Nat]]
Class == [pool : Nat, fields : Nat, methods : Seq(Tables)]

ViewFlags == {"METHODS", "CONSTANT_POOL", "LOCALS", "STACK_MAP", "LINE_NUMBERS", "ATTRIBUTES"}

ASSUME EmitAssumption ==
    /\ Classes \subseteq Class
    /\ FlagSets \subseteq SUBSET ViewFlags
    /\ CounterSize \in Nat \ {0}

VARIABLES
    class,      \* the class listed
    flags,      \* options.flags
    stage,      \* what emit_class or emit_method does next
    method,     \* the method under the loop
    stats,      \* Stats
    listing,    \* the lines in the builder: [section, method]
    counter     \* TOTAL_OPCODES

vars == <<class, flags, stage, method, stats, listing, counter>>
-----------------------------------------------------------------------------
\* n lines of a section.
Lines(section, m, n) == [i \in 1..n |-> [section |-> section, method |-> m]]

Blank == Lines("blank", 0, 1)

\* A heading and the lines under it.
Headed(section, m, n) == Lines(section, m, 1 + n)

Current == class.methods[method]

\* A table asked for, found and readable.
Shown(flag, table) == flag \in flags /\ table.found = "read"

OpcodesOf(s) == SumOf([i \in DOMAIN s |-> s[i].opcodes])

Smaller(a, b) == IF a < b THEN a ELSE b

Goto(from, to) == stage = from /\ stage' = to

Out(more) == listing' = listing \o more
-----------------------------------------------------------------------------
\* Stats::default() with one class.
Init ==
    /\ class \in Classes
    /\ flags \in FlagSets
    /\ stage = "header"
    /\ method = 0
    /\ stats = [classes |-> 1, fields |-> 0, methods |-> 0, opcodes |-> 0, perMethod |-> <<>>]
    /\ listing = <<>>
    /\ counter = 0

\* emit_header: version, flags, declaration.
Header ==
    /\ Goto("header", IF "CONSTANT_POOL" \in flags THEN "pool" ELSE "fields")
    /\ Out(Lines("header", 0, 3))
    /\ UNCHANGED <<class, flags, method, stats, counter>>

\* emit_constant_pool: a heading, a line for each constant, a blank one.
Pool ==
    /\ Goto("pool", "fields")
    /\ Out(Headed("pool", 0, class.pool) \o Blank)
    /\ UNCHANGED <<class, flags, method, stats, counter>>

\* emit_fields: a line each, and a blank one behind the last.
Fields ==
    /\ Goto("fields", "method")
    /\ Out(Lines("field", 0, class.fields) \o (IF class.fields = 0 THEN <<>> ELSE Blank))
    /\ stats' = [stats EXCEPT !.fields = class.fields]
    /\ UNCHANGED <<class, flags, method, counter>>

\* The declaration of the next method, which counts before its Code parses.
Method ==
    /\ stage = "method"
    /\ method < Len(class.methods)
    /\ method' = method + 1
    /\ stats' = [stats EXCEPT !.methods = @ + 1]
    /\ IF class.methods[method + 1].code = "none"
       THEN stage' = "method" /\ Out(Lines("method", method + 1, 1) \o Blank)
       ELSE stage' = "code" /\ Out(Lines("method", method + 1, 1))
    /\ UNCHANGED <<class, flags, counter>>

\* Code::parse, and the heading.  A malformed attribute ends emit_class with
\* an error, behind the lines it has printed.
Code ==
    /\ stage = "code"
    /\ IF Current.code = "malformed"
       THEN Goto("code", "failed") /\ UNCHANGED listing
       ELSE Goto("code", "instructions") /\ Out(Lines("code", method, 1))
    /\ UNCHANGED <<class, flags, method, stats, counter>>

\* Mutant: what was counted so far, not what this method counted.
CountedTotal == stats.opcodes + Current.opcodes

\* The number emit_instructions returns.
Counted == Current.opcodes

\* What emit_instructions prints.
Walked ==
    Lines("instruction", method, Current.opcodes)
    \o Lines("remark", method, IF Current.remark THEN 1 ELSE 0)

\* emit_instructions; the count goes into the total and the method's entry.
Instructions ==
    /\ Goto("instructions", "exceptions")
    /\ Out(Walked)
    /\ stats' = [stats EXCEPT !.opcodes = @ + Counted,
                              !.perMethod = Append(@, [method |-> method, opcodes |-> Counted])]
    /\ UNCHANGED <<class, flags, method, counter>>

\* emit_exception_table, when there are entries.
Exceptions ==
    /\ Goto("exceptions", "locals")
    /\ Out(IF Current.exceptions = 0 THEN <<>>
             ELSE Headed("exceptions", method, Current.exceptions))
    /\ UNCHANGED <<class, flags, method, stats, counter>>

\* Mutant: the heading is printed before the table is read.
LocalsPrintedEarly ==
    IF Current.locals.found = "unreadable" /\ "LOCALS" \in flags THEN Lines("locals", method, 1)
    ELSE IF Shown("LOCALS", Current.locals)
    THEN Headed("locals", method, Current.locals.entries) ELSE <<>>

\* A table of locals that cannot be read is passed over.
LocalsPrinted ==
    IF Shown("LOCALS", Current.locals)
    THEN Headed("locals", method, Current.locals.entries) ELSE <<>>

\* emit_locals.
Locals ==
    /\ Goto("locals", "lines")
    /\ Out(LocalsPrinted)
    /\ UNCHANGED <<class, flags, method, stats, counter>>

\* emit_line_numbers reads as it prints: a table that ends early is cut.
LineNumbers ==
    /\ Goto("lines", "frames")
    /\ Out(IF Shown("LINE_NUMBERS", Current.lines)
           THEN Headed("lines", method, Smaller(Current.lines.declared, Current.lines.present))
           ELSE <<>>)
    /\ UNCHANGED <<class, flags, method, stats, counter>>

\* The remark emit_stack_map prints in place of a table it cannot read.
Unreadable ==
    Lines("frames", method,
          IF "STACK_MAP" \in flags /\ Current.frames.found = "unreadable" THEN 1 ELSE 0)

\* emit_stack_map, and the blank line behind the method.
StackMap ==
    /\ Goto("frames", "method")
    /\ Out((IF Shown("STACK_MAP", Current.frames)
            THEN Headed("frames", method, Current.frames.entries) ELSE Unreadable) \o Blank)
    /\ UNCHANGED <<class, flags, method, stats, counter>>

\* record_opcodes.
RecordOpcodes(n) == counter' = (counter + n) % CounterSize

\* The closing brace, and the class is counted.
Close ==
    /\ method = Len(class.methods)
    /\ Goto("method", "done")
    /\ Out(Lines("close", 0, 1))
    /\ RecordOpcodes(stats.opcodes)
    /\ UNCHANGED <<class, flags, method, stats>>

Next ==
    \/ Header \/ Pool \/ Fields
    \/ Method \/ Code \/ Instructions
    \/ Exceptions \/ Locals \/ LineNumbers \/ StackMap
    \/ Close

Spec == Init /\ [][Next]_vars
-----------------------------------------------------------------------------
(***************************************************************************)
(* Properties.                                                             *)
(***************************************************************************)
\* How many lines of a section were printed for a method.
Printed(section, m) ==
    Cardinality({i \in 1..Len(listing) : listing[i] = [section |-> section, method |-> m]})

\* The totals are those of the listing: each method has as many opcodes in
\* per_method as lines of instructions, once and in order, and the total is
\* their sum; as many methods are counted as were declared.
TotalsMatchListing ==
    /\ stats.opcodes = OpcodesOf(stats.perMethod)
    /\ stats.methods = Cardinality({i \in 1..Len(listing) : listing[i].section = "method"})
    /\ \A i \in 1..Len(stats.perMethod) :
           /\ stats.perMethod[i].opcodes = Printed("instruction", stats.perMethod[i].method)
           /\ i > 1 => stats.perMethod[i - 1].method < stats.perMethod[i].method

\* The process counts a class once, when the whole of it was listed: one that
\* failed half way leaves the counter alone, whatever was printed of it.
CountedOnceWhenWhole ==
    counter = IF stage = "done" THEN stats.opcodes % CounterSize ELSE 0

\* What the listing of a method holds.  Whatever the flags, METHODS among them
\* or not, its declaration, its code and its exceptions: emit.rs consults
\* neither METHODS, by which view.rs:52 selects the declarations and their code,
\* nor ATTRIBUTES.  Locals and stack map if their flag is set, of the tables the
\* method has, each in full.
Expected(section, m) ==
    LET t == class.methods[m]
        asked(flag, n) == IF flag \in flags THEN n ELSE 0
        code(n) == IF t.code = "read" THEN n ELSE 0
        read(table, n, otherwise) ==
            CASE table.found = "read" -> n
              [] table.found = "unreadable" -> otherwise
              [] table.found = "absent" -> 0
    IN  CASE section = "method"      -> 1
          [] section = "code"        -> code(1)
          [] section = "instruction" -> code(t.opcodes)
          [] section = "exceptions"  -> code(IF t.exceptions > 0 THEN 1 + t.exceptions ELSE 0)
          [] section = "locals"      ->
                 code(asked("LOCALS", read(t.locals, 1 + t.locals.entries, 0)))
          [] section = "frames"      ->
                 code(asked("STACK_MAP", read(t.frames, 1 + t.frames.entries, 1)))

\* A class listed to its end has, under every set of flags, with METHODS or not,
\* all its fields and the declaration, code and exceptions of every method; the
\* constants, locals and stack maps are added by CONSTANT_POOL, LOCALS and
\* STACK_MAP alone, by each its own and no other.  Of every table that can be
\* read the listing has all; a stack map that cannot be read is said to be
\* unreadable.  Line numbers are left out: their table is cut, without a
\* remark, where its bytes end.
ListingIsComplete ==
    stage = "done" =>
        /\ \A m \in 1..Len(class.methods) :
               \A section \in {"method", "code", "instruction", "exceptions", "locals", "frames"} :
                   Printed(section, m) = Expected(section, m)
        /\ Printed("pool", 0) = IF "CONSTANT_POOL" \in flags THEN 1 + class.pool ELSE 0
        /\ Printed("field", 0) = class.fields

\* The numbers of the statistics and of the process are those of the listing.
CountsAreThoseOfTheListing == TotalsMatchListing /\ CountedOnceWhenWhole
=============================================================================
