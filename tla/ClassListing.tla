----------------------------- MODULE ClassListing ----------------------------
(***************************************************************************)
(* What the lines of EmitClass say: the lookups of the pool (get, iter,    *)
(* utf8, class_name and name_and_type of bk-jvm/src/pool.rs), the section  *)
(* emit_constant_pool prints of all of it, the places that name one of the *)
(* constants (declarations, the operand of an instruction, the type an     *)
(* exception table catches, a local, the types of a stack map) and the     *)
(* flags of the class and of its members (emit.rs).                        *)
(*                                                                         *)
(* The pool has been read, so its holes are where ConstantPool puts them;  *)
(* what the constants refer to may be anything, themselves included.       *)
(* A text is a model value; the punctuation between texts is left out.     *)
(***************************************************************************)
EXTENDS EmitClass, Flags

CONSTANTS
    Files,      \* class files that were read: see File
    Object      \* the text java/lang/Object

\* The refs of a constant are the numbers of its payload that are slots; the
\* text is that of Utf8, the value of a number or the kind of a handle.
Numbers == {"Integer", "Float", "Long", "Double"}
ByName == {"Class", "String", "Module", "Package"}
Members == {"Fieldref", "Methodref", "InterfaceMethodref"}
Dynamics == {"Dynamic", "InvokeDynamic"}

Unusable == [tag |-> "", refs |-> <<>>, text |-> ""]
NoConstant == [tag |-> "none", refs |-> <<>>, text |-> ""]

Tags ==
    Numbers \cup ByName \cup Members \cup Dynamics
    \cup {"Utf8", "NameAndType", "MethodType", "MethodHandle"}

Constant == [tag : Tags, refs : Seq(Nat), text : STRING] \cup {Unusable}

\* A constant has the refs of its tag.
Formed(c) ==
    /\ c.tag \in ByName \cup {"MethodType"} => Len(c.refs) = 1
    /\ c.tag \in Members \cup Dynamics \cup {"NameAndType"} => Len(c.refs) = 2

\* The class EmitClass lists and the flags it is listed with; the pool, slot n
\* of which is the item n + 1; the slots it names and the access flags.
File ==
    [class : Class, view : FlagSets, entries : Seq(Constant), this : Nat, super : Nat,
     interfaces : Seq(Nat), indices : SUBSET Nat, preview : BOOLEAN,
     access : SUBSET Bits, fields : Seq(SUBSET Bits), methods : Seq(SUBSET Bits)]

Holes(pool) == {i \in DOMAIN pool : pool[i] = Unusable}

ASSUME ClassListingAssumption ==
    \A f \in Files :
        /\ f \in File /\ f.class \in Classes
        /\ \A i \in DOMAIN f.entries : Formed(f.entries[i])
        /\ Holes(f.entries) = {1} \cup {i \in 2..Len(f.entries) :
                                          f.entries[i - 1].tag \in {"Long", "Double"}}
        /\ f.class.pool = Len(f.entries) - Cardinality(Holes(f.entries))
        /\ Len(f.fields) = f.class.fields /\ Len(f.methods) = Len(f.class.methods)

VARIABLES
    file,       \* the class file
    at,         \* the slot the iterator is at
    section,    \* the lines of the section: [index, tag, refs, words]
    declared,   \* the last lines that declare: [context, set, names, words]
    said        \* what the last lines say of constants: [site, index, refs, words]

listingVars == <<vars, file, at, section, declared, said>>
-----------------------------------------------------------------------------
\* ConstantPool::get; slot zero and holes are there to be found.
Get(n) == IF n < Len(file.entries) THEN file.entries[n + 1] ELSE NoConstant

\* A text that may not be there: a sequence of one or none.
Utf8(n) == IF Get(n).tag = "Utf8" THEN <<Get(n).text>> ELSE <<>>

\* Mutant: what any constant with a name is called.
ClassNameOfAny(n) == IF Get(n).tag \in ByName THEN Utf8(Get(n).refs[1]) ELSE <<>>

ClassName(n) == IF Get(n).tag = "Class" THEN Utf8(Get(n).refs[1]) ELSE <<>>

\* Both texts, or neither.
NameAndType(n) ==
    LET name == Utf8(Get(n).refs[1])
        descriptor == Utf8(Get(n).refs[2])
    IN  IF Get(n).tag = "NameAndType" /\ name # <<>> /\ descriptor # <<>>
        THEN name \o descriptor ELSE <<>>

\* unwrap_or("?").
OrUnknown(text) == IF text = <<>> THEN <<"?">> ELSE text

\* The class of a member, its name and its descriptor.
Member(c) == OrUnknown(ClassName(c.refs[1])) \o NameAndType(c.refs[2])
-----------------------------------------------------------------------------
\* The words of a line of emit_constant_pool; a reference that finds no text
\* has none.
Words(c) ==
    CASE c.tag \in Numbers \cup {"Utf8", "MethodHandle"} -> <<c.text>>
      [] c.tag \in ByName -> Utf8(c.refs[1])
      [] c.tag \in Members -> Member(c)
      [] c.tag = "NameAndType" -> OrUnknown(Utf8(c.refs[1])) \o OrUnknown(Utf8(c.refs[2]))
      [] c.tag = "MethodType" -> OrUnknown(Utf8(c.refs[1]))
      [] c.tag \in Dynamics -> <<>>

\* The numbers of a line: a method type shows its text alone.
References(c) == IF c.tag = "MethodType" THEN <<>> ELSE c.refs

\* Mutant: the operand of a member is looked up as the constant it is.
OperandWordsOfClass(c) ==
    CASE c.tag \in Numbers -> <<c.text>>
      [] c.tag \in {"Class", "String"} -> OrUnknown(Utf8(c.refs[1]))
      [] c.tag \in Members -> OrUnknown(Utf8(c.refs[1])) \o NameAndType(c.refs[2])
      [] c.tag \in Dynamics -> NameAndType(c.refs[2])
      [] OTHER -> <<c.tag>>

\* The comment of emit_pool_operand; of what has no text of its own, the tag.
OperandWords(c) ==
    CASE c.tag \in Numbers -> <<c.text>>
      [] c.tag \in {"Class", "String"} -> OrUnknown(Utf8(c.refs[1]))
      [] c.tag \in Members -> Member(c)
      [] c.tag \in Dynamics -> NameAndType(c.refs[2])
      [] OTHER -> <<c.tag>>

Mention(site, n, refs, words) == [site |-> site, index |-> n, refs |-> refs, words |-> words]

\* What a site prints of slot n.
This(n) ==
    Mention("this", n, <<>>, IF ClassName(n) = <<>> THEN <<"<unnamed>">> ELSE ClassName(n))
Super(n) ==
    IF n = 0 \/ ClassName(n) \in {<<>>, <<Object>>} THEN <<>>
    ELSE <<Mention("super", n, <<>>, ClassName(n))>>
Interface(n) == Mention("interface", n, <<>>, OrUnknown(ClassName(n)))
Operand(n) ==
    Mention("operand", n, <<n>>, IF Get(n) = NoConstant THEN <<>> ELSE OperandWords(Get(n)))
Text(n) == Mention("text", n, <<>>, OrUnknown(Utf8(n)))
Caught(n) ==
    Mention("caught", n, <<>>, IF n = 0 THEN <<"any">> ELSE OrUnknown(ClassName(n)))

\* emit_verification_type, and the fields of a frame that may not be read
\* yet: the number in place of a name that is not found.
OrNumber(site, n, name) ==
    Mention(site, n, IF name = <<>> THEN <<n>> ELSE <<>>, name)
Verified(n) == OrNumber("verified", n, ClassName(n))
Unset(n) ==
    OrNumber("unset", n, IF NameAndType(n) = <<>> THEN <<>> ELSE <<NameAndType(n)[1]>>)

\* One of the places that may be in these lines, or none.
Says(mentions) == said' \in {<<m>> : m \in mentions} \cup {<<>>}

\* The flags and the keywords of a declaration.
Declaration(context, set) ==
    [context |-> context, set |-> set, names |-> Decode(context, set, file.preview),
     words |-> DeclarationKeywords(context, set)]
Declares(context, sets) ==
    declared' = [i \in DOMAIN sets |-> Declaration(context, sets[i])]
-----------------------------------------------------------------------------
ListingInit ==
    /\ file \in Files
    /\ class = file.class
    /\ flags = file.view
    /\ Init
    /\ at = 0
    /\ section = <<>>
    /\ declared = <<>>
    /\ said = <<>>

\* emit_header: flags, keywords and names.
ListHeader ==
    /\ Header
    /\ Declares("Class", <<file.access>>)
    /\ said' = <<This(file.this)>> \o Super(file.super)
               \o [i \in DOMAIN file.interfaces |-> Interface(file.interfaces[i])]
    /\ UNCHANGED <<file, at, section>>

\* The number of a line.
Numbered(n) == n

\* ConstantPool::iter: the slots behind the one it is at that are no holes.
Coming == {n \in (at + 1)..(Len(file.entries) - 1) : Get(n) # Unusable}

\* One turn of the loop of emit_constant_pool.
ListConstant ==
    /\ stage = "pool"
    /\ \E n \in Coming :
           /\ \A m \in Coming : n <= m
           /\ at' = n
           /\ section' = Append(section, [index |-> Numbered(n), tag |-> Get(n).tag,
                                          refs |-> References(Get(n)), words |-> Words(Get(n))])
    /\ UNCHANGED <<vars, file, declared, said>>

EndSection ==
    /\ Coming = {}
    /\ Pool
    /\ UNCHANGED <<file, at, section, declared, said>>

ListFields ==
    /\ Fields
    /\ Declares("Field", file.fields)
    /\ Says({Text(n) : n \in IF class.fields = 0 THEN {} ELSE file.indices})
    /\ UNCHANGED <<file, at, section>>

ListMethod ==
    /\ Method
    /\ Declares("Method", <<file.methods[method']>>)
    /\ Says({Text(n) : n \in file.indices})
    /\ UNCHANGED <<file, at, section>>

\* The parts of a Code attribute that name constants.
ListInstructions == Instructions /\ Says({Operand(n) : n \in file.indices})
ListExceptions ==
    /\ Exceptions
    /\ Says({Caught(n) : n \in IF Current.exceptions = 0 THEN {} ELSE file.indices})
ListLocals ==
    /\ Locals
    /\ Says({Text(n) : n \in IF Shown("LOCALS", Current.locals) THEN file.indices ELSE {}})
ListFrames ==
    /\ StackMap
    /\ Says(UNION {{Verified(n), Unset(n)} :
                     n \in IF Shown("STACK_MAP", Current.frames) THEN file.indices ELSE {}})

ListRest == (Code \/ LineNumbers \/ Close) /\ said' = <<>>

ListMethodBody ==
    /\ ListInstructions \/ ListExceptions \/ ListLocals \/ ListFrames \/ ListRest
    /\ UNCHANGED <<file, at, section, declared>>

ListingNext ==
    \/ ListHeader \/ ListConstant \/ EndSection
    \/ ListFields \/ ListMethod \/ ListMethodBody

ListingSpec == ListingInit /\ [][ListingNext]_listingVars
-----------------------------------------------------------------------------
(***************************************************************************)
(* Properties.  Those of the pool are about what a reader of the listing   *)
(* finds, who has the lines of the section and not the pool.               *)
(***************************************************************************)
SectionIsPrinted == stage \notin {"header", "pool"} /\ "CONSTANT_POOL" \in flags

LinesAt(n) == {i \in DOMAIN section : section[i].index = n}
LineAt(n) == section[CHOOSE i \in LinesAt(n) : TRUE]
TagAt(n) == IF LinesAt(n) = {} THEN "none" ELSE LineAt(n).tag

\* The text printed for a slot, and for what it refers to.
TextAt(n) == IF TagAt(n) = "Utf8" THEN LineAt(n).words ELSE <<>>
ClassAt(n) == IF TagAt(n) = "Class" THEN TextAt(LineAt(n).refs[1]) ELSE <<>>
PairAt(n) ==
    IF TagAt(n) # "NameAndType" THEN <<>>
    ELSE LET texts == <<TextAt(LineAt(n).refs[1]), TextAt(LineAt(n).refs[2])>>
         IN  IF <<>> \in {texts[1], texts[2]} THEN <<>> ELSE texts[1] \o texts[2]

\* A slot is listed once, in ascending order, under the number everything
\* else names it by, and every number of the section leads where its comment
\* says: no slot that can be named is missing, the texts of a comment are those
\* printed in the lines its numbers name, and a "?" stands only where there is
\* no such line; behind a long or a double, whose second slot has no line, too.
CommentsSayWhereNumbersLead ==
    SectionIsPrinted =>
        /\ \A n \in 0..Len(file.entries) :
               IF Get(n) \in {Unusable, NoConstant} THEN LinesAt(n) = {}
               ELSE \E i \in DOMAIN section : LinesAt(n) = {i}
        /\ \A i \in DOMAIN section :
            LET l == section[i]
            IN  /\ i > 1 => section[i - 1].index < l.index
                /\ l.tag \in ByName => l.words = TextAt(l.refs[1])
                /\ l.tag \in Members =>
                       l.words = OrUnknown(ClassAt(l.refs[1])) \o PairAt(l.refs[2])
                /\ l.tag = "NameAndType" =>
                       l.words = OrUnknown(TextAt(l.refs[1])) \o OrUnknown(TextAt(l.refs[2]))

\* A name is the same wherever it is printed: classes, members and locals are
\* called what their lines in the section call them, or have a mark for a name
\* not found; the comment of an operand is that of its line, wherever the line
\* has one.
SaidAsListed ==
    SectionIsPrinted =>
        \A i \in DOMAIN said :
            LET m == said[i]
            IN  /\ m.site \in {"super", "interface", "caught", "verified"} /\ m.index # 0 =>
                       m.words \in {ClassAt(m.index), OrUnknown(ClassAt(m.index))}
                /\ m.site = "this" => m.words \in {ClassAt(m.index), <<"<unnamed>">>}
                /\ m.site = "text" => m.words = OrUnknown(TextAt(m.index))
                /\ m.site = "unset" =>
                       m.words = IF PairAt(m.index) = <<>> THEN <<>> ELSE <<PairAt(m.index)[1]>>
                /\ m.site = "operand" /\ TagAt(m.index) \in Numbers \cup Members \cup {"Class", "String"} =>
                       m.words = OrUnknown(LineAt(m.index).words)
                /\ m.site = "operand" /\ TagAt(m.index) \in Dynamics =>
                       m.words = PairAt(LineAt(m.index).refs[2])

\* What a keyword of a declaration is called among the names.
FlagOf == [public |-> "PUBLIC", private |-> "PRIVATE", protected |-> "PROTECTED",
           static |-> "STATIC", final |-> "FINAL", synchronized |-> "SYNCHRONIZED",
           volatile |-> "VOLATILE", transient |-> "TRANSIENT", native |-> "NATIVE",
           abstract |-> "ABSTRACT", strictfp |-> "STRICT"]

\* The two lists of a declaration say which bits are set and never disagree,
\* whatever the bits mean elsewhere: reading the names back gives every bit
\* the table of the context knows, and one it does not know leaves its mark; a
\* keyword has the flag of its name beside it, and a flag that has a keyword is
\* never without it.  Only "abstract" is tested without a look at the context,
\* so that a field says it of a bit its table does not know.
DeclarationsSayTheirFlags ==
    \A i \in DOMAIN declared :
        LET d == declared[i]
            known == Known(d.context)
            says == ToSet(d.names)
        IN  /\ {b \in known : NameOf(d.context, file.preview, b) \in says} = d.set \cap known
            /\ d.set \subseteq known <=> "UNKNOWN" \notin says
            /\ \A w \in ToSet(d.words) :
                   \/ FlagOf[w] \in says
                   \/ w = "abstract" /\ d.context = "Field" /\ "UNKNOWN" \in says
            /\ \A w \in DOMAIN FlagOf : FlagOf[w] \in says => w \in ToSet(d.words)
=============================================================================
