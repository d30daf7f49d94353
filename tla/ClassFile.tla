------------------------------ MODULE ClassFile ------------------------------
(***************************************************************************)
(* ClassFile::parse (bk-jvm/src/class.rs) on any bytes whatever: the       *)
(* header, the constant pool of module ConstantPool, then the lists of     *)
(* interfaces, fields, methods and attributes, each after its count.       *)
(*                                                                         *)
(* Attributes are kept as the slice of the input they occupy, so what      *)
(* later readers of an attribute see is what is recorded of it here.       *)
(***************************************************************************)
EXTENDS ConstantPool, Totals

CONSTANTS
    Counts,     \* what a count in the file can be
    Lengths     \* what the length of an attribute can be

ASSUME ClassFileAssumption == Counts \subseteq Nat /\ Lengths \subseteq Nat

VARIABLES
    parse,      \* "reading", "ok", "malformed" or "unsupported"
    section,    \* the part being read
    left,       \* items of the list still to be read
    attributesLeft, \* attributes of the member, or of the class, still to be read
    poolEnd,    \* where the constant pool ended
    interfaces, \* how many interfaces were read
    members,    \* how many fields and methods were read
    attributes, \* the slices read: [of, from, to]
    declared    \* how many items the counts read so far announced, in all

classVars == <<parse, section, left, attributesLeft, poolEnd, interfaces,
               members, attributes, declared>>
vars == <<poolVars, classVars>>

Lists == <<"interfaces", "fields", "methods", "attributes">>
-----------------------------------------------------------------------------
Init ==
    /\ PoolInit
    /\ parse = "reading"
    /\ section = "magic"
    /\ left = 0
    /\ attributesLeft = 0
    /\ poolEnd = 0
    /\ interfaces = 0
    /\ members = [fields |-> 0, methods |-> 0]
    /\ attributes = <<>>
    /\ declared = 0

Reading(part) == parse = "reading" /\ section = part

\* Mutant: an error of the reader ends nothing.
FailQuietly(error) == UNCHANGED vars

\* End the parse with an error; what was read is dropped.
Fail(error) ==
    /\ parse' = error
    /\ UNCHANGED <<poolVars, section, left, attributesLeft, poolEnd, interfaces,
                   members, attributes, declared>>

\* Read so many bytes, or fail.
Take(width) ==
    /\ Fits(pos, width)
    /\ pos' = pos + width
    /\ UNCHANGED <<size, count, index, entries, outcome, parse>>

TooShort(part, width) ==
    /\ Reading(part)
    /\ ~Fits(pos, width)
    /\ Fail("malformed")

ReadMagic ==
    \/ TooShort("magic", 4)
    \/ Reading("magic") /\ Fits(pos, 4) /\ Fail("malformed")    \* another magic
    \/ /\ Reading("magic")
       /\ Take(4)
       /\ section' = "version"
       /\ UNCHANGED <<left, attributesLeft, poolEnd, interfaces, members, attributes, declared>>

\* Versions before MIN_MAJOR are refused, later ones are never too new.
ReadVersion ==
    \/ TooShort("version", 4)
    \/ Reading("version") /\ Fits(pos, 4) /\ Fail("unsupported")
    \/ /\ Reading("version")
       /\ Take(4)
       /\ section' = "pool"
       /\ UNCHANGED <<left, attributesLeft, poolEnd, interfaces, members, attributes, declared>>

ReadPool ==
    /\ Reading("pool")
    /\ PoolNext
    /\ parse' = IF outcome' = "malformed" THEN "malformed" ELSE parse
    /\ section' = IF outcome' = "ok" THEN "head" ELSE section
    /\ poolEnd' = IF outcome' = "ok" THEN pos ELSE poolEnd
    /\ UNCHANGED <<left, attributesLeft, interfaces, members, attributes, declared>>

\* Flags, this_class and super_class; then the count of each list.
ReadHead ==
    \/ TooShort("head", 6)
    \/ /\ Reading("head")
       /\ Take(6)
       /\ section' = "interfaces"
       /\ left' = -1
       /\ UNCHANGED <<attributesLeft, poolEnd, interfaces, members, attributes, declared>>

\* The count of a list: left is -1 until it was read.
ReadListCount ==
    /\ \E i \in 1..4 :
           /\ Reading(Lists[i])
           /\ left = -1
           /\ \/ TooShort(Lists[i], 2)
              \/ /\ Take(2)
                 /\ \E n \in Counts :
                        /\ left' = IF Lists[i] = "attributes" THEN 0 ELSE n
                        /\ attributesLeft' = IF Lists[i] = "attributes" THEN n ELSE 0
                        /\ declared' = declared + n
                 /\ UNCHANGED <<section, poolEnd, interfaces, members, attributes>>

ReadInterface ==
    /\ left > 0
    /\ \/ TooShort("interfaces", 2)
       \/ /\ Reading("interfaces")
          /\ Take(2)
          /\ left' = left - 1
          /\ interfaces' = interfaces + 1
          /\ UNCHANGED <<section, attributesLeft, poolEnd, members, attributes, declared>>

\* Mutant: the attributes of a member are counted for the member before it.
MemberReadyEarly == left > 0

\* The attributes of a member come before the next one.
MemberReady == left > 0 /\ attributesLeft = 0

\* Flags, name, descriptor and the count of the member's attributes.
ReadMember ==
    /\ MemberReady
    /\ \E list \in {"fields", "methods"} :
           \/ TooShort(list, 8)
           \/ /\ Reading(list)
              /\ Take(8)
              /\ left' = left - 1
              /\ members' = [members EXCEPT ![list] = @ + 1]
              /\ \E n \in Counts : attributesLeft' = n /\ declared' = declared + n
              /\ UNCHANGED <<section, poolEnd, interfaces, attributes>>

\* Mutant: the slice starts at the length.
SliceWithLength(length) == [of |-> section, from |-> pos + 2, to |-> pos + 6 + length]

\* The bytes an attribute hands out.
Slice(length) == [of |-> section, from |-> pos + 6, to |-> pos + 6 + length]

\* Name, length and as many bytes.
ReadAttribute ==
    /\ parse = "reading"
    /\ attributesLeft > 0
    /\ \E length \in Lengths :
           IF ~Fits(pos, 6) \/ ~Fits(pos + 6, length)
           THEN Fail("malformed")
           ELSE /\ Take(6 + length)
                /\ attributes' = Append(attributes, Slice(length))
                /\ attributesLeft' = attributesLeft - 1
                /\ UNCHANGED <<section, left, poolEnd, interfaces, members, declared>>

\* The end of a list; after the last one the class is whole, and whatever
\* bytes follow are not looked at.
EndList ==
    /\ left = 0
    /\ attributesLeft = 0
    /\ \E i \in 1..4 :
           /\ Reading(Lists[i])
           /\ IF i = 4
              THEN parse' = "ok" /\ UNCHANGED <<section, left>>
              ELSE section' = Lists[i + 1] /\ left' = -1 /\ UNCHANGED parse
    /\ UNCHANGED <<poolVars, attributesLeft, poolEnd, interfaces, members, attributes, declared>>

Next ==
    \/ ReadMagic \/ ReadVersion \/ ReadPool \/ ReadHead \/ ReadListCount
    \/ ReadInterface \/ ReadMember \/ ReadAttribute \/ EndList

\* The parser runs to its end.
Spec == Init /\ [][Next]_vars /\ WF_vars(Next)
-----------------------------------------------------------------------------
(***************************************************************************)
(* Properties.                                                             *)
(***************************************************************************)
\* Attributes are slices of the input that follow one another, each behind a
\* name and a length of its own: no byte is handed out as part of two.
SlicesAreDisjoint ==
    \A i \in 1..Len(attributes) :
        /\ attributes[i].from <= attributes[i].to
        /\ attributes[i].to <= size
        /\ attributes[i].from >= 6 + IF i = 1 THEN poolEnd ELSE attributes[i - 1].to

\* The bytes attributes take, with the name and the length of each.
AttributeBytes(slices) == SumOf([i \in DOMAIN slices |-> 6 + (slices[i].to - slices[i].from)])

\* A file is accepted only whole: it has every item its counts announced, and
\* the bytes read are those its parts take, so that none was read twice.
OnlyWholeFilesAccepted ==
    parse = "ok" =>
        /\ interfaces + members.fields + members.methods + Len(attributes) = declared
        /\ pos = poolEnd + 6 + 4 * 2 + 2 * interfaces
                 + 8 * (members.fields + members.methods)
                 + AttributeBytes(attributes)

\* Whatever the bytes, parsing ends, accepting the file or not.
ParsingEnds == <>(parse # "reading")
=============================================================================
