-------------------------------- MODULE Flags --------------------------------
(***************************************************************************)
(* Access flags (bk-jvm/src/flags.rs): the names of the set bits, decoded  *)
(* by a table of the context they were read from, and the keywords of a    *)
(* declaration, chosen by tests of their own on the same bits.  A flag is  *)
(* its bit's number.                                                       *)
(***************************************************************************)
EXTENDS Integers, SequencesExt

Bits == 0..15

\* The tables, from bit 0 up; "-" is a bit a table does not have.
Access == <<"PUBLIC", "PRIVATE", "PROTECTED", "STATIC", "FINAL">>
OfClass == Access \o <<"SUPER", "-", "-", "-", "INTERFACE", "ABSTRACT", "-",
                       "SYNTHETIC", "ANNOTATION", "ENUM", "MODULE">>
OfField == Access \o <<"-", "VOLATILE", "TRANSIENT", "-", "-", "-", "STRICT_INIT",
                       "SYNTHETIC", "-", "ENUM", "-">>
OfMethod == Access \o <<"SYNCHRONIZED", "BRIDGE", "VARARGS", "NATIVE", "-", "ABSTRACT",
                        "STRICT", "SYNTHETIC", "-", "-", "-">>
Sparse(bits) == [i \in 1..16 |-> IF i - 1 \in DOMAIN bits THEN bits[i - 1] ELSE "-"]
OfParameter == Sparse([b \in {4, 12, 15} |->
                           CASE b = 4 -> "FINAL" [] b = 12 -> "SYNTHETIC" [] b = 15 -> "MANDATED"])
OfModule == Sparse([b \in {5, 6, 12, 15} |->
                        CASE b = 5 -> "TRANSITIVE" [] b = 6 -> "STATIC_PHASE"
                          [] b = 12 -> "SYNTHETIC" [] b = 15 -> "MANDATED"])

TableOf == [Class |-> OfClass, InnerClass |-> OfClass, Field |-> OfField,
            Method |-> OfMethod, Parameter |-> OfParameter, Module |-> OfModule]

Contexts == DOMAIN TableOf

Known(c) == {b \in Bits : TableOf[c][b + 1] # "-"}

\* Mutant: the bit is renamed whatever it was read from.
NameOfShared(c, pre, b) == IF pre /\ b = 5 THEN "IDENTITY" ELSE TableOf[c][b + 1]

\* A bit's name: JEP 401 renames one on classes of preview files.
NameOf(c, pre, b) ==
    IF pre /\ c = "Class" /\ b = 5 THEN "IDENTITY" ELSE TableOf[c][b + 1]

\* One word, if a test is passed.
Pushed(test, word) == IF test THEN <<word>> ELSE <<>>

\* decode: a name for every known bit, low to high, and one for all that are
\* not.
Decode(c, set, pre) ==
    FlattenSeq([i \in 1..16 |-> Pushed(i - 1 \in set \cap Known(c), NameOf(c, pre, i - 1))])
    \o Pushed(~(set \subseteq Known(c)), "UNKNOWN")

\* The keywords in the order they are tested, the bit each is for, and where
\* it is tested.
Keyword(word, bit, where) == [word |-> word, bit |-> bit, where |-> where]
Tests ==
    <<Keyword("public", 0, Contexts), Keyword("private", 1, Contexts),
      Keyword("protected", 2, Contexts), Keyword("static", 3, Contexts),
      Keyword("final", 4, Contexts), Keyword("synchronized", 5, {"Method"}),
      Keyword("volatile", 6, {"Field"}), Keyword("transient", 7, {"Field"}),
      Keyword("native", 8, {"Method"}), Keyword("abstract", 10, Contexts),
      Keyword("strictfp", 11, {"Method"})>>

\* declaration_keywords
DeclarationKeywords(c, set) ==
    FlattenSeq([i \in DOMAIN Tests |->
                    Pushed(c \in Tests[i].where /\ Tests[i].bit \in set, Tests[i].word)])
=============================================================================
