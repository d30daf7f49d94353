----------------------------- MODULE MCDocument -----------------------------
(***************************************************************************)
(* Small documents, written by either kind of author: an emitter, which    *)
(* calls the builder as it likes (emit.rs), or the highlighting of pasted  *)
(* text.  There are characters of one and of two bytes, line breaks inside *)
(* a pushed text, texts longer than MaxLen, and lexemes of every           *)
(* treatment.                                                              *)
(***************************************************************************)
EXTENDS PastedText

L(class, word, bytes) == [class |-> class, word |-> word, bytes |-> bytes]

SomeLexemes ==
    {L("Space", "-", <<"lead">>), L("NumberColon", "-", <<"lead", "lead">>),
     L("Word", "mnemonic", <<"lead">>), L("Word", "other", <<"lead">>),
     L("Punctuation", "-", <<"lead", "cont">>), L("StringLiteral", "-", <<"lead", "nl", "lead">>),
     L("Comment", "-", <<"lead", "lead">>), L("Error", "-", <<"nl">>)}

\* With MaxLen = 2 the three-byte texts are cut, one of them inside its wide
\* character.
SomeTexts == {l.bytes : l \in SomeLexemes} \cup {Colon, <<>>, <<"lead", "lead", "cont">>}
SomeFormatted == { <<"lead">>, <<"lead", "lead", "lead">> }
SomeStops == {2, 5}

Highlighter == <<pasted, stage, atLineStart, kinds, opcodes, counter>>

EmitterInit ==
    /\ Init
    /\ pasted = <<>> /\ stage = "emitter" /\ atLineStart = TRUE
    /\ kinds = <<>> /\ opcodes = 0 /\ counter = 0

EmitterNext == stage = "emitter" /\ Next /\ UNCHANGED Highlighter

AuthorsSpec ==
    (TextInit \/ EmitterInit) /\ [][TextNext \/ EmitterNext]_textVars
=============================================================================
