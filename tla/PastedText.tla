----------------------------- MODULE PastedText -----------------------------
(***************************************************************************)
(* The highlighting of pasted disassembly: emit_text (bk-jvm/src/text.rs)  *)
(* over the builder of Document.                                           *)
(*                                                                         *)
(* The lexer is generated from patterns; what reaches emit_text of a line  *)
(* is a sequence of lexemes that share out its bytes.  A lexeme is         *)
(* abstracted to the class of its pattern, what a word was looked up as,   *)
(* and its bytes, a character of which may be a carriage return: lines()   *)
(* cuts at a line feed only.                                               *)
(***************************************************************************)
EXTENDS Document, SequencesExt

CONSTANTS
    Lexemes,    \* the lexemes of the text pasted: [class, word, bytes]
    MaxLines    \* bound on the lines pasted

VARIABLES
    pasted,         \* the lines read so far, as lexemes, the current one last
    stage,          \* "lines", "lexemes", "colon" or "done"
    atLineStart,    \* at_line_start
    kinds,          \* the kind of each token
    opcodes,        \* stats.opcodes_total
    counter         \* TOTAL_OPCODES

textVars == <<vars, pasted, stage, atLineStart, kinds, opcodes, counter>>
-----------------------------------------------------------------------------
\* The kind of a lexeme that its class alone decides.  A number with a sign
\* has a class of its own, since it may stand directly behind a word.
KindOfClass ==
    [Space |-> "Plain", Punctuation |-> "Plain", Error |-> "Plain", Comment |-> "Comment",
     StringLiteral |-> "StringLiteral", PoolIndex |-> "ConstPoolIndex",
     AccessFlag |-> "AccessFlag", MethodHandleRef |-> "MethodHandleRef",
     Descriptor |-> "Descriptor", Number |-> "Number", SignedNumber |-> "Number",
     Keyword |-> "Keyword", Primitive |-> "Primitive", Literal |-> "Literal", PoolTag |-> "ConstPoolTag",
     QualifiedName |-> "TypeName"]

\* A word is a mnemonic, else the name of an attribute, else nothing.
KindOfWord == [mnemonic |-> "Instruction", attribute |-> "AttributeName", other |-> "Plain"]

Lexeme ==
    [class : DOMAIN KindOfClass \cup {"NumberColon"}, word : {"-"}, bytes : Str \ {<<>>}]
    \cup [class : {"Word"}, word : DOMAIN KindOfWord, bytes : Str \ {<<>>}]

\* The digits of a number with a colon, and the colon.
Digits(l) == SubSeq(l.bytes, 1, Len(l.bytes) - 1)
Colon == <<"lead">>

\* A number with a colon ends with it, and no mnemonic is too long for a token.
ASSUME LexemesAssumption ==
    /\ Lexemes \subseteq Lexeme
    /\ Colon \in Texts
    /\ \A l \in Lexemes :
           /\ l.bytes \in Texts
           /\ l.class = "NumberColon" => /\ Digits(l) \in Texts \ {<<>>}
                                        /\ l.bytes = Digits(l) \o Colon
           /\ l.word = "mnemonic" => Len(l.bytes) <= MaxLen
    /\ MaxLines \in Nat

\* What the bytes of a word would have gone on with; a sign ends a word.
Wordlike == {"Word", "QualifiedName", "AccessFlag", "MethodHandleRef", "Keyword", "Primitive",
             "Literal", "PoolTag", "Number", "NumberColon"}

\* The patterns take all they can: what may stand next in this line.
MayFollow(line, l) ==
    line # <<>> =>
        LET p == Last(line).class
        IN  /\ p = "Space" => l.class # "Space"
            /\ p \in Wordlike \ {"Number", "NumberColon"} => l.class \notin Wordlike
            /\ p = "Comment" => l.class = "Error"

Line == pasted[Len(pasted)]

\* The tokens a push added are of this kind.
Marked(kind) == kinds' = kinds \o [i \in 1..(Len(tokens') - Len(tokens)) |-> kind]
-----------------------------------------------------------------------------
TextInit ==
    /\ Init
    /\ pasted = <<>>
    /\ stage = "lines"
    /\ atLineStart = TRUE
    /\ kinds = <<>>
    /\ opcodes = 0
    /\ counter = 0

\* Mutant: whether the line was opened is remembered from the line before.
NextLineStale ==
    /\ stage = "lines"
    /\ Len(pasted) < MaxLines
    /\ pasted' = Append(pasted, <<>>)
    /\ stage' = "lexemes"
    /\ UNCHANGED <<vars, kinds, opcodes, counter, atLineStart>>

\* The next of input.lines().
NextLine ==
    /\ stage = "lines"
    /\ Len(pasted) < MaxLines
    /\ pasted' = Append(pasted, <<>>)
    /\ stage' = "lexemes"
    /\ atLineStart' = TRUE
    /\ UNCHANGED <<vars, kinds, opcodes, counter>>

\* The next lexeme; a number with a colon inside a line is pushed in two.
Lex(l) ==
    LET splits == l.class = "NumberColon" /\ ~atLineStart
        kind == CASE l.class = "NumberColon" -> IF splits THEN "Number" ELSE "InstructionOffset"
                  [] l.class = "Word"        -> KindOfWord[l.word]
                  [] OTHER                   -> KindOfClass[l.class]
    IN  /\ stage = "lexemes"
        /\ MayFollow(Line, l)
        /\ Push(IF splits THEN Digits(l) ELSE l.bytes)
        /\ Marked(kind)
        /\ pasted' = [pasted EXCEPT ![Len(pasted)] = Append(@, l)]
        /\ stage' = IF splits THEN "colon" ELSE "lexemes"
        /\ atLineStart' = (atLineStart /\ l.class = "Space")
        /\ opcodes' = opcodes + IF kind = "Instruction" THEN 1 ELSE 0
        /\ UNCHANGED counter

SplitColon ==
    /\ stage = "colon"
    /\ Push(Colon)
    /\ Marked("Plain")
    /\ stage' = "lexemes"
    /\ UNCHANGED <<pasted, atLineStart, opcodes, counter>>

EndOfLine ==
    /\ stage = "lexemes"
    /\ Newline
    /\ stage' = "lines"
    /\ UNCHANGED <<pasted, atLineStart, kinds, opcodes, counter>>

\* record_opcodes, once for the whole text.
EndOfText ==
    /\ stage = "lines"
    /\ stage' = "done"
    /\ counter' = counter + opcodes
    /\ UNCHANGED <<vars, pasted, atLineStart, kinds, opcodes>>

\* The caller of emit_text finishes the document.
FinishText ==
    /\ stage = "done"
    /\ Finish
    /\ UNCHANGED <<pasted, stage, atLineStart, kinds, opcodes, counter>>

TextNext ==
    \/ NextLine
    \/ \E l \in Lexemes : Lex(l)
    \/ SplitColon
    \/ EndOfLine
    \/ EndOfText
    \/ FinishText

TextSpec == TextInit /\ [][TextNext]_textVars
-----------------------------------------------------------------------------
(***************************************************************************)
(* Properties.                                                             *)
(***************************************************************************)
Bytes(line) == FlattenSeq([k \in DOMAIN line |-> line[k].bytes])

\* Row by row the document is the text that was pasted, however it was taken
\* apart; only a carriage return within a line has become a space.
RowsAreThePastedLines ==
    finished /\ pasted # <<>> =>
        /\ Rows = Len(pasted)
        /\ \A r \in 1..Rows :
               SubSeq(text, lineStarts[r] + 1, LineEnd(r)) =
                   Append([i \in DOMAIN Bytes(pasted[r]) |->
                               IF Bytes(pasted[r])[i] = "nl" THEN "lead"
                               ELSE Bytes(pasted[r])[i]], "nl")

\* Where the k-th lexeme of a row starts in the document.
Place(r, k) == lineStarts[r] + Len(Bytes(SubSeq(pasted[r], 1, k - 1)))

\* A number with a colon is the offset of an instruction exactly if nothing
\* but space stands before it in its row: the token that starts there says
\* so, whatever the rows above held and however the number is pushed.
OffsetsOpenTheirRow ==
    finished =>
        \A r \in DOMAIN pasted : \A k \in DOMAIN pasted[r] : \A i \in DOMAIN tokens :
            tokens[i].start = Place(r, k) =>
                ((kinds[i] = "InstructionOffset") <=>
                     /\ pasted[r][k].class = "NumberColon"
                     /\ \A j \in 1..(k - 1) : pasted[r][j].class = "Space")

\* The words of the text that are mnemonics, by line and place in it.
Mnemonics ==
    UNION {{r} \X {k \in DOMAIN pasted[r] : pasted[r][k].word = "mnemonic"} : r \in DOMAIN pasted}

\* The opcodes a text adds to the counter are its words that are mnemonics,
\* each marked as one and counted once, and none before the text is through.
CountIsWhatWasMarked ==
    /\ stage # "done" => counter = 0
    /\ stage = "done" =>
           /\ counter = Cardinality(Mnemonics)
           /\ counter = Cardinality({i \in DOMAIN kinds : kinds[i] = "Instruction"})

\* What highlighting marks is what the text says: offsets where they open a
\* row, and as many opcodes counted as mnemonics marked.
MarksAreThoseOfTheText == OffsetsOpenTheirRow /\ CountIsWhatWasMarked
=============================================================================
