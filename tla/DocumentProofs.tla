--------------------------- MODULE DocumentProofs ---------------------------
(***************************************************************************)
(* Proofs about the builder, for every set of texts and every MaxLen: its  *)
(* tokens are in order and disjoint, none straddles a line break, together *)
(* they hold every byte that is not one, and lineStarts is the lines.      *)
(* Highlighting pasted text is one way to call it, so that the same is     *)
(* true of what emit_text writes; and its rows are the pasted lines, with  *)
(* the marks that are those of the text.                                   *)
(***************************************************************************)
EXTENDS PastedText, ArithmeticLemmas, TLAPS, FiniteSetTheorems, SequenceTheorems

\* What Cut promises: non-empty tokens of at most size bytes, in order, back
\* to back from start on, that hold each of the n bytes, and all but the last
\* of which are of that size.
IsCut(c, start, n, size) ==
    /\ c \in Seq(Token)
    /\ \A i \in DOMAIN c : start <= c[i].start /\ End(c[i]) <= start + n
    /\ \A i, j \in DOMAIN c : i < j => End(c[i]) <= c[j].start
    /\ \A p \in (start + 1)..(start + n) :
           \E i \in DOMAIN c : c[i].start < p /\ p <= End(c[i])
    /\ \A i \in DOMAIN c :
           /\ c[i].len = size \/ End(c[i]) = start + n
           /\ i = 1 => c[i].start = start
           /\ i > 1 => c[i - 1].len = size /\ End(c[i - 1]) = c[i].start

LEMMA CutLemma ==
    ASSUME NEW start \in Nat, NEW n \in Nat, n > 0, NEW size \in 1..MaxLen
    PROVE  IsCut(Cut(start, n, size), start, n, size)
  <1> DEFINE k == (n + size - 1) \div size
             c == Cut(start, n, size)
  <1>0. MaxLen \in Nat /\ size \in Nat /\ size > 0
    BY BoundsAssumption
  <1>1. k \in Nat /\ k >= 1 /\ (k - 1) * size < n /\ n <= k * size
    BY <1>0, CeilingBounds
  <1> HIDE DEF k
  <1>2. c = [i \in 1..k |-> [start |-> start + (i - 1) * size,
                              len   |-> IF i * size <= n THEN size
                                        ELSE n - (i - 1) * size]]
    BY DEF Cut, k
  <1> HIDE DEF c
  <1>3. ASSUME NEW i \in 1..k
        PROVE  /\ i * size \in Nat
               /\ (i - 1) * size \in Nat
               /\ i * size = (i - 1) * size + size
               /\ (i - 1) * size < n
    <2>1. i * size \in Nat /\ (i - 1) * size \in Nat
      BY <1>0, <1>1
    <2>2. i * size = (i - 1) * size + size
      BY <1>0, <1>1
    <2>3. (i - 1) * size <= (k - 1) * size
      BY <1>0, <1>1, ProductMonotone, i - 1 \in Nat, k - 1 \in Nat, i - 1 <= k - 1
    <2>4. (k - 1) * size \in Nat
      BY <1>0, <1>1
    <2> QED
      BY <1>1, <2>1, <2>2, <2>3, <2>4
  <1>4. ASSUME NEW i \in 1..k
        PROVE  /\ c[i] \in Token
               /\ c[i].start = start + (i - 1) * size
               /\ End(c[i]) = IF i * size <= n THEN start + i * size ELSE start + n
    <2>1. c[i].start = start + (i - 1) * size
      BY <1>2
    <2>2. c[i].len = IF i * size <= n THEN size ELSE n - (i - 1) * size
      BY <1>2
    <2>3. c[i].len \in 1..MaxLen
      BY <2>2, <1>0, <1>3
    <2>4. c[i] \in Token
      BY <2>1, <2>3, <1>2, <1>3 DEF Token
    <2> QED
      BY <2>1, <2>2, <2>4, <1>3, <1>0 DEF End
  <1>5. c \in Seq(Token) /\ DOMAIN c = 1..k
    <2>1. c = [i \in 1..k |-> c[i]]
      BY <1>2
    <2>2. c \in [1..k -> Token]
      BY <2>1, <1>4
    <2> QED
      BY <1>1, <2>2, SeqDef
  <1>6. ASSUME NEW i \in 1..k
        PROVE  start <= c[i].start /\ End(c[i]) <= start + n
    BY <1>3, <1>4
  <1>7. ASSUME NEW i \in 1..k, NEW j \in 1..k, i < j
        PROVE  End(c[i]) <= c[j].start
    <2>1. i * size <= (j - 1) * size
      BY <1>0, <1>1, <1>7, ProductMonotone, i \in Nat, j - 1 \in Nat, i <= j - 1
    <2> QED
      BY <2>1, <1>3, <1>4
  <1>8. ASSUME NEW p \in (start + 1)..(start + n)
        PROVE  \E i \in 1..k : c[i].start < p /\ p <= End(c[i])
    <2> DEFINE q == p - start
               i == (q + size - 1) \div size
    <2>1. q \in 1..n
      OBVIOUS
    <2>2. i \in Nat /\ i >= 1 /\ (i - 1) * size < q /\ q <= i * size
      BY <2>1, <1>0, CeilingBounds
    <2> HIDE DEF i
    <2>3. i <= k
      <3>1. SUFFICES ASSUME i > k PROVE FALSE
        BY <1>1, <2>2
      <3>2. k * size <= (i - 1) * size
        BY <1>0, <1>1, <2>2, <3>1, ProductMonotone, k \in Nat, i - 1 \in Nat, k <= i - 1
      <3>3. k * size \in Nat /\ (i - 1) * size \in Nat
        BY <1>0, <1>1, <2>2
      <3> QED
        BY <3>2, <3>3, <2>1, <2>2, <1>1
    <2>4. i \in 1..k
      BY <2>2, <2>3, <1>1
    <2> QED
      BY <2>1, <2>2, <2>4, <1>3, <1>4
  <1>9. ASSUME NEW i \in 1..k
        PROVE  /\ c[i].len = size \/ End(c[i]) = start + n
               /\ i = 1 => c[i].start = start
               /\ i > 1 => c[i - 1].len = size /\ End(c[i - 1]) = c[i].start
    <2>1. c[i].len = size \/ End(c[i]) = start + n
      <3>1. c[i].len = IF i * size <= n THEN size ELSE n - (i - 1) * size
        BY <1>2
      <3> QED BY <1>4, <3>1
    <2>2. i = 1 => c[i].start = start
      <3>1. (1 - 1) * size = 0
        BY <1>0
      <3> QED BY <1>4, <3>1
    <2>3. ASSUME i > 1 PROVE c[i - 1].len = size /\ End(c[i - 1]) = c[i].start
      <3>1. i - 1 \in 1..k
        BY <1>1, <2>3
      <3>2. (i - 1) * size < n /\ (i - 1) * size \in Nat
        BY <1>3
      <3>3. c[i - 1].len = IF (i - 1) * size <= n THEN size ELSE n - ((i - 1) - 1) * size
        BY <1>2, <3>1
      <3>4. End(c[i - 1]) = IF (i - 1) * size <= n THEN start + (i - 1) * size ELSE start + n
        BY <1>4, <3>1
      <3> QED BY <1>4, <3>2, <3>3, <3>4
    <2> QED BY <2>1, <2>2, <2>3
  <1> QED
    BY <1>5, <1>6, <1>7, <1>8, <1>9 DEF c, IsCut
\* The fields of a token are numbers.
LEMMA TokenFields ==
    ASSUME NEW t \in Token
    PROVE  t.start \in Nat /\ t.len \in Nat /\ t.len > 0
  BY BoundsAssumption DEF Token

-----------------------------------------------------------------------------
(***************************************************************************)
(* The inductive invariant.  TypeOK needs LineStartsFollowBreaks: only     *)
(* because line 1 starts at 0 does finish, when it drops the line after a  *)
(* trailing line break, leave a line.                                      *)
(***************************************************************************)
Inv ==
    /\ TypeOK
    /\ TokensOrdered
    /\ NoTokenStraddlesNewline
    /\ EveryByteInAToken
    /\ LineStartsFollowBreaks

\* Whatever run of non-breaking bytes reaches the buffer, and however it is
\* cut, the invariant holds of the longer document.
LEMMA AppendRunPreserves ==
    ASSUME Inv, ~finished,
           NEW s \in Seq(Byte), s # <<>>, \A i \in DOMAIN s : s[i] # "nl",
           NEW size \in 1..MaxLen,
           AppendRun(s, size)
    PROVE  Inv'
  <1> DEFINE n == Len(s)
             c == Cut(Len(text), n, size)
  <1> USE DEF End
  <1>1. n \in Nat /\ n > 0 /\ Len(text) \in Nat
    BY DEF Inv, TypeOK
  <1>2. /\ c \in Seq(Token)
        /\ \A i \in DOMAIN c : Len(text) <= c[i].start /\ End(c[i]) <= Len(text) + n
        /\ \A i, j \in DOMAIN c : i < j => End(c[i]) <= c[j].start
        /\ \A p \in (Len(text) + 1)..(Len(text) + n) :
               \E i \in DOMAIN c : c[i].start < p /\ p <= End(c[i])
    <2>1. IsCut(c, Len(text), n, size)
      BY <1>1, CutLemma
    <2> HIDE DEF c, n
    <2> QED BY <2>1 DEF IsCut
  <1>3. /\ text' = text \o s
        /\ tokens' = tokens \o c
        /\ UNCHANGED <<lineStarts, columns, finished>>
    BY DEF AppendRun
  <1>4. Chars(s) \in Nat
    <2>1. IsFiniteSet(DOMAIN s)
      BY FS_Interval, DOMAIN s = 1..Len(s)
    <2>2. IsFiniteSet({i \in DOMAIN s : s[i] # "cont"})
      BY <2>1, FS_Subset
    <2> QED
      BY <2>2, FS_CardinalityType DEF Chars
  <1> HIDE DEF c
  <1>5. /\ text' \in Seq(Byte)
        /\ Len(text') = Len(text) + n
        /\ \A p \in 1..Len(text) : text'[p] = text[p]
        /\ \A p \in (Len(text) + 1)..(Len(text) + n) :
               text'[p] = s[p - Len(text)] /\ text'[p] # "nl"
    BY <1>1, <1>3 DEF Inv, TypeOK
  <1>6. /\ tokens' \in Seq(Token)
        /\ Len(tokens') = Len(tokens) + Len(c)
        /\ \A i \in 1..Len(tokens) : tokens'[i] = tokens[i]
        /\ \A i \in (Len(tokens) + 1)..(Len(tokens) + Len(c)) :
               tokens'[i] = c[i - Len(tokens)]
    BY <1>2, <1>3 DEF Inv, TypeOK
  <1>7. /\ Len(tokens) \in Nat /\ Len(c) \in Nat
        /\ DOMAIN tokens = 1..Len(tokens) /\ DOMAIN c = 1..Len(c)
        /\ DOMAIN tokens' = 1..(Len(tokens) + Len(c))
    BY <1>2, <1>6 DEF Inv, TypeOK
  \* A token of the longer document is an old one or one of the run.
  <1>8. \A i \in DOMAIN tokens' :
            \/ i \in DOMAIN tokens /\ tokens'[i] = tokens[i]
            \/ i - Len(tokens) \in DOMAIN c /\ tokens'[i] = c[i - Len(tokens)]
    BY <1>6, <1>7
  <1>9. \A i \in DOMAIN tokens : /\ tokens[i] \in Token
                                /\ tokens[i].start \in Nat /\ tokens[i].len \in Nat
                                /\ End(tokens[i]) <= Len(text)
    <2>1. \A i \in DOMAIN tokens : tokens[i] \in Token
      BY <1>7 DEF Inv, TypeOK
    <2>2. \A i \in DOMAIN tokens : End(tokens[i]) <= Len(text)
      BY DEF Inv, TypeOK
    <2> QED
      BY <2>1, <2>2, TokenFields
  <1>10. \A i \in DOMAIN c : /\ c[i] \in Token
                             /\ c[i].start \in Nat /\ c[i].len \in Nat
                             /\ Len(text) <= c[i].start
                             /\ End(c[i]) <= Len(text) + n
    <2>1. \A i \in DOMAIN c : c[i] \in Token
      BY <1>2, <1>7
    <2> QED
      BY <1>2, <2>1, TokenFields
  <1>11. TypeOK'
    <2>1. \A i \in DOMAIN tokens' : End(tokens'[i]) <= Len(text')
      BY <1>1, <1>5, <1>8, <1>9, <1>10
    <2>2. currentColumns' \in Nat
      BY <1>4 DEF AppendRun, Inv, TypeOK
    <2>3. \A r \in DOMAIN lineStarts : lineStarts[r] <= Len(text')
      BY <1>1, <1>5 DEF Inv, TypeOK
    <2> QED
      BY <1>3, <1>5, <1>6, <2>1, <2>2, <2>3 DEF Inv, TypeOK
  <1>12. TokensOrdered'
    <2> SUFFICES ASSUME NEW i \in DOMAIN tokens', NEW j \in DOMAIN tokens', i < j
                 PROVE  End(tokens'[i]) <= tokens'[j].start
      BY DEF TokensOrdered
    <2>1. CASE j \in DOMAIN tokens
      <3>1. i \in DOMAIN tokens
        BY <1>7, <2>1
      <3>2. End(tokens[i]) <= tokens[j].start
        BY <2>1, <3>1 DEF Inv, TokensOrdered
      <3> QED
        BY <1>6, <1>7, <2>1, <3>1, <3>2
    <2>2. CASE i \in DOMAIN tokens /\ j \notin DOMAIN tokens
      <3>1. End(tokens[i]) <= Len(text) /\ End(tokens[i]) \in Nat
        BY <1>9, <2>2
      <3>2. /\ tokens'[j] = c[j - Len(tokens)]
            /\ Len(text) <= tokens'[j].start /\ tokens'[j].start \in Nat
        BY <1>8, <1>10, <2>2
      <3>3. tokens'[i] = tokens[i]
        BY <1>6, <1>7, <2>2
      <3> QED
        BY <1>1, <3>1, <3>2, <3>3
    <2>3. CASE i \notin DOMAIN tokens /\ j \notin DOMAIN tokens
      <3>1. i - Len(tokens) \in DOMAIN c /\ tokens'[i] = c[i - Len(tokens)]
        BY <2>3, <1>8
      <3>2. j - Len(tokens) \in DOMAIN c /\ tokens'[j] = c[j - Len(tokens)]
        BY <2>3, <1>8
      <3>3. i - Len(tokens) < j - Len(tokens)
        BY <1>7
      <3> QED
        BY <3>1, <3>2, <3>3, <1>2
    <2>4. CASE i \notin DOMAIN tokens /\ j \in DOMAIN tokens
      BY <1>7, <2>4
    <2> QED
      BY <2>1, <2>2, <2>3, <2>4
  <1>13. NoTokenStraddlesNewline'
    <2> SUFFICES ASSUME NEW i \in DOMAIN tokens',
                        NEW p \in (tokens'[i].start + 1)..End(tokens'[i])
                 PROVE  text'[p] # "nl"
      BY DEF NoTokenStraddlesNewline
    <2>1. CASE i \in DOMAIN tokens /\ tokens'[i] = tokens[i]
      <3>1. p \in (tokens[i].start + 1)..End(tokens[i]) /\ p \in 1..Len(text)
        BY <1>1, <1>9, <2>1
      <3> QED
        BY <2>1, <3>1, <1>5 DEF Inv, NoTokenStraddlesNewline
    <2>2. CASE i - Len(tokens) \in DOMAIN c /\ tokens'[i] = c[i - Len(tokens)]
      <3>1. /\ tokens'[i].start \in Nat /\ tokens'[i].len \in Nat
            /\ Len(text) <= tokens'[i].start
            /\ tokens'[i].start + tokens'[i].len <= Len(text) + n
        BY <1>10, <2>2
      <3>2. End(tokens'[i]) = tokens'[i].start + tokens'[i].len
        BY DEF End
      <3>3. p \in (Len(text) + 1)..(Len(text) + n)
        BY <1>1, <3>1, <3>2
      <3> QED
        BY <1>5, <3>3
    <2> QED
      BY <1>8, <2>1, <2>2
  <1>14. EveryByteInAToken'
    <2> SUFFICES ASSUME NEW p \in DOMAIN text', text'[p] # "nl"
                 PROVE  \E i \in DOMAIN tokens' :
                            tokens'[i].start < p /\ p <= End(tokens'[i])
      BY DEF EveryByteInAToken
    <2>0. p \in 1..(Len(text) + n)
      BY <1>5
    <2>1. CASE p \in 1..Len(text)
      <3>1. PICK i \in DOMAIN tokens : tokens[i].start < p /\ p <= End(tokens[i])
        BY <2>1, <1>5 DEF Inv, EveryByteInAToken
      <3> QED
        BY <3>1, <1>6, <1>7
    <2>2. CASE p \in (Len(text) + 1)..(Len(text) + n)
      <3>1. PICK i \in DOMAIN c : c[i].start < p /\ p <= End(c[i])
        BY <2>2, <1>2
      <3>2. i + Len(tokens) \in DOMAIN tokens' /\ tokens'[i + Len(tokens)] = c[i]
        BY <1>6, <1>7, SMTT(30)
      <3> QED
        BY <3>1, <3>2
    <2> QED
      BY <1>1, <2>0, <2>1, <2>2
  <1>15. LineStartsFollowBreaks'
    <2>1. \A r \in DOMAIN lineStarts :
              r > 1 => lineStarts[r] \in 1..Len(text)
      BY DEF Inv, TypeOK, LineStartsFollowBreaks
    <2>2. \A p \in DOMAIN text' :
              text'[p] = "nl" => p \in DOMAIN text /\ text[p] = "nl"
      BY <1>1, <1>5, SMTT(30)
    <2>3. \A r \in DOMAIN lineStarts :
              r > 1 => lineStarts[r] > 0 /\ text'[lineStarts[r]] = "nl"
      BY <1>5, <2>1 DEF Inv, LineStartsFollowBreaks
    <2>4. \A p \in DOMAIN text' :
              text'[p] = "nl" => \E r \in DOMAIN lineStarts : lineStarts[r] = p
      BY <2>2 DEF Inv, LineStartsFollowBreaks
    <2> QED
      BY <1>3, <2>3, <2>4 DEF Inv, LineStartsFollowBreaks
  <1> QED
    BY <1>11, <1>12, <1>13, <1>14, <1>15 DEF Inv

\* A line break moves no token and opens the one line that starts after it.
LEMMA NewlinePreserves ==
    ASSUME Inv, Newline
    PROVE  Inv'
  <1>1. /\ Len(text) \in Nat
        /\ text' \in Seq(Byte)
        /\ Len(text') = Len(text) + 1
        /\ \A p \in 1..Len(text) : text'[p] = text[p]
        /\ text'[Len(text) + 1] = "nl"
    BY DEF Inv, TypeOK, Newline, Byte
  <1>2. UNCHANGED <<tokens, finished>> /\ ~finished
    BY DEF Newline
  <1>3. /\ Len(lineStarts) \in Nat /\ Len(lineStarts) > 0
        /\ lineStarts' \in Seq(Nat)
        /\ Len(lineStarts') = Len(lineStarts) + 1
        /\ \A r \in 1..Len(lineStarts) : lineStarts'[r] = lineStarts[r]
        /\ lineStarts'[Len(lineStarts) + 1] = Len(text) + 1
        /\ DOMAIN lineStarts = 1..Len(lineStarts)
        /\ DOMAIN lineStarts' = 1..(Len(lineStarts) + 1)
    BY <1>1 DEF Inv, TypeOK, Newline
  <1>4. \A i \in DOMAIN tokens : /\ tokens[i].start \in Nat
                                /\ End(tokens[i]) \in Nat
                                /\ End(tokens[i]) <= Len(text)
    <2>1. \A i \in DOMAIN tokens : tokens[i] \in Token
      BY DEF Inv, TypeOK
    <2> QED
      BY <2>1, TokenFields DEF Inv, TypeOK, End
  <1>5. TypeOK'
    <2>1. columns' \in Nat /\ currentColumns' \in Nat
      BY DEF Newline, Larger, Inv, TypeOK
    <2>2. \A i \in DOMAIN tokens : End(tokens[i]) <= Len(text')
      BY <1>1, <1>4
    <2>3. \A r \in 1..Len(lineStarts) : lineStarts[r] \in Nat /\ lineStarts[r] <= Len(text)
      BY <1>3, SMTT(30) DEF Inv, TypeOK
    <2>4. \A r \in DOMAIN lineStarts' : lineStarts'[r] <= Len(text')
      BY <1>1, <1>3, <2>3
    <2> QED
      BY <1>1, <1>2, <1>3, <2>1, <2>2, <2>4 DEF Inv, TypeOK
  <1>6. TokensOrdered'
    BY <1>2 DEF Inv, TokensOrdered
  <1>7. NoTokenStraddlesNewline'
    BY <1>1, <1>2, <1>4 DEF Inv, NoTokenStraddlesNewline
  <1>8. EveryByteInAToken'
    BY <1>1, <1>2 DEF Inv, EveryByteInAToken
  <1>9. LineStartsFollowBreaks'
    <2>1. lineStarts'[1] = 0
      BY <1>3 DEF Inv, LineStartsFollowBreaks
    <2>2. ASSUME NEW r \in DOMAIN lineStarts', NEW q \in DOMAIN lineStarts', r < q
          PROVE  lineStarts'[r] < lineStarts'[q]
      <3>1. r \in 1..Len(lineStarts) /\ lineStarts[r] \in Nat /\ lineStarts[r] <= Len(text)
        BY <1>3, <2>2 DEF Inv, TypeOK
      <3>2. CASE q = Len(lineStarts) + 1
        BY <1>1, <1>3, <3>1, <3>2
      <3>3. CASE q \in 1..Len(lineStarts)
        BY <1>3, <2>2, <3>1, <3>3 DEF Inv, LineStartsFollowBreaks
      <3> QED
        BY <1>3, <3>2, <3>3
    <2>3. \A r \in DOMAIN lineStarts' :
              r > 1 => lineStarts'[r] > 0 /\ text'[lineStarts'[r]] = "nl"
      <3> SUFFICES ASSUME NEW r \in 1..(Len(lineStarts) + 1), r > 1
                   PROVE  lineStarts'[r] > 0 /\ text'[lineStarts'[r]] = "nl"
        BY <1>3
      <3>1. CASE r = Len(lineStarts) + 1
        BY <1>1, <1>3, <3>1
      <3>2. CASE r \in 1..Len(lineStarts)
        <4>1. lineStarts'[r] = lineStarts[r] /\ r \in DOMAIN lineStarts
          BY <1>3, <3>2
        <4>2. lineStarts[r] > 0 /\ text[lineStarts[r]] = "nl"
          BY <4>1 DEF Inv, LineStartsFollowBreaks
        <4>3. lineStarts[r] \in Nat /\ lineStarts[r] <= Len(text)
          BY <4>1 DEF Inv, TypeOK
        <4>4. lineStarts[r] \in 1..Len(text)
          BY <4>2, <4>3, <1>1
        <4> QED
          BY <4>1, <4>2, <4>4, <1>1
      <3> QED
        BY <1>3, <3>1, <3>2
    <2>4. ASSUME NEW p \in DOMAIN text', text'[p] = "nl"
          PROVE  \E r \in DOMAIN lineStarts' : lineStarts'[r] = p
      <3>1. CASE p = Len(text) + 1
        BY <1>3, <3>1
      <3>2. CASE p \in 1..Len(text)
        <4>1. PICK r \in DOMAIN lineStarts : lineStarts[r] = p
          BY <1>1, <1>2, <2>4, <3>2 DEF Inv, LineStartsFollowBreaks
        <4> QED
          BY <4>1, <1>3
      <3> QED
        BY <1>1, <3>1, <3>2
    <2> QED
      BY <2>1, <2>2, <2>3, <2>4 DEF LineStartsFollowBreaks
  <1> QED
    BY <1>5, <1>6, <1>7, <1>8, <1>9 DEF Inv

\* finish changes no text and no token; the line it may drop is not the only
\* one, and the break before it is the last byte of the text.
LEMMA FinishPreserves ==
    ASSUME Inv, Finish
    PROVE  Inv'
  <1>1. UNCHANGED <<text, tokens, currentColumns>> /\ finished' = TRUE /\ ~finished
    BY DEF Finish
  <1>2. TokensOrdered' /\ NoTokenStraddlesNewline' /\ EveryByteInAToken'
    BY <1>1 DEF Inv, TokensOrdered, NoTokenStraddlesNewline, EveryByteInAToken
  <1>3. columns' \in Nat
    BY DEF Finish, Larger, Inv, TypeOK
  <1>4. CASE ~DropsLastLine
    <2>1. lineStarts' = lineStarts
      BY <1>4 DEF Finish
    <2>2. TypeOK'
      BY <1>1, <1>3, <2>1 DEF Inv, TypeOK
    <2>3. LineStartsFollowBreaks'
      BY <1>1, <2>1 DEF Inv, LineStartsFollowBreaks
    <2> QED
      BY <1>2, <2>2, <2>3 DEF Inv
  <1>5. CASE DropsLastLine
    <2> DEFINE l == Len(lineStarts)
    <2>1. l \in Nat /\ l > 0 /\ DOMAIN lineStarts = 1..l /\ Len(text) \in Nat
      BY DEF Inv, TypeOK
    <2>2. lineStarts[l] = Len(text) /\ Len(text) > 0
      BY <1>5, <2>1 DEF DropsLastLine, EndsWithNewline, Inv, TypeOK
    <2>3. l > 1
      BY <2>1, <2>2 DEF Inv, LineStartsFollowBreaks
    <2>4. /\ lineStarts' \in Seq(Nat)
          /\ Len(lineStarts') = l - 1
          /\ DOMAIN lineStarts' = 1..(l - 1)
          /\ \A r \in 1..(l - 1) : lineStarts'[r] = lineStarts[r] /\ r \in DOMAIN lineStarts
      BY <1>5, <2>1, <2>3 DEF Finish, Inv, TypeOK
    <2>5. TypeOK'
      <3>1. \A r \in DOMAIN lineStarts' : lineStarts'[r] <= Len(text)
        BY <2>4 DEF Inv, TypeOK
      <3>2. lineStarts' # <<>>
        BY <2>1, <2>3, <2>4
      <3> QED
        BY <1>1, <1>3, <2>4, <3>1, <3>2 DEF Inv, TypeOK
    <2> HIDE DEF l
    <2>6. ASSUME NEW p \in DOMAIN text, text[p] = "nl"
          PROVE  (\E r \in DOMAIN lineStarts' : lineStarts'[r] = p) \/ p = Len(text)
      <3>1. PICK r \in 1..l : lineStarts[r] = p
        BY <1>1, <2>1, <2>6 DEF Inv, LineStartsFollowBreaks
      <3>2. CASE r = l
        BY <3>1, <3>2, <2>2
      <3>3. CASE r \in 1..(l - 1)
        BY <3>1, <3>3, <2>4
      <3> QED
        BY <2>1, <3>1, <3>2, <3>3
    <2>7. LineStartsFollowBreaks'
      <3>1. lineStarts'[1] = 0
        BY <2>1, <2>3, <2>4 DEF Inv, LineStartsFollowBreaks
      <3>2. \A r, q \in DOMAIN lineStarts' : r < q => lineStarts'[r] < lineStarts'[q]
        BY <2>1, <2>4 DEF Inv, LineStartsFollowBreaks
      <3>3. \A r \in DOMAIN lineStarts' :
                r > 1 => lineStarts'[r] > 0 /\ text[lineStarts'[r]] = "nl"
        BY <2>1, <2>4 DEF Inv, LineStartsFollowBreaks
      <3> QED
        BY <1>1, <2>6, <3>1, <3>2, <3>3 DEF LineStartsFollowBreaks
    <2> QED
      BY <1>2, <2>5, <2>7 DEF Inv
  <1> QED
    BY <1>4, <1>5

\* Every step of the builder preserves the invariant, one step per action.
LEMMA Inductive == Inv /\ [Next]_vars => Inv'
  <1> SUFFICES ASSUME Inv, [Next]_vars
               PROVE  Inv'
    OBVIOUS
  <1>0. MaxLen \in Nat /\ MaxLen \in 1..MaxLen /\ Spaces \in 1..MaxLen
    BY BoundsAssumption
  <1>1. ASSUME NEW s \in Texts, Push(s)
        PROVE  Inv'
    <2>1. /\ Sanitized(s) \in Seq(Byte)
          /\ DOMAIN Sanitized(s) = DOMAIN s
          /\ \A i \in DOMAIN Sanitized(s) : Sanitized(s)[i] # "nl"
      <3>1. s \in Seq(Byte)
        BY TextsAssumption DEF Str
      <3>2. Sanitized(s) \in [1..Len(s) -> Byte]
        BY <3>1 DEF Sanitized, Byte
      <3>3. Sanitized(s) \in Seq(Byte)
        BY <3>1, <3>2, SeqDef
      <3> QED
        BY <3>1, <3>3 DEF Sanitized
    <2>2. Sanitized(s) # <<>>
      BY <1>1, <2>1, TextsAssumption DEF Push, Str
    <2> QED
      BY <1>0, <1>1, <2>1, <2>2, AppendRunPreserves DEF Push
  <1>2. ASSUME NEW s \in Formatted, PushFmt(s)
        PROVE  Inv'
    BY <1>0, <1>2, FormattedAssumption, AppendRunPreserves DEF PushFmt, Str
  <1>3. ASSUME NEW count \in Nat, Pad(count)
        PROVE  Inv'
    <2>1. Blank(count) \in Seq(Byte) /\ Blank(count) # <<>>
      <3>1. Blank(count) \in [1..count -> Byte]
        BY DEF Blank, Byte
      <3>2. DOMAIN Blank(count) = 1..count /\ count > 0
        BY <1>3 DEF Blank, Pad
      <3>3. Blank(count) \in Seq(Byte)
        BY <3>1, SeqDef
      <3> QED
        BY <3>2, <3>3
    <2>2. \A i \in DOMAIN Blank(count) : Blank(count)[i] # "nl"
      BY DEF Blank
    <2> QED
      BY <1>0, <1>3, <2>1, <2>2, AppendRunPreserves DEF Pad
  <1>4. ASSUME NEW c \in Stops, PadTo(c)
        PROVE  Inv'
    <2>1. c - currentColumns \in Nat
      BY <1>4, BoundsAssumption DEF PadTo, Inv, TypeOK
    <2> QED
      BY <1>3, <1>4, <2>1 DEF PadTo
  <1>5. CASE Newline
    BY <1>5, NewlinePreserves
  <1>6. CASE Finish
    BY <1>6, FinishPreserves
  <1>7. CASE UNCHANGED vars
    BY <1>7 DEF vars, Inv, TypeOK, TokensOrdered, NoTokenStraddlesNewline,
                EveryByteInAToken, LineStartsFollowBreaks
  <1> QED
    BY <1>1, <1>2, <1>3, <1>4, <1>5, <1>6, <1>7 DEF Next

\* A new builder satisfies the invariant.
LEMMA Initial == Init => Inv
  <1> SUFFICES ASSUME Init
               PROVE  Inv
    OBVIOUS
  <1>1. text = <<>> /\ tokens = <<>> /\ lineStarts = <<0>> /\ finished = FALSE
    BY DEF Init
  <1>2. TypeOK
    <2>1. lineStarts \in Seq(Nat) /\ lineStarts # <<>> /\ DOMAIN lineStarts = 1..1
      BY <1>1
    <2>2. text \in Seq(Byte) /\ tokens \in Seq(Token) /\ DOMAIN tokens = {}
      BY <1>1
    <2>3. \A r \in DOMAIN lineStarts : lineStarts[r] <= Len(text)
      BY <1>1, <2>1
    <2> QED
      BY <2>1, <2>2, <2>3 DEF Init, TypeOK
  <1>3. TokensOrdered /\ NoTokenStraddlesNewline
    BY <1>1 DEF TokensOrdered, NoTokenStraddlesNewline
  <1>4. EveryByteInAToken /\ LineStartsFollowBreaks
    BY <1>1 DEF EveryByteInAToken, LineStartsFollowBreaks
  <1> QED
    BY <1>2, <1>3, <1>4 DEF Inv

\* The invariant holds of every document under construction or finished.
THEOREM Invariance == Spec => []Inv
  <1>1. Init => Inv
    BY Initial
  <1>2. Inv /\ [Next]_vars => Inv'
    BY Inductive
  <1> QED
    BY <1>1, <1>2, PTL DEF Spec

\* The builder's fields keep their types, whatever is pushed in what order.
THEOREM TypeCorrect == Spec => []TypeOK
  BY Invariance, PTL DEF Inv

\* No token straddles a newline, although push_fmt does not sanitize: what
\* document.rs promises of DocumentBuilder.
THEOREM NeverStraddles == Spec => []NoTokenStraddlesNewline
  BY Invariance, PTL DEF Inv

\* Tokens are in order and disjoint, as partition_point needs them.
THEOREM AlwaysOrdered == Spec => []TokensOrdered
  BY Invariance, PTL DEF Inv

\* Every byte that is not a line break lies in a token, however runs are cut.
THEOREM NothingLost == Spec => []EveryByteInAToken
  BY Invariance, PTL DEF Inv

\* The line starts are the offsets after the line breaks.
THEOREM LinesAreBreaks == Spec => []LineStartsFollowBreaks
  BY Invariance, PTL DEF Inv
-----------------------------------------------------------------------------
(***************************************************************************)
(* Reading a document: the lines share out the tokens.  Tokens are sorted  *)
(* by start, so that those before an offset are a first part of them, as   *)
(* partition_point takes for granted; and a token starts behind the break  *)
(* in front of its line and cannot straddle the one that ends it.          *)
(***************************************************************************)
\* A set of indices that has all that are below one of its own.
LEMMA FirstPart ==
    ASSUME NEW n \in Nat, NEW S \in SUBSET (1..n),
           \A i, j \in 1..n : j \in S /\ i <= j => i \in S
    PROVE  Cardinality(S) \in 0..n /\ S = 1..Cardinality(S)
<1>1. CASE S = {}
  BY <1>1, FS_EmptySet
<1>2. CASE S # {}
  <2>1. S \in SUBSET Nat /\ \A i \in S : i <= n
    OBVIOUS
  <2>2. PICK m \in S : \A i \in S : i <= m
    BY <1>2, <2>1, LargestElement
  <2>3. S = 1..m /\ m \in 1..n
    <3>1. m \in 1..n
      OBVIOUS
    <3>2. \A i \in 1..m : i \in 1..n /\ i \in S
      BY <3>1
    <3>3. \A i \in S : i \in 1..n /\ i <= m
      BY <2>2
    <3>4. \A i \in S : i \in 1..m
      BY <3>1, <3>3
    <3> QED BY <3>1, <3>2, <3>4
  <2>4. Cardinality(1..m) = m
    BY <2>3, FS_Interval, 1 \in Int, m \in Int
  <2> QED BY <2>3, <2>4
<1> QED BY <1>1, <1>2

\* The fields of the tokens of a document: their starts ascend.
LEMMA StartsAscend ==
    ASSUME Inv
    PROVE  /\ Len(tokens) \in Nat /\ DOMAIN tokens = 1..Len(tokens)
           /\ \A i \in DOMAIN tokens : /\ tokens[i].start \in Nat /\ tokens[i].len \in Nat
                                       /\ tokens[i].len > 0 /\ End(tokens[i]) <= Len(text)
           /\ \A i, j \in DOMAIN tokens : i < j => tokens[i].start < tokens[j].start
<1>1. Len(tokens) \in Nat /\ DOMAIN tokens = 1..Len(tokens) /\ \A i \in DOMAIN tokens : tokens[i] \in Token
  BY DEF Inv, TypeOK
<1>2. \A i \in DOMAIN tokens : tokens[i].start \in Nat /\ tokens[i].len \in Nat /\ tokens[i].len > 0
  BY <1>1, TokenFields
<1>3. \A i, j \in DOMAIN tokens : i < j => tokens[i].start < tokens[j].start
  <2> SUFFICES ASSUME NEW i \in DOMAIN tokens, NEW j \in DOMAIN tokens, i < j
               PROVE  tokens[i].start < tokens[j].start
    OBVIOUS
  <2>1. End(tokens[i]) <= tokens[j].start
    BY DEF Inv, TokensOrdered
  <2> QED BY <1>2, <2>1 DEF End
<1> QED BY <1>1, <1>2, <1>3 DEF Inv, TypeOK

\* What partition_point finds: tokens up to there, and no others, start before
\* the offset.
LEMMA PartitionPoints ==
    ASSUME Inv, NEW offset \in Nat
    PROVE  /\ PartitionPoint(offset) \in 0..Len(tokens)
           /\ \A i \in DOMAIN tokens : i <= PartitionPoint(offset) <=> tokens[i].start < offset
<1> DEFINE S == {i \in DOMAIN tokens : tokens[i].start < offset}
           n == Len(tokens)
<1>1. n \in Nat /\ DOMAIN tokens = 1..n /\ (\A i \in 1..n : tokens[i].start \in Nat)
      /\ \A i, j \in 1..n : i < j => tokens[i].start < tokens[j].start
  BY StartsAscend
<1>2. S \in SUBSET (1..n) /\ \A i, j \in 1..n : j \in S /\ i <= j => i \in S
  BY <1>1
<1>3. \A i \in 1..n : i \in S <=> tokens[i].start < offset
  BY <1>1
<1>4. PartitionPoint(offset) = Cardinality(S)
  BY DEF PartitionPoint
<1> HIDE DEF S, n
<1>5. Cardinality(S) \in 0..n /\ S = 1..Cardinality(S)
  BY <1>1, <1>2, FirstPart
<1>6. PartitionPoint(offset) \in 0..n /\ \A i \in 1..n : i <= PartitionPoint(offset) <=> i \in S
  BY <1>4, <1>5
<1>7. \A i \in 1..n : i <= PartitionPoint(offset) <=> tokens[i].start < offset
  BY <1>3, <1>6
<1> QED BY <1>1, <1>6, <1>7 DEF n

\* The ends of lines are offsets.
LEMMA LineEnds ==
    ASSUME Inv
    PROVE  /\ Len(lineStarts) \in Nat /\ Len(lineStarts) > 0 /\ DOMAIN lineStarts = 1..Len(lineStarts)
           /\ \A r \in DOMAIN lineStarts : lineStarts[r] \in Nat /\ LineEnd(r) \in Nat
           /\ lineStarts[1] = 0
<1>1. /\ lineStarts \in Seq(Nat) /\ lineStarts # <<>> /\ Len(text) \in Nat /\ lineStarts[1] = 0
  BY DEF Inv, TypeOK, LineStartsFollowBreaks
<1> QED BY <1>1 DEF LineEnd

\* The tokens of a line are those that start in it.
LEMMA TokensOfLine ==
    ASSUME Inv, NEW r \in DOMAIN lineStarts
    PROVE  \A i : i \in LineTokens(r) <=>
                      /\ i \in DOMAIN tokens
                      /\ lineStarts[r] <= tokens[i].start /\ tokens[i].start < LineEnd(r)
<1>1. lineStarts[r] \in Nat /\ LineEnd(r) \in Nat
  BY LineEnds
<1>2. DOMAIN tokens = 1..Len(tokens) /\ Len(tokens) \in Nat /\ \A i \in DOMAIN tokens : tokens[i].start \in Nat
  BY StartsAscend
<1> DEFINE lo == PartitionPoint(lineStarts[r])
           hi == PartitionPoint(LineEnd(r))
<1>3. lo \in 0..Len(tokens) /\ \A i \in DOMAIN tokens : i <= lo <=> tokens[i].start < lineStarts[r]
  BY <1>1, PartitionPoints
<1>4. hi \in 0..Len(tokens) /\ \A i \in DOMAIN tokens : i <= hi <=> tokens[i].start < LineEnd(r)
  BY <1>1, PartitionPoints
<1>5. LineTokens(r) = (lo + 1)..hi
  BY DEF LineTokens
<1> HIDE DEF lo, hi
<1>6. \A i : i \in (lo + 1)..hi <=> i \in 1..Len(tokens) /\ ~(i <= lo) /\ i <= hi
  BY <1>2, <1>3, <1>4
<1> QED BY <1>1, <1>2, <1>3, <1>4, <1>5, <1>6

\* Each token starts in exactly one line and ends in it.
LEMMA SharedOut ==
    ASSUME Inv
    PROVE  /\ \A i \in DOMAIN tokens :
                  Cardinality({r \in DOMAIN lineStarts : i \in LineTokens(r)}) = 1
           /\ \A r \in DOMAIN lineStarts : \A i \in LineTokens(r) :
                  /\ lineStarts[r] <= tokens[i].start
                  /\ End(tokens[i]) <= LineEnd(r)
<1> DEFINE n == Len(lineStarts)
<1>1. /\ n \in Nat /\ n > 0 /\ DOMAIN lineStarts = 1..n /\ lineStarts[1] = 0
      /\ \A r \in 1..n : lineStarts[r] \in Nat /\ LineEnd(r) \in Nat
  BY LineEnds
<1>2. \A r, q \in 1..n : r < q => lineStarts[r] < lineStarts[q]
  BY <1>1 DEF Inv, LineStartsFollowBreaks
<1>3. \A r \in 1..n : LineEnd(r) = IF r < n THEN lineStarts[r + 1] ELSE Len(text)
  BY DEF LineEnd
<1>4. ASSUME NEW i \in DOMAIN tokens
      PROVE  Cardinality({r \in DOMAIN lineStarts : i \in LineTokens(r)}) = 1
  <2> DEFINE a == tokens[i].start
  <2>1. a \in Nat /\ a < Len(text) /\ Len(text) \in Nat
    <3>1. a \in Nat /\ tokens[i].len \in Nat /\ tokens[i].len > 0 /\ a + tokens[i].len <= Len(text)
      BY StartsAscend DEF End
    <3>2. Len(text) \in Nat
      BY DEF Inv, TypeOK
    <3> QED BY <3>1, <3>2
  <2> HIDE DEF a
  <2> DEFINE T == {r \in 1..n : lineStarts[r] <= a}
  <2>2. T \in SUBSET Nat /\ 1 \in T /\ \A r \in T : r <= n
    BY <1>1, <2>1
  <2>3. PICK q \in T : \A r \in T : r <= q
    BY <1>1, <2>2, LargestElement
  <2>4. q \in 1..n /\ lineStarts[q] <= a /\ a < LineEnd(q)
    <3>1. q \in 1..n /\ lineStarts[q] <= a
      BY <2>3
    <3>2. CASE q < n
      <4>1. q + 1 \in 1..n /\ q + 1 \notin T
        BY <1>1, <2>3, <3>1, <3>2
      <4>2. lineStarts[q + 1] \in Nat /\ ~(lineStarts[q + 1] <= a)
        BY <1>1, <4>1
      <4> QED BY <1>3, <2>1, <3>1, <3>2, <4>2
    <3>3. CASE ~(q < n)
      BY <1>1, <1>3, <2>1, <3>1, <3>3
    <3> QED BY <3>1, <3>2, <3>3
  <2>5. ASSUME NEW r \in 1..n, lineStarts[r] <= a, a < LineEnd(r) PROVE r = q
    <3>1. r <= q
      BY <2>3, <2>5
    <3>2. ASSUME r < q PROVE FALSE
      <4>1. r < n /\ r + 1 \in 1..n /\ LineEnd(r) = lineStarts[r + 1]
        BY <1>1, <1>3, <2>4, <3>2
      <4>2. r + 1 <= q
        BY <2>4, <3>2
      <4>3. lineStarts[r + 1] <= lineStarts[q]
        BY <1>1, <1>2, <2>4, <4>1, <4>2
      <4> QED BY <1>1, <2>1, <2>4, <2>5, <4>1, <4>3
    <3> QED BY <2>4, <3>1, <3>2
  <2>6. \A r \in 1..n : i \in LineTokens(r) <=> lineStarts[r] <= a /\ a < LineEnd(r)
    BY <1>1, TokensOfLine DEF a
  <2>7. {r \in DOMAIN lineStarts : i \in LineTokens(r)} = {q}
    BY <1>1, <2>4, <2>5, <2>6
  <2> QED BY <2>7, FS_Singleton
<1>5. ASSUME NEW r \in DOMAIN lineStarts, NEW i \in LineTokens(r)
      PROVE  lineStarts[r] <= tokens[i].start /\ End(tokens[i]) <= LineEnd(r)
  <2>1. i \in DOMAIN tokens /\ lineStarts[r] <= tokens[i].start /\ tokens[i].start < LineEnd(r)
    BY TokensOfLine
  <2>2. tokens[i].start \in Nat /\ tokens[i].len \in Nat /\ End(tokens[i]) <= Len(text)
    BY <2>1, StartsAscend
  <2>3. CASE r < n
    <3>1. r + 1 \in 1..n /\ r + 1 > 1 /\ LineEnd(r) = lineStarts[r + 1]
      BY <1>1, <1>3, <2>3
    <3> DEFINE p == lineStarts[r + 1]
    <3>2. text[p] = "nl" /\ p \in Nat
      BY <1>1, <3>1 DEF Inv, LineStartsFollowBreaks
    <3>3. \A b \in (tokens[i].start + 1)..End(tokens[i]) : text[b] # "nl"
      BY <2>1 DEF Inv, NoTokenStraddlesNewline
    <3> HIDE DEF p
    <3>4. tokens[i].start < p
      BY <2>1, <3>1 DEF p
    <3>5. End(tokens[i]) \in Nat
      BY <2>2 DEF End
    <3>6. p \notin (tokens[i].start + 1)..End(tokens[i])
      BY <3>2, <3>3
    <3>7. End(tokens[i]) <= p
      BY <2>2, <3>2, <3>4, <3>5, <3>6
    <3> QED BY <2>1, <3>1, <3>7 DEF p
  <2>4. CASE ~(r < n)
    BY <1>1, <1>3, <2>1, <2>2, <2>4
  <2> QED BY <2>3, <2>4
<1> QED BY <1>4, <1>5
-----------------------------------------------------------------------------
(***************************************************************************)
(* What slice has a text for.                                              *)
(***************************************************************************)
\* What is written behind a text leaves its boundaries where they were.
LEMMA BoundariesStay ==
    ASSUME text \in Seq(Byte), NEW s \in Seq(Byte), s # <<>>, s[1] # "cont", text' = text \o s,
           NEW o \in 0..Len(text), IsCharBoundary(o)
    PROVE  IsCharBoundary(o)'
<1>1. /\ Len(text) \in Nat /\ Len(s) > 0 /\ Len(text') = Len(text) + Len(s)
      /\ \A p \in 1..(Len(text) + Len(s)) :
             text'[p] = IF p <= Len(text) THEN text[p] ELSE s[p - Len(text)]
  BY ConcatProperties
<1>2. CASE o = 0
  BY <1>2 DEF IsCharBoundary
<1>3. CASE o = Len(text)
  <2>1. text'[Len(text) + 1] = s[1]
    <3>1. Len(text) + 1 \in 1..(Len(text) + Len(s)) /\ ~(Len(text) + 1 <= Len(text))
          /\ (Len(text) + 1) - Len(text) = 1
      BY <1>1
    <3> QED BY <1>1, <3>1
  <2> QED BY <1>3, <2>1 DEF IsCharBoundary
<1>4. CASE o # 0 /\ o # Len(text)
  <2>1. text[o + 1] # "cont"
    BY <1>4 DEF IsCharBoundary
  <2>2. text'[o + 1] = text[o + 1]
    BY <1>1, <1>4
  <2> QED BY <2>1, <2>2 DEF IsCharBoundary
<1> QED BY <1>2, <1>3, <1>4

\* A token stays as whole as it was.
LEMMA TokensStayWhole ==
    ASSUME Inv, BrokenOnlyWhereCut,
           NEW s \in Seq(Byte), s # <<>>, s[1] # "cont", text' = text \o s,
           NEW i \in DOMAIN tokens, SliceDefined(tokens[i]), tokens'[i] = tokens[i]
    PROVE  SliceDefined(tokens[i])'
<1>1. /\ tokens[i].start \in 0..Len(text) /\ End(tokens[i]) \in 0..Len(text)
      /\ text \in Seq(Byte)
  <2>1. /\ tokens[i].start \in Nat /\ tokens[i].len \in Nat /\ End(tokens[i]) <= Len(text)
        /\ Len(text) \in Nat /\ text \in Seq(Byte)
    BY StartsAscend DEF Inv, TypeOK
  <2> QED BY <2>1 DEF End
<1> DEFINE a == tokens[i].start
           b == End(tokens[i])
<1>2. IsCharBoundary(a) /\ IsCharBoundary(b)
  BY DEF SliceDefined
<1>3. tokens'[i].start = a /\ tokens'[i].start + tokens'[i].len = b
  BY DEF End
<1>4. ASSUME NEW x \in 0..Len(text), IsCharBoundary(x)
      PROVE  x \in {0, Len(text')} \/ text'[x + 1] # "cont"
  <2>1. IsCharBoundary(x)'
    BY <1>1, <1>4, BoundariesStay
  <2> QED BY <2>1 DEF IsCharBoundary
<1>5. a \in 0..Len(text) /\ b \in 0..Len(text)
  BY <1>1
<1> HIDE DEF a, b
<1>6. /\ a \in {0, Len(text')} \/ text'[a + 1] # "cont"
      /\ b \in {0, Len(text')} \/ text'[b + 1] # "cont"
  BY <1>2, <1>4, <1>5
<1> QED BY <1>3, <1>6 DEF SliceDefined, IsCharBoundary, End

\* A run that is cut is broken where it is cut, unless it is blank.
LEMMA RunsBreakWhereCut ==
    ASSUME Inv, BrokenOnlyWhereCut,
           NEW s \in Seq(Byte), s # <<>>, s[1] # "cont", NEW size \in 1..MaxLen,
           size = MaxLen \/ \A i \in DOMAIN s : s[i] = "lead",
           AppendRun(s, size)
    PROVE  BrokenOnlyWhereCut'
<1> DEFINE n == Len(s)
           l == Len(text)
           c == Cut(l, n, size)
           m == Len(tokens)
<1>1. n \in Nat /\ n > 0 /\ l \in Nat /\ text \in Seq(Byte) /\ tokens \in Seq(Token) /\ m \in Nat
  BY DEF Inv, TypeOK
<1>2. /\ c \in Seq(Token)
      /\ \A i \in DOMAIN c : l <= c[i].start /\ End(c[i]) <= l + n
      /\ \A i \in DOMAIN c :
             /\ c[i].len = size \/ End(c[i]) = l + n
             /\ i = 1 => c[i].start = l
             /\ i > 1 => c[i - 1].len = size /\ End(c[i - 1]) = c[i].start
  <2>1. IsCut(c, l, n, size)
    BY <1>1, CutLemma
  <2> HIDE DEF c, l, n
  <2> QED BY <2>1 DEF IsCut
<1>3. text' = text \o s /\ tokens' = tokens \o c
  BY DEF AppendRun
<1> HIDE DEF c
<1>4. /\ Len(c) \in Nat /\ DOMAIN c = 1..Len(c)
      /\ DOMAIN tokens' = 1..(m + Len(c)) /\ DOMAIN tokens = 1..m
      /\ \A i \in 1..m : tokens'[i] = tokens[i]
      /\ \A j \in 1..Len(c) : tokens'[m + j] = c[j]
  BY <1>1, <1>2, <1>3
<1>5. /\ Len(text') = l + n
      /\ \A p \in 1..n : text'[l + p] = s[p]
  BY <1>1, <1>3
<1> DEFINE Fine(i) ==
       \/ SliceDefined(tokens[i])'
       \/ tokens'[i].len = MaxLen
       \/ i > 1 /\ tokens'[i - 1].len = MaxLen /\ End(tokens'[i - 1]) = tokens'[i].start
<1>6. ASSUME NEW i \in 1..m PROVE Fine(i)
  <2>1. \/ SliceDefined(tokens[i])
        \/ tokens[i].len = MaxLen
        \/ i > 1 /\ tokens[i - 1].len = MaxLen /\ End(tokens[i - 1]) = tokens[i].start
    BY <1>4 DEF BrokenOnlyWhereCut
  <2>2. tokens'[i] = tokens[i] /\ i \in DOMAIN tokens
    BY <1>4
  <2>3. CASE SliceDefined(tokens[i])
    BY <1>3, <2>2, <2>3, TokensStayWhole
  <2>4. CASE i > 1
    <3>1. i - 1 \in 1..m
      BY <1>1, <2>4
    <3>2. tokens'[i - 1] = tokens[i - 1]
      BY <1>4, <3>1
    <3> QED BY <2>1, <2>2, <2>3, <3>2
  <2> QED BY <2>1, <2>2, <2>3, <2>4
<1>7. ASSUME NEW j \in 1..Len(c), NEW i \in Nat, i = m + j PROVE Fine(i)
  <2>1. /\ tokens'[i] = c[j]
        /\ c[j].start \in Nat /\ c[j].len \in Nat /\ c[j].len > 0 /\ End(c[j]) = c[j].start + c[j].len
    <3>1. c[j] \in Token
      BY <1>2, <1>4
    <3> QED BY <1>4, <1>7, <3>1, TokenFields DEF End
  <2>2. l <= c[j].start /\ End(c[j]) <= l + n
    BY <1>2, <1>4
  <2>3. /\ c[j].len = size \/ End(c[j]) = l + n
        /\ j = 1 => c[j].start = l
        /\ j > 1 => c[j - 1].len = size /\ End(c[j - 1]) = c[j].start
    BY <1>2, <1>4
  <2>4. ASSUME \/ c[j].start = l + n \/ text'[c[j].start + 1] # "cont",
               \/ End(c[j]) = l + n \/ text'[End(c[j]) + 1] # "cont"
        PROVE  SliceDefined(tokens[i])'
    <3> DEFINE a == c[j].start
               b == End(c[j])
    <3>1. a \in {0, Len(text')} \/ text'[a + 1] # "cont"
      BY <1>5, <2>4
    <3>2. b \in {0, Len(text')} \/ text'[b + 1] # "cont"
      BY <1>5, <2>4
    <3>3. tokens'[i].start = a /\ tokens'[i].start + tokens'[i].len = b
      BY <2>1
    <3> HIDE DEF a, b
    <3> QED BY <3>1, <3>2, <3>3 DEF SliceDefined, IsCharBoundary, End
  <2>5. CASE size = MaxLen
    <3>1. CASE j = 1 /\ End(c[j]) = l + n
      <4>1. text'[l + 1] = s[1]
        BY <1>1, <1>5
      <4> QED BY <2>3, <2>4, <3>1, <4>1
    <3>2. CASE j > 1
      <4>1. j - 1 \in 1..Len(c) /\ i - 1 = m + (j - 1) /\ i > 1
        BY <1>1, <1>4, <1>7, <3>2
      <4>2. tokens'[i - 1] = c[j - 1]
        BY <1>4, <4>1
      <4>3. tokens'[i - 1].len = MaxLen /\ End(tokens'[i - 1]) = tokens'[i].start
        BY <2>1, <2>3, <2>5, <3>2, <4>2
      <4> QED BY <4>1, <4>3
    <3>3. CASE c[j].len = size
      BY <2>1, <2>5, <3>3
    <3> QED BY <2>3, <3>1, <3>2, <3>3, j = 1 \/ j > 1
  <2>6. CASE \A d \in DOMAIN s : s[d] = "lead"
    <3>1. ASSUME NEW x \in Nat, l <= x, x <= l + n PROVE x = l + n \/ text'[x + 1] # "cont"
      <4>1. CASE x < l + n
        <5> DEFINE p == (x + 1) - l
        <5>1. p \in 1..n /\ l + p = x + 1 /\ p \in DOMAIN s
          BY <1>1, <3>1, <4>1
        <5> HIDE DEF p
        <5>2. text'[x + 1] = "lead"
          BY <1>5, <2>6, <5>1
        <5> QED BY <5>2
      <4>2. CASE ~(x < l + n)
        <5>1. x = l + n
          BY <1>1, <3>1, <4>2
        <5> QED BY <5>1
      <4> QED BY <4>1, <4>2
    <3>2. /\ c[j].start \in Nat /\ l <= c[j].start /\ c[j].start <= l + n
          /\ End(c[j]) \in Nat /\ l <= End(c[j]) /\ End(c[j]) <= l + n
      <4>1. PICK x \in Nat : x = c[j].start /\ l <= x
        BY <2>1, <2>2
      <4>2. PICK y \in Nat : y = End(c[j]) /\ x <= y /\ y <= l + n
        BY <2>1, <2>2, <4>1 DEF End
      <4>3. l <= y /\ x <= l + n
        BY <1>1, <4>1, <4>2
      <4> QED BY <4>1, <4>2, <4>3
    <3> DEFINE a == c[j].start
               b == End(c[j])
    <3>3. /\ a = l + n \/ text'[a + 1] # "cont"
          /\ b = l + n \/ text'[b + 1] # "cont"
      <4> HIDE DEF l, n
      <4> QED BY <3>1, <3>2
    <3> QED BY <2>4, <3>3
  <2> QED BY <2>5, <2>6
<1>8. \A i \in DOMAIN tokens' : Fine(i)
  <2> SUFFICES ASSUME NEW i \in DOMAIN tokens' PROVE Fine(i)
    OBVIOUS
  <2> HIDE DEF Fine
  <2>1. CASE i \in 1..m
    BY <1>6, <2>1
  <2>2. CASE i \notin 1..m
    <3>1. PICK j \in 1..Len(c) : i = m + j
      <4>1. i - m \in 1..Len(c) /\ i = m + (i - m)
        BY <1>1, <1>4, <2>2
      <4> QED BY <4>1
    <3>2. i \in Nat
      BY <1>1, <3>1
    <3> QED BY <1>7, <3>1, <3>2
  <2> QED BY <2>1, <2>2
<1> QED BY <1>8 DEF BrokenOnlyWhereCut, End

\* Every operation of the builder keeps tokens whole or breaks them where a run
\* is cut.
LEMMA BreaksInductive == Inv /\ BrokenOnlyWhereCut /\ [Next]_vars => BrokenOnlyWhereCut'
<1> SUFFICES ASSUME Inv, BrokenOnlyWhereCut, [Next]_vars PROVE BrokenOnlyWhereCut'
  OBVIOUS
<1>0. MaxLen \in Nat /\ MaxLen \in 1..MaxLen /\ Spaces \in 1..MaxLen
  BY BoundsAssumption
<1>1. ASSUME NEW s \in Texts, Push(s) PROVE BrokenOnlyWhereCut'
  <2>1. s \in Seq(Byte) /\ s # <<>> /\ s[1] # "cont"
    BY <1>1, TextsAssumption DEF Push, Str
  <2>2. Sanitized(s) \in [1..Len(s) -> Byte] /\ Len(s) \in Nat
    BY <2>1 DEF Sanitized, Byte
  <2>3. Sanitized(s) \in Seq(Byte)
    BY <2>2, SeqDef
  <2>4. 1 \in DOMAIN s /\ Sanitized(s)[1] # "cont"
    BY <2>1 DEF Sanitized
  <2>5. Sanitized(s) # <<>>
    BY <2>2, <2>4 DEF Sanitized
  <2> QED BY <1>0, <1>1, <2>3, <2>4, <2>5, RunsBreakWhereCut DEF Push
<1>2. ASSUME NEW s \in Formatted, PushFmt(s) PROVE BrokenOnlyWhereCut'
  <2>1. s \in Seq(Byte) /\ s # <<>> /\ s[1] # "cont"
    BY <1>2, FormattedAssumption DEF PushFmt, Str
  <2> QED BY <1>0, <1>2, <2>1, RunsBreakWhereCut DEF PushFmt
<1>3. ASSUME NEW count \in Nat, Pad(count) PROVE BrokenOnlyWhereCut'
  <2>1. Blank(count) \in [1..count -> Byte] /\ count > 0
    BY <1>3 DEF Blank, Byte, Pad
  <2>2. Blank(count) \in Seq(Byte)
    BY <2>1, SeqDef
  <2>3. 1 \in DOMAIN Blank(count) /\ \A i \in DOMAIN Blank(count) : Blank(count)[i] = "lead"
    BY <2>1 DEF Blank
  <2>4. Blank(count)[1] # "cont" /\ Blank(count) # <<>>
    BY <2>3
  <2> QED BY <1>0, <1>3, <2>2, <2>3, <2>4, RunsBreakWhereCut DEF Pad
<1>4. ASSUME NEW c \in Stops, PadTo(c) PROVE BrokenOnlyWhereCut'
  <2>1. c - currentColumns \in Nat
    BY <1>4, BoundsAssumption DEF PadTo, Inv, TypeOK
  <2> QED BY <1>3, <1>4, <2>1 DEF PadTo
<1>5. CASE Newline
  <2> DEFINE s == <<"nl">>
  <2>1. s \in Seq(Byte) /\ s # <<>> /\ s[1] # "cont" /\ tokens' = tokens
    BY <1>5 DEF Byte, Newline
  <2>2. text' = text \o s
    <3>1. text' = Append(text, "nl") /\ text \in Seq(Byte)
      BY <1>5 DEF Newline, Inv, TypeOK
    <3> QED BY <3>1
  <2> HIDE DEF s
  <2>3. \A i \in DOMAIN tokens : SliceDefined(tokens[i]) => SliceDefined(tokens[i])'
    BY <2>1, <2>2, TokensStayWhole
  <2> QED BY <2>1, <2>3 DEF BrokenOnlyWhereCut
<1>6. CASE Finish \/ UNCHANGED vars
  <2>1. UNCHANGED <<text, tokens>>
    BY <1>6 DEF Finish, vars
  <2> QED BY <2>1 DEF BrokenOnlyWhereCut, SliceDefined, IsCharBoundary
<1> QED BY <1>1, <1>2, <1>3, <1>4, <1>5, <1>6 DEF Next

\* The lines of a finished document share out its tokens, and slice has a text
\* for each but those of an overlong run (line_tokens, slice).
THEOREM LinesShareOut == Spec => []LinesShareOutTokens
<1>1. Init => BrokenOnlyWhereCut
  BY DEF Init, BrokenOnlyWhereCut
<1>2. Inv /\ BrokenOnlyWhereCut => LinesShareOutTokens
  BY SharedOut DEF LinesShareOutTokens
<1>3. (Inv /\ BrokenOnlyWhereCut) /\ [Next]_vars => (Inv /\ BrokenOnlyWhereCut)'
  BY Inductive, BreaksInductive
<1> QED BY <1>1, <1>2, <1>3, Initial, PTL DEF Spec
-----------------------------------------------------------------------------
(***************************************************************************)
(* Pasted text: what is highlighted is a document, so all that is proved   *)
(* of Document is true of it.                                              *)
(***************************************************************************)
\* Whatever of a lexeme is pushed is one of the texts of the builder.
LEMMA LexPushes == ASSUME NEW l \in Lexemes, Lex(l) PROVE \E s \in Texts : Push(s)
<1>1. l.bytes \in Texts /\ (l.class = "NumberColon" => Digits(l) \in Texts)
  BY LexemesAssumption
<1>2. (l.class = "NumberColon" /\ Push(Digits(l))) \/ Push(l.bytes)
  BY DEF Lex
<1> QED BY <1>1, <1>2

\* Every step over the lexemes is an operation of the builder, or none.
LEMMA StepIsAStep == [TextNext]_textVars => [Next]_vars
<1> SUFFICES ASSUME [TextNext]_textVars PROVE [Next]_vars
  OBVIOUS
<1>1. CASE NextLine
  BY <1>1 DEF NextLine
<1>2. CASE \E l \in Lexemes : Lex(l)
  BY <1>2, LexPushes DEF Next
<1>3. CASE SplitColon
  BY <1>3, LexemesAssumption DEF SplitColon, Next
<1>4. CASE EndOfLine
  BY <1>4 DEF EndOfLine, Next
<1>5. CASE EndOfText
  BY <1>5 DEF EndOfText
<1>6. CASE FinishText
  BY <1>6 DEF FinishText, Next
<1>7. CASE UNCHANGED textVars
  BY <1>7 DEF textVars
<1> QED BY <1>1, <1>2, <1>3, <1>4, <1>5, <1>6, <1>7 DEF TextNext
-----------------------------------------------------------------------------
\* The builder behind the highlighting behaves as Document says.
LEMMA HighlightingWrites == TextSpec => Spec
<1>1. TextInit => Init
  BY DEF TextInit
<1> QED BY <1>1, StepIsAStep, PTL DEF TextSpec, Spec

\* No token of highlighted text straddles a newline, every byte of it lies in
\* a token, and its lines share them out, carriage returns and long words
\* included.
THEOREM PastedTokens ==
    TextSpec => [](NoTokenStraddlesNewline /\ EveryByteInAToken /\ LinesShareOutTokens)
BY HighlightingWrites, NeverStraddles, NothingLost, LinesShareOut, PTL
-----------------------------------------------------------------------------
(***************************************************************************)
(* What is pasted is what is written: the bytes of a line are those of its *)
(* lexemes one behind the other.                                           *)
(***************************************************************************)

LEMMA FlattenAppend ==
    ASSUME NEW S, NEW s \in Seq(Seq(S)), NEW x \in Seq(S)
    PROVE  /\ FlattenSeq(<<>>) = <<>>
           /\ FlattenSeq(s) \in Seq(S) /\ FlattenSeq(Append(s, x)) = FlattenSeq(s) \o x
<1>1. \A v : FlattenSeq(v) = Flattened(v)
  BY DEF FlattenSeq, Flattened, Flat
<1> QED BY <1>1, FlattenedAppend

\* The bytes of a line with one lexeme more.
LEMMA BytesAppend ==
    ASSUME NEW line \in Seq(Lexemes), NEW l \in Lexemes
    PROVE  /\ Bytes(<<>>) = <<>>
           /\ Bytes(line) \in Seq(Byte)
           /\ Bytes(Append(line, l)) = Bytes(line) \o l.bytes
<1> DEFINE v == Append(line, l)
           m == Len(line)
           s == [k \in DOMAIN line |-> line[k].bytes]
           t == [k \in DOMAIN v |-> v[k].bytes]
<1>1. \A d \in Lexemes : d.bytes \in Seq(Byte)
  BY LexemesAssumption DEF Lexeme, Str
<1>2. m \in Nat /\ DOMAIN line = 1..m /\ DOMAIN v = 1..(m + 1) /\ v[m + 1] = l
      /\ \A k \in 1..m : v[k] = line[k] /\ line[k] \in Lexemes
  OBVIOUS
<1>3. Bytes(line) = FlattenSeq(s) /\ Bytes(v) = FlattenSeq(t)
  BY DEF Bytes
<1> DEFINE x == l.bytes
<1> HIDE DEF v, m, x
<1>4. s \in [1..m -> Seq(Byte)] /\ x \in Seq(Byte)
  BY <1>1, <1>2 DEF x
<1>5. s \in Seq(Seq(Byte)) /\ Len(s) = m
  BY <1>2, <1>4
<1>6. t = Append(s, x)
  <2>1. Append(s, x) = [k \in 1..(m + 1) |-> IF k = m + 1 THEN x ELSE s[k]]
    BY <1>2, <1>4, <1>5
  <2>2. \A k \in 1..(m + 1) : v[k].bytes = IF k = m + 1 THEN x ELSE s[k]
    <3> TAKE k \in 1..(m + 1)
    <3>1. CASE k = m + 1
      BY <1>2, <3>1 DEF x
    <3>2. CASE k # m + 1
      <4>1. k \in 1..m
        BY <1>2, <3>2
      <4> QED BY <1>2, <3>2, <4>1
    <3> QED BY <3>1, <3>2
  <2>3. t = [k \in 1..(m + 1) |-> v[k].bytes]
    BY <1>2
  <2> HIDE DEF t, s
  <2> QED BY <2>1, <2>2, <2>3
<1>7. Bytes(<<>>) = FlattenSeq(<<>>)
  <2>1. [k \in DOMAIN <<>> |-> <<>>[k].bytes] = <<>>
    OBVIOUS
  <2> QED BY <2>1 DEF Bytes
<1> HIDE DEF s, t
<1>8. /\ FlattenSeq(<<>>) = <<>>
      /\ FlattenSeq(s) \in Seq(Byte) /\ FlattenSeq(Append(s, x)) = FlattenSeq(s) \o x
  BY <1>4, <1>5, FlattenAppend
<1> QED BY <1>3, <1>6, <1>7, <1>8 DEF v, x
-----------------------------------------------------------------------------
(***************************************************************************)
(* What a step of the highlighting does, said of the texts and the tokens. *)
(***************************************************************************)
\* What becomes of a byte that is pushed.
Clean(b) == IF b = "nl" THEN "lead" ELSE b

\* A push puts its bytes behind the text, and tokens of them, the first of
\* which starts where the text ended, behind the tokens.
Grows(s) ==
    /\ s \in Seq(Byte) /\ Len(s) \in Nat /\ Len(s) > 0
    /\ Len(text) \in Nat /\ Len(text') = Len(text) + Len(s)
    /\ \A p \in 1..Len(text) : text'[p] = text[p]
    /\ \A i \in 1..Len(s) : text'[Len(text) + i] = Clean(s[i])
    /\ tokens \in Seq(Token) /\ tokens' \in Seq(Token)
    /\ Len(tokens) \in Nat /\ Len(tokens') \in Nat /\ Len(tokens') > Len(tokens)
    /\ \A i \in 1..Len(tokens) : tokens'[i] = tokens[i] /\ tokens[i].start < Len(text)
    /\ tokens'[Len(tokens) + 1].start = Len(text)
    /\ \A i \in (Len(tokens) + 2)..Len(tokens') : tokens'[i].start > Len(text)
    /\ Len(s) <= MaxLen => Len(tokens') = Len(tokens) + 1
    /\ lineStarts' = lineStarts /\ finished' = finished /\ ~finished

\* What is put behind a sequence is found behind it.
LEMMA Behind ==
    ASSUME NEW S, NEW x \in Seq(S), NEW y \in Seq(S)
    PROVE  /\ x \o y \in Seq(S)
           /\ Len(x \o y) = Len(x) + Len(y)
           /\ \A p \in 1..Len(x) : (x \o y)[p] = x[p]
           /\ \A i \in 1..Len(y) : (x \o y)[Len(x) + i] = y[i]
OBVIOUS

LEMMA PushGrows ==
    ASSUME Inv, NEW s \in Texts, Push(s)
    PROVE  Grows(s)
<1> DEFINE z == Sanitized(s)
           n == Len(s)
           start == Len(text)
           c == Cut(start, n, MaxLen)
           k == Len(c)
<1>1. MaxLen \in Nat \ {0} /\ MaxLen \in 1..MaxLen
  BY BoundsAssumption
<1>2. s \in Seq(Byte) /\ n \in Nat /\ n > 0 /\ s # <<>>
  BY TextsAssumption DEF Str, Push
<1>3. z \in Seq(Byte) /\ Len(z) = n /\ \A i \in 1..n : z[i] = Clean(s[i])
  BY <1>2 DEF Sanitized, Clean, Byte
<1>4. text \in Seq(Byte) /\ start \in Nat /\ tokens \in Seq(Token) /\ Len(tokens) \in Nat
  BY DEF Inv, TypeOK
<1>5. IsCut(c, start, n, MaxLen)
  BY <1>1, <1>2, <1>4, CutLemma
<1>6. text' = text \o z /\ tokens' = tokens \o Cut(start, Len(z), MaxLen)
      /\ lineStarts' = lineStarts /\ finished' = finished /\ ~finished
  BY DEF Push, AppendRun
<1>7. tokens' = tokens \o c
  BY <1>3, <1>6
<1> HIDE DEF c, z, n
<1>8. c \in Seq(Token) /\ k \in Nat /\ DOMAIN c = 1..k
  <2>1. c \in Seq(Token)
    BY <1>5 DEF IsCut
  <2> QED BY <2>1
<1>9. \A i \in 1..k : c[i].start \in Nat /\ c[i].len \in Nat /\ c[i].len > 0
  BY <1>8, TokenFields
<1>10. \A i \in 1..k : End(c[i]) <= start + n
  BY <1>5, <1>8 DEF IsCut
<1>11. /\ \A i \in 1..k : i = 1 => c[i].start = start
       /\ \A i, j \in 1..k : i < j => End(c[i]) <= c[j].start
       /\ \A i \in 1..k : i > 1 => c[i - 1].len = MaxLen /\ End(c[i - 1]) = c[i].start
  BY <1>5, <1>8 DEF IsCut
<1>12. k > 0
  <2>1. start + 1 \in (start + 1)..(start + n)
    BY <1>2, <1>4
  <2>2. PICK i \in DOMAIN c : c[i].start < start + 1
    BY <1>5, <2>1 DEF IsCut
  <2> QED BY <1>8, <2>2
<1>13. c[1].start = start /\ c[1].len > 0
  BY <1>8, <1>9, <1>11, <1>12
<1>14. \A i \in 2..k : c[i].start > start
  <2> TAKE i \in 2..k
  <2>1. End(c[1]) <= c[i].start /\ c[1].len \in Nat /\ c[i].start \in Nat
    BY <1>8, <1>9, <1>11
  <2> QED BY <1>4, <1>13, <2>1 DEF End
<1>15. n <= MaxLen => k = 1
  <2>1. SUFFICES ASSUME n <= MaxLen, k # 1 PROVE FALSE
    OBVIOUS
  <2>2. 1 \in 1..k /\ 2 \in 1..k /\ 2 - 1 = 1 /\ 2 > 1
    BY <1>8, <1>12, <2>1
  <2>3. c[1].len = MaxLen /\ End(c[1]) = c[2].start /\ End(c[2]) <= start + n
    BY <1>10, <1>11, <2>2
  <2>4. PICK a \in Nat : a = c[2].start
    BY <1>9, <2>2
  <2>5. PICK b \in Nat : b = c[2].len /\ b > 0
    BY <1>9, <2>2
  <2>6. start + MaxLen = a
    BY <1>13, <2>3, <2>4 DEF End
  <2>7. a + b <= start + n
    BY <2>3, <2>4, <2>5 DEF End
  <2>8. PICK e \in Nat : e = start
    BY <1>4
  <2>9. PICK f \in Nat : f = n /\ f <= MaxLen
    BY <1>2, <2>1
  <2>10. e + MaxLen = a /\ a + b <= e + f /\ MaxLen \in Nat
    BY <1>1, <2>6, <2>7, <2>8, <2>9
  <2> QED BY <2>5, <2>9, <2>10
<1>16. /\ Len(text') = start + n
       /\ \A p \in 1..start : text'[p] = text[p]
       /\ \A i \in 1..n : text'[start + i] = z[i]
  <2>1. /\ Len(text \o z) = Len(text) + Len(z)
        /\ \A p \in 1..Len(text) : (text \o z)[p] = text[p]
        /\ \A i \in 1..Len(z) : (text \o z)[Len(text) + i] = z[i]
    BY <1>3, <1>4, Behind
  <2> QED BY <1>3, <1>6, <2>1
<1>17. /\ Len(tokens') = Len(tokens) + k
       /\ \A i \in 1..Len(tokens) : tokens'[i] = tokens[i]
       /\ \A i \in 1..k : tokens'[Len(tokens) + i] = c[i]
  BY <1>4, <1>7, <1>8
<1>18. \A i \in 1..Len(tokens) : tokens[i].start < start
  <2> TAKE i \in 1..Len(tokens)
  <2>1. End(tokens[i]) <= start /\ tokens[i].start \in Nat /\ tokens[i].len \in Nat /\ tokens[i].len > 0
    BY <1>4, TokenFields DEF Inv, TypeOK
  <2> QED BY <1>4, <2>1 DEF End
<1>19. tokens'[Len(tokens) + 1].start = start
  BY <1>12, <1>8, <1>13, <1>17
<1>20. \A i \in (Len(tokens) + 2)..Len(tokens') : tokens'[i].start > start
  <2> TAKE i \in (Len(tokens) + 2)..Len(tokens')
  <2>1. PICK j \in 2..k : i = Len(tokens) + j
    <3>1. i - Len(tokens) \in 2..k /\ i = Len(tokens) + (i - Len(tokens))
      BY <1>4, <1>8, <1>17
    <3> QED BY <3>1
  <2>2. tokens'[i] = c[j]
    BY <1>8, <1>17, <2>1
  <2> QED BY <1>14, <2>2
<1>21. \A i \in 1..n : text'[start + i] = Clean(s[i])
  BY <1>3, <1>16
<1>22. Len(tokens') \in Nat /\ Len(tokens') > Len(tokens) /\ (n <= MaxLen => Len(tokens') = Len(tokens) + 1)
  <2>1. PICK a \in Nat : a = Len(tokens)
    BY <1>4
  <2>2. PICK b \in Nat : b = k /\ b > 0
    BY <1>8, <1>12
  <2>3. Len(tokens') = a + b
    BY <1>17, <2>1, <2>2
  <2>4. n <= MaxLen => b = 1
    BY <1>15, <2>2
  <2> HIDE DEF k
  <2>5. a + b \in Nat /\ a + b > a
    BY <2>1, <2>2
  <2> QED BY <2>1, <2>3, <2>4, <2>5
<1>23. tokens' \in Seq(Token)
  BY <1>4, <1>7, <1>8, Behind
<1> QED BY <1>2, <1>4, <1>6, <1>16, <1>17, <1>18, <1>19, <1>20, <1>21, <1>22, <1>23 DEF Grows, n

\* The kinds a token can have.
Kinds ==
    {KindOfClass[c] : c \in DOMAIN KindOfClass} \cup {KindOfWord[w] : w \in DOMAIN KindOfWord}
    \cup {"InstructionOffset", "Number"}

\* Only a mnemonic is an instruction, and no lookup makes an offset.
LEMMA KindFacts ==
    /\ \A c \in DOMAIN KindOfClass :
           /\ KindOfClass[c] \in Kinds
           /\ KindOfClass[c] # "Instruction" /\ KindOfClass[c] # "InstructionOffset"
    /\ \A w \in DOMAIN KindOfWord :
           /\ KindOfWord[w] \in Kinds /\ KindOfWord[w] # "InstructionOffset"
           /\ KindOfWord[w] = "Instruction" <=> w = "mnemonic"
<1>1. \A c \in DOMAIN KindOfClass : KindOfClass[c] \in Kinds
  BY DEF Kinds
<1>2. \A w \in DOMAIN KindOfWord : KindOfWord[w] \in Kinds
  BY DEF Kinds
<1>3. \A c \in DOMAIN KindOfClass :
          KindOfClass[c] # "Instruction" /\ KindOfClass[c] # "InstructionOffset"
  BY DEF KindOfClass
<1>4. \A w \in DOMAIN KindOfWord :
          KindOfWord[w] # "InstructionOffset" /\ (KindOfWord[w] = "Instruction" <=> w = "mnemonic")
  BY DEF KindOfWord
<1> QED BY <1>1, <1>2, <1>3, <1>4

\* The new tokens are of this kind.
KindsGrow(kind) ==
    /\ kinds' \in Seq(Kinds) /\ Len(kinds') = Len(tokens')
    /\ \A i \in 1..Len(tokens) : kinds'[i] = kinds[i]
    /\ \A i \in (Len(tokens) + 1)..Len(tokens') : kinds'[i] = kind

LEMMA MarkedGrows ==
    ASSUME kinds \in Seq(Kinds), Len(kinds) = Len(tokens), NEW s, Grows(s),
           NEW kind \in Kinds, Marked(kind)
    PROVE  KindsGrow(kind)
<1>1. PICK a \in Nat : a = Len(tokens)
  BY DEF Grows
<1>2. PICK b \in Nat : b = Len(tokens') /\ b > a
  BY <1>1 DEF Grows
<1> DEFINE m == [i \in 1..(b - a) |-> kind]
<1>3. m \in Seq(Kinds) /\ Len(m) = b - a /\ \A i \in 1..(b - a) : m[i] = kind
  BY <1>1, <1>2
<1>4. kinds' = kinds \o m
  BY <1>1, <1>2 DEF Marked
<1> HIDE DEF m
<1>5. /\ kinds \o m \in Seq(Kinds)
      /\ Len(kinds \o m) = Len(kinds) + Len(m)
      /\ \A p \in 1..Len(kinds) : (kinds \o m)[p] = kinds[p]
      /\ \A i \in 1..Len(m) : (kinds \o m)[Len(kinds) + i] = m[i]
  <2> DEFINE K == Kinds
  <2>1. kinds \in Seq(K) /\ m \in Seq(K)
    BY <1>3
  <2> HIDE DEF K
  <2>2. /\ kinds \o m \in Seq(K)
        /\ Len(kinds \o m) = Len(kinds) + Len(m)
        /\ \A p \in 1..Len(kinds) : (kinds \o m)[p] = kinds[p]
        /\ \A i \in 1..Len(m) : (kinds \o m)[Len(kinds) + i] = m[i]
    BY <2>1
  <2> QED BY <2>2 DEF K
<1>6. \A i \in (a + 1)..b : kinds'[i] = kind
  <2> TAKE i \in (a + 1)..b
  <2>1. i - a \in 1..(b - a) /\ i = a + (i - a)
    BY <1>1, <1>2
  <2> QED BY <1>1, <1>3, <1>4, <1>5, <2>1
<1> QED BY <1>1, <1>2, <1>3, <1>4, <1>5, <1>6 DEF KindsGrow
-----------------------------------------------------------------------------
(***************************************************************************)
(* The inductive invariant of the highlighting.  Between its steps a row   *)
(* may be open, and what it shows of the line lacks a colon that is yet to *)
(* be pushed; the places of the lexemes are told from those of later ones  *)
(* by lying within the text.                                               *)
(***************************************************************************)
Open == stage \in {"lexemes", "colon"}

Closed(r) == r \in DOMAIN pasted /\ (Open => r # Len(pasted))

\* The text from offset from on is these bytes, as a push writes them.
Shows(tx, from, b) ==
    /\ Len(tx) = from + Len(b)
    /\ \A i \in 1..Len(b) : tx[from + i] = Clean(b[i])

\* A row of the text is these bytes and a line break.
ShowsRow(tx, from, to, b) ==
    /\ to = from + Len(b) + 1 /\ to <= Len(tx)
    /\ \A i \in 1..Len(b) : tx[from + i] = Clean(b[i])
    /\ tx[to] = "nl"

TextTypes ==
    /\ pasted \in Seq(Seq(Lexemes))
    /\ stage \in {"lines", "lexemes", "colon", "done"}
    /\ atLineStart \in BOOLEAN
    /\ kinds \in Seq(Kinds) /\ Len(kinds) = Len(tokens)
    /\ opcodes \in Nat
    /\ Open => pasted # <<>>
    /\ finished => stage = "done"

RowsShown ==
    /\ Len(lineStarts) = IF Open \/ (finished /\ pasted # <<>>) THEN Len(pasted)
                         ELSE Len(pasted) + 1
    /\ ~Open /\ ~finished => lineStarts[Len(pasted) + 1] = Len(text)
    /\ \A r : Closed(r) => ShowsRow(text, lineStarts[r], LineEnd(r), Bytes(pasted[r]))
    /\ stage = "lexemes" => Shows(text, lineStarts[Len(pasted)], Bytes(Line))
    /\ stage = "colon" => \E b \in Seq(Byte) : /\ Bytes(Line) = b \o Colon
                                               /\ Shows(text, lineStarts[Len(pasted)], b)

\* The lexeme is a number with a colon that only space stands before.
OpensRow(line, k) ==
    /\ line[k].class = "NumberColon"
    /\ \A j \in 1..(k - 1) : line[j].class = "Space"

\* The token that starts at a place says whether the lexeme there opens a row.
SaysSo(line, k, place) ==
    \A i \in DOMAIN tokens :
        tokens[i].start = place => ((kinds[i] = "InstructionOffset") <=> OpensRow(line, k))

MarksRight ==
    /\ Open => (atLineStart <=> \A j \in DOMAIN Line : Line[j].class = "Space")
    /\ \A r \in DOMAIN pasted : \A k \in DOMAIN pasted[r] :
           Place(r, k) < Len(text) /\ SaysSo(pasted[r], k, Place(r, k))

Instructions == {i \in DOMAIN kinds : kinds[i] = "Instruction"}

CountsRight ==
    /\ IsFiniteSet(Mnemonics) /\ opcodes = Cardinality(Mnemonics)
    /\ IsFiniteSet(Instructions) /\ opcodes = Cardinality(Instructions)
    /\ counter = IF stage = "done" THEN opcodes ELSE 0

TextInv == TextTypes /\ RowsShown /\ MarksRight /\ CountsRight

\* What a lexeme does: s of its bytes are pushed, under this kind.
LexDoes(l, s, kind) ==
    /\ stage = "lexemes"
    /\ Grows(s)
    /\ KindsGrow(kind)
    /\ kind = "Instruction" <=> l.word = "mnemonic"
    /\ kind = "InstructionOffset" <=> l.class = "NumberColon" /\ atLineStart
    /\ l.word = "mnemonic" => Len(s) <= MaxLen
    /\ pasted' = [pasted EXCEPT ![Len(pasted)] = Append(@, l)]
    /\ \/ stage' = "lexemes" /\ l.bytes = s
       \/ stage' = "colon" /\ l.bytes = s \o Colon
    /\ atLineStart' = (atLineStart /\ l.class = "Space")
    /\ opcodes' = opcodes + IF l.word = "mnemonic" THEN 1 ELSE 0
    /\ counter' = counter

\* A lexeme is of a pattern that decides its kind, a number with a colon, or
\* a word; only words were looked up.
LEMMA LexemeFacts ==
    ASSUME NEW l \in Lexemes
    PROVE  /\ \/ l.class = "NumberColon" /\ l.word # "mnemonic"
              \/ l.class = "Word" /\ l.word \in DOMAIN KindOfWord
              \/ l.class \in DOMAIN KindOfClass /\ l.class \notin {"NumberColon", "Word"}
                 /\ l.word # "mnemonic"
           /\ l.bytes \in Texts /\ l.bytes \in Seq(Byte) /\ l.bytes # <<>>
           /\ l.class = "NumberColon" =>
                  Digits(l) \in Texts /\ Digits(l) # <<>> /\ l.bytes = Digits(l) \o Colon
           /\ l.word = "mnemonic" => Len(l.bytes) <= MaxLen
<1>1. l \in Lexeme /\ l.bytes \in Texts
  BY LexemesAssumption
<1>2. \A c \in DOMAIN KindOfClass : c \notin {"NumberColon", "Word"}
  BY DEF KindOfClass
<1>3. l.bytes \in Str \ {<<>>}
  BY <1>1 DEF Lexeme
<1>4. l.bytes \in Seq(Byte) /\ l.bytes # <<>>
  BY <1>3 DEF Str
<1>5. /\ l.class = "NumberColon" =>
             Digits(l) \in Texts /\ Digits(l) # <<>> /\ l.bytes = Digits(l) \o Colon
      /\ l.word = "mnemonic" => Len(l.bytes) <= MaxLen
  BY LexemesAssumption
<1>6. \/ l.class \in DOMAIN KindOfClass \cup {"NumberColon"} /\ l.word \in {"-"}
      \/ l.class = "Word" /\ l.word \in DOMAIN KindOfWord
  <2> DEFINE C == DOMAIN KindOfClass \cup {"NumberColon"}
             W == DOMAIN KindOfWord
             B == Str \ {<<>>}
  <2>1. l \in [class : C, word : {"-"}, bytes : B] \cup [class : {"Word"}, word : W, bytes : B]
    BY <1>1 DEF Lexeme
  <2> HIDE DEF C, W, B
  <2>2. (l.class \in C /\ l.word \in {"-"}) \/ (l.class = "Word" /\ l.word \in W)
    BY <2>1
  <2> QED BY <2>2 DEF C, W
<1> QED BY <1>1, <1>2, <1>4, <1>5, <1>6

LEMMA LexEffect ==
    ASSUME Inv, TextTypes, NEW l \in Lexemes, Lex(l)
    PROVE  \E s \in Texts : \E kind \in Kinds : LexDoes(l, s, kind)
<1> DEFINE splits == l.class = "NumberColon" /\ ~atLineStart
           kind == CASE l.class = "NumberColon" -> IF splits THEN "Number" ELSE "InstructionOffset"
                     [] l.class = "Word"        -> KindOfWord[l.word]
                     [] OTHER                   -> KindOfClass[l.class]
           s == IF splits THEN Digits(l) ELSE l.bytes
<1>1. /\ stage = "lexemes" /\ Push(s) /\ Marked(kind)
      /\ pasted' = [pasted EXCEPT ![Len(pasted)] = Append(@, l)]
      /\ stage' = IF splits THEN "colon" ELSE "lexemes"
      /\ atLineStart' = (atLineStart /\ l.class = "Space")
      /\ opcodes' = opcodes + IF kind = "Instruction" THEN 1 ELSE 0
      /\ counter' = counter
  BY DEF Lex
<1>2. s \in Texts /\ (splits => l.bytes = s \o Colon) /\ (~splits => l.bytes = s)
  BY LexemeFacts
<1>3. /\ kind \in Kinds
      /\ kind = "Instruction" <=> l.word = "mnemonic"
      /\ kind = "InstructionOffset" <=> l.class = "NumberColon" /\ ~splits
  <2>1. CASE l.class = "NumberColon" /\ l.word # "mnemonic"
    <3>1. kind = IF splits THEN "Number" ELSE "InstructionOffset"
      BY <2>1
    <3>2. {"InstructionOffset", "Number"} \subseteq Kinds
      BY DEF Kinds
    <3> HIDE DEF kind
    <3> QED BY <2>1, <3>1, <3>2
  <2>2. CASE l.class = "Word" /\ l.word \in DOMAIN KindOfWord
    <3>1. kind = KindOfWord[l.word]
      BY <2>2
    <3> HIDE DEF kind
    <3> QED BY <2>2, <3>1, KindFacts
  <2>3. CASE l.class \in DOMAIN KindOfClass /\ l.class \notin {"NumberColon", "Word"}
             /\ l.word # "mnemonic"
    <3>1. kind = KindOfClass[l.class]
      BY <2>3
    <3> HIDE DEF kind
    <3> QED BY <2>3, <3>1, KindFacts
  <2> QED BY <2>1, <2>2, <2>3, LexemeFacts
<1>4. l.word = "mnemonic" => ~splits /\ Len(l.bytes) <= MaxLen
  BY LexemeFacts
<1> HIDE DEF s, kind
<1>5. Grows(s)
  BY <1>1, <1>2, PushGrows
<1>6. KindsGrow(kind)
  BY <1>1, <1>3, <1>5, MarkedGrows DEF TextTypes
<1>7. atLineStart \in BOOLEAN
  BY DEF TextTypes
<1>8. LexDoes(l, s, kind)
  BY <1>1, <1>2, <1>3, <1>4, <1>5, <1>6, <1>7 DEF LexDoes
<1> QED BY <1>2, <1>3, <1>8

\* The bytes of any line.
LEMMA BytesOf ==
    ASSUME NEW line \in Seq(Lexemes)
    PROVE  Bytes(<<>>) = <<>> /\ Bytes(line) \in Seq(Byte) /\ Len(Bytes(line)) \in Nat
<1>1. Bytes(<<>>) = <<>>
  <2>1. [k \in DOMAIN <<>> |-> <<>>[k].bytes] = <<>>
    OBVIOUS
  <2>2. Bytes(<<>>) = FlattenSeq(<<>>)
    BY <2>1 DEF Bytes
  <2>3. <<>> \in Seq(Seq(Byte)) /\ <<>> \in Seq(Byte)
    OBVIOUS
  <2> QED BY <2>2, <2>3, FlattenAppend
<1>2. Bytes(line) \in Seq(Byte)
  <2>1. CASE Lexemes = {}
    <3>1. line = <<>> /\ <<>> \in Seq(Byte)
      BY <2>1
    <3> QED BY <1>1, <3>1
  <2>2. CASE Lexemes # {}
    BY <2>2, BytesAppend
  <2> QED BY <2>1, <2>2
<1>3. \A b \in Seq(Byte) : Len(b) \in Nat
  OBVIOUS
<1> QED BY <1>1, <1>2, <1>3
-----------------------------------------------------------------------------
(***************************************************************************)
(* Every step preserves what the rows show.                                *)
(***************************************************************************)
\* What was written stays.
TextStays ==
    /\ Len(text) \in Nat /\ Len(text') \in Nat /\ Len(text') >= Len(text)
    /\ \A p \in 1..Len(text) : text'[p] = text[p]

LEMMA ShowsMore ==
    ASSUME NEW from \in Nat, NEW b \in Seq(Byte), NEW s, Grows(s), Shows(text, from, b)
    PROVE  Shows(text', from, b \o s)
<1>1. PICK m \in Nat : m = Len(b)
  OBVIOUS
<1>2. s \in Seq(Byte) /\ Len(s) \in Nat
  BY DEF Grows
<1>3. PICK n \in Nat : n = Len(s)
  BY <1>2
<1>4. b \o s \in Seq(Byte) /\ Len(b \o s) = m + n
      /\ (\A i \in 1..m : (b \o s)[i] = b[i]) /\ \A i \in 1..n : (b \o s)[m + i] = s[i]
  BY <1>1, <1>2, <1>3, Behind
<1>5. Len(text) = from + m /\ Len(text') = from + m + n
  BY <1>1, <1>3 DEF Shows, Grows
<1>6. /\ \A i \in 1..m : text[from + i] = Clean(b[i])
      /\ \A p \in 1..(from + m) : text'[p] = text[p]
      /\ \A i \in 1..n : text'[from + m + i] = Clean(s[i])
  BY <1>1, <1>3, <1>5 DEF Shows, Grows
<1>7. \A i \in 1..(m + n) : text'[from + i] = Clean((b \o s)[i])
  <2> TAKE i \in 1..(m + n)
  <2>1. CASE i <= m
    <3>1. i \in 1..m /\ from + i \in 1..(from + m)
      BY <2>1
    <3> QED BY <1>4, <1>6, <3>1
  <2>2. CASE i > m
    <3>1. PICK j \in 1..n : i = m + j
      <4>1. i - m \in 1..n /\ i = m + (i - m)
        BY <2>2
      <4> QED BY <4>1
    <3>2. from + i = from + m + j
      BY <3>1
    <3>3. text'[from + m + j] = Clean(s[j]) /\ (b \o s)[m + j] = s[j]
      BY <1>4, <1>6, <3>1
    <3> QED BY <3>1, <3>2, <3>3
  <2>3. i <= m \/ i > m
    OBVIOUS
  <2> QED BY <2>1, <2>2, <2>3
<1>8. Len(text') = from + Len(b \o s)
  <2>1. from + m + n = from + (m + n)
    OBVIOUS
  <2> QED BY <1>4, <1>5, <2>1
<1>9. 1..Len(b \o s) = 1..(m + n)
  BY <1>4
<1> QED BY <1>7, <1>8, <1>9 DEF Shows

LEMMA ClosedRowStays ==
    ASSUME Inv, TextTypes, RowsShown, NEW r \in DOMAIN pasted, Closed(r), TextStays,
           r < Len(lineStarts), r < Len(lineStarts'),
           lineStarts'[r] = lineStarts[r], lineStarts'[r + 1] = lineStarts[r + 1],
           pasted'[r] = pasted[r]
    PROVE  ShowsRow(text, lineStarts[r], LineEnd(r), Bytes(pasted[r]))'
<1>1. pasted[r] \in Seq(Lexemes)
  BY DEF TextTypes
<1>2. PICK m \in Nat : m = Len(Bytes(pasted[r]))
  BY <1>1, BytesOf
<1>3. PICK from \in Nat : from = lineStarts[r]
  <2>1. r \in DOMAIN lineStarts
    BY DEF Inv, TypeOK, TextTypes
  <2> QED BY <2>1, LineEnds
<1>4. LineEnd(r) = lineStarts[r + 1] /\ LineEnd(r)' = lineStarts'[r + 1]
  BY DEF LineEnd
<1>5. ShowsRow(text, from, LineEnd(r), Bytes(pasted[r]))
  BY <1>3 DEF RowsShown
<1>6. /\ LineEnd(r) = from + m + 1 /\ from + m + 1 <= Len(text)
      /\ (\A i \in 1..m : text[from + i] = Clean(Bytes(pasted[r])[i])) /\ text[from + m + 1] = "nl"
  BY <1>2, <1>5 DEF ShowsRow
<1>7. /\ \A i \in 1..m : text'[from + i] = text[from + i]
      /\ text'[from + m + 1] = text[from + m + 1] /\ from + m + 1 <= Len(text')
  <2>1. \A i \in 1..(m + 1) : from + i \in 1..Len(text)
    BY <1>6 DEF TextStays
  <2>2. \A i \in 1..(m + 1) : text'[from + i] = text[from + i]
    BY <2>1 DEF TextStays
  <2>3. m + 1 \in 1..(m + 1) /\ from + (m + 1) = from + m + 1 /\ \A i \in 1..m : i \in 1..(m + 1)
    OBVIOUS
  <2>4. text'[from + m + 1] = text[from + m + 1]
    BY <2>2, <2>3
  <2> QED BY <1>6, <2>2, <2>3, <2>4 DEF TextStays
<1>8. ShowsRow(text', from, LineEnd(r)', Bytes(pasted[r]))
  BY <1>2, <1>4, <1>6, <1>7 DEF ShowsRow
<1>9. lineStarts'[r] = from
  BY <1>3
<1>10. Bytes(pasted'[r]) = Bytes(pasted[r])
  OBVIOUS
<1> QED BY <1>8, <1>9, <1>10

\* A line with one lexeme more.
LineGrew(l) ==
    /\ Len(pasted) \in Nat /\ Len(pasted) > 0 /\ Len(pasted') = Len(pasted)
    /\ pasted \in Seq(Seq(Lexemes)) /\ pasted' \in Seq(Seq(Lexemes))
    /\ \A r \in 1..Len(pasted) : r # Len(pasted) => pasted'[r] = pasted[r]
    /\ Line \in Seq(Lexemes) /\ Line' = Append(Line, l)
    /\ Bytes(Line) \in Seq(Byte) /\ Bytes(Line') = Bytes(Line) \o l.bytes

LEMMA LineGrows ==
    ASSUME TextTypes, Open, NEW l \in Lexemes,
           pasted' = [pasted EXCEPT ![Len(pasted)] = Append(@, l)]
    PROVE  LineGrew(l)
<1> DEFINE n == Len(pasted)
<1>1. n \in Nat /\ n > 0 /\ n \in 1..n /\ DOMAIN pasted = 1..n /\ pasted \in Seq(Seq(Lexemes))
  BY DEF TextTypes
<1>2. Line \in Seq(Lexemes) /\ Append(Line, l) \in Seq(Lexemes)
  BY <1>1 DEF Line
<1>3. /\ pasted' \in Seq(Seq(Lexemes)) /\ Len(pasted') = n
      /\ (\A r \in 1..n : r # n => pasted'[r] = pasted[r]) /\ pasted'[n] = Append(Line, l)
  <2> DEFINE D == Seq(Lexemes)
             x == Append(Line, l)
  <2>1. pasted' = [pasted EXCEPT ![n] = x]
    BY DEF Line
  <2>2. pasted \in Seq(D) /\ x \in D
    BY <1>1, <1>2
  <2> HIDE DEF D, x, n
  <2>3. n \in 1..Len(pasted)
    BY <1>1 DEF n
  <2> DEFINE q == [pasted EXCEPT ![n] = x]
  <2>4. /\ q \in Seq(D) /\ Len(q) = Len(pasted)
        /\ \A j \in 1..Len(pasted) : q[j] = IF j = n THEN x ELSE pasted[j]
    BY <2>2, <2>3, ExceptSeq
  <2> HIDE DEF q
  <2>5. pasted' = q
    BY <2>1 DEF q
  <2> QED BY <2>3, <2>4, <2>5 DEF D, x, n
<1>4. Line' = Append(Line, l)
  BY <1>3 DEF Line
<1>5. Bytes(Line) \in Seq(Byte) /\ Bytes(Append(Line, l)) = Bytes(Line) \o l.bytes
  BY <1>2, BytesAppend
<1> QED BY <1>1, <1>2, <1>3, <1>4, <1>5 DEF LineGrew

LEMMA LexRows ==
    ASSUME Inv, TextTypes, RowsShown, NEW l \in Lexemes, NEW s, NEW kind, LexDoes(l, s, kind)
    PROVE  RowsShown'
<1> DEFINE n == Len(pasted)
<1>1. stage = "lexemes" /\ Open /\ Open' /\ Grows(s)
  BY DEF LexDoes, Open
<1>2. LineGrew(l)
  BY <1>1, LineGrows DEF LexDoes
<1>3. n \in Nat /\ n > 0 /\ Len(lineStarts) = n /\ Len(pasted') = n /\ lineStarts' = lineStarts
  BY <1>1, <1>2 DEF RowsShown, LineGrew, Grows
<1>4. TextStays
  <2>1. Len(text) \in Nat /\ Len(s) \in Nat /\ Len(text') = Len(text) + Len(s)
        /\ \A p \in 1..Len(text) : text'[p] = text[p]
    BY <1>1 DEF Grows
  <2> QED BY <2>1 DEF TextStays
<1>5. PICK from \in Nat : from = lineStarts[n]
  BY <1>3, LineEnds
<1>6. Shows(text', from, Bytes(Line) \o s)
  <2>1. Shows(text, from, Bytes(Line)) /\ Bytes(Line) \in Seq(Byte)
    BY <1>1, <1>2, <1>5 DEF RowsShown, LineGrew
  <2> QED BY <1>1, <2>1, ShowsMore
<1>7. (\A r : Closed(r) => ShowsRow(text, lineStarts[r], LineEnd(r), Bytes(pasted[r])))'
  <2> SUFFICES ASSUME NEW r, Closed(r)'
               PROVE  ShowsRow(text, lineStarts[r], LineEnd(r), Bytes(pasted[r]))'
    OBVIOUS
  <2>1. r \in 1..n /\ r # n /\ DOMAIN pasted = 1..n
    BY <1>1, <1>2, <1>3 DEF Closed, LineGrew
  <2>2. r \in DOMAIN pasted /\ Closed(r) /\ pasted'[r] = pasted[r] /\ r < Len(lineStarts)
    BY <1>2, <1>3, <2>1 DEF Closed, LineGrew
  <2> QED BY <1>3, <1>4, <2>2, ClosedRowStays
<1>8. (Len(lineStarts) = IF Open \/ (finished /\ pasted # <<>>) THEN Len(pasted)
                         ELSE Len(pasted) + 1)'
  BY <1>1, <1>3
<1>9. (stage = "lexemes" => Shows(text, lineStarts[Len(pasted)], Bytes(Line)))'
  <2> SUFFICES ASSUME stage' = "lexemes" PROVE Shows(text', lineStarts'[n], Bytes(Line'))
    BY <1>3
  <2>1. Bytes(Line') = Bytes(Line) \o s
    BY <1>2 DEF LexDoes, LineGrew
  <2> QED BY <1>3, <1>5, <1>6, <2>1
<1>10. (stage = "colon" => \E b \in Seq(Byte) : /\ Bytes(Line) = b \o Colon
                                                /\ Shows(text, lineStarts[Len(pasted)], b))'
  <2> SUFFICES ASSUME stage' = "colon"
               PROVE  \E b \in Seq(Byte) : Bytes(Line') = b \o Colon /\ Shows(text', lineStarts'[n], b)
    BY <1>3
  <2>1. Bytes(Line') = Bytes(Line) \o (s \o Colon)
    BY <1>2 DEF LexDoes, LineGrew
  <2>2. Bytes(Line) \in Seq(Byte) /\ s \in Seq(Byte) /\ Colon \in Seq(Byte)
    BY <1>1, <1>2 DEF LineGrew, Grows, Colon, Byte
  <2>3. Bytes(Line) \o (s \o Colon) = (Bytes(Line) \o s) \o Colon /\ Bytes(Line) \o s \in Seq(Byte)
    BY <2>2
  <2> QED BY <1>3, <1>5, <1>6, <2>1, <2>3
<1> QED BY <1>1, <1>7, <1>8, <1>9, <1>10 DEF RowsShown

LEMMA ColonGrows ==
    ASSUME Inv, TextTypes, SplitColon
    PROVE  Grows(Colon) /\ KindsGrow("Plain") /\ "Plain" \in Kinds
<1>1. Colon \in Texts
  BY LexemesAssumption
<1>2. Push(Colon) /\ Marked("Plain")
  BY DEF SplitColon
<1>3. Grows(Colon)
  BY <1>1, <1>2, PushGrows
<1>4. "Plain" \in Kinds
  <2>1. "other" \in DOMAIN KindOfWord /\ KindOfWord["other"] = "Plain"
    BY DEF KindOfWord
  <2> QED BY <2>1 DEF Kinds
<1>5. kinds \in Seq(Kinds) /\ Len(kinds) = Len(tokens)
  BY DEF TextTypes
<1> QED BY <1>2, <1>3, <1>4, <1>5, MarkedGrows

LEMMA ColonRows ==
    ASSUME Inv, TextTypes, RowsShown, SplitColon
    PROVE  RowsShown'
<1> DEFINE n == Len(pasted)
<1>1. stage = "colon" /\ stage' = "lexemes" /\ pasted' = pasted /\ Line' = Line /\ Open /\ Open'
  BY DEF SplitColon, Open, Line
<1>2. Grows(Colon)
  BY ColonGrows
<1>3. n \in Nat /\ n > 0 /\ DOMAIN pasted = 1..n /\ Len(lineStarts) = n /\ lineStarts' = lineStarts
  BY <1>1, <1>2 DEF RowsShown, TextTypes, Grows
<1>4. TextStays
  <2>1. Len(text) \in Nat /\ Len(Colon) \in Nat /\ Len(text') = Len(text) + Len(Colon)
        /\ \A p \in 1..Len(text) : text'[p] = text[p]
    BY <1>2 DEF Grows
  <2> QED BY <2>1 DEF TextStays
<1>5. PICK from \in Nat : from = lineStarts[n]
  BY <1>3, LineEnds
<1>6. Shows(text', from, Bytes(Line))
  <2>1. PICK b \in Seq(Byte) : Bytes(Line) = b \o Colon /\ Shows(text, from, b)
    BY <1>1, <1>5 DEF RowsShown
  <2> QED BY <1>2, <2>1, ShowsMore
<1>7. (\A r : Closed(r) => ShowsRow(text, lineStarts[r], LineEnd(r), Bytes(pasted[r])))'
  <2> SUFFICES ASSUME NEW r, Closed(r)'
               PROVE  ShowsRow(text, lineStarts[r], LineEnd(r), Bytes(pasted[r]))'
    OBVIOUS
  <2>1. r \in 1..n /\ r # n /\ r \in DOMAIN pasted /\ Closed(r)
    BY <1>1, <1>3 DEF Closed
  <2>2. r < Len(lineStarts) /\ pasted'[r] = pasted[r]
    BY <1>1, <1>3, <2>1
  <2> QED BY <1>3, <1>4, <2>1, <2>2, ClosedRowStays
<1> QED BY <1>1, <1>3, <1>5, <1>6, <1>7 DEF RowsShown

LEMMA LineRows ==
    ASSUME Inv, TextTypes, RowsShown, NextLine
    PROVE  RowsShown'
<1> DEFINE n == Len(pasted)
<1>1. /\ stage = "lines" /\ stage' = "lexemes" /\ pasted' = Append(pasted, <<>>) /\ ~Open /\ Open'
      /\ text' = text /\ lineStarts' = lineStarts /\ finished' = finished /\ ~finished
  BY DEF NextLine, Open, vars, TextTypes
<1>2. /\ n \in Nat /\ pasted \in Seq(Seq(Lexemes)) /\ DOMAIN pasted = 1..n /\ Len(pasted') = n + 1
      /\ (\A r \in 1..n : pasted'[r] = pasted[r]) /\ pasted'[n + 1] = <<>> /\ DOMAIN pasted' = 1..(n + 1)
  <2>1. pasted \in Seq(Seq(Lexemes)) /\ <<>> \in Seq(Lexemes)
    BY DEF TextTypes
  <2> QED BY <1>1, <2>1
<1>3. Len(lineStarts) = n + 1 /\ lineStarts[n + 1] = Len(text)
  BY <1>1 DEF RowsShown
<1>4. Len(text) \in Nat /\ TextStays
  <2>1. Len(text) \in Nat
    BY DEF Inv, TypeOK
  <2> QED BY <1>1, <2>1 DEF TextStays
<1>5. Line' = <<>> /\ Bytes(<<>>) = <<>>
  <2>1. <<>> \in Seq(Lexemes)
    OBVIOUS
  <2> QED BY <1>2, <2>1, BytesOf DEF Line
<1>6. Shows(text', lineStarts'[n + 1], <<>>)
  BY <1>1, <1>3, <1>4 DEF Shows
<1>7. (\A r : Closed(r) => ShowsRow(text, lineStarts[r], LineEnd(r), Bytes(pasted[r])))'
  <2> SUFFICES ASSUME NEW r, Closed(r)'
               PROVE  ShowsRow(text, lineStarts[r], LineEnd(r), Bytes(pasted[r]))'
    OBVIOUS
  <2>1. r \in 1..n /\ r \in DOMAIN pasted /\ Closed(r)
    BY <1>1, <1>2 DEF Closed
  <2>2. r < Len(lineStarts) /\ pasted'[r] = pasted[r]
    BY <1>2, <1>3, <2>1
  <2> QED BY <1>1, <1>4, <2>1, <2>2, ClosedRowStays
<1> QED BY <1>1, <1>2, <1>3, <1>5, <1>6, <1>7 DEF RowsShown

LEMMA EndRows ==
    ASSUME Inv, TextTypes, RowsShown, EndOfLine
    PROVE  RowsShown'
<1> DEFINE n == Len(pasted)
<1>1. /\ stage = "lexemes" /\ stage' = "lines" /\ pasted' = pasted /\ Open /\ ~Open'
      /\ text' = Append(text, "nl") /\ lineStarts' = Append(lineStarts, Len(text) + 1)
      /\ finished' = finished /\ ~finished
  BY DEF EndOfLine, Newline, Open
<1>2. /\ n \in Nat /\ n > 0 /\ pasted \in Seq(Seq(Lexemes)) /\ DOMAIN pasted = 1..n
      /\ Len(lineStarts) = n
  BY <1>1 DEF TextTypes, RowsShown
<1>3. text \in Seq(Byte) /\ Len(text) \in Nat /\ lineStarts \in Seq(Nat) /\ "nl" \in Byte
  BY DEF Inv, TypeOK, Byte
<1>4. /\ Len(text') = Len(text) + 1 /\ text'[Len(text) + 1] = "nl"
      /\ \A p \in 1..Len(text) : text'[p] = text[p]
  BY <1>1, <1>3
<1>5. /\ Len(lineStarts') = n + 1 /\ lineStarts'[n + 1] = Len(text) + 1
      /\ \A r \in 1..n : lineStarts'[r] = lineStarts[r]
  BY <1>1, <1>2, <1>3
<1>6. TextStays
  BY <1>3, <1>4 DEF TextStays
<1>7. (\A r : Closed(r) => ShowsRow(text, lineStarts[r], LineEnd(r), Bytes(pasted[r])))'
  <2> SUFFICES ASSUME NEW r, Closed(r)'
               PROVE  ShowsRow(text, lineStarts[r], LineEnd(r), Bytes(pasted[r]))'
    OBVIOUS
  <2>1. r \in 1..n /\ r \in DOMAIN pasted
    BY <1>1, <1>2 DEF Closed
  <2>2. CASE r # n
    <3>1. Closed(r) /\ r < Len(lineStarts) /\ r < Len(lineStarts') /\ r + 1 \in 1..n
      BY <1>2, <1>5, <2>1, <2>2 DEF Closed
    <3>2. lineStarts'[r] = lineStarts[r] /\ lineStarts'[r + 1] = lineStarts[r + 1] /\ pasted'[r] = pasted[r]
      BY <1>1, <1>5, <2>1, <3>1
    <3> QED BY <1>6, <2>1, <3>1, <3>2, ClosedRowStays
  <2>3. CASE r = n
    <3>1. PICK from \in Nat : from = lineStarts[n]
      BY <1>2, LineEnds
    <3>2. Shows(text, from, Bytes(pasted[n]))
      BY <1>1, <3>1 DEF RowsShown, Line
    <3>3. PICK m \in Nat : m = Len(Bytes(pasted[n]))
      BY <1>2, BytesOf
    <3>4. Len(text) = from + m /\ \A i \in 1..m : text[from + i] = Clean(Bytes(pasted[n])[i])
      BY <3>2, <3>3 DEF Shows
    <3>5. LineEnd(r)' = from + m + 1 /\ text'[from + m + 1] = "nl" /\ from + m + 1 <= Len(text')
      BY <1>2, <1>4, <1>5, <2>3, <3>4 DEF LineEnd
    <3>6. \A i \in 1..m : text'[from + i] = Clean(Bytes(pasted[n])[i])
      <4> TAKE i \in 1..m
      <4>1. from + i \in 1..Len(text)
        BY <3>4
      <4>2. text'[from + i] = text[from + i]
        BY <1>4, <4>1
      <4> QED BY <3>4, <4>2
    <3>7. ShowsRow(text', from, LineEnd(r)', Bytes(pasted[n]))
      BY <3>3, <3>5, <3>6 DEF ShowsRow
    <3>8. lineStarts'[r] = from
      BY <1>2, <1>5, <2>3, <3>1
    <3>9. pasted'[r] = pasted[n]
      BY <1>1, <2>3
    <3>10. ShowsRow(text', lineStarts'[r], LineEnd(r)', Bytes(pasted'[r]))
      BY <3>7, <3>8, <3>9
    <3> QED BY <3>10
  <2> QED BY <2>2, <2>3
<1> QED BY <1>1, <1>4, <1>5, <1>7 DEF RowsShown

LEMMA DoneRows ==
    ASSUME Inv, TextTypes, RowsShown, EndOfText
    PROVE  RowsShown'
<1> DEFINE n == Len(pasted)
<1>1. /\ stage = "lines" /\ stage' = "done" /\ pasted' = pasted /\ ~Open /\ ~Open'
      /\ text' = text /\ lineStarts' = lineStarts /\ finished' = finished
  BY DEF EndOfText, Open, vars
<1>2. (\A r : Closed(r) => ShowsRow(text, lineStarts[r], LineEnd(r), Bytes(pasted[r])))'
  <2> SUFFICES ASSUME NEW r, Closed(r)'
               PROVE  ShowsRow(text, lineStarts[r], LineEnd(r), Bytes(pasted[r]))'
    OBVIOUS
  <2>1. Closed(r)
    BY <1>1 DEF Closed
  <2>2. ShowsRow(text, lineStarts[r], LineEnd(r), Bytes(pasted[r]))
    BY <2>1 DEF RowsShown
  <2>3. LineEnd(r)' = LineEnd(r)
    BY <1>1 DEF LineEnd
  <2> QED BY <1>1, <2>2, <2>3
<1> QED BY <1>1, <1>2 DEF RowsShown

LEMMA FinishRows ==
    ASSUME Inv, TextTypes, RowsShown, FinishText
    PROVE  RowsShown'
<1> DEFINE n == Len(pasted)
<1>1. /\ stage = "done" /\ stage' = "done" /\ pasted' = pasted /\ ~Open /\ ~Open'
      /\ text' = text /\ ~finished /\ finished' = TRUE
      /\ lineStarts' = IF DropsLastLine THEN SubSeq(lineStarts, 1, Len(lineStarts) - 1) ELSE lineStarts
  BY DEF FinishText, Finish, Open
<1>2. n \in Nat /\ pasted \in Seq(Seq(Lexemes)) /\ DOMAIN pasted = 1..n /\ (n = 0 <=> pasted = <<>>)
  BY DEF TextTypes
<1>3. Len(lineStarts) = n + 1 /\ lineStarts[n + 1] = Len(text) /\ lineStarts \in Seq(Nat)
      /\ lineStarts[1] = 0 /\ text \in Seq(Byte) /\ Len(text) \in Nat
  BY <1>1 DEF RowsShown, Inv, TypeOK, LineStartsFollowBreaks
<1>4. TextStays
  BY <1>1, <1>3 DEF TextStays
<1>5. CASE n = 0
  <2>1. text = <<>>
    BY <1>3, <1>5
  <2>2. lineStarts' = lineStarts
    BY <1>1, <2>1 DEF DropsLastLine, EndsWithNewline
  <2>3. \A r : ~Closed(r)'
    BY <1>1, <1>2, <1>5 DEF Closed
  <2> QED BY <1>1, <1>2, <1>3, <1>5, <2>2, <2>3 DEF RowsShown
<1>6. CASE n # 0
  <2>1. n \in DOMAIN pasted /\ Closed(n) /\ LineEnd(n) = Len(text)
    BY <1>1, <1>2, <1>3, <1>6 DEF Closed, LineEnd
  <2>2. ShowsRow(text, lineStarts[n], LineEnd(n), Bytes(pasted[n]))
    BY <2>1 DEF RowsShown
  <2>3. text[Len(text)] = "nl" /\ Len(text) > 0
    <3>1. PICK m \in Nat : m = Len(Bytes(pasted[n]))
      BY <1>2, <2>1, BytesOf
    <3>2. PICK from \in Nat : from = lineStarts[n]
      BY <1>2, <1>3, <1>6
    <3>3. LineEnd(n) = from + m + 1 /\ text[LineEnd(n)] = "nl"
      BY <2>2, <3>1, <3>2 DEF ShowsRow
    <3> QED BY <2>1, <3>3
  <2>4. text # <<>>
    BY <1>3, <2>3
  <2>5. DropsLastLine
    BY <1>3, <2>3, <2>4 DEF DropsLastLine, EndsWithNewline
  <2>6. Len(lineStarts') = n /\ \A r \in 1..n : lineStarts'[r] = lineStarts[r]
    <3>1. lineStarts' = SubSeq(lineStarts, 1, n)
      BY <1>1, <1>2, <1>3, <2>5
    <3> QED BY <1>2, <1>3, <3>1
  <2>7. (\A r : Closed(r) => ShowsRow(text, lineStarts[r], LineEnd(r), Bytes(pasted[r])))'
    <3> SUFFICES ASSUME NEW r, Closed(r)'
                 PROVE  ShowsRow(text, lineStarts[r], LineEnd(r), Bytes(pasted[r]))'
      OBVIOUS
    <3>1. Closed(r) /\ r \in 1..n
      BY <1>1, <1>2 DEF Closed
    <3>2. ShowsRow(text, lineStarts[r], LineEnd(r), Bytes(pasted[r]))
      BY <3>1 DEF RowsShown
    <3>3. LineEnd(r)' = LineEnd(r)
      <4>1. CASE r = n
        BY <1>1, <2>1, <2>6, <4>1 DEF LineEnd
      <4>2. CASE r # n
        <5>1. r < n /\ r + 1 \in 1..n /\ r < Len(lineStarts)
          <6>1. PICK a \in Nat : a = n
            BY <1>2
          <6>2. r \in 1..a /\ r # a /\ Len(lineStarts) = a + 1
            BY <1>3, <3>1, <4>2, <6>1
          <6> QED BY <6>1, <6>2
        <5>2. LineEnd(r) = lineStarts[r + 1] /\ LineEnd(r)' = lineStarts'[r + 1]
          BY <2>6, <5>1 DEF LineEnd
        <5> QED BY <2>6, <5>1, <5>2
      <4> QED BY <4>1, <4>2
    <3> QED BY <1>1, <2>6, <3>1, <3>2, <3>3
  <2> QED BY <1>1, <1>2, <1>6, <2>6, <2>7 DEF RowsShown
<1> QED BY <1>5, <1>6
-----------------------------------------------------------------------------
(***************************************************************************)
(* Every step preserves what the marks say.                                *)
(***************************************************************************)
\* A place is an offset.
LEMMA Places ==
    ASSUME Inv, TextTypes, RowsShown, NEW r \in DOMAIN pasted, NEW k \in DOMAIN pasted[r]
    PROVE  Place(r, k) \in Nat
<1>1. Len(pasted) \in Nat /\ DOMAIN pasted = 1..Len(pasted) /\ pasted[r] \in Seq(Lexemes)
  BY DEF TextTypes
<1>2. lineStarts[r] \in Nat
  <2>1. Len(lineStarts) = Len(pasted) \/ Len(lineStarts) = Len(pasted) + 1
    BY DEF RowsShown
  <2>2. r \in 1..Len(lineStarts)
    BY <1>1, <2>1
  <2> QED BY <2>2, LineEnds
<1> DEFINE line == SubSeq(pasted[r], 1, k - 1)
<1>3. line \in Seq(Lexemes)
  BY <1>1
<1> HIDE DEF line
<1>4. Len(Bytes(line)) \in Nat
  BY <1>3, BytesOf
<1>5. Place(r, k) = lineStarts[r] + Len(Bytes(line))
  BY DEF Place, line
<1> QED BY <1>2, <1>4, <1>5

\* The tokens of a push leave alone what the text before them says.
LEMMA OldSayings ==
    ASSUME TextTypes, NEW s, Grows(s), NEW kind, KindsGrow(kind),
           NEW line, NEW k, NEW q \in Nat, q < Len(text), SaysSo(line, k, q)
    PROVE  SaysSo(line, k, q)'
<1>1. PICK t \in Nat : t = Len(tokens)
  BY DEF Grows
<1>2. PICK u \in Nat : u = Len(tokens') /\ u > t
  BY <1>1 DEF Grows
<1>3. PICK a \in Nat : a = Len(text)
  BY DEF Grows
<1>4. SUFFICES ASSUME NEW i \in DOMAIN tokens', tokens'[i].start = q
               PROVE  (kinds'[i] = "InstructionOffset") <=> OpensRow(line, k)
  BY DEF SaysSo
<1>5. i \in 1..u
  <2>1. kinds' \in Seq(Kinds) /\ Len(kinds') = u
    BY <1>2 DEF KindsGrow
  <2>2. DOMAIN tokens' = 1..u
    BY <1>2 DEF Grows
  <2> QED BY <1>4, <2>2
<1>6. i \in 1..t
  <2>1. i # t + 1
    <3>1. tokens'[t + 1].start = a /\ q < a
      BY <1>1, <1>3 DEF Grows
    <3> QED BY <1>3, <1>4, <3>1
  <2>2. i \notin (t + 2)..u
    <3>1. SUFFICES ASSUME i \in (t + 2)..u PROVE FALSE
      OBVIOUS
    <3>2. tokens'[i].start > a /\ q < a
      BY <1>1, <1>2, <1>3, <3>1 DEF Grows
    <3> QED BY <1>3, <1>4, <3>2
  <2> QED BY <1>1, <1>2, <1>5, <2>1, <2>2
<1>7. tokens'[i] = tokens[i] /\ kinds'[i] = kinds[i] /\ i \in DOMAIN tokens
  <2>1. tokens'[i] = tokens[i] /\ kinds'[i] = kinds[i]
    BY <1>1, <1>6 DEF Grows, KindsGrow
  <2>2. DOMAIN tokens = 1..t
    BY <1>1
  <2> QED BY <1>6, <2>1, <2>2
<1> QED BY <1>4, <1>7 DEF SaysSo

\* The row and the place of a lexeme that was read are those it has after
\* the next one.
LEMMA PlacesStay ==
    ASSUME NEW line \in Seq(Lexemes), NEW l \in Lexemes, NEW k \in 1..(Len(line) + 1)
    PROVE  /\ SubSeq(Append(line, l), 1, k - 1) = SubSeq(line, 1, k - 1)
           /\ \A j \in 1..Len(line) : Append(line, l)[j] = line[j]
           /\ Append(line, l)[Len(line) + 1] = l
           /\ SubSeq(line, 1, Len(line)) = line
<1>1. PICK m \in Nat : m = Len(line)
  OBVIOUS
<1> DEFINE v == Append(line, l)
<1>2. /\ v \in Seq(Lexemes) /\ Len(v) = m + 1 /\ v[m + 1] = l
      /\ \A j \in 1..m : v[j] = line[j]
  BY <1>1
<1>3. k - 1 \in 0..m
  BY <1>1
<1> HIDE DEF v
<1>4. /\ SubSeq(v, 1, k - 1) = [i \in 1..(k - 1) |-> v[i]]
      /\ SubSeq(line, 1, k - 1) = [i \in 1..(k - 1) |-> line[i]]
  <2>1. \A q \in Seq(Lexemes) : \A b \in 0..Len(q) : SubSeq(q, 1, b) = [i \in 1..b |-> q[i]]
    <3> TAKE q \in Seq(Lexemes)
    <3> TAKE b \in 0..Len(q)
    <3>1. SubSeq(q, 1, b) \in Seq(Lexemes) /\ Len(SubSeq(q, 1, b)) = b
          /\ \A i \in 1..b : SubSeq(q, 1, b)[i] = q[i]
      OBVIOUS
    <3> QED BY <3>1
  <2> QED BY <1>1, <1>2, <1>3, <2>1
<1>5. \A i \in 1..(k - 1) : v[i] = line[i]
  BY <1>2, <1>3
<1>6. SubSeq(v, 1, k - 1) = SubSeq(line, 1, k - 1)
  BY <1>4, <1>5
<1>7. SubSeq(line, 1, Len(line)) = line
  OBVIOUS
<1> QED BY <1>1, <1>2, <1>6, <1>7 DEF v

LEMMA LexMarks ==
    ASSUME Inv, TextTypes, RowsShown, MarksRight,
           NEW l \in Lexemes, NEW s, NEW kind, LexDoes(l, s, kind)
    PROVE  MarksRight'
<1>1. stage = "lexemes" /\ Open /\ Open' /\ Grows(s) /\ KindsGrow(kind)
  BY DEF LexDoes, Open
<1>2. LineGrew(l)
  BY <1>1, LineGrows DEF LexDoes
<1>3. PICK n \in Nat : n = Len(pasted) /\ n > 0
  BY <1>2 DEF LineGrew
<1>4. PICK line \in Seq(Lexemes) : line = Line
  BY <1>2 DEF LineGrew
<1>5. PICK m \in Nat : m = Len(line)
  OBVIOUS
<1>6. PICK new \in Seq(Lexemes) : new = Append(line, l)
  <2>1. Append(line, l) \in Seq(Lexemes)
    OBVIOUS
  <2> QED BY <2>1
<1>7. /\ DOMAIN pasted = 1..n /\ DOMAIN pasted' = 1..n /\ Len(pasted') = n
      /\ (\A r \in 1..n : r # n => pasted'[r] = pasted[r])
      /\ pasted[n] = line /\ pasted'[n] = new /\ Line' = new
      /\ lineStarts' = lineStarts
  BY <1>1, <1>2, <1>3, <1>4, <1>6 DEF LineGrew, Line, Grows
<1>8. DOMAIN line = 1..m /\ DOMAIN new = 1..(m + 1)
  BY <1>5, <1>6
<1>9. Len(text) \in Nat /\ Len(text') \in Nat /\ Len(text') > Len(text)
  BY <1>1 DEF Grows
<1>10. atLineStart <=> \A j \in 1..m : line[j].class = "Space"
  BY <1>1, <1>4, <1>8 DEF MarksRight
<1>11. /\ \A j \in 1..m : new[j] = line[j]
       /\ new[m + 1] = l /\ SubSeq(line, 1, m) = line
       /\ \A k \in 1..(m + 1) : SubSeq(new, 1, k - 1) = SubSeq(line, 1, k - 1)
  <2>1. 1 \in 1..(Len(line) + 1)
    BY <1>5
  <2>2. \A k \in 1..(Len(line) + 1) :
           /\ SubSeq(Append(line, l), 1, k - 1) = SubSeq(line, 1, k - 1)
           /\ \A j \in 1..Len(line) : Append(line, l)[j] = line[j]
           /\ Append(line, l)[Len(line) + 1] = l
           /\ SubSeq(line, 1, Len(line)) = line
    BY PlacesStay
  <2> QED BY <1>5, <1>6, <2>1, <2>2
<1>12. (Open => (atLineStart <=> \A j \in DOMAIN Line : Line[j].class = "Space"))'
  <2>1. atLineStart' <=> (\A j \in 1..m : line[j].class = "Space") /\ l.class = "Space"
    BY <1>10 DEF LexDoes
  <2>2. (\A j \in 1..(m + 1) : new[j].class = "Space")
        <=> (\A j \in 1..m : new[j].class = "Space") /\ new[m + 1].class = "Space"
    OBVIOUS
  <2>3. (\A j \in 1..(m + 1) : new[j].class = "Space")
        <=> (\A j \in 1..m : line[j].class = "Space") /\ l.class = "Space"
    BY <1>11, <2>2
  <2> QED BY <1>7, <1>8, <2>1, <2>3
\* A lexeme read before.
<1>13. ASSUME NEW r \in 1..n, NEW k \in DOMAIN pasted[r]
       PROVE  (Place(r, k) < Len(text) /\ SaysSo(pasted[r], k, Place(r, k)))'
  <2>1. Place(r, k)' = Place(r, k) /\ (OpensRow(pasted'[r], k) <=> OpensRow(pasted[r], k))
    <3>1. CASE r # n
      <4>1. pasted'[r] = pasted[r]
        BY <1>7, <3>1
      <4> QED BY <1>7, <4>1 DEF Place
    <3>2. CASE r = n
      <4>1. k \in 1..m /\ k \in 1..(m + 1) /\ pasted[r] = line /\ pasted'[r] = new
        BY <1>7, <1>8, <3>2
      <4>2. SubSeq(pasted'[r], 1, k - 1) = SubSeq(pasted[r], 1, k - 1)
        BY <1>11, <4>1
      <4>3. \A j \in 1..(k - 1) : j \in 1..m
        BY <4>1
      <4>4. pasted'[r][k] = pasted[r][k] /\ \A j \in 1..(k - 1) : pasted'[r][j] = pasted[r][j]
        BY <1>11, <4>1, <4>3
      <4>5. Place(r, k)' = Place(r, k)
        BY <1>7, <4>2 DEF Place
      <4> QED BY <4>4, <4>5 DEF OpensRow
    <3> QED BY <3>1, <3>2
  <2>2. r \in DOMAIN pasted
    BY <1>7
  <2>3. PICK q \in Nat : q = Place(r, k)
    BY <2>2, Places
  <2>4. q < Len(text) /\ SaysSo(pasted[r], k, q)
    BY <2>2, <2>3 DEF MarksRight
  <2>5. PICK old : old = pasted[r]
    OBVIOUS
  <2>6. SaysSo(old, k, q)'
    <3>1. SaysSo(old, k, q)
      BY <2>4, <2>5
    <3> QED BY <1>1, <2>4, <3>1, OldSayings
  <2>7. SaysSo(pasted[r], k, q)'
    BY <2>1, <2>5, <2>6 DEF SaysSo
  <2>8. q < Len(text')
    BY <1>9, <2>4
  <2> QED BY <2>1, <2>3, <2>7, <2>8
\* The lexeme just read.
<1>14. (Place(n, m + 1) < Len(text) /\ SaysSo(pasted[n], m + 1, Place(n, m + 1)))'
  <2>1. PICK q \in Nat : q = Len(text)
    BY <1>9
  <2>2. Place(n, m + 1)' = q
    <3>1. (m + 1) - 1 = m /\ m + 1 \in 1..(m + 1)
      OBVIOUS
    <3>2. SubSeq(new, 1, (m + 1) - 1) = line
      BY <1>11, <3>1
    <3>3. Len(text) = lineStarts[n] + Len(Bytes(line))
      BY <1>1, <1>3, <1>4 DEF RowsShown, Shows
    <3> QED BY <1>7, <2>1, <3>2, <3>3 DEF Place
  <2>3. kind = "InstructionOffset" <=> OpensRow(new, m + 1)
    <3>1. \A j : j \in 1..((m + 1) - 1) <=> j \in 1..m
      OBVIOUS
    <3>2. OpensRow(new, m + 1) <=> l.class = "NumberColon" /\ \A j \in 1..m : line[j].class = "Space"
      BY <1>11, <3>1 DEF OpensRow
    <3> QED BY <1>10, <3>2 DEF LexDoes
  <2>4. SaysSo(new, m + 1, q)'
    <3>1. PICK t \in Nat : t = Len(tokens)
      BY <1>1 DEF Grows
    <3>2. PICK u \in Nat : u = Len(tokens') /\ u > t
      BY <1>1, <3>1 DEF Grows
    <3>3. SUFFICES ASSUME NEW i \in DOMAIN tokens', tokens'[i].start = q
                   PROVE  (kinds'[i] = "InstructionOffset") <=> OpensRow(new, m + 1)
      BY DEF SaysSo
    <3>4. i \in 1..u
      BY <1>1, <3>2, <3>3 DEF Grows
    <3>5. i \notin 1..t
      <4>1. SUFFICES ASSUME i \in 1..t PROVE FALSE
        OBVIOUS
      <4>2. tokens'[i].start < q
        BY <1>1, <2>1, <3>1, <4>1 DEF Grows
      <4> QED BY <3>3, <4>2
    <3>6. i \in (t + 1)..u
      BY <3>4, <3>5
    <3>7. kinds'[i] = kind
      BY <1>1, <3>1, <3>2, <3>6 DEF KindsGrow
    <3> QED BY <2>3, <3>7
  <2> QED BY <1>7, <1>9, <2>1, <2>2, <2>4
<1>15. (\A r \in DOMAIN pasted : \A k \in DOMAIN pasted[r] :
           Place(r, k) < Len(text) /\ SaysSo(pasted[r], k, Place(r, k)))'
  <2> SUFFICES ASSUME NEW r \in 1..n, NEW k \in DOMAIN pasted'[r]
               PROVE  (Place(r, k) < Len(text) /\ SaysSo(pasted[r], k, Place(r, k)))'
    BY <1>7
  <2>1. CASE k \in DOMAIN pasted[r]
    BY <1>13, <2>1
  <2>2. CASE k \notin DOMAIN pasted[r]
    <3>1. r = n
      BY <1>7, <2>2
    <3>2. k \in 1..(m + 1) /\ k \notin 1..m
      BY <1>7, <1>8, <2>2, <3>1
    <3>3. k = m + 1
      BY <3>2
    <3> QED BY <1>14, <3>1, <3>3
  <2> QED BY <2>1, <2>2
<1> QED BY <1>12, <1>15 DEF MarksRight

LEMMA ColonMarks ==
    ASSUME Inv, TextTypes, RowsShown, MarksRight, SplitColon
    PROVE  MarksRight'
<1>1. /\ pasted' = pasted /\ atLineStart' = atLineStart /\ Line' = Line /\ Open /\ Open'
      /\ Grows(Colon) /\ KindsGrow("Plain")
  BY ColonGrows DEF SplitColon, Open, Line
<1>2. lineStarts' = lineStarts /\ Len(text) \in Nat /\ Len(text') \in Nat /\ Len(text') > Len(text)
  BY <1>1 DEF Grows
<1>3. ASSUME NEW r \in DOMAIN pasted, NEW k \in DOMAIN pasted[r]
      PROVE  (Place(r, k) < Len(text) /\ SaysSo(pasted[r], k, Place(r, k)))'
  <2>1. Place(r, k)' = Place(r, k)
    BY <1>1, <1>2 DEF Place
  <2>2. PICK q \in Nat : q = Place(r, k)
    BY Places
  <2>3. PICK line : line = pasted[r]
    OBVIOUS
  <2>4. q < Len(text) /\ SaysSo(line, k, q)
    BY <2>2, <2>3 DEF MarksRight
  <2>5. SaysSo(line, k, q)'
    BY <1>1, <2>4, OldSayings
  <2>6. q < Len(text')
    BY <1>2, <2>4
  <2> QED BY <1>1, <2>1, <2>2, <2>3, <2>5, <2>6
<1> QED BY <1>1, <1>3 DEF MarksRight

\* The other steps push nothing.
LEMMA QuietMarks ==
    ASSUME Inv, TextTypes, RowsShown, MarksRight,
           tokens' = tokens, kinds' = kinds, Len(text') \in Nat, Len(text') >= Len(text),
           pasted' \in {pasted, Append(pasted, <<>>)},
           \A r \in DOMAIN pasted : lineStarts'[r] = lineStarts[r],
           Open' => atLineStart' = TRUE /\ Line' = <<>>
    PROVE  MarksRight'
<1>1. Len(text) \in Nat
  BY DEF Inv, TypeOK
<1>2. \A r \in DOMAIN pasted' : /\ r \in DOMAIN pasted => pasted'[r] = pasted[r]
                               /\ r \notin DOMAIN pasted => pasted'[r] = <<>>
  <2>1. pasted \in Seq(Seq(Lexemes)) /\ <<>> \in Seq(Lexemes)
    BY DEF TextTypes
  <2>2. CASE pasted' = pasted
    BY <2>2
  <2>3. CASE pasted' = Append(pasted, <<>>)
    BY <2>1, <2>3
  <2> QED BY <2>2, <2>3
<1>3. ASSUME NEW r \in DOMAIN pasted', NEW k \in DOMAIN pasted'[r]
      PROVE  (Place(r, k) < Len(text) /\ SaysSo(pasted[r], k, Place(r, k)))'
  <2>1. r \in DOMAIN pasted /\ pasted'[r] = pasted[r]
    <3>1. DOMAIN <<>> = {}
      OBVIOUS
    <3> QED BY <1>2, <3>1
  <2>2. Place(r, k)' = Place(r, k) /\ k \in DOMAIN pasted[r]
    BY <2>1 DEF Place
  <2>3. PICK q \in Nat : q = Place(r, k)
    BY <2>1, <2>2, Places
  <2>4. q < Len(text) /\ SaysSo(pasted[r], k, q)
    BY <2>1, <2>2, <2>3 DEF MarksRight
  <2>5. SaysSo(pasted[r], k, q)'
    BY <2>1, <2>4 DEF SaysSo
  <2>6. q < Len(text')
    BY <1>1, <2>4
  <2> QED BY <2>2, <2>3, <2>5, <2>6
<1>4. Line' = <<>> => \A j \in DOMAIN Line' : Line'[j].class = "Space"
  <2>1. DOMAIN <<>> = {}
    OBVIOUS
  <2> QED BY <2>1
<1> QED BY <1>3, <1>4 DEF MarksRight
-----------------------------------------------------------------------------
(***************************************************************************)
(* Every step preserves the counts, and so the whole of the invariant.     *)
(***************************************************************************)
MnemonicsIn(lines) ==
    UNION {{r} \X {k \in DOMAIN lines[r] : lines[r][k].word = "mnemonic"} : r \in DOMAIN lines}

LEMMA WhichMnemonics ==
    ASSUME NEW lines
    PROVE  \A x : x \in MnemonicsIn(lines) <=>
                      \E r \in DOMAIN lines : \E k \in DOMAIN lines[r] :
                          x = <<r, k>> /\ lines[r][k].word = "mnemonic"
<1> DEFINE K(r) == {k \in DOMAIN lines[r] : lines[r][k].word = "mnemonic"}
<1>1. MnemonicsIn(lines) = UNION {{r} \X K(r) : r \in DOMAIN lines}
  BY DEF MnemonicsIn
<1>2. \A r, k : k \in K(r) <=> k \in DOMAIN lines[r] /\ lines[r][k].word = "mnemonic"
  OBVIOUS
<1> HIDE DEF K
<1>3. \A x : x \in MnemonicsIn(lines) <=> \E r \in DOMAIN lines : x \in {r} \X K(r)
  BY <1>1
<1>4. \A x, r : x \in {r} \X K(r) <=> \E k \in K(r) : x = <<r, k>>
  OBVIOUS
<1> QED BY <1>2, <1>3, <1>4

\* One element more, unless it is none to be counted.
CountGrows(S, T, x, counts) == T = S \cup (IF counts THEN {x} ELSE {}) /\ x \notin S

LEMMA CountedOnce ==
    ASSUME NEW S, IsFiniteSet(S), NEW T, NEW x, NEW counts \in BOOLEAN, CountGrows(S, T, x, counts)
    PROVE  IsFiniteSet(T) /\ Cardinality(T) = Cardinality(S) + IF counts THEN 1 ELSE 0
<1>1. CASE counts
  <2>1. T = S \cup {x} /\ x \notin S
    BY <1>1 DEF CountGrows
  <2> QED BY <1>1, <2>1, FS_AddElement
<1>2. CASE ~counts
  <2>1. T = S /\ Cardinality(S) \in Nat
    BY <1>2, FS_CardinalityType DEF CountGrows
  <2> QED BY <1>2, <2>1
<1> QED BY <1>1, <1>2

LEMMA LexCounts ==
    ASSUME Inv, TextTypes, CountsRight,
           NEW l \in Lexemes, NEW s, NEW kind, LexDoes(l, s, kind)
    PROVE  CountsRight'
<1>1. stage = "lexemes" /\ stage' \in {"lexemes", "colon"} /\ Open /\ Grows(s) /\ KindsGrow(kind)
      /\ counter' = counter
  BY DEF LexDoes, Open
<1>2. LineGrew(l)
  BY <1>1, LineGrows DEF LexDoes
<1>3. PICK n \in Nat : n = Len(pasted) /\ n > 0
  BY <1>2 DEF LineGrew
<1>4. PICK line \in Seq(Lexemes) : line = Line
  BY <1>2 DEF LineGrew
<1>5. PICK m \in Nat : m = Len(line)
  OBVIOUS
<1>6. PICK new \in Seq(Lexemes) : new = Append(line, l)
  <2>1. Append(line, l) \in Seq(Lexemes)
    OBVIOUS
  <2> QED BY <2>1
<1>7. /\ DOMAIN pasted = 1..n /\ DOMAIN pasted' = 1..n
      /\ (\A r \in 1..n : r # n => pasted'[r] = pasted[r])
      /\ pasted[n] = line /\ pasted'[n] = new
  BY <1>2, <1>3, <1>4, <1>6 DEF LineGrew, Line
<1>8. /\ DOMAIN line = 1..m /\ DOMAIN new = 1..(m + 1)
      /\ (\A j \in 1..m : new[j] = line[j]) /\ new[m + 1] = l
  BY <1>5, <1>6
<1>9. PICK counts \in BOOLEAN : counts <=> l.word = "mnemonic"
  OBVIOUS
<1>10. CountGrows(Mnemonics, Mnemonics', <<n, m + 1>>, counts)
  <2> DEFINE x == <<n, m + 1>>
             Is(lines, y) == \E r \in DOMAIN lines : \E k \in DOMAIN lines[r] :
                                 y = <<r, k>> /\ lines[r][k].word = "mnemonic"
  <2>1. Mnemonics = MnemonicsIn(pasted) /\ Mnemonics' = MnemonicsIn(pasted')
    BY DEF Mnemonics, MnemonicsIn
  <2>2. \A y : (y \in Mnemonics <=> Is(pasted, y)) /\ (y \in Mnemonics' <=> Is(pasted', y))
    BY <2>1, WhichMnemonics
  <2>3. ~Is(pasted, x)
    <3>1. SUFFICES ASSUME NEW r \in 1..n, NEW k \in DOMAIN pasted[r], x = <<r, k>> PROVE FALSE
      BY <1>7
    <3>2. r = n /\ k = m + 1
      BY <3>1
    <3> QED BY <1>7, <1>8, <3>2
  <2>4. ASSUME NEW y, Is(pasted, y) PROVE Is(pasted', y)
    <3>. PICK r \in 1..n : \E k \in DOMAIN pasted[r] : y = <<r, k>> /\ pasted[r][k].word = "mnemonic"
      BY <1>7, <2>4
    <3>1. PICK k \in DOMAIN pasted[r] : y = <<r, k>> /\ pasted[r][k].word = "mnemonic"
      OBVIOUS
    <3>2. k \in DOMAIN pasted'[r] /\ pasted'[r][k] = pasted[r][k]
      <4>1. CASE r = n
        BY <1>7, <1>8, <4>1
      <4>2. CASE r # n
        BY <1>7, <4>2
      <4> QED BY <4>1, <4>2
    <3> QED BY <1>7, <3>1, <3>2
  <2>5. ASSUME NEW y, Is(pasted', y), ~Is(pasted, y) PROVE counts /\ y = x
    <3>. PICK r \in 1..n : \E k \in DOMAIN pasted'[r] : y = <<r, k>> /\ pasted'[r][k].word = "mnemonic"
      BY <1>7, <2>5
    <3>1. PICK k \in DOMAIN pasted'[r] : y = <<r, k>> /\ pasted'[r][k].word = "mnemonic"
      OBVIOUS
    <3>2. ~(k \in DOMAIN pasted[r] /\ pasted[r][k].word = "mnemonic")
      BY <1>7, <2>5, <3>1
    <3>3. r = n
      BY <1>7, <3>1, <3>2
    <3>4. k \in 1..(m + 1) /\ k \notin 1..m
      BY <1>7, <1>8, <3>1, <3>2, <3>3
    <3>5. k = m + 1
      BY <3>4
    <3> QED BY <1>7, <1>8, <1>9, <3>1, <3>3, <3>5
  <2>6. counts => Is(pasted', x)
    <3>1. SUFFICES ASSUME counts PROVE Is(pasted', x)
      OBVIOUS
    <3>2. n \in DOMAIN pasted' /\ m + 1 \in DOMAIN pasted'[n] /\ pasted'[n][m + 1].word = "mnemonic"
      BY <1>3, <1>7, <1>8, <1>9, <3>1
    <3> QED BY <3>2
  <2> HIDE DEF Is, x
  <2>7. Mnemonics' = Mnemonics \cup (IF counts THEN {x} ELSE {}) /\ x \notin Mnemonics
    BY <2>2, <2>3, <2>4, <2>5, <2>6
  <2> QED BY <2>7 DEF CountGrows, x
<1>11. \E i : CountGrows(Instructions, Instructions', i, counts)
  <2>1. PICK t \in Nat : t = Len(tokens)
    BY <1>1 DEF Grows
  <2>2. PICK u \in Nat : u = Len(tokens') /\ u > t
    BY <1>1, <2>1 DEF Grows
  <2>3. DOMAIN kinds = 1..t /\ DOMAIN kinds' = 1..u
    <3>1. kinds \in Seq(Kinds) /\ kinds' \in Seq(Kinds) /\ Len(kinds) = t /\ Len(kinds') = u
      BY <1>1, <2>1, <2>2 DEF TextTypes, KindsGrow
    <3> QED BY <3>1
  <2>4. /\ \A i \in 1..t : kinds'[i] = kinds[i]
        /\ \A i \in (t + 1)..u : kinds'[i] = kind
    BY <1>1, <2>1, <2>2 DEF KindsGrow
  <2>5. counts <=> kind = "Instruction"
    BY <1>9 DEF LexDoes
  <2>6. counts => u = t + 1
    BY <1>1, <1>9, <2>1, <2>2 DEF LexDoes, Grows
  <2>7. \A i : /\ i \in Instructions <=> i \in 1..t /\ kinds[i] = "Instruction"
               /\ i \in Instructions' <=> i \in 1..u /\ kinds'[i] = "Instruction"
    BY <2>3 DEF Instructions
  <2>8. \A i : i \in 1..u <=> i \in 1..t \/ i \in (t + 1)..u
    BY <2>1, <2>2
  <2>9. t + 1 \notin 1..t /\ (counts => \A i : i \in (t + 1)..u <=> i = t + 1)
    BY <2>6
  <2>10. \A i : i \in Instructions' <=> i \in Instructions \/ (counts /\ i = t + 1)
    BY <2>4, <2>5, <2>7, <2>8, <2>9
  <2>11. Instructions' = Instructions \cup (IF counts THEN {t + 1} ELSE {}) /\ t + 1 \notin Instructions
    BY <2>7, <2>9, <2>10
  <2> QED BY <2>11 DEF CountGrows
<1>12. /\ IsFiniteSet(Mnemonics') /\ Cardinality(Mnemonics') = opcodes + IF counts THEN 1 ELSE 0
       /\ IsFiniteSet(Instructions') /\ Cardinality(Instructions') = opcodes + IF counts THEN 1 ELSE 0
  <2>1. /\ IsFiniteSet(Mnemonics) /\ opcodes = Cardinality(Mnemonics)
        /\ IsFiniteSet(Instructions) /\ opcodes = Cardinality(Instructions)
    BY DEF CountsRight
  <2>2. IsFiniteSet(Mnemonics') /\ Cardinality(Mnemonics') = Cardinality(Mnemonics) + IF counts THEN 1 ELSE 0
    BY <1>10, <2>1, CountedOnce
  <2>3. IsFiniteSet(Instructions') /\ Cardinality(Instructions') = Cardinality(Instructions) + IF counts THEN 1 ELSE 0
    BY <1>11, <2>1, CountedOnce
  <2> QED BY <2>1, <2>2, <2>3
<1>13. opcodes' = opcodes + IF counts THEN 1 ELSE 0
  BY <1>9 DEF LexDoes
<1>14. counter' = IF stage' = "done" THEN opcodes' ELSE 0
  BY <1>1 DEF CountsRight
<1> QED BY <1>12, <1>13, <1>14 DEF CountsRight

\* The other steps leave the words and what is marked as a mnemonic alone.
LEMMA QuietCounts ==
    ASSUME TextTypes, CountsRight, pasted' \in {pasted, Append(pasted, <<>>)}, opcodes' = opcodes,
           Instructions' = Instructions, counter' = IF stage' = "done" THEN opcodes ELSE 0
    PROVE  CountsRight'
<1>1. Mnemonics = MnemonicsIn(pasted) /\ Mnemonics' = MnemonicsIn(pasted')
  BY DEF Mnemonics, MnemonicsIn
<1>2. MnemonicsIn(pasted') = MnemonicsIn(pasted)
  <2>1. CASE pasted' = Append(pasted, <<>>)
    <3>1. PICK n \in Nat : n = Len(pasted)
      BY DEF TextTypes
    <3>2. pasted \in Seq(Seq(Lexemes)) /\ <<>> \in Seq(Lexemes) /\ DOMAIN <<>> = {}
      BY DEF TextTypes
    <3>3. /\ DOMAIN pasted = 1..n /\ DOMAIN pasted' = 1..(n + 1)
          /\ (\A r \in 1..n : pasted'[r] = pasted[r]) /\ DOMAIN pasted'[n + 1] = {}
      BY <2>1, <3>1, <3>2
    <3>4. \A r : r \in 1..(n + 1) <=> r \in 1..n \/ r = n + 1
      OBVIOUS
    <3> DEFINE Is(lines, y) == \E r \in DOMAIN lines : \E k \in DOMAIN lines[r] :
                                   y = <<r, k>> /\ lines[r][k].word = "mnemonic"
    <3>5. \A y : Is(pasted', y) <=> Is(pasted, y)
      BY <3>3, <3>4
    <3>6. \A y : (y \in MnemonicsIn(pasted) <=> Is(pasted, y))
                 /\ (y \in MnemonicsIn(pasted') <=> Is(pasted', y))
      BY WhichMnemonics
    <3> HIDE DEF Is
    <3> QED BY <3>5, <3>6
  <2>2. CASE pasted' = pasted
    BY <2>2
  <2> QED BY <2>1, <2>2
<1> QED BY <1>1, <1>2 DEF CountsRight

LEMMA TextInitial == TextInit => TextInv
<1> SUFFICES ASSUME TextInit PROVE TextInv
  OBVIOUS
<1>1. /\ pasted = <<>> /\ stage = "lines" /\ atLineStart = TRUE /\ kinds = <<>> /\ opcodes = 0
      /\ counter = 0 /\ text = <<>> /\ tokens = <<>> /\ lineStarts = <<0>> /\ ~finished
  BY DEF TextInit, Init
<1>2. ~Open /\ DOMAIN pasted = {} /\ DOMAIN kinds = {} /\ Len(pasted) = 0 /\ Len(text) = 0
      /\ Len(kinds) = 0 /\ Len(tokens) = 0
  BY <1>1 DEF Open
<1>3. TextTypes
  <2>1. <<>> \in Seq(Seq(Lexemes)) /\ <<>> \in Seq(Kinds)
    OBVIOUS
  <2> QED BY <1>1, <1>2, <2>1 DEF TextTypes
<1>4. RowsShown
  <2>1. Len(lineStarts) = 1 /\ lineStarts[1] = 0
    BY <1>1
  <2> QED BY <1>1, <1>2, <2>1 DEF RowsShown, Closed
<1>5. MarksRight
  BY <1>2 DEF MarksRight
<1>6. CountsRight
  <2>1. Mnemonics = {} /\ Instructions = {}
    BY <1>2 DEF Mnemonics, Instructions
  <2> QED BY <1>1, <2>1, FS_EmptySet DEF CountsRight
<1> QED BY <1>3, <1>4, <1>5, <1>6 DEF TextInv

LEMMA TextInductive == Inv /\ TextInv /\ [TextNext]_textVars => TextInv'
<1> SUFFICES ASSUME Inv, TextInv, [TextNext]_textVars PROVE TextInv'
  OBVIOUS
<1>1. TextTypes /\ RowsShown /\ MarksRight /\ CountsRight
  BY DEF TextInv
<1>2. Len(text) \in Nat /\ lineStarts \in Seq(Nat) /\ Len(lineStarts) \in Nat /\ Len(pasted) \in Nat
      /\ pasted \in Seq(Seq(Lexemes)) /\ DOMAIN pasted = 1..Len(pasted)
      /\ text \in Seq(Byte)
  BY <1>1 DEF Inv, TypeOK, TextTypes
<1>3. CASE NextLine
  <2>1. /\ stage = "lines" /\ stage' = "lexemes" /\ pasted' = Append(pasted, <<>>) /\ ~Open /\ Open'
        /\ text' = text /\ tokens' = tokens /\ lineStarts' = lineStarts /\ finished' = finished
        /\ kinds' = kinds /\ opcodes' = opcodes /\ counter' = counter /\ atLineStart' = TRUE
    BY <1>3 DEF NextLine, Open, vars
  <2>2. Append(pasted, <<>>) \in Seq(Seq(Lexemes)) /\ Append(pasted, <<>>) # <<>>
        /\ Line' = <<>>
    <3> DEFINE D == Seq(Lexemes)
    <3>1. PICK e \in D : e = <<>>
      <4>1. <<>> \in D
        OBVIOUS
      <4> QED BY <4>1
    <3>2. pasted \in Seq(D) /\ pasted' = Append(pasted, e)
      BY <1>2, <2>1, <3>1
    <3> HIDE DEF D
    <3>3. Append(pasted, e) \in Seq(D) /\ Len(Append(pasted, e)) = Len(pasted) + 1
          /\ Append(pasted, e)[Len(pasted) + 1] = e
      BY <3>2, AppendProperties
    <3>4. Append(pasted, e) # <<>>
      BY <1>2, <3>3
    <3> QED BY <2>1, <3>1, <3>2, <3>3, <3>4 DEF Line, D
  <2>3. TextTypes'
    <3>1. ~finished
      BY <1>1, <2>1 DEF TextTypes
    <3> QED BY <1>1, <2>1, <2>2, <3>1 DEF TextTypes
  <2>4. RowsShown'
    BY <1>1, <1>3, LineRows
  <2>5. MarksRight'
    <3>9. /\ tokens' = tokens /\ kinds' = kinds /\ Len(text') \in Nat /\ Len(text') >= Len(text)
          /\ pasted' \in {pasted, Append(pasted, <<>>)}
          /\ \A r \in DOMAIN pasted : lineStarts'[r] = lineStarts[r]
          /\ Open' => atLineStart' = TRUE /\ Line' = <<>>
      BY <1>1, <1>2, <2>1, <2>2
    <3> QED BY <1>1, <3>9, QuietMarks
  <2>6. CountsRight'
    BY <1>1, <2>1, QuietCounts DEF Instructions, CountsRight
  <2> QED BY <2>3, <2>4, <2>5, <2>6 DEF TextInv
<1>4. ASSUME NEW l \in Lexemes, Lex(l) PROVE TextInv'
  <2>1. PICK s \in Texts : \E kind \in Kinds : LexDoes(l, s, kind)
    BY <1>1, <1>4, LexEffect
  <2>2. PICK kind \in Kinds : LexDoes(l, s, kind)
    BY <2>1
  <2>3. Open /\ Open' /\ stage' \in {"lexemes", "colon"} /\ Grows(s) /\ KindsGrow(kind)
    BY <2>2 DEF LexDoes, Open
  <2>4. TextTypes'
    <3>1. LineGrew(l)
      BY <1>1, <2>2, <2>3, LineGrows DEF LexDoes
    <3>2. pasted' \in Seq(Seq(Lexemes)) /\ pasted' # <<>>
      BY <3>1 DEF LineGrew
    <3>3. atLineStart' \in BOOLEAN /\ opcodes' \in Nat /\ ~finished'
      BY <1>1, <2>2, <2>3 DEF LexDoes, TextTypes, Grows
    <3> QED BY <2>3, <3>2, <3>3 DEF TextTypes, KindsGrow
  <2>5. RowsShown'
    BY <1>1, <2>2, LexRows
  <2>6. MarksRight'
    BY <1>1, <2>2, LexMarks
  <2>7. CountsRight'
    BY <1>1, <2>2, LexCounts
  <2> QED BY <2>4, <2>5, <2>6, <2>7 DEF TextInv
<1>5. CASE SplitColon
  <2>1. Grows(Colon) /\ KindsGrow("Plain")
    BY <1>1, <1>5, ColonGrows
  <2>2. /\ stage' = "lexemes" /\ pasted' = pasted /\ Open /\ opcodes' = opcodes
        /\ counter' = counter /\ atLineStart' = atLineStart /\ stage = "colon"
    BY <1>5 DEF SplitColon, Open
  <2>3. TextTypes'
    <3>1. ~finished'
      BY <2>1 DEF Grows
    <3> QED BY <1>1, <2>1, <2>2, <3>1 DEF TextTypes, KindsGrow
  <2>4. RowsShown'
    BY <1>1, <1>5, ColonRows
  <2>5. MarksRight'
    BY <1>1, <1>5, ColonMarks
  <2>6. CountsRight'
    <3>1. Instructions' = Instructions
      <4>1. PICK t \in Nat : t = Len(tokens)
        BY <2>1 DEF Grows
      <4>2. PICK u \in Nat : u = Len(tokens') /\ u > t
        BY <2>1, <4>1 DEF Grows
      <4>3. DOMAIN kinds = 1..t /\ DOMAIN kinds' = 1..u
        <5>1. kinds \in Seq(Kinds) /\ kinds' \in Seq(Kinds) /\ Len(kinds) = t /\ Len(kinds') = u
          BY <1>1, <2>1, <4>1, <4>2 DEF TextTypes, KindsGrow
        <5> QED BY <5>1
      <4>4. /\ \A i \in 1..t : kinds'[i] = kinds[i]
            /\ \A i \in (t + 1)..u : kinds'[i] = "Plain"
        BY <2>1, <4>1, <4>2 DEF KindsGrow
      <4>5. \A i : i \in 1..u <=> i \in 1..t \/ i \in (t + 1)..u
        BY <4>1, <4>2
      <4> QED BY <4>3, <4>4, <4>5 DEF Instructions
    <3> QED BY <1>1, <2>2, <3>1, QuietCounts DEF CountsRight
  <2> QED BY <2>3, <2>4, <2>5, <2>6 DEF TextInv
<1>6. CASE EndOfLine
  <2>1. /\ stage = "lexemes" /\ stage' = "lines" /\ pasted' = pasted /\ Open /\ ~Open'
        /\ text' = Append(text, "nl") /\ lineStarts' = Append(lineStarts, Len(text) + 1)
        /\ tokens' = tokens /\ finished' = finished /\ ~finished
        /\ kinds' = kinds /\ opcodes' = opcodes /\ counter' = counter /\ atLineStart' = atLineStart
    BY <1>6 DEF EndOfLine, Newline, Open
  <2>2. TextTypes'
    BY <1>1, <2>1 DEF TextTypes
  <2>3. RowsShown'
    BY <1>1, <1>6, EndRows
  <2>4. MarksRight'
    <3>1. Len(text') = Len(text) + 1
      BY <1>2, <2>1
    <3>2. \A r \in DOMAIN pasted : lineStarts'[r] = lineStarts[r]
      <4>1. Len(lineStarts) = Len(pasted)
        BY <1>1, <2>1 DEF RowsShown
      <4> QED BY <1>2, <2>1, <4>1
    <3>9. /\ tokens' = tokens /\ kinds' = kinds /\ Len(text') \in Nat /\ Len(text') >= Len(text)
          /\ pasted' \in {pasted, Append(pasted, <<>>)}
          /\ \A r \in DOMAIN pasted : lineStarts'[r] = lineStarts[r]
          /\ Open' => atLineStart' = TRUE /\ Line' = <<>>
      <4>1. pasted' = pasted /\ Len(text') \in Nat /\ Len(text') >= Len(text)
        BY <1>2, <2>1, <3>1
      <4> QED BY <2>1, <3>2, <4>1
    <3> QED BY <1>1, <3>9, QuietMarks
  <2>5. CountsRight'
    BY <1>1, <2>1, QuietCounts DEF Instructions, CountsRight
  <2> QED BY <2>2, <2>3, <2>4, <2>5 DEF TextInv
<1>7. CASE EndOfText
  <2>1. /\ stage = "lines" /\ stage' = "done" /\ pasted' = pasted /\ ~Open /\ ~Open'
        /\ text' = text /\ tokens' = tokens /\ lineStarts' = lineStarts /\ finished' = finished
        /\ kinds' = kinds /\ opcodes' = opcodes /\ counter' = counter + opcodes
        /\ atLineStart' = atLineStart
    BY <1>7 DEF EndOfText, Open, vars
  <2>2. TextTypes'
    BY <1>1, <2>1 DEF TextTypes
  <2>3. RowsShown'
    BY <1>1, <1>7, DoneRows
  <2>4. MarksRight'
    <3>9. /\ tokens' = tokens /\ kinds' = kinds /\ Len(text') \in Nat /\ Len(text') >= Len(text)
          /\ pasted' \in {pasted, Append(pasted, <<>>)}
          /\ \A r \in DOMAIN pasted : lineStarts'[r] = lineStarts[r]
          /\ Open' => atLineStart' = TRUE /\ Line' = <<>>
      BY <1>1, <1>2, <2>1
    <3> QED BY <1>1, <3>9, QuietMarks
  <2>5. CountsRight'
    <3>1. counter = 0 /\ opcodes \in Nat
      BY <1>1, <2>1 DEF CountsRight, TextTypes
    <3> QED BY <1>1, <2>1, <3>1, QuietCounts DEF Instructions
  <2> QED BY <2>2, <2>3, <2>4, <2>5 DEF TextInv
<1>8. CASE FinishText
  <2>1. /\ stage = "done" /\ stage' = "done" /\ pasted' = pasted /\ ~Open /\ ~Open'
        /\ text' = text /\ tokens' = tokens /\ ~finished /\ finished' = TRUE
        /\ kinds' = kinds /\ opcodes' = opcodes /\ counter' = counter /\ atLineStart' = atLineStart
        /\ lineStarts' = IF DropsLastLine THEN SubSeq(lineStarts, 1, Len(lineStarts) - 1)
                         ELSE lineStarts
    BY <1>8 DEF FinishText, Finish, Open
  <2>2. TextTypes'
    BY <1>1, <2>1 DEF TextTypes
  <2>3. RowsShown'
    BY <1>1, <1>8, FinishRows
  <2>4. MarksRight'
    <3>1. \A r \in DOMAIN pasted : lineStarts'[r] = lineStarts[r]
      <4>1. Len(lineStarts) = Len(pasted) + 1
        BY <1>1, <2>1 DEF RowsShown
      <4>2. \A r \in 1..Len(pasted) : SubSeq(lineStarts, 1, Len(pasted))[r] = lineStarts[r]
        BY <1>2, <4>1
      <4>3. Len(lineStarts) - 1 = Len(pasted)
        BY <1>2, <4>1
      <4> QED BY <1>2, <2>1, <4>2, <4>3
    <3>9. /\ tokens' = tokens /\ kinds' = kinds /\ Len(text') \in Nat /\ Len(text') >= Len(text)
          /\ pasted' \in {pasted, Append(pasted, <<>>)}
          /\ \A r \in DOMAIN pasted : lineStarts'[r] = lineStarts[r]
          /\ Open' => atLineStart' = TRUE /\ Line' = <<>>
      <4>1. pasted' = pasted /\ Len(text') \in Nat /\ Len(text') >= Len(text)
        BY <1>2, <2>1
      <4> QED BY <2>1, <3>1, <4>1
    <3> QED BY <1>1, <3>9, QuietMarks
  <2>5. CountsRight'
    BY <1>1, <2>1, QuietCounts DEF Instructions, CountsRight
  <2> QED BY <2>2, <2>3, <2>4, <2>5 DEF TextInv
<1>9. CASE UNCHANGED textVars
  <2>1. /\ UNCHANGED <<text, tokens, lineStarts, finished>>
        /\ UNCHANGED <<pasted, stage, atLineStart, kinds, opcodes, counter>>
    BY <1>9 DEF textVars, vars
  <2>2. TextTypes'
    BY <1>1, <2>1 DEF TextTypes, Open
  <2>3. RowsShown'
    BY <1>1, <2>1 DEF RowsShown, Open, Closed, LineEnd, Line
  <2>4. MarksRight'
    BY <1>1, <2>1 DEF MarksRight, Open, Line, Place, SaysSo
  <2>5. CountsRight'
    BY <1>1, <2>1 DEF CountsRight, Mnemonics, Instructions
  <2> QED BY <2>2, <2>3, <2>4, <2>5 DEF TextInv
<1> QED BY <1>3, <1>4, <1>5, <1>6, <1>7, <1>8, <1>9 DEF TextNext
-----------------------------------------------------------------------------
THEOREM TextInvariance == TextSpec => [](Inv /\ TextInv)
<1>1. TextInit => Inv
  BY Initial DEF TextInit
<1>2. Inv /\ [TextNext]_textVars => Inv'
  BY StepIsAStep, Inductive
<1> QED BY <1>1, <1>2, TextInitial, TextInductive, PTL DEF TextSpec

LEMMA RowsRead == Inv /\ TextInv => RowsAreThePastedLines
<1> SUFFICES ASSUME Inv, TextInv, finished, pasted # <<>>
             PROVE  /\ Rows = Len(pasted)
                    /\ \A r \in 1..Rows :
                           SubSeq(text, lineStarts[r] + 1, LineEnd(r)) =
                               Append([i \in DOMAIN Bytes(pasted[r]) |->
                                           IF Bytes(pasted[r])[i] = "nl" THEN "lead"
                                           ELSE Bytes(pasted[r])[i]], "nl")
  BY DEF RowsAreThePastedLines
<1>1. /\ ~Open /\ pasted \in Seq(Seq(Lexemes)) /\ Len(pasted) \in Nat /\ Len(pasted) > 0
      /\ DOMAIN pasted = 1..Len(pasted) /\ text \in Seq(Byte) /\ Len(text) \in Nat
  BY DEF TextInv, TextTypes, Open, Inv, TypeOK
<1>2. Len(lineStarts) = Len(pasted) /\ Rows = Len(pasted)
  BY <1>1 DEF TextInv, RowsShown, Rows, Larger
<1>3. ASSUME NEW r \in 1..Len(pasted)
      PROVE  SubSeq(text, lineStarts[r] + 1, LineEnd(r)) =
                 Append([i \in DOMAIN Bytes(pasted[r]) |-> Clean(Bytes(pasted[r])[i])], "nl")
  <2>1. PICK from \in Nat : from = lineStarts[r]
    BY <1>2, LineEnds
  <2>2. PICK b \in Seq(Byte) : b = Bytes(pasted[r])
    BY <1>1, BytesOf
  <2>3. PICK m \in Nat : m = Len(b)
    OBVIOUS
  <2>4. ShowsRow(text, from, LineEnd(r), b)
    BY <1>1, <2>1, <2>2 DEF TextInv, RowsShown, Closed
  <2>5. /\ LineEnd(r) = from + m + 1 /\ from + m + 1 <= Len(text) /\ text[from + m + 1] = "nl"
        /\ \A i \in 1..m : text[from + i] = Clean(b[i])
    BY <2>3, <2>4 DEF ShowsRow
  <2> DEFINE row == SubSeq(text, from + 1, from + m + 1)
             clean == [i \in 1..m |-> Clean(b[i])]
             shown == Append(clean, "nl")
  <2>6. row \in Seq(Byte) /\ Len(row) = m + 1 /\ \A i \in 1..(m + 1) : row[i] = text[from + i]
    <3>1. from + 1 \in 1..(Len(text) + 1) /\ from + m + 1 \in 0..Len(text)
      BY <1>1, <2>5
    <3>2. Len(row) = m + 1 /\ row \in Seq(Byte)
      BY <1>1, <2>5, <3>1
    <3>3. \A i \in 1..(m + 1) : row[i] = text[from + i]
      BY <1>1, <2>5, <3>1
    <3> QED BY <3>2, <3>3
  <2>7. clean \in Seq(Byte) /\ Len(clean) = m /\ "nl" \in Byte
    <3>1. \A i \in 1..m : Clean(b[i]) \in Byte
      BY <2>3 DEF Clean, Byte
    <3> QED BY <3>1 DEF Byte
  <2>8. /\ shown \in Seq(Byte) /\ Len(shown) = m + 1 /\ shown[m + 1] = "nl"
        /\ \A i \in 1..m : shown[i] = Clean(b[i])
    <3>1. \A i \in 1..m : clean[i] = Clean(b[i])
      OBVIOUS
    <3> HIDE DEF clean
    <3> QED BY <2>7, <3>1
  <2>9. \A i \in 1..(m + 1) : row[i] = shown[i]
    <3> TAKE i \in 1..(m + 1)
    <3>1. CASE i = m + 1
      <4>1. from + i = from + m + 1
        BY <3>1
      <4> QED BY <2>5, <2>6, <2>8, <3>1, <4>1
    <3>2. CASE i # m + 1
      <4>1. i \in 1..m
        BY <3>2
      <4> QED BY <2>5, <2>6, <2>8, <4>1
    <3> QED BY <3>1, <3>2
  <2>10. row = shown
    <3> HIDE DEF row, shown
    <3> QED BY <2>6, <2>8, <2>9, SeqEqual
  <2>11. DOMAIN b = 1..m
    BY <2>3
  <2> QED BY <2>1, <2>2, <2>5, <2>10, <2>11
<1>4. \A r \in 1..Rows : SubSeq(text, lineStarts[r] + 1, LineEnd(r)) =
          Append([i \in DOMAIN Bytes(pasted[r]) |-> Clean(Bytes(pasted[r])[i])], "nl")
  BY <1>2, <1>3
<1> QED BY <1>2, <1>4 DEF Clean

\* Row by row a highlighted document is the text that was pasted, for any
\* lexemes and any bound on a token: what is cut in two and what is pushed
\* in two reads as it was written.
THEOREM RowsAreThePasted == TextSpec => []RowsAreThePastedLines
BY TextInvariance, RowsRead, PTL

LEMMA MarksRead == TextInv => MarksAreThoseOfTheText
<1> SUFFICES ASSUME TextInv PROVE MarksAreThoseOfTheText
  OBVIOUS
<1>1. TextTypes /\ MarksRight /\ CountsRight
  BY DEF TextInv
<1>2. OffsetsOpenTheirRow
  BY <1>1 DEF OffsetsOpenTheirRow, MarksRight, SaysSo, OpensRow
<1>3. CountIsWhatWasMarked
  BY <1>1 DEF CountIsWhatWasMarked, CountsRight, Instructions
<1> QED BY <1>2, <1>3 DEF MarksAreThoseOfTheText

\* What highlighting marks is what the text says, for any text: a number with
\* a colon is an offset exactly where it opens its row, and as many opcodes
\* are counted as the text has mnemonics and tokens are marked as one.
THEOREM MarksAreTrue == TextSpec => []MarksAreThoseOfTheText
BY TextInvariance, MarksRead, PTL
=============================================================================
