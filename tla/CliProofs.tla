----------------------------- MODULE CliProofs -----------------------------
(***************************************************************************)
(* Proofs about the driver, for any command lines, files and number of     *)
(* inputs: totals in the order of the arguments, all or nothing, pages as  *)
(* a prefix, and the right input blamed, in whatever order the pool of     *)
(* threads completes its reads.  The strengthening says what each stage of *)
(* run may rely on: what a completed read means, where among what is       *)
(* collected its bytes are, how much is listed, what the buffer of pages   *)
(* holds and what can have been written.                                   *)
(*                                                                         *)
(* Then about the layout of what a compiler printed, the one subcommand    *)
(* that lists no class: for any output, each line printed is taken apart   *)
(* as the line was, and the heading is in the colour of the worst line.    *)
(***************************************************************************)
EXTENDS Cli, Diagnostic, ArithmeticLemmas, SequenceTheorems

Options == [inputs : Seq(FileNames), font : BOOLEAN, rows : Nat, flags : SUBSET AllFlags]
Stages == {"parse", "read", "list", "show", "pages", "write", "done", "failed"}
OnDisk == [page : Nat, holds : Seq(Nat), whole : BOOLEAN]

TypeOK ==
    /\ disk \in Disk
    /\ options \in Options
    /\ stage \in Stages
    /\ stage \notin {"parse", "failed"} => reads \in [Inputs -> {"waiting", "read", "failed"}]
    /\ rows \in Nat
    /\ total \in Seq(Nat)
    /\ counter \in Nat
    /\ bytes \in Seq(File)
    /\ page \in Nat
    /\ png \in Seq(Nat)
    /\ written \in Seq(OnDisk)
    /\ reported \in BOOLEAN

\* The inputs were read before the first was listed; a diagnostic's are read
\* as they are listed.
ReadFirst ==
    /\ stage = "read" => command # "diagnostic"
    /\ command # "diagnostic" /\ (total # <<>> \/ stage \in {"list", "show", "pages", "write", "done"})
           => \A i \in Inputs : reads[i] = "read"

\* A read that completed found what is on the disk; outside of the pool, those
\* before it did too.
ReadsAreTrue ==
    stage \notin {"parse", "failed"} =>
        \A i \in Inputs :
            /\ reads[i] = "read" => Content(i).reads
            /\ reads[i] = "failed" => ~Content(i).reads
            /\ reads[i] # "waiting" /\ ~Parallel => \A j \in 1..(i - 1) : reads[j] = "read"

\* Of the first m inputs, those that are read.
HaveRead(r, m) == {j \in 1..m : r[j] = "read"}

\* While inputs are read, the bytes of one are behind those of the inputs before
\* it; once all are, each is in its place.
Collected ==
    /\ stage = "parse" => bytes = <<>>
    /\ stage = "read" =>
           /\ Len(bytes) = Cardinality(HaveRead(reads, Len(options.inputs)))
           /\ \A i \in Inputs :
                  reads[i] = "read" => bytes[1 + Cardinality(HaveRead(reads, i - 1))] = Content(i)
    /\ stage = "list" /\ command # "diagnostic" => \A i \in Inputs : bytes[i] = Content(i)

\* What is listed of the inputs, by stage.
ListedInTurn ==
    /\ stage \in {"parse", "read"} => total = <<>>
    /\ Len(total) <= Len(options.inputs)
    /\ stage \in {"show", "pages", "write", "done"} => Len(total) = Len(options.inputs)
    /\ \A i \in 1..Len(total) :
           IF command = "diagnostic" THEN Content(i).reads /\ Content(i).text
           ELSE Content(i).lists

\* What is drawn and written, by stage.
WrittenLast ==
    /\ stage \in {"parse", "read", "list", "show"} => written = <<>> /\ page = 0
    /\ stage \in {"pages", "write"} => Len(written) = page
    /\ stage = "write" => png = <<page>>
    /\ written # <<>> => Len(total) = Len(options.inputs)
    /\ reported = (stage = "done")
    /\ stage # "failed" => error = NoError

Inv ==
    /\ TypeOK
    /\ ReadFirst
    /\ ReadsAreTrue
    /\ Collected
    /\ ListedInTurn
    /\ WrittenLast
    /\ TotalsInArgumentOrder
    /\ PagesAreAPrefix
    /\ BlameIsDeserved
-----------------------------------------------------------------------------
\* What a failure is of, and which.
LEMMA Reasons ==
    ASSUME NEW what, NEW i
    PROVE  Because(what, i).what = what /\ Because(what, i).input = i
BY DEF Because

\* What an input is, and what it adds to the totals.
LEMMA Contents ==
    ASSUME TypeOK, NEW i \in Inputs
    PROVE  /\ Content(i) \in File
           /\ Opcodes(i) \in Nat
BY DEF TypeOK, Inputs, Content, Disk, Options, File, Opcodes

\* What inputs are read only gets more, and one more with each read.
LEMMA ReadOfThem ==
    ASSUME NEW r, NEW m \in Nat, NEW l \in Nat, m <= l
    PROVE  /\ IsFiniteSet(HaveRead(r, m)) /\ Cardinality(HaveRead(r, m)) \in 0..m
           /\ Cardinality(HaveRead(r, m)) <= Cardinality(HaveRead(r, l))
           /\ \A k \in (m + 1)..l : r[k] = "read" =>
                  Cardinality(HaveRead(r, m)) + 1 <= Cardinality(HaveRead(r, l))
           /\ (\A j \in 1..m : r[j] = "read") => Cardinality(HaveRead(r, m)) = m
<1>1. /\ IsFiniteSet(1..m) /\ Cardinality(1..m) = m /\ IsFiniteSet(1..l)
  BY FS_Interval
<1>2. HaveRead(r, m) \in SUBSET (1..m) /\ HaveRead(r, l) \in SUBSET (1..l)
  BY DEF HaveRead
<1>3. /\ IsFiniteSet(HaveRead(r, m)) /\ Cardinality(HaveRead(r, m)) <= m
      /\ IsFiniteSet(HaveRead(r, l))
  <2>1. IsFiniteSet(HaveRead(r, l))
    BY <1>1, <1>2, FS_Subset
  <2>2. IsFiniteSet(HaveRead(r, m)) /\ Cardinality(HaveRead(r, m)) <= Cardinality(1..m)
    BY <1>1, <1>2, FS_Subset
  <2> QED BY <1>1, <2>1, <2>2
<1>4. Cardinality(HaveRead(r, m)) \in Nat /\ Cardinality(HaveRead(r, l)) \in Nat
  BY <1>3, FS_CardinalityType
<1>5. HaveRead(r, m) \in SUBSET HaveRead(r, l)
  BY DEF HaveRead
<1>6. Cardinality(HaveRead(r, m)) <= Cardinality(HaveRead(r, l))
  BY <1>3, <1>5, FS_Subset
<1>7. ASSUME NEW k \in (m + 1)..l, r[k] = "read"
      PROVE  Cardinality(HaveRead(r, m)) + 1 <= Cardinality(HaveRead(r, l))
  <2>1. k \notin HaveRead(r, m) /\ HaveRead(r, m) \cup {k} \in SUBSET HaveRead(r, l)
    BY <1>7 DEF HaveRead
  <2>2. Cardinality(HaveRead(r, m) \cup {k}) = Cardinality(HaveRead(r, m)) + 1
    BY <1>3, <2>1, FS_AddElement
  <2>3. Cardinality(HaveRead(r, m) \cup {k}) <= Cardinality(HaveRead(r, l))
    BY <1>3, <2>1, FS_Subset
  <2> QED BY <2>2, <2>3
<1>8. ASSUME \A j \in 1..m : r[j] = "read" PROVE Cardinality(HaveRead(r, m)) = m
  <2>1. HaveRead(r, m) = 1..m
    BY <1>8 DEF HaveRead
  <2> QED BY <1>1, <2>1
<1> QED BY <1>3, <1>4, <1>6, <1>7, <1>8

LEMMA OneMoreRead ==
    ASSUME NEW n \in Nat, NEW r \in [1..n -> {"waiting", "read", "failed"}],
           NEW i \in 1..n, r[i] = "waiting", NEW m \in 0..n
    PROVE  Cardinality(HaveRead([r EXCEPT ![i] = "read"], m))
               = Cardinality(HaveRead(r, m)) + (IF i <= m THEN 1 ELSE 0)
<1>1. IsFiniteSet(HaveRead(r, m)) /\ Cardinality(HaveRead(r, m)) \in Nat
  BY ReadOfThem
<1>2. CASE i <= m
  <2>1. HaveRead([r EXCEPT ![i] = "read"], m) = HaveRead(r, m) \cup {i} /\ i \notin HaveRead(r, m)
    BY <1>2 DEF HaveRead
  <2>2. Cardinality(HaveRead(r, m) \cup {i}) = Cardinality(HaveRead(r, m)) + 1
    BY <1>1, <2>1, FS_AddElement
  <2> QED BY <1>2, <2>1, <2>2
<1>3. CASE ~(i <= m)
  <2>1. HaveRead([r EXCEPT ![i] = "read"], m) = HaveRead(r, m)
    BY <1>3 DEF HaveRead
  <2> QED BY <1>1, <1>3, <2>1
<1> QED BY <1>2, <1>3

\* What InsertAt inserts, and what it moves.
IsInserted(S, s, p, e, t) ==
    /\ t \in Seq(S) /\ Len(t) = Len(s) + 1 /\ t[p] = e
    /\ \A j \in 1..(p - 1) : t[j] = s[j]
    /\ \A j \in p..Len(s) : t[j + 1] = s[j]

LEMMA Inserted ==
    ASSUME NEW S, NEW s \in Seq(S), NEW p \in 1..(Len(s) + 1), NEW e \in S
    PROVE  IsInserted(S, s, p, e, InsertAt(s, p, e))
<1>1. PICK a, b : a = SubSeq(s, 1, p - 1) /\ b = SubSeq(s, p, Len(s))
  OBVIOUS
<1>2. a \in Seq(S) /\ Len(a) = p - 1 /\ \A j \in 1..(p - 1) : a[j] = s[j]
  BY <1>1
<1>3. b \in Seq(S) /\ Len(b) = Len(s) - (p - 1) /\ \A j \in 1..(Len(s) - (p - 1)) : b[j] = s[p + j - 1]
  BY <1>1
<1>4. PICK c : c = a \o <<e>>
  OBVIOUS
<1>5. c \in Seq(S) /\ Len(c) = p /\ c[p] = e /\ \A j \in 1..(p - 1) : c[j] = s[j]
  BY <1>2, <1>4
<1>6. PICK d : d = c \o b
  OBVIOUS
<1>7. d \in Seq(S) /\ Len(d) = Len(s) + 1
  BY <1>3, <1>5, <1>6
<1>8. /\ \A j \in 1..p : d[j] = c[j]
      /\ \A j \in 1..Len(b) : d[p + j] = b[j]
  <2>1. \A j \in 1..p : d[j] = c[j]
    BY <1>3, <1>5, <1>6
  <2>2. \A j \in 1..Len(b) : d[p + j] = b[j]
    <3>1. Len(c) = p /\ p \in Nat /\ Len(b) \in Nat
      BY <1>3, <1>5
    <3> QED BY <1>3, <1>5, <1>6, <3>1
  <2> QED BY <2>1, <2>2
<1>9. \A j \in p..Len(s) : d[j + 1] = s[j]
  <2> TAKE j \in p..Len(s)
  <2>1. PICK m \in 1..Len(b) : m = j - p + 1 /\ p + m = j + 1 /\ p + m - 1 = j
    BY <1>3
  <2>2. d[p + m] = b[m] /\ b[m] = s[p + m - 1]
    BY <1>3, <1>8
  <2> QED BY <2>1, <2>2
<1>10. InsertAt(s, p, e) = d
  BY <1>1, <1>4, <1>6 DEF InsertAt
<1> QED BY <1>5, <1>7, <1>8, <1>9, <1>10 DEF IsInserted

\* What is collected while inputs are read.
IsCollected(S, n, r, c, s) ==
    /\ s \in Seq(S) /\ Len(s) = Cardinality(HaveRead(r, n))
    /\ \A k \in 1..n : r[k] = "read" => s[1 + Cardinality(HaveRead(r, k - 1))] = c[k]

\* A read keeps what is collected in the order of the inputs.
LEMMA ReadInPlace ==
    ASSUME NEW n \in Nat, NEW r \in [1..n -> {"waiting", "read", "failed"}],
           NEW i \in 1..n, r[i] = "waiting",
           NEW S, NEW s, NEW c, c[i] \in S, IsCollected(S, n, r, c, s),
           NEW q, q = [r EXCEPT ![i] = "read"],
           NEW t, t = InsertAt(s, 1 + Cardinality(HaveRead(r, i - 1)), c[i])
    PROVE  IsCollected(S, n, q, c, t)
<1> DEFINE B(k) == Cardinality(HaveRead(r, k - 1))
<1>0. /\ s \in Seq(S) /\ Len(s) = Cardinality(HaveRead(r, n)) /\ Len(s) \in Nat
      /\ \A k \in 1..n : r[k] = "read" => s[1 + B(k)] = c[k]
  BY DEF IsCollected
<1>1. \A k \in 1..n :
          /\ B(k) \in Nat /\ B(k) <= Len(s) /\ (r[k] = "read" => B(k) + 1 <= Len(s))
          /\ \A l \in 1..n : k <= l => B(k) <= B(l)
          /\ \A l \in 1..n : k < l /\ r[k] = "read" => B(k) + 1 <= B(l)
  <2> TAKE k \in 1..n
  <2>1. k - 1 \in Nat /\ k - 1 <= n /\ k \in ((k - 1) + 1)..n
    OBVIOUS
  <2>2. B(k) \in Nat /\ B(k) <= Len(s) /\ (r[k] = "read" => B(k) + 1 <= Len(s))
    BY <1>0, <2>1, ReadOfThem
  <2>3. ASSUME NEW l \in 1..n, k <= l PROVE B(k) <= B(l)
    <3>1. k - 1 \in Nat /\ l - 1 \in Nat /\ k - 1 <= l - 1
      BY <2>3
    <3> QED BY <3>1, ReadOfThem
  <2>4. ASSUME NEW l \in 1..n, k < l, r[k] = "read" PROVE B(k) + 1 <= B(l)
    <3>1. k - 1 \in Nat /\ l - 1 \in Nat /\ k - 1 <= l - 1 /\ k \in ((k - 1) + 1)..(l - 1)
      BY <2>4
    <3> QED BY <2>4, <3>1, ReadOfThem
  <2> QED BY <2>2, <2>3, <2>4
<1>2. \A k \in 1..n :
          /\ i < k => Cardinality(HaveRead(q, k - 1)) = B(k) + 1
          /\ ~(i < k) => Cardinality(HaveRead(q, k - 1)) = B(k)
  <2> TAKE k \in 1..n
  <2>1. k - 1 \in 0..n /\ (i <= k - 1 <=> i < k) /\ B(k) \in Nat
    <3>1. B(k) \in Nat
      BY <1>1
    <3> HIDE DEF B
    <3> QED BY <3>1
  <2>2. PICK m \in 0..n : m = k - 1
    BY <2>1
  <2>3. Cardinality(HaveRead(q, m)) = Cardinality(HaveRead(r, m)) + (IF i <= m THEN 1 ELSE 0)
    <3>1. Cardinality(HaveRead([r EXCEPT ![i] = "read"], m))
              = Cardinality(HaveRead(r, m)) + (IF i <= m THEN 1 ELSE 0)
      BY OneMoreRead
    <3> QED BY <3>1, Zenon
  <2>4. Cardinality(HaveRead(r, m)) = B(k) /\ (i <= m <=> i < k)
    BY <2>1, <2>2
  <2>5. PICK b \in Nat : b = B(k)
    BY <2>1
  <2> HIDE DEF B
  <2>6. Cardinality(HaveRead(q, m)) = b + (IF i < k THEN 1 ELSE 0)
    BY <2>3, <2>4, <2>5
  <2> QED BY <2>2, <2>5, <2>6
<1>3. Cardinality(HaveRead(q, n)) = Len(s) + 1
  <2>1. n \in 0..n /\ i <= n
    OBVIOUS
  <2> QED BY <1>0, <2>1, OneMoreRead
<1> HIDE DEF B
<1>4. PICK p \in Nat : p = 1 + B(i) /\ p \in 1..(Len(s) + 1)
  BY <1>0, <1>1
<1>5. /\ t \in Seq(S) /\ Len(t) = Len(s) + 1 /\ t[p] = c[i]
      /\ \A j \in 1..(p - 1) : t[j] = s[j]
      /\ \A j \in p..Len(s) : t[j + 1] = s[j]
  <2>1. t = InsertAt(s, p, c[i])
    BY <1>4 DEF B
  <2>2. IsInserted(S, s, p, c[i], InsertAt(s, p, c[i]))
    BY <1>0, <1>4, Inserted
  <2> QED BY <2>1, <2>2 DEF IsInserted
<1>6. ASSUME NEW k \in 1..n, q[k] = "read" PROVE t[1 + Cardinality(HaveRead(q, k - 1))] = c[k]
  <2>1. B(k) \in Nat /\ B(i) \in Nat
    BY <1>1
  <2>2. CASE k = i
    <3>1. Cardinality(HaveRead(q, k - 1)) = B(i)
      <4>1. ~(i < k)
        BY <2>2
      <4> QED BY <1>2, <2>2, <4>1
    <3>2. t[p] = c[k] /\ p = 1 + B(i)
      BY <1>4, <1>5, <2>2
    <3> QED BY <3>1, <3>2
  <2>3. CASE k # i
    <3>1. r[k] = "read"
      BY <1>6, <2>3
    <3>2. s[1 + B(k)] = c[k]
      BY <1>0, <3>1
    <3>3. CASE k < i
      <4>1. B(k) + 1 <= B(i)
        BY <1>1, <3>1, <3>3
      <4>2. 1 + B(k) \in 1..(p - 1) /\ ~(i < k)
        BY <1>4, <2>1, <3>3, <4>1
      <4>3. Cardinality(HaveRead(q, k - 1)) = B(k)
        BY <1>2, <2>1, <4>2
      <4>4. t[1 + B(k)] = s[1 + B(k)]
        BY <1>5, <4>2
      <4> QED BY <3>2, <4>3, <4>4
    <3>4. CASE i < k
      <4>1. B(i) <= B(k) /\ B(k) + 1 <= Len(s)
        BY <1>1, <3>1, <3>4
      <4>2. 1 + B(k) \in p..Len(s)
        BY <1>4, <2>1, <4>1
      <4>3. Cardinality(HaveRead(q, k - 1)) = B(k) + 1
        BY <1>2, <3>4
      <4>4. t[(1 + B(k)) + 1] = s[1 + B(k)]
        BY <1>5, <4>2
      <4>5. 1 + (B(k) + 1) = (1 + B(k)) + 1
        BY <2>1
      <4> QED BY <3>2, <4>3, <4>4, <4>5
    <3> QED BY <2>3, <3>3, <3>4
  <2> QED BY <2>2, <2>3
<1> QED BY <1>3, <1>5, <1>6 DEF IsCollected

\* A step that leaves the pages alone, and fails for none.
LEMMA SamePages ==
    ASSUME PagesAreAPrefix, error = NoError, written' = written,
           error'.what \notin {"draw", "write"}, stage' # "done"
    PROVE  PagesAreAPrefix'
<1>1. error.what \notin {"draw", "write"}
  BY DEF NoError
<1>2. /\ \A k \in 1..Len(written) : written[k].page = k - 1 /\ written[k].holds = <<k - 1>>
      /\ WholePages = 1..Len(written)
  BY <1>1 DEF PagesAreAPrefix
<1>3. WholePages' = WholePages
  BY DEF WholePages
<1> QED BY <1>2, <1>3 DEF PagesAreAPrefix

\* And one when there are none.
LEMMA NoPages ==
    ASSUME written' = <<>>, error'.what \notin {"draw", "write"},
           stage' = "done" => command' = "dump"
    PROVE  PagesAreAPrefix'
<1>1. WholePages' = {} /\ 1..Len(written') = {}
  BY DEF WholePages
<1> QED BY <1>1 DEF PagesAreAPrefix

LEMMA Initial == Init => Inv
<1> SUFFICES ASSUME Init PROVE Inv
  OBVIOUS
<1>1. TypeOK
  <2>1. disk \in Disk
    BY CliAssumption DEF Init
  <2>2. options \in Options
    <3>1. DefaultPageRows \in Nat
      BY CliAssumption
    <3>2. {"METHODS"} \in SUBSET AllFlags
      BY DEF AllFlags
    <3>3. options = [inputs |-> <<>>, font |-> FALSE, rows |-> DefaultPageRows, flags |-> {"METHODS"}]
      BY DEF Init, DefaultOptions
    <3> HIDE DEF AllFlags
    <3> QED BY <3>1, <3>2, <3>3 DEF Options
  <2>3. rows \in Nat /\ counter \in Nat /\ stage = "parse" /\ reported \in BOOLEAN
    BY DEF Init
  <2>4. total \in Seq(Nat) /\ written \in Seq(OnDisk) /\ bytes \in Seq(File) /\ png \in Seq(Nat) /\ page \in Nat
    BY DEF Init
  <2> QED BY <2>1, <2>2, <2>3, <2>4 DEF TypeOK, Stages
<1>2. /\ stage = "parse" /\ total = <<>> /\ written = <<>> /\ counter = 0
      /\ reported = FALSE /\ error = NoError /\ Len(total) = 0 /\ page = 0 /\ bytes = <<>>
  BY DEF Init
<1>3. ReadFirst /\ ReadsAreTrue /\ Collected
  BY <1>2 DEF ReadFirst, ReadsAreTrue, Collected
<1>4. ListedInTurn
  <2>1. Len(options.inputs) \in Nat
    BY <1>1 DEF TypeOK, Options
  <2> QED BY <1>2, <2>1 DEF ListedInTurn
<1>5. WrittenLast
  BY <1>2 DEF WrittenLast
<1>6. TotalsInArgumentOrder
  <2>1. counter = SumOf(total)
    BY <1>2, SumOfNone
  <2> QED BY <1>2, <2>1 DEF TotalsInArgumentOrder
<1>7. PagesAreAPrefix
  <2>1. WholePages = {} /\ 1..Len(written) = {}
    BY <1>2 DEF WholePages
  <2>2. error.what \notin {"draw", "write"}
    BY <1>2 DEF NoError
  <2> QED BY <1>2, <2>1, <2>2 DEF PagesAreAPrefix
<1>8. BlameIsDeserved
  BY <1>2 DEF BlameIsDeserved
<1> QED BY <1>1, <1>3, <1>4, <1>5, <1>6, <1>7, <1>8 DEF Inv

\* The options stay options.
LEMMA ParseTypes ==
    ASSUME TypeOK
    PROVE  /\ \A option \in Valued : \A value :
               option # "--rows" \/ value \in DOMAIN Numbers => WithValue(option, value) \in Options
           /\ \A arg \in FileNames \cup DOMAIN Flagged : With(arg) \in Options
<1>1. ASSUME NEW option \in Valued, NEW value, option # "--rows" \/ value \in DOMAIN Numbers
      PROVE  WithValue(option, value) \in Options
  <2>1. CASE option = "--font"
    BY <2>1 DEF WithValue, TypeOK, Options
  <2>2. CASE option = "--rows"
    <3>1. Numbers[value] \in Nat
      BY <1>1, <2>2, CliAssumption
    <3> QED BY <2>2, <3>1 DEF WithValue, TypeOK, Options
  <2>3. CASE option \in {"--size", "--out"}
    BY <2>3 DEF WithValue, TypeOK
  <2> QED BY <1>1, <2>1, <2>2, <2>3 DEF Valued
<1>2. ASSUME NEW arg \in FileNames \cup DOMAIN Flagged PROVE With(arg) \in Options
  <2>1. CASE arg \in DOMAIN Flagged
    <3>1. Flagged[arg] \in SUBSET AllFlags
      BY <2>1 DEF Flagged, AllFlags
    <3>2. With(arg) = [options EXCEPT !.flags = options.flags \cup Flagged[arg]]
      BY <2>1 DEF With
    <3> HIDE DEF AllFlags
    <3> QED BY <3>1, <3>2 DEF TypeOK, Options
  <2>2. CASE arg \notin DOMAIN Flagged
    <3>1. With(arg) = [options EXCEPT !.inputs = Append(options.inputs, arg)]
      BY <2>2 DEF With
    <3>2. arg \in FileNames /\ options \in Options
      BY <1>2, <2>2 DEF TypeOK
    <3>3. Append(options.inputs, arg) \in Seq(FileNames)
      BY <3>2 DEF Options
    <3> HIDE DEF AllFlags
    <3> QED BY <3>1, <3>2, <3>3 DEF Options
  <2> QED BY <2>1, <2>2
<1> QED BY <1>1, <1>2

\* What parse does leaves all but the options and the errors alone.
Parsing ==
    /\ stage = "parse" /\ stage' \in {"parse", "failed"}
    /\ options' \in Options
    /\ stage' = "parse" => error' = error
    /\ stage' = "failed" => error'.what \notin {"draw", "write", "read", "list"} /\ options' = options
    /\ UNCHANGED <<given, gathered, results>>

LEMMA ParsingKeeps == Inv /\ Parsing /\ stage' = "parse" => Inv'
<1> SUFFICES ASSUME Inv, Parsing, stage' = "parse" PROVE Inv'
  OBVIOUS
<1>1. /\ total = <<>> /\ total' = <<>> /\ written = <<>> /\ written' = <<>> /\ stage = "parse"
      /\ error' = NoError
  BY DEF Inv, ListedInTurn, WrittenLast, Parsing, results, listed, drawn
<1>2. TypeOK'
  BY DEF Inv, TypeOK, Parsing, given, gathered, results, listed, drawn, Stages
<1>3. ReadFirst' /\ ReadsAreTrue' /\ Collected'
  BY <1>1 DEF Inv, Parsing, ReadFirst, ReadsAreTrue, Collected, gathered
<1>4. ListedInTurn' /\ WrittenLast'
  BY <1>1, <1>2 DEF Inv, Parsing, ListedInTurn, WrittenLast, TypeOK, Options, results, listed, drawn
<1>5. TotalsInArgumentOrder'
  BY <1>1 DEF Inv, TotalsInArgumentOrder, Parsing, results, listed, drawn
<1>6. PagesAreAPrefix' /\ BlameIsDeserved'
  <2>1. error'.what = "none"
    BY <1>1 DEF NoError
  <2> QED BY <1>1, <2>1, NoPages DEF BlameIsDeserved
<1> QED BY <1>2, <1>3, <1>4, <1>5, <1>6 DEF Inv

\* A step that only fails, for a reason that is not an input's.
Failing ==
    /\ stage \notin {"done", "failed"} /\ stage' = "failed"
    /\ bytes' = bytes /\ page' = page /\ png' \in Seq(Nat)
    /\ written' \in Seq(OnDisk) /\ (written' # written => stage = "write")
    /\ UNCHANGED <<given, options, listed, reported>>

LEMMA FailingKeeps ==
    ASSUME Inv, Failing, ReadFirst', PagesAreAPrefix', BlameIsDeserved'
    PROVE  Inv'
<1>1. TypeOK'
  BY DEF Inv, TypeOK, Failing, given, listed, Stages
<1>2. ReadsAreTrue' /\ Collected'
  BY DEF Failing, ReadsAreTrue, Collected
<1>3. ListedInTurn'
  <2>1. \A i : Content(i)' = Content(i)
    BY DEF Failing, given, Content
  <2> HIDE DEF Content
  <2> QED BY <2>1 DEF Inv, Failing, ListedInTurn, given, listed
<1>4. WrittenLast'
  <2>1. reported = FALSE
    BY DEF Inv, Failing, WrittenLast
  <2>2. written' # <<>> => Len(total) = Len(options.inputs)
    BY DEF Inv, Failing, WrittenLast, ListedInTurn
  <2> QED BY <2>1, <2>2 DEF Failing, WrittenLast, listed
<1>5. TotalsInArgumentOrder'
  BY DEF Inv, Failing, TotalsInArgumentOrder, given, listed, Opcodes, Content
<1> QED BY <1>1, <1>2, <1>3, <1>4, <1>5 DEF Inv

LEMMA StepParse == Inv /\ (ParseValued \/ ParseOther) => Inv'
<1> SUFFICES ASSUME Inv, ParseValued \/ ParseOther PROVE Inv'
  OBVIOUS
<1>1. TypeOK /\ stage = "parse" /\ options \in Options
  BY DEF Inv, TypeOK, ParseValued, ParseOther
<1>2. CASE options' = options /\ stage' = "failed"
  <2>1. Failing
    BY <1>1, <1>2 DEF ParseValued, ParseOther, Failing, TypeOK, gathered, results, drawn
  <2>2. error'.what \notin {"draw", "write", "read", "list"}
    <3>1. \/ error' = Because("needs a value", 0)
          \/ error' = Because("must be a number", 0)
          \/ error' = Because("unknown option", 0)
      <4>1. CASE ParseValued
        <5>1. CASE Len(rest) = 1
          BY <4>1, <5>1 DEF ParseValued, Fail
        <5>2. CASE Len(rest) # 1 /\ Head(rest) \in Numeric /\ rest[2] \notin DOMAIN Numbers
          BY <4>1, <5>2 DEF ParseValued, Fail
        <5>3. CASE Len(rest) # 1 /\ ~(Head(rest) \in Numeric /\ rest[2] \notin DOMAIN Numbers)
          <6>1. stage' = stage
            BY <4>1, <5>3 DEF ParseValued
          <6> QED BY <1>1, <1>2, <6>1
        <5> QED BY <5>1, <5>2, <5>3
      <4>2. CASE ParseOther
        BY <1>1, <1>2, <4>2 DEF ParseOther, Fail
      <4> QED BY <4>1, <4>2
    <3>2. /\ Because("needs a value", 0).what = "needs a value"
          /\ Because("must be a number", 0).what = "must be a number"
          /\ Because("unknown option", 0).what = "unknown option"
      BY Reasons
    <3> QED BY <3>1, <3>2
  <2>3. total = <<>> /\ written = <<>> /\ command' = command
    BY <1>1, <1>2 DEF Inv, ListedInTurn, WrittenLast, ParseValued, ParseOther, given
  <2>4. ReadFirst' /\ PagesAreAPrefix' /\ BlameIsDeserved'
    <3>1. written' = <<>>
      BY <1>1, <1>2, <2>3 DEF ParseValued, ParseOther, results, drawn
    <3>2. PagesAreAPrefix'
      BY <1>2, <2>2, <3>1, NoPages
    <3> QED BY <1>2, <2>1, <2>2, <2>3, <3>2 DEF Failing, listed, ReadFirst, BlameIsDeserved
  <2> QED BY <2>1, <2>4, FailingKeeps
<1>3. CASE stage' = stage
  <2>1. options' \in Options
    <3>1. CASE ParseValued
      <4>1. /\ Head(rest) \in Valued
            /\ Head(rest) \in Numeric => rest[2] \in DOMAIN Numbers
            /\ options' = WithValue(Head(rest), rest[2])
        BY <1>1, <1>3, <3>1 DEF ParseValued, Fail
      <4> QED BY <1>1, <4>1, ParseTypes DEF Numeric
    <3>2. CASE ParseOther
      <4>1. Head(rest) \in FileNames \cup DOMAIN Flagged /\ options' = With(Head(rest))
        BY <1>1, <1>3, <3>2 DEF ParseOther, Fail
      <4> QED BY <1>1, <4>1, ParseTypes
    <3> QED BY <3>1, <3>2
  <2>2. error' = error /\ UNCHANGED <<given, gathered, results>>
    BY <1>1, <1>3 DEF ParseValued, ParseOther, Fail
  <2>3. Parsing
    BY <1>1, <1>3, <2>1, <2>2 DEF Parsing
  <2> QED BY <1>1, <1>3, <2>3, ParsingKeeps
<1> QED BY <1>2, <1>3 DEF ParseValued, ParseOther, Fail

LEMMA StepParseEnd == Inv /\ ParseEnd => Inv'
<1> SUFFICES ASSUME Inv, ParseEnd PROVE Inv'
  OBVIOUS
<1>1. TypeOK /\ stage = "parse" /\ total = <<>> /\ written = <<>>
  BY DEF Inv, TypeOK, ParseEnd, ListedInTurn, WrittenLast
<1>2. CASE stage' = "failed"
  <2>0. error' = Because("no input files", 0)
    BY <1>1, <1>2 DEF ParseEnd, Fail, Goto
  <2>1. Failing /\ error'.what = "no input files" /\ written' = <<>>
    BY <1>1, <1>2, <2>0 DEF ParseEnd, Failing, Because, TypeOK, results, drawn
  <2>2. PagesAreAPrefix'
    BY <1>2, <2>1, NoPages
  <2>3. ReadFirst' /\ BlameIsDeserved'
    BY <1>1, <1>2, <2>1 DEF Failing, listed, ReadFirst, BlameIsDeserved
  <2> QED BY <2>1, <2>2, <2>3, FailingKeeps
<1>3. CASE stage' # "failed"
  <2>1. /\ stage' = IF command = "diagnostic" THEN "list" ELSE "read"
        /\ error' = error /\ options' = options /\ Inputs' = Inputs
        /\ reads' = [i \in Inputs |-> "waiting"]
    BY <1>1, <1>3 DEF ParseEnd, Fail, Goto, Inputs
  <2>2. UNCHANGED <<given, bytes, results>> /\ bytes = <<>> /\ error' = NoError
    BY <1>1, <2>1 DEF Inv, ParseEnd, Collected, WrittenLast
  <2>3. TypeOK'
    BY <1>1, <2>1, <2>2 DEF TypeOK, given, results, listed, drawn, Stages
  <2>4. ReadFirst'
    BY <1>1, <2>1, <2>2 DEF ReadFirst, given, results, listed, drawn
  <2>5. ReadsAreTrue' /\ Collected'
    <3>1. ReadsAreTrue'
      BY <2>1 DEF ReadsAreTrue
    <3>2. HaveRead(reads', Len(options'.inputs)) = {}
      BY <2>1 DEF HaveRead, Inputs
    <3>3. Cardinality(HaveRead(reads', Len(options'.inputs))) = 0
      BY <3>2, FS_EmptySet
    <3>4. Collected'
      <4>1. Len(bytes') = 0 /\ bytes' = <<>>
        BY <2>2
      <4>2. \A i \in Inputs' : reads'[i] # "read"
        BY <2>1
      <4>3. stage' # "parse" /\ (stage' = "list" => command' = "diagnostic")
        BY <2>1, <2>2 DEF given
      <4> QED BY <3>3, <4>1, <4>2, <4>3 DEF Collected
    <3> QED BY <3>1, <3>4
  <2>6. ListedInTurn'
    BY <1>1, <2>1, <2>2 DEF Inv, ListedInTurn, given, results, listed, drawn
  <2>7. WrittenLast'
    BY <1>1, <2>1, <2>2 DEF Inv, WrittenLast, results, listed, drawn
  <2>8. TotalsInArgumentOrder'
    BY <1>1, <2>2 DEF Inv, TotalsInArgumentOrder, results, listed, drawn
  <2>9. PagesAreAPrefix' /\ BlameIsDeserved'
    <3>1. error'.what = "none" /\ stage' # "done" /\ written' = <<>>
      BY <1>1, <2>1, <2>2 DEF NoError, results, drawn
    <3> QED BY <1>3, <3>1, NoPages DEF BlameIsDeserved
  <2> QED BY <2>3, <2>4, <2>5, <2>6, <2>7, <2>8, <2>9 DEF Inv
<1> QED BY <1>2, <1>3

\* A completed read is true to the disk; in turn, it follows those before it.
LEMMA StepRead ==
    ASSUME NEW i \in Inputs, Inv, Read(i) PROVE Inv'
<1>1. /\ stage = "read" /\ stage' = "read" /\ reads[i] = "waiting"
      /\ reads' = [reads EXCEPT ![i] = IF Content(i).reads THEN "read" ELSE "failed"]
      /\ bytes' = IF Content(i).reads THEN Gathered(i) ELSE bytes
      /\ Parallel \/ \A j \in 1..(i - 1) : reads[j] = "read"
      /\ UNCHANGED <<given, options, results, error>>
  BY DEF Read
<1>2. TypeOK /\ reads \in [Inputs -> {"waiting", "read", "failed"}] /\ command # "diagnostic"
      /\ total = <<>> /\ written = <<>> /\ error = NoError
  BY <1>1 DEF Inv, TypeOK, ReadFirst, ListedInTurn, WrittenLast
<1>3. Inputs' = Inputs /\ Parallel' = Parallel /\ \A j : Content(j)' = Content(j)
  BY <1>1 DEF Inputs, Parallel, Content, given
<1>4. bytes' \in Seq(File) /\ Collected'
  <2>1. PICK n \in Nat : n = Len(options.inputs) /\ Inputs = 1..n
    BY <1>2 DEF TypeOK, Options, Inputs
  <2>2. /\ bytes \in Seq(File) /\ Len(bytes) = Cardinality(HaveRead(reads, n))
        /\ \A k \in 1..n :
              reads[k] = "read" => bytes[1 + Cardinality(HaveRead(reads, k - 1))] = Content(k)
    BY <1>1, <1>2, <2>1 DEF Inv, Collected, TypeOK
  <2>3. CASE Content(i).reads
    <3>1. reads' = [reads EXCEPT ![i] = "read"] /\ bytes' = Gathered(i)
      BY <1>1, <2>3
    <3>2. Gathered(i) = InsertAt(bytes, 1 + Cardinality(HaveRead(reads, i - 1)), Content(i))
      BY DEF Gathered, HaveRead
    <3> DEFINE c == [k \in 1..n |-> Content(k)]
    <3>3. c[i] \in File /\ \A k \in 1..n : c[k] = Content(k)
      BY <1>2, <2>1, Contents
    <3> HIDE DEF c
    <3>4. /\ bytes' = InsertAt(bytes, 1 + Cardinality(HaveRead(reads, i - 1)), c[i])
          /\ \A k \in 1..n : reads[k] = "read" => bytes[1 + Cardinality(HaveRead(reads, k - 1))] = c[k]
      BY <2>1, <2>2, <3>1, <3>2, <3>3
    <3>5. /\ bytes' \in Seq(File) /\ Len(bytes') = Cardinality(HaveRead(reads', n))
          /\ \A k \in 1..n :
                reads'[k] = "read" => bytes'[1 + Cardinality(HaveRead(reads', k - 1))] = c[k]
      <4>1. /\ reads \in [1..n -> {"waiting", "read", "failed"}] /\ i \in 1..n /\ reads[i] = "waiting"
            /\ bytes \in Seq(File) /\ Len(bytes) = Cardinality(HaveRead(reads, n))
        BY <1>1, <1>2, <2>1, <2>2
      <4>2. IsCollected(File, n, reads, c, bytes)
        BY <2>2, <3>4 DEF IsCollected
      <4>3. PICK r, q, s, t : r = reads /\ q = reads' /\ s = bytes /\ t = bytes'
        OBVIOUS
      <4>4. /\ r \in [1..n -> {"waiting", "read", "failed"}] /\ i \in 1..n /\ r[i] = "waiting"
            /\ IsCollected(File, n, r, c, s) /\ c[i] \in File
            /\ q = [r EXCEPT ![i] = "read"]
            /\ t = InsertAt(s, 1 + Cardinality(HaveRead(r, i - 1)), c[i])
        BY <3>1, <3>3, <3>4, <4>1, <4>2, <4>3
      <4>5. IsCollected(File, n, q, c, t)
        BY <4>4, ReadInPlace
      <4> QED BY <4>3, <4>5 DEF IsCollected
    <3>6. stage' = "read" /\ Len(options'.inputs) = n /\ Inputs' = 1..n
      BY <1>1, <1>3, <2>1
    <3>7. \A k \in Inputs' :
              reads'[k] = "read" => bytes'[1 + Cardinality(HaveRead(reads', k - 1))] = Content(k)'
      BY <1>3, <3>3, <3>5, <3>6
    <3> QED BY <3>5, <3>6, <3>7 DEF Collected
  <2>4. CASE ~Content(i).reads
    <3>1. reads' = [reads EXCEPT ![i] = "failed"] /\ bytes' = bytes
      BY <1>1, <2>4
    <3>2. \A m \in 0..n : HaveRead(reads', m) = HaveRead(reads, m)
      <4> TAKE m \in 0..n
      <4>1. \A k \in 1..m : reads'[k] = "read" <=> reads[k] = "read"
        BY <1>1, <1>2, <2>1, <3>1
      <4> QED BY <4>1 DEF HaveRead
    <3>3. stage' = "read" /\ Len(options'.inputs) = n /\ Inputs' = 1..n
      BY <1>1, <1>3, <2>1
    <3>4. \A k \in Inputs' : reads'[k] = "read" => reads[k] = "read"
      BY <1>1, <1>2, <1>3, <3>1
    <3>5. \A k \in Inputs' :
              reads'[k] = "read" => bytes'[1 + Cardinality(HaveRead(reads', k - 1))] = Content(k)'
      <4> TAKE k \in Inputs'
      <4>1. k \in 1..n /\ k - 1 \in 0..n
        BY <3>3
      <4>2. HaveRead(reads', k - 1) = HaveRead(reads, k - 1)
        BY <3>2, <4>1
      <4> QED BY <1>3, <2>1, <2>2, <3>1, <3>4, <4>1, <4>2
    <3>6. HaveRead(reads', n) = HaveRead(reads, n)
      BY <3>2
    <3> QED BY <2>2, <3>1, <3>3, <3>5, <3>6 DEF Collected
  <2> QED BY <2>3, <2>4
<1>5. TypeOK' /\ ReadFirst'
  <2>1. reads' \in [Inputs -> {"waiting", "read", "failed"}]
    BY <1>1, <1>2
  <2>2. TypeOK'
    BY <1>1, <1>2, <1>3, <1>4, <2>1 DEF TypeOK, given, results, listed, drawn
  <2> QED BY <1>1, <1>2, <2>2 DEF ReadFirst, given, results, listed
<1>6. ReadsAreTrue'
  <2> SUFFICES ASSUME NEW k \in Inputs
               PROVE  /\ reads'[k] = "read" => Content(k).reads
                      /\ reads'[k] = "failed" => ~Content(k).reads
                      /\ reads'[k] # "waiting" /\ ~Parallel
                             => \A j \in 1..(k - 1) : reads'[j] = "read"
    BY <1>1, <1>3 DEF ReadsAreTrue
  <2>1. \A j \in Inputs \ {i} : reads'[j] = reads[j]
    BY <1>1, <1>2
  <2>2. reads'[i] = IF Content(i).reads THEN "read" ELSE "failed"
    BY <1>1, <1>2
  <2>3. \A j \in 1..(k - 1) : j \in Inputs
    BY DEF Inputs
  <2>4. /\ reads[k] = "read" => Content(k).reads
        /\ reads[k] = "failed" => ~Content(k).reads
        /\ reads[k] # "waiting" /\ ~Parallel => \A j \in 1..(k - 1) : reads[j] = "read"
    BY <1>1 DEF Inv, ReadsAreTrue
  <2>5. CASE k = i
    <3>1. \A j \in 1..(k - 1) : j # i
      BY <2>5 DEF Inputs
    <3> QED BY <1>1, <2>1, <2>2, <2>3, <2>5, <3>1
  <2>6. CASE k # i
    <3>1. \A j \in Inputs : reads[j] = "read" => reads'[j] = "read"
      BY <1>1, <2>1
    <3> QED BY <2>1, <2>3, <2>4, <2>6, <3>1
  <2> QED BY <2>5, <2>6
<1>7. ListedInTurn' /\ WrittenLast' /\ PagesAreAPrefix' /\ BlameIsDeserved'
  <2>1. error'.what = "none" /\ written' = <<>>
    BY <1>1, <1>2 DEF NoError, results, drawn
  <2>2. PagesAreAPrefix' /\ BlameIsDeserved'
    BY <1>1, <2>1, NoPages DEF BlameIsDeserved
  <2> QED BY <1>1, <1>2, <2>2 DEF Inv, ListedInTurn, WrittenLast, NoError, results, listed, drawn
<1>8. TotalsInArgumentOrder'
  BY <1>1, <1>2 DEF Inv, TotalsInArgumentOrder, results, listed, drawn
<1> QED BY <1>4, <1>5, <1>6, <1>7, <1>8 DEF Inv

LEMMA StepReadFailed == Inv /\ ReadFailed => Inv'
<1> SUFFICES ASSUME Inv, ReadFailed PROVE Inv'
  OBVIOUS
<1>1. PICK i \in Inputs : reads[i] = "failed" /\ error' = Because("read", i)
  BY DEF ReadFailed, Fail
<1>2. stage = "read" /\ stage' = "failed" /\ UNCHANGED <<given, options, gathered, results>>
  BY DEF ReadFailed, Fail
<1>3. command # "diagnostic" /\ command' = command /\ total = <<>> /\ written = <<>>
  BY <1>2 DEF Inv, ReadFirst, ListedInTurn, WrittenLast, given
<1>4. Failing
  BY <1>2 DEF Failing, Inv, TypeOK, gathered, results, drawn
<1>5. ReadFirst'
  BY <1>2, <1>3 DEF ReadFirst, results, listed, drawn
<1>6. error'.what = "read" /\ error'.input = i
  BY <1>1 DEF Because
<1>7. PagesAreAPrefix'
  BY <1>2, <1>3, <1>6, NoPages DEF results, drawn
<1>8. BlameIsDeserved'
  <2>1. Inputs' = Inputs /\ \A j : Content(j)' = Content(j)
    BY <1>2 DEF Inputs, Content, given
  <2>2. ~Content(i).reads
    BY <1>1, <1>2 DEF Inv, ReadsAreTrue
  <2>3. ASSUME Len(options.inputs) <= ParallelThreshold, NEW j \in 1..(i - 1) PROVE Content(j).reads
    <3>1. ~Parallel
      BY <2>3, CliAssumption DEF Parallel, Inv, TypeOK, Options
    <3>2. j \in Inputs
      BY DEF Inputs
    <3>3. reads[j] = "read"
      BY <1>1, <1>2, <3>1 DEF Inv, ReadsAreTrue
    <3> QED BY <1>2, <3>2, <3>3 DEF Inv, ReadsAreTrue
  <2> QED BY <1>2, <1>3, <1>6, <2>1, <2>2, <2>3 DEF BlameIsDeserved
<1> QED BY <1>4, <1>5, <1>7, <1>8, FailingKeeps

LEMMA StepReadAll == Inv /\ ReadAll => Inv'
<1> SUFFICES ASSUME Inv, ReadAll PROVE Inv'
  OBVIOUS
<1>1. /\ stage = "read" /\ stage' = "list" /\ error' = error
      /\ \A i \in Inputs : reads[i] = "read"
      /\ UNCHANGED <<given, options, gathered, results>>
  BY DEF ReadAll, Goto, Ready
<1>2. command # "diagnostic" /\ total = <<>> /\ written = <<>>
  BY <1>1 DEF Inv, ReadFirst, ListedInTurn, WrittenLast
<1>3. Inputs' = Inputs /\ Parallel' = Parallel /\ \A j : Content(j)' = Content(j)
  BY <1>1 DEF Inputs, Parallel, Content, given
<1>4. TypeOK'
  BY <1>1, <1>3 DEF Inv, TypeOK, given, gathered, results, listed, drawn, Stages
<1>5. ReadFirst' /\ ReadsAreTrue'
  BY <1>1, <1>2, <1>3 DEF Inv, ReadFirst, ReadsAreTrue, given, gathered, results, listed, drawn
<1>6. ListedInTurn' /\ WrittenLast' /\ PagesAreAPrefix' /\ BlameIsDeserved'
  <2>1. error' = NoError /\ error'.what = "none" /\ written' = <<>>
    BY <1>1, <1>2 DEF Inv, WrittenLast, NoError, results, drawn
  <2>2. PagesAreAPrefix' /\ BlameIsDeserved'
    BY <1>1, <2>1, NoPages DEF BlameIsDeserved
  <2> QED BY <1>1, <1>2, <2>1, <2>2 DEF Inv, ListedInTurn, WrittenLast, results, listed, drawn
<1>7. TotalsInArgumentOrder'
  BY <1>1, <1>2 DEF Inv, TotalsInArgumentOrder, results, listed, drawn
<1>8. Collected'
  <2>1. Len(options.inputs) \in Nat /\ Inputs = 1..Len(options.inputs)
    BY DEF Inv, TypeOK, Options, Inputs
  <2>2. ASSUME NEW i \in Inputs PROVE bytes[i] = Content(i)
    <3>1. /\ i - 1 \in Nat /\ i - 1 <= Len(options.inputs) /\ \A j \in 1..(i - 1) : reads[j] = "read"
          /\ 1 + (i - 1) = i
      BY <1>1, <2>1
    <3>2. Cardinality(HaveRead(reads, i - 1)) = i - 1
      BY <2>1, <3>1, ReadOfThem
    <3> QED BY <1>1, <3>1, <3>2 DEF Inv, Collected
  <2> QED BY <1>1, <1>3, <2>2 DEF Collected, gathered
<1> QED BY <1>4, <1>5, <1>6, <1>7, <1>8 DEF Inv

\* An input that is listed: it adds its opcodes to the report and to the count
\* of the process.
Listing ==
    /\ stage = "list" /\ stage' = "list" /\ error' = error
    /\ Turn \in Inputs
    /\ rows' \in Nat
    /\ total' = Append(total, Opcodes(Turn))
    /\ counter' = counter + Opcodes(Turn)
    /\ IF command = "diagnostic" THEN Content(Turn).reads /\ Content(Turn).text
       ELSE Content(Turn).lists
    /\ UNCHANGED <<given, options, gathered, drawn, reported>>

LEMMA ListingKeeps == Inv /\ Listing => Inv'
<1> SUFFICES ASSUME Inv, Listing PROVE Inv'
  OBVIOUS
<1>1. TypeOK /\ total \in Seq(Nat) /\ written = <<>> /\ stage = "list" /\ stage' = "list"
      /\ error = NoError /\ error' = error
  BY DEF Inv, TypeOK, Listing, WrittenLast
<1>2. Opcodes(Turn) \in Nat
  BY <1>1, Contents DEF Listing
<1>3. Inputs' = Inputs /\ Parallel' = Parallel /\ \A j : Content(j)' = Content(j) /\ Opcodes(j)' = Opcodes(j)
  BY DEF Inputs, Parallel, Content, Opcodes, Listing, given
<1>4. /\ total' \in Seq(Nat) /\ Len(total') = Turn /\ total'[Turn] = Opcodes(Turn)
      /\ Turn = Len(total) + 1 /\ \A i \in 1..Len(total) : total'[i] = total[i]
  BY <1>1, <1>2 DEF Listing, Turn
<1>5. counter' \in Nat
  BY <1>1, <1>2 DEF Listing, TypeOK
<1>6. TypeOK'
  BY <1>1, <1>3, <1>4, <1>5 DEF TypeOK, Listing, given, gathered, drawn
<1>7. ReadFirst' /\ ReadsAreTrue' /\ Collected'
  BY <1>1, <1>3 DEF Inv, ReadFirst, ReadsAreTrue, Collected, Listing, given, gathered
<1>8. ListedInTurn'
  <2>1. Len(total') <= Len(options'.inputs)
    BY <1>4 DEF Listing, Inputs
  <2>2. \A i \in 1..Len(total') : i = Turn \/ i \in 1..Len(total)
    BY <1>1, <1>4
  <2>3. \A i \in 1..Len(total') :
           IF command = "diagnostic" THEN Content(i).reads /\ Content(i).text
           ELSE Content(i).lists
    BY <2>2 DEF Inv, ListedInTurn, Listing
  <2> QED BY <1>1, <1>3, <2>1, <2>3 DEF ListedInTurn, Listing, given
<1>9. WrittenLast' /\ PagesAreAPrefix' /\ BlameIsDeserved'
  <2>1. error'.what = "none" /\ written' = <<>>
    BY <1>1 DEF Listing, NoError, drawn
  <2>2. PagesAreAPrefix' /\ BlameIsDeserved'
    BY <1>1, <2>1, NoPages DEF BlameIsDeserved
  <2> QED BY <1>1, <2>2 DEF Inv, Listing, WrittenLast, drawn
<1>10. TotalsInArgumentOrder'
  <2>1. SumOf(total') = SumOf(total) + Opcodes(Turn)
    BY <1>1, <1>2, SumOfAppend DEF Listing
  <2>2. counter' = SumOf(total')
    BY <2>1 DEF Inv, TotalsInArgumentOrder, Listing
  <2>3. \A i \in 1..Len(total') : i = Turn \/ i \in 1..Len(total)
    BY <1>1, <1>4
  <2>4. \A i \in 1..Len(total') : total'[i] = Opcodes(i)
    BY <1>4, <2>3 DEF Inv, TotalsInArgumentOrder
  <2> QED BY <1>3, <2>2, <2>4 DEF TotalsInArgumentOrder
<1> QED BY <1>6, <1>7, <1>8, <1>9, <1>10 DEF Inv

LEMMA StepList == Inv /\ List => Inv'
<1> SUFFICES ASSUME Inv, List PROVE Inv'
  OBVIOUS
<1>1. /\ stage = "list" /\ Turn \in Inputs
      /\ UNCHANGED <<given, options, gathered, drawn, reported>>
  BY DEF List
<1>2. TypeOK /\ rows \in Nat /\ counter \in Nat /\ written = <<>> /\ Content(Turn) \in File
  BY <1>1, Contents DEF Inv, TypeOK, WrittenLast
<1>3. command # "diagnostic" => bytes[Turn] = Content(Turn) /\ ListClass(Content(Turn))
  BY <1>1 DEF Inv, Collected, List
<1>4. command = "diagnostic" => ListDiagnostic(Turn)
  BY DEF List
<1>5. CASE stage' = "failed"
  <2>1. UNCHANGED listed
    BY <1>1, <1>3, <1>4, <1>5 DEF ListClass, ListDiagnostic, Fail
  <2>2. Failing /\ written' = <<>>
    BY <1>1, <1>2, <1>5, <2>1 DEF Failing, TypeOK, gathered, drawn
  <2>3. ReadFirst'
    <3>1. Inputs' = Inputs
      BY <1>1 DEF Inputs
    <3> QED BY <1>1, <1>5, <2>1, <3>1 DEF Inv, ReadFirst, given, gathered, listed
  <2>4. error' = Because(IF command = "diagnostic" THEN "read" ELSE "list", Turn)
    BY <1>1, <1>3, <1>4, <1>5 DEF ListClass, ListDiagnostic, Fail
  <2>5. error'.what = (IF command = "diagnostic" THEN "read" ELSE "list") /\ error'.input = Turn
    BY <2>4 DEF Because
  <2>6. PagesAreAPrefix'
    BY <1>5, <2>2, <2>5, NoPages
  <2>7. BlameIsDeserved'
    <3>1. command' = command /\ Inputs' = Inputs /\ \A j : Content(j)' = Content(j)
      BY <1>1 DEF Inputs, Content, given
    <3>2. CASE command = "diagnostic"
      <4>1. ~(Content(Turn).reads /\ Content(Turn).text)
        BY <1>1, <1>4, <1>5, <3>2 DEF ListDiagnostic
      <4>2. \A i \in 1..(Turn - 1) : Content(i).reads
        BY <1>2, <3>2 DEF Inv, ListedInTurn, TypeOK, Turn
      <4> QED BY <1>1, <2>5, <3>1, <3>2, <4>1, <4>2 DEF BlameIsDeserved
    <3>3. CASE command # "diagnostic"
      <4>1. ~Content(Turn).lists
        BY <1>1, <1>3, <1>5, <3>3 DEF ListClass
      <4>2. \A i \in 1..(Turn - 1) : Content(i).lists
        BY <1>2, <3>3 DEF Inv, ListedInTurn, TypeOK, Turn
      <4> QED BY <1>1, <2>5, <3>1, <3>3, <4>1, <4>2 DEF BlameIsDeserved
    <3> QED BY <3>2, <3>3
  <2> QED BY <2>2, <2>3, <2>6, <2>7, FailingKeeps
<1>6. CASE stage' # "failed"
  <2>1. CASE command = "diagnostic"
    <3>1. /\ Content(Turn).reads /\ Content(Turn).text
          /\ rows' = rows + Content(Turn).rows /\ total' = Append(total, 0)
          /\ counter' = counter /\ stage' = stage /\ error' = error
      BY <1>4, <1>6, <2>1 DEF ListDiagnostic, Fail, Merge
    <3> QED BY <1>1, <1>2, <2>1, <3>1, ListingKeeps DEF Listing, Opcodes, File
  <2>2. CASE command # "diagnostic"
    <3>1. /\ Content(Turn).lists
          /\ rows' = rows + Content(Turn).rows + 1
          /\ total' = Append(total, Content(Turn).opcodes)
          /\ counter' = counter + Content(Turn).opcodes /\ stage' = stage /\ error' = error
      BY <1>3, <1>6, <2>2 DEF ListClass, Fail, Merge
    <3> QED BY <1>1, <1>2, <2>2, <3>1, ListingKeeps DEF Listing, Opcodes, File
  <2> QED BY <2>1, <2>2
<1> QED BY <1>5, <1>6

LEMMA StepListEnd == Inv /\ ListEnd => Inv'
<1> SUFFICES ASSUME Inv, ListEnd PROVE Inv'
  OBVIOUS
<1>1. /\ stage = "list" /\ stage' = "show" /\ error' = error /\ Turn \notin Inputs
      /\ UNCHANGED <<given, options, gathered, results>>
  BY DEF ListEnd, Goto
<1>2. TypeOK /\ written = <<>> /\ error = NoError
  BY <1>1 DEF Inv, WrittenLast
<1>3. Inputs' = Inputs /\ Parallel' = Parallel /\ \A j : Content(j)' = Content(j)
  BY <1>1 DEF Inputs, Parallel, Content, given
<1>4. TypeOK'
  BY <1>1, <1>2, <1>3 DEF TypeOK, given, gathered, results, listed, drawn, Stages
<1>5. ReadFirst' /\ ReadsAreTrue' /\ Collected'
  BY <1>1, <1>3 DEF Inv, ReadFirst, ReadsAreTrue, Collected, given, gathered, results, listed, drawn
<1>6. ListedInTurn'
  <2>1. Len(total) = Len(options.inputs)
    BY <1>1, <1>2 DEF Inv, ListedInTurn, Turn, Inputs, TypeOK, Options
  <2> QED BY <1>1, <1>3, <2>1 DEF Inv, ListedInTurn, given, results, listed, drawn
<1>7. WrittenLast' /\ PagesAreAPrefix' /\ BlameIsDeserved'
  <2>1. error'.what = "none" /\ written' = <<>>
    BY <1>1, <1>2 DEF NoError, results, drawn
  <2>2. PagesAreAPrefix' /\ BlameIsDeserved'
    BY <1>1, <2>1, NoPages DEF BlameIsDeserved
  <2> QED BY <1>1, <1>2, <2>2 DEF Inv, WrittenLast, results, listed, drawn
<1>8. TotalsInArgumentOrder'
  BY <1>1, <1>3 DEF Inv, TotalsInArgumentOrder, results, listed, drawn, Opcodes, given
<1> QED BY <1>4, <1>5, <1>6, <1>7, <1>8 DEF Inv

\* The last steps of run: nothing is read or listed any more.
Ending ==
    /\ stage \in {"show", "pages", "write"} /\ stage' \in {"pages", "write", "done"}
    /\ error' = error
    /\ page' \in Nat /\ png' \in Seq(Nat) /\ written' \in Seq(OnDisk)
    /\ stage' # "done" => Len(written') = page'
    /\ stage' = "write" => png' = <<page'>>
    /\ reported' = (stage' = "done")
    /\ UNCHANGED <<given, options, gathered, listed>>

LEMMA EndingKeeps ==
    ASSUME Inv, Ending, PagesAreAPrefix' PROVE Inv'
<1>1. /\ stage \in {"show", "pages", "write"} /\ stage' \in {"pages", "write", "done"} /\ error' = error
      /\ UNCHANGED <<given, options, gathered, listed>>
  BY DEF Ending
<1>2. TypeOK /\ error = NoError /\ Len(total) = Len(options.inputs)
  BY <1>1 DEF Inv, WrittenLast, ListedInTurn
<1>3. Inputs' = Inputs /\ Parallel' = Parallel /\ \A j : Content(j)' = Content(j)
  BY <1>1 DEF Inputs, Parallel, Content, given
<1>4. TypeOK'
  <2>1. /\ stage' \in Stages /\ reported' \in BOOLEAN /\ written' \in Seq(OnDisk)
        /\ page' \in Nat /\ png' \in Seq(Nat)
    BY DEF Ending, Stages
  <2> QED BY <1>1, <1>2, <1>3, <2>1 DEF TypeOK, given, gathered, listed
<1>5. ReadFirst' /\ ReadsAreTrue' /\ Collected'
  BY <1>1, <1>3 DEF Inv, ReadFirst, ReadsAreTrue, Collected, given, gathered, listed
<1>6. ListedInTurn'
  BY <1>1, <1>2, <1>3 DEF Inv, ListedInTurn, given, listed
<1>7. WrittenLast'
  BY <1>1, <1>2 DEF WrittenLast, Ending, listed
<1>8. BlameIsDeserved'
  BY <1>1 DEF BlameIsDeserved
<1>9. TotalsInArgumentOrder'
  BY <1>1, <1>3 DEF Inv, TotalsInArgumentOrder, Opcodes, given, listed
<1> QED BY <1>4, <1>5, <1>6, <1>7, <1>8, <1>9 DEF Inv

LEMMA StepShow == Inv /\ (Dump \/ Unknown \/ Font) => Inv'
<1> SUFFICES ASSUME Inv, Dump \/ Unknown \/ Font PROVE Inv'
  OBVIOUS
<1>1. /\ stage = "show" /\ written = <<>> /\ error = NoError /\ UNCHANGED drawn
      /\ TypeOK /\ PagesAreAPrefix /\ page = 0 /\ reported = FALSE
      /\ UNCHANGED <<given, options, gathered, listed>>
  <2>1. stage = "show" /\ UNCHANGED <<given, options, gathered, listed, drawn>>
    BY DEF Dump, Unknown, Font, Goto, Fail, results
  <2> QED BY <2>1 DEF Inv, WrittenLast
<1>2. written' = <<>> /\ page' = 0 /\ Len(written') = page' /\ error.what = "none"
  BY <1>1 DEF drawn, NoError
<1>3. page' \in Nat /\ png' \in Seq(Nat) /\ written' \in Seq(OnDisk)
  BY <1>1, <1>2 DEF TypeOK, drawn
<1>4. CASE Dump
  <2>1. command' = "dump" /\ stage' = "done" /\ error' = error /\ reported' = TRUE
    BY <1>4 DEF Dump, Goto, given
  <2>2. Ending
    BY <1>1, <1>3, <2>1 DEF Ending
  <2>3. PagesAreAPrefix'
    BY <1>2, <2>1, NoPages
  <2> QED BY <2>2, <2>3, EndingKeeps
<1>5. CASE Font /\ stage' = "pages"
  <2>1. error' = error /\ reported' = reported
    BY <1>5 DEF Font, Goto, Fail, results
  <2>2. Ending
    BY <1>1, <1>2, <1>3, <1>5, <2>1 DEF Ending
  <2>3. PagesAreAPrefix'
    BY <1>2, <1>5, <2>1, NoPages
  <2> QED BY <2>2, <2>3, EndingKeeps
<1>6. CASE (Unknown \/ Font) /\ stage' = "failed"
  <2>1. reported' = reported
    BY <1>6 DEF Unknown, Font, results
  <2>2. Failing
    BY <1>1, <1>2, <1>3, <1>6, <2>1 DEF Failing, gathered
  <2>3. \/ error' = Because("unknown command", 0)
        \/ error' = Because("font", 0)
        \/ error' = Because("needs --font", 0)
    <3>1. CASE Unknown
      BY <3>1 DEF Unknown, Fail
    <3>2. CASE Font
      <4>1. error' = Because(IF options.font THEN "font" ELSE "needs --font", 0)
        BY <1>1, <1>6, <3>2 DEF Font, Fail, Goto
      <4> QED BY <4>1
    <3> QED BY <1>6, <3>1, <3>2
  <2>4. error'.what \notin {"draw", "write", "read", "list"}
    <3>1. /\ Because("unknown command", 0).what = "unknown command"
          /\ Because("font", 0).what = "font"
          /\ Because("needs --font", 0).what = "needs --font"
      BY Reasons
    <3> QED BY <2>3, <3>1
  <2>5. ReadFirst'
    <3>1. Inputs' = Inputs
      BY <1>1 DEF Inputs
    <3> QED BY <1>1, <1>6, <3>1 DEF Inv, ReadFirst, given, gathered, listed
  <2>6. PagesAreAPrefix' /\ BlameIsDeserved'
    BY <1>2, <1>6, <2>4, NoPages DEF BlameIsDeserved
  <2> QED BY <2>2, <2>5, <2>6, FailingKeeps
<1>7. \/ Dump
      \/ Font /\ stage' = "pages"
      \/ (Unknown \/ Font) /\ stage' = "failed"
  BY DEF Unknown, Font, Goto, Fail
<1> QED BY <1>4, <1>5, <1>6, <1>7

\* While pages are drawn, those before the one at hand are on disk.
LEMMA PagesBefore ==
    ASSUME Inv, stage \in {"pages", "write"}
    PROVE  /\ TypeOK /\ error = NoError /\ reported = FALSE /\ Len(written) = page
           /\ \A k \in 1..page : written[k].page = k - 1 /\ written[k].holds = <<k - 1>>
           /\ WholePages = 1..page
<1>1. TypeOK /\ error = NoError /\ reported = FALSE /\ Len(written) = page /\ PagesAreAPrefix
  BY DEF Inv, WrittenLast
<1>2. error.what \notin {"draw", "write"}
  BY <1>1 DEF NoError
<1> QED BY <1>1, <1>2 DEF PagesAreAPrefix

LEMMA StepDraw == Inv /\ Draw => Inv'
<1> SUFFICES ASSUME Inv, Draw PROVE Inv'
  OBVIOUS
<1>1. /\ stage = "pages" /\ UNCHANGED <<given, options, gathered, listed, page, written, reported>>
  BY DEF Draw
<1>2. /\ TypeOK /\ error = NoError /\ reported = FALSE /\ Len(written) = page
      /\ \A k \in 1..page : written[k].page = k - 1 /\ written[k].holds = <<k - 1>>
      /\ WholePages = 1..page /\ page \in Nat
  BY <1>1, PagesBefore DEF TypeOK
<1>3. CASE page = disk.undrawn
  <2>1. stage' = "failed" /\ error' = Because("draw", page) /\ png' = <<>>
    BY <1>3 DEF Draw, Fail, Cleared
  <2>2. error'.what = "draw" /\ error'.input = page
    BY <2>1 DEF Because
  <2>3. Failing
    BY <1>1, <1>2, <2>1 DEF Failing, TypeOK, gathered
  <2>4. ReadFirst'
    <3>1. Inputs' = Inputs
      BY <1>1 DEF Inputs
    <3> QED BY <1>1, <2>1, <3>1 DEF Inv, ReadFirst, given, gathered, listed
  <2>5. PagesAreAPrefix'
    <3>1. WholePages' = 1..page /\ written' = written
      BY <1>1, <1>2 DEF WholePages
    <3> QED BY <1>2, <2>1, <2>2, <3>1 DEF PagesAreAPrefix
  <2>6. BlameIsDeserved'
    BY <2>2 DEF BlameIsDeserved
  <2> QED BY <2>3, <2>4, <2>5, <2>6, FailingKeeps
<1>4. CASE page # disk.undrawn
  <2>1. stage' = "write" /\ error' = error /\ png' = <<page>>
    BY <1>4 DEF Draw, Goto, Cleared
  <2>2. Ending
    BY <1>1, <1>2, <2>1 DEF Ending, TypeOK
  <2>3. PagesAreAPrefix'
    <3>1. error'.what = "none" /\ PagesAreAPrefix
      BY <1>2, <2>1 DEF Inv, NoError
    <3> QED BY <1>1, <1>2, <2>1, <3>1, SamePages
  <2> QED BY <2>2, <2>3, EndingKeeps
<1> QED BY <1>3, <1>4

\* A file with the page at hand goes behind those of the pages before.
LEMMA OnePageMore ==
    ASSUME NEW whole \in BOOLEAN, NEW w, w = Append(written, PageFile(whole)),
           TypeOK, Len(written) = page, png = <<page>>,
           \A k \in 1..page : written[k].page = k - 1 /\ written[k].holds = <<k - 1>>,
           WholePages = 1..page
    PROVE  /\ w \in Seq(OnDisk) /\ Len(w) = page + 1
           /\ \A k \in 1..(page + 1) : w[k].page = k - 1 /\ w[k].holds = <<k - 1>>
           /\ {k \in 1..(page + 1) : w[k].whole} = 1..(IF whole THEN page + 1 ELSE page)
<1>1. page \in Nat /\ png \in Seq(Nat) /\ written \in Seq(OnDisk)
  BY DEF TypeOK
<1>2. PICK f : f = PageFile(whole)
  OBVIOUS
<1>3. f.page = page /\ f.holds = <<page>> /\ f.whole = whole /\ f \in OnDisk
  BY <1>1, <1>2 DEF PageFile, OnDisk
<1>4. /\ w \in Seq(OnDisk) /\ Len(w) = page + 1 /\ w[page + 1] = f
      /\ \A k \in 1..page : w[k] = written[k]
  BY <1>1, <1>2, <1>3
<1>5. \A k \in 1..page : written[k].whole
  BY DEF WholePages
<1>6. \A k \in 1..(page + 1) : k \in 1..page \/ k = page + 1
  BY <1>1
<1>7. \A k \in 1..(page + 1) : w[k].page = k - 1 /\ w[k].holds = <<k - 1>>
  <2> TAKE k \in 1..(page + 1)
  <2>1. CASE k \in 1..page
    BY <1>4, <2>1
  <2>2. CASE k = page + 1
    <3>1. k - 1 = page
      BY <1>1, <2>2
    <3> QED BY <1>3, <1>4, <2>2, <3>1
  <2> QED BY <1>6, <2>1, <2>2
<1>8. {k \in 1..(page + 1) : w[k].whole} = 1..(IF whole THEN page + 1 ELSE page)
  <2>1. CASE whole
    <3>1. \A k \in 1..(page + 1) : w[k].whole
      BY <1>3, <1>4, <1>5, <1>6, <2>1
    <3> QED BY <2>1, <3>1
  <2>2. CASE ~whole
    <3>1. ~w[page + 1].whole /\ \A k \in 1..page : w[k].whole
      BY <1>3, <1>4, <1>5, <2>2
    <3> QED BY <1>1, <1>6, <2>2, <3>1
  <2> QED BY <2>1, <2>2
<1> QED BY <1>4, <1>7, <1>8

LEMMA StepWrite == Inv /\ Write => Inv'
<1> SUFFICES ASSUME Inv, Write PROVE Inv'
  OBVIOUS
<1>1. /\ stage = "write" /\ UNCHANGED <<given, options, gathered, listed, png, reported>>
      /\ png = <<page>>
  BY DEF Inv, WrittenLast, Write, Fail, Goto
<1>2. /\ TypeOK /\ error = NoError /\ reported = FALSE /\ Len(written) = page
      /\ \A k \in 1..page : written[k].page = k - 1 /\ written[k].holds = <<k - 1>>
      /\ WholePages = 1..page /\ page \in Nat
  BY <1>1, PagesBefore DEF TypeOK
<1>3. CASE page = disk.unwritable
  <2>1. /\ stage' = "failed" /\ error' = Because("write", page) /\ page' = page
        /\ written' = IF disk.full THEN Append(written, PageFile(FALSE)) ELSE written
    BY <1>3 DEF Write, Fail
  <2>2. error'.what = "write" /\ error'.input = page
    BY <2>1 DEF Because
  <2>3. /\ written' \in Seq(OnDisk) /\ Len(written') <= page + 1
        /\ \A k \in 1..Len(written') : written'[k].page = k - 1 /\ written'[k].holds = <<k - 1>>
        /\ WholePages' = 1..page
    <3>1. CASE disk.full
      <4>1. written' = Append(written, PageFile(FALSE))
        BY <2>1, <3>1
      <4>2. /\ written' \in Seq(OnDisk) /\ Len(written') = page + 1
            /\ \A k \in 1..(page + 1) : written'[k].page = k - 1 /\ written'[k].holds = <<k - 1>>
            /\ {k \in 1..(page + 1) : written'[k].whole} = 1..page
        BY <1>1, <1>2, <4>1, OnePageMore
      <4> QED BY <1>2, <4>2 DEF WholePages
    <3>2. CASE ~disk.full
      <4>1. written' = written
        BY <2>1, <3>2
      <4> QED BY <1>2, <4>1 DEF TypeOK, WholePages
    <3> QED BY <3>1, <3>2
  <2>4. Failing
    BY <1>1, <1>2, <2>1, <2>3 DEF Failing, TypeOK, gathered
  <2>5. ReadFirst'
    <3>1. Inputs' = Inputs
      BY <1>1 DEF Inputs
    <3> QED BY <1>1, <2>1, <3>1 DEF Inv, ReadFirst, given, gathered, listed
  <2>6. PagesAreAPrefix'
    BY <2>1, <2>2, <2>3 DEF PagesAreAPrefix
  <2>7. BlameIsDeserved'
    BY <2>2 DEF BlameIsDeserved
  <2> QED BY <2>4, <2>5, <2>6, <2>7, FailingKeeps
<1>4. CASE page # disk.unwritable
  <2>1. /\ stage' = "pages" /\ error' = error /\ page' = page + 1
        /\ written' = Append(written, PageFile(TRUE))
    BY <1>4 DEF Write, Goto
  <2>2. /\ written' \in Seq(OnDisk) /\ Len(written') = page + 1
        /\ \A k \in 1..(page + 1) : written'[k].page = k - 1 /\ written'[k].holds = <<k - 1>>
        /\ {k \in 1..(page + 1) : written'[k].whole} = 1..(page + 1)
    BY <1>1, <1>2, <2>1, OnePageMore
  <2>3. Ending
    <3>1. png' \in Seq(Nat) /\ page' \in Nat
      BY <1>1, <1>2, <2>1
    <3> QED BY <1>1, <1>2, <2>1, <2>2, <3>1 DEF Ending
  <2>4. PagesAreAPrefix'
    <3>1. error'.what = "none"
      BY <1>2, <2>1 DEF NoError
    <3>2. WholePages' = 1..Len(written')
      BY <2>2 DEF WholePages
    <3> QED BY <2>1, <2>2, <3>1, <3>2 DEF PagesAreAPrefix
  <2> QED BY <2>3, <2>4, EndingKeeps
<1> QED BY <1>3, <1>4

LEMMA StepReport == Inv /\ Report => Inv'
<1> SUFFICES ASSUME Inv, Report PROVE Inv'
  OBVIOUS
<1>1. /\ stage = "pages" /\ stage' = "done" /\ error' = error /\ page = PagesTotal
      /\ reported' = TRUE /\ UNCHANGED <<given, options, gathered, listed, drawn>>
  BY DEF Report, Goto
<1>2. /\ TypeOK /\ error = NoError /\ Len(written) = page
      /\ \A k \in 1..page : written[k].page = k - 1 /\ written[k].holds = <<k - 1>>
      /\ WholePages = 1..page
  BY <1>1, PagesBefore
<1>3. Ending
  BY <1>1, <1>2 DEF Ending, TypeOK, drawn
<1>4. PagesAreAPrefix'
  <2>1. PagesTotal' = PagesTotal /\ WholePages' = WholePages /\ written' = written
    BY <1>1 DEF PagesTotal, WholePages, listed, drawn
  <2>2. error'.what = "none"
    BY <1>1, <1>2 DEF NoError
  <2> QED BY <1>1, <1>2, <2>1, <2>2 DEF PagesAreAPrefix
<1> QED BY <1>3, <1>4, EndingKeeps

\* Every step keeps the invariant, and so does a step that does nothing.
LEMMA Inductive == Inv /\ [Next]_vars => Inv'
<1> SUFFICES ASSUME Inv, [Next]_vars PROVE Inv'
  OBVIOUS
<1>1. CASE \E i \in Inputs : Read(i)
  BY <1>1, StepRead
<1>2. CASE Main
  BY <1>2, StepParse, StepParseEnd, StepReadFailed, StepReadAll, StepList, StepListEnd,
     StepShow, StepDraw, StepWrite, StepReport DEF Main
<1>3. CASE UNCHANGED vars
  <2>1. /\ Inputs' = Inputs /\ Parallel' = Parallel /\ PagesTotal' = PagesTotal
        /\ WholePages' = WholePages
        /\ \A j : Content(j)' = Content(j) /\ Opcodes(j)' = Opcodes(j)
    BY <1>3 DEF vars, Inputs, Parallel, PagesTotal, WholePages, Content, Opcodes
  <2>2. TypeOK' /\ ReadFirst' /\ ReadsAreTrue' /\ Collected'
    BY <1>3, <2>1 DEF Inv, TypeOK, ReadFirst, ReadsAreTrue, Collected, vars
  <2>3. ListedInTurn' /\ WrittenLast' /\ TotalsInArgumentOrder'
    BY <1>3, <2>1 DEF Inv, ListedInTurn, WrittenLast, TotalsInArgumentOrder, vars
  <2>4. PagesAreAPrefix' /\ BlameIsDeserved'
    BY <1>3, <2>1 DEF Inv, PagesAreAPrefix, BlameIsDeserved, vars
  <2> QED BY <2>2, <2>3, <2>4 DEF Inv
<1> QED BY <1>1, <1>2, <1>3 DEF Next

\* The invariant and its strengthening hold whatever the command line, the disk
\* and the order of the reads.
THEOREM Invariance == Spec => []Inv
  BY Initial, Inductive, PTL DEF Spec
-----------------------------------------------------------------------------
\* Inputs are listed in the order of the arguments and each is counted once,
\* in the statistics and in TOTAL_OPCODES: build lists after it collected.
THEOREM OrderedTotals == Spec => []TotalsInArgumentOrder
<1>1. Inv => TotalsInArgumentOrder
  BY DEF Inv
<1> QED BY <1>1, Invariance, PTL

\* Nothing is listed before all was read, nothing comes out before all was
\* listed, and only a run that succeeds reports: the ?s of build and render.
THEOREM Whole == Spec => []AllOrNothing
<1>1. Inv => AllOrNothing
  <2> SUFFICES ASSUME Inv PROVE AllOrNothing
    OBVIOUS
  <2>1. total # <<>> /\ command # "diagnostic" => \A i \in Inputs : reads[i] = "read"
    BY DEF Inv, ReadFirst
  <2>2. ASSUME written # <<>> \/ reported
        PROVE  /\ Len(total) = Len(options.inputs)
               /\ command # "diagnostic" => \A i \in Inputs : Content(i).lists
    <3>1. Len(total) = Len(options.inputs)
      BY <2>2 DEF Inv, WrittenLast, ListedInTurn
    <3> QED BY <3>1 DEF Inv, ListedInTurn, Inputs
  <2>3. reported = (stage = "done")
    BY DEF Inv, WrittenLast
  <2> QED BY <2>1, <2>2, <2>3 DEF AllOrNothing
<1> QED BY <1>1, Invariance, PTL

\* The pages on disk are the first of the document in order, whether render
\* comes to its end or to a page it cannot draw or write.
THEOREM PagesInOrder == Spec => []PagesAreAPrefix
<1>1. Inv => PagesAreAPrefix
  BY DEF Inv
<1> QED BY <1>1, Invariance, PTL

\* A failure to read is blamed on an input that cannot be read, for any number
\* of inputs, threads or not.
THEOREM Blame == Spec => []BlameIsDeserved
<1>1. Inv => BlameIsDeserved
  BY DEF Inv
<1> QED BY <1>1, Invariance, PTL
-----------------------------------------------------------------------------
(***************************************************************************)
(* The layout of a compiler's output.  First, parts of sequences, and what *)
(* the selections of SequencesExt select.                                  *)
(***************************************************************************)
\* What SelectInSeq and SelectLastInSeq select from.
FirstOf(I) == IF I # {} THEN Min(I) ELSE 0
LastOf(I) == IF I # {} THEN Max(I) ELSE 0

\* The first of a set of places is in it, and none is before it.
LEMMA FirstOfIs ==
    ASSUME NEW I \in SUBSET (Nat \ {0})
    PROVE  /\ FirstOf(I) \in Nat
           /\ FirstOf(I) = 0 => I = {}
           /\ FirstOf(I) # 0 => FirstOf(I) \in I
           /\ \A j \in I : FirstOf(I) <= j
<1>1. CASE I = {}
  BY <1>1 DEF FirstOf
<1>2. CASE I # {}
  <2>1. \E x \in I : \A y \in I : x <= y
    BY <1>2, LeastElement
  <2>2. Min(I) \in I /\ \A y \in I : Min(I) <= y
    BY <2>1 DEF Min
  <2> QED BY <1>2, <2>2 DEF FirstOf
<1> QED BY <1>1, <1>2

\* The last of them is in it, and none is behind it.
LEMMA LastOfIs ==
    ASSUME NEW n \in Nat, NEW I \in SUBSET (1..n)
    PROVE  /\ LastOf(I) \in 0..n
           /\ LastOf(I) # 0 => LastOf(I) \in I
           /\ \A j \in I : j <= LastOf(I)
<1>1. CASE I = {}
  BY <1>1 DEF LastOf
<1>2. CASE I # {}
  <2>1. \E x \in I : \A y \in I : y <= x
    <3>1. I \in SUBSET Nat /\ \A x \in I : x <= n
      OBVIOUS
    <3> QED BY <1>2, <3>1, LargestElement
  <2>2. \E x \in I : \A y \in I : x >= y
    BY <2>1
  <2>3. Max(I) \in I /\ \A y \in I : Max(I) >= y
    BY <2>2 DEF Max
  <2>4. PICK m \in I : m = Max(I)
    BY <2>3
  <2>5. m \in 1..n /\ \A y \in I : y <= m
    BY <2>3, <2>4
  <2>6. LastOf(I) = m
    BY <1>2, <2>4 DEF LastOf
  <2> QED BY <2>4, <2>5, <2>6
<1> QED BY <1>1, <1>2

\* Parts of a sequence.
LEMMA PartsOf ==
    ASSUME NEW S, NEW s \in Seq(S), NEW i \in 0..Len(s)
    PROVE  /\ UpTo(s, i) \in Seq(S) /\ Len(UpTo(s, i)) = i
           /\ \A j \in 1..i : UpTo(s, i)[j] = s[j]
           /\ From(s, i + 1) \in Seq(S) /\ Len(From(s, i + 1)) = Len(s) - i
           /\ \A j \in 1..(Len(s) - i) : From(s, i + 1)[j] = s[i + j]
<1>1. Len(s) \in Nat /\ \A j \in 1..Len(s) : s[j] \in S
  OBVIOUS
<1>2. /\ UpTo(s, i) \in Seq(S) /\ Len(UpTo(s, i)) = i
      /\ \A j \in 1..i : UpTo(s, i)[j] = s[j]
  <2>1. 1 \in 1..(Len(s) + 1) /\ i \in 0..Len(s) /\ 1 + i - 1 = i /\ 1 - 1 = 0
    BY <1>1
  <2> QED BY <1>1, <2>1 DEF UpTo
<1>3. /\ From(s, i + 1) \in Seq(S) /\ Len(From(s, i + 1)) = Len(s) - i
      /\ \A j \in 1..(Len(s) - i) : From(s, i + 1)[j] = s[i + j]
  BY <1>1 DEF From
<1> QED BY <1>2, <1>3

\* The start of a sequence, by its length.
IsStart(S, s, i, t) == t \in Seq(S) /\ Len(t) = i /\ \A j \in 1..i : t[j] = s[j]

LEMMA StartIs ==
    ASSUME NEW S, NEW s \in Seq(S), NEW i \in 0..Len(s)
    PROVE  IsStart(S, s, i, UpTo(s, i))
BY PartsOf DEF IsStart

\* The rest of a sequence, by how much is left.
IsRest(S, s, a, l, t) == t \in Seq(S) /\ Len(t) = l /\ \A j \in 1..l : t[j] = s[a + j]

LEMMA RestIs ==
    ASSUME NEW S, NEW s \in Seq(S), NEW a \in Nat, NEW l \in Nat, a + l = Len(s)
    PROVE  IsRest(S, s, a, l, From(s, a + 1))
<1>1. a \in 0..Len(s) /\ Len(s) - a = l
  OBVIOUS
<1>2. /\ From(s, a + 1) \in Seq(S) /\ Len(From(s, a + 1)) = Len(s) - a
      /\ \A j \in 1..(Len(s) - a) : From(s, a + 1)[j] = s[a + j]
  BY <1>1, PartsOf
<1> QED BY <1>1, <1>2 DEF IsRest

\* What TrimStart leaves begins with no space.
LEMMA TrimStartIs ==
    ASSUME NEW s \in Seq(Lexeme)
    PROVE  \E q \in 0..Len(s) :
               /\ TrimStart(s) = From(s, q + 1)
               /\ \A j \in 1..q : s[j] = " "
               /\ q < Len(s) => s[q + 1] # " "
<1> DEFINE I == {i \in 1..Len(s) : NoSpace(s[i])}
<1>1. PICK f : f = FirstOf(I)
  OBVIOUS
<1>2. PICK n \in Nat : n = Len(s)
  OBVIOUS
<1>3. SelectInSeq(s, NoSpace) = f
  BY <1>1 DEF SelectInSeq, FirstOf
<1>4. TrimStart(s) = From(s, IF f = 0 THEN n + 1 ELSE f)
  BY <1>2, <1>3 DEF TrimStart
<1>5. \A j \in 1..n : j \in I <=> s[j] # " "
  BY <1>2 DEF NoSpace, IsBlank
<1>6. I \in SUBSET (Nat \ {0}) /\ I \in SUBSET (1..n)
  BY <1>2
<1> HIDE DEF I
<1>7. f \in Nat /\ (f = 0 => I = {}) /\ (f # 0 => f \in I) /\ \A j \in I : f <= j
  BY <1>1, <1>6, FirstOfIs
<1>8. CASE f = 0
  <2>1. \A j \in 1..n : s[j] = " "
    BY <1>5, <1>7, <1>8
  <2>2. n \in 0..Len(s) /\ ~(n < Len(s)) /\ TrimStart(s) = From(s, n + 1)
    BY <1>2, <1>4, <1>8
  <2> QED BY <1>2, <2>1, <2>2, Zenon
<1>9. CASE f # 0
  <2>1. f \in 1..n
    BY <1>6, <1>7, <1>9
  <2>2. s[f] # " "
    BY <1>5, <1>7, <1>9, <2>1
  <2>3. PICK q \in Nat : f = q + 1 /\ q \in 0..n
    <3>1. f - 1 \in Nat /\ f = (f - 1) + 1 /\ f - 1 \in 0..n
      BY <2>1
    <3> QED BY <3>1
  <2>4. \A j \in 1..q : j \in 1..n /\ ~(f <= j)
    BY <2>1, <2>3
  <2>5. \A j \in 1..q : s[j] = " "
    BY <1>5, <1>7, <2>4
  <2>6. TrimStart(s) = From(s, q + 1) /\ s[q + 1] # " " /\ q \in 0..Len(s)
    BY <1>2, <1>4, <1>9, <2>2, <2>3
  <2> QED BY <2>5, <2>6
<1> QED BY <1>8, <1>9

\* The end of what TrimEndOf leaves, and the last colon.
LEMMA TrimEndIs ==
    ASSUME NEW s \in Seq(Lexeme)
    PROVE  \E e \in 0..Len(s) :
               /\ TrimEndOf(s, NoColon) = UpTo(s, e)
               /\ e # 0 => s[e] # ":"
               /\ \A j \in (e + 1)..Len(s) : s[j] = ":"
<1> DEFINE I == {i \in 1..Len(s) : NoColon(s[i])}
<1>1. PICK e : e = LastOf(I)
  OBVIOUS
<1>2. PICK n \in Nat : n = Len(s)
  OBVIOUS
<1>3. SelectLastInSeq(s, NoColon) = e
  BY <1>1 DEF SelectLastInSeq, LastOf
<1>4. TrimEndOf(s, NoColon) = UpTo(s, e)
  BY <1>3 DEF TrimEndOf
<1>5. \A j \in 1..n : j \in I <=> s[j] # ":"
  BY <1>2 DEF NoColon
<1>6. I \in SUBSET (1..n)
  BY <1>2
<1> HIDE DEF I
<1>7. e \in 0..n /\ (e # 0 => e \in I) /\ \A j \in I : j <= e
  BY <1>1, <1>6, LastOfIs
<1> QED BY <1>2, <1>4, <1>5, <1>6, <1>7

\* The last colon, and none behind it.
LEMMA LastColonIs ==
    ASSUME NEW s \in Seq(Lexeme)
    PROVE  /\ LastColon(s) \in 0..Len(s)
           /\ LastColon(s) # 0 => s[LastColon(s)] = ":"
           /\ \A j \in (LastColon(s) + 1)..Len(s) : s[j] # ":"
<1> DEFINE I == {i \in 1..Len(s) : s[i] = ":"}
<1>1. PICK c : c = LastOf(I)
  OBVIOUS
<1>2. PICK n \in Nat : n = Len(s)
  OBVIOUS
<1>3. LastColon(s) = c
  BY <1>1 DEF LastColon, SelectLastInSeq, LastOf
<1>5. \A j \in 1..n : j \in I <=> s[j] = ":"
  BY <1>2
<1>6. I \in SUBSET (1..n)
  BY <1>2
<1> HIDE DEF I
<1>7. c \in 0..n /\ (c # 0 => c \in I) /\ \A j \in I : j <= c
  BY <1>1, <1>6, LastOfIs
<1> QED BY <1>2, <1>3, <1>5, <1>6, <1>7

\* Where a word with a colon behind it is.
Place(line, word, j) == j \in 1..(Len(line) - 1) /\ line[j] = word /\ line[j + 1] = ":"

\* What Find finds is the first of the places.
LEMMA FindIs ==
    ASSUME NEW line \in Seq(Lexeme), NEW word
    PROVE  /\ Find(line, word) \in Nat
           /\ Find(line, word) = 0 => \A j : ~Place(line, word, j)
           /\ Find(line, word) > 0 =>
                  Place(line, word, Find(line, word)) /\ \A j : Place(line, word, j) => Find(line, word) <= j
<1> DEFINE I == {i \in 1..(Len(line) - 1) : line[i] = word /\ line[i + 1] = ":"}
<1>1. Find(line, word) = IF I = {} THEN 0 ELSE CHOOSE i \in I : \A j \in I : i <= j
  BY DEF Find
<1>2. \A j : Place(line, word, j) <=> j \in I
  BY DEF Place
<1>3. I \in SUBSET Nat /\ 0 \notin I
  OBVIOUS
<1> HIDE DEF I
<1>4. CASE I = {}
  BY <1>1, <1>2, <1>4
<1>5. CASE I # {}
  <2>1. \E i \in I : \A j \in I : i <= j
    BY <1>3, <1>5, LeastElement
  <2>2. Find(line, word) \in I /\ \A j \in I : Find(line, word) <= j
    BY <1>1, <1>5, <2>1
  <2> QED BY <1>2, <1>3, <2>2
<1> QED BY <1>4, <1>5

\* The other way round: the first of the places is found.
LEMMA FindsFirst ==
    ASSUME NEW line \in Seq(Lexeme), NEW word, NEW f \in Nat, Place(line, word, f),
           \A j \in 1..(f - 1) : ~Place(line, word, j)
    PROVE  Find(line, word) = f
<1>1. \A j : Place(line, word, j) => j \in Nat /\ j > 0
  BY DEF Place
<1>2. Find(line, word) > 0 /\ Find(line, word) \in Nat
  BY FindIs
<1>3. Place(line, word, Find(line, word)) /\ Find(line, word) <= f
  BY <1>2, FindIs
<1>4. ~(Find(line, word) < f)
  BY <1>2, <1>3
<1> QED BY <1>2, <1>3, <1>4

\* Colons are counted up to a place.
LEMMA ColonsUpTo ==
    ASSUME NEW s \in Seq(Lexeme), NEW i \in 0..Len(s)
    PROVE  /\ Colons(UpTo(s, i)) = Cardinality({j \in 1..i : s[j] = ":"})
           /\ IsFiniteSet({j \in 1..i : s[j] = ":"}) /\ Colons(UpTo(s, i)) \in Nat
<1>1. Len(UpTo(s, i)) = i /\ \A j \in 1..i : UpTo(s, i)[j] = s[j]
  BY PartsOf
<1>2. {j \in 1..Len(UpTo(s, i)) : UpTo(s, i)[j] = ":"} = {j \in 1..i : s[j] = ":"}
  BY <1>1
<1> DEFINE C == {j \in 1..i : s[j] = ":"}
<1>3. C \in SUBSET (1..i) /\ 1 \in Int /\ i \in Int
  OBVIOUS
<1>4. Colons(UpTo(s, i)) = Cardinality(C)
  BY <1>2 DEF Colons
<1> HIDE DEF C
<1>5. IsFiniteSet(1..i)
  BY <1>3, FS_Interval
<1>6. IsFiniteSet(C)
  BY <1>3, <1>5, FS_Subset
<1>7. Cardinality(C) \in Nat
  BY <1>6, FS_CardinalityType
<1> QED BY <1>4, <1>6, <1>7 DEF C

\* Further on there are no fewer colons.
LEMMA ColonsGrow ==
    ASSUME NEW s \in Seq(Lexeme), NEW i \in 0..Len(s), NEW k \in 0..Len(s), i <= k
    PROVE  Colons(UpTo(s, i)) <= Colons(UpTo(s, k))
<1> DEFINE C == {j \in 1..i : s[j] = ":"}
           D == {j \in 1..k : s[j] = ":"}
<1>1. C \in SUBSET D
  OBVIOUS
<1>2. Colons(UpTo(s, i)) = Cardinality(C) /\ Colons(UpTo(s, k)) = Cardinality(D) /\ IsFiniteSet(D)
  BY ColonsUpTo
<1> HIDE DEF C, D
<1> QED BY <1>1, <1>2, FS_Subset

\* Two of them are two.
LEMMA TwoColons ==
    ASSUME NEW s \in Seq(Lexeme), NEW i \in 0..Len(s),
           NEW a \in 1..i, NEW b \in 1..i, a # b, s[a] = ":", s[b] = ":"
    PROVE  Colons(UpTo(s, i)) >= 2
<1> DEFINE C == {j \in 1..i : s[j] = ":"}
<1>1. {a, b} \in SUBSET C
  OBVIOUS
<1>2. Colons(UpTo(s, i)) = Cardinality(C) /\ IsFiniteSet(C) /\ Colons(UpTo(s, i)) \in Nat
  BY ColonsUpTo
<1> HIDE DEF C
<1>3. Cardinality({a, b}) = 2
  <2>1. IsFiniteSet({a}) /\ Cardinality({a}) = 1 /\ b \notin {a}
    BY FS_Singleton
  <2>2. Cardinality({a} \cup {b}) = Cardinality({a}) + 1
    BY <2>1, FS_AddElement
  <2>3. {a, b} = {a} \cup {b}
    OBVIOUS
  <2>4. Cardinality({a, b}) = Cardinality({a}) + 1
    BY <2>2, <2>3
  <2> QED BY <2>1, <2>4
<1> QED BY <1>1, <1>2, <1>3, FS_Subset

\* Where there is one, it is counted.
LEMMA OneColon ==
    ASSUME NEW s \in Seq(Lexeme), NEW i \in 0..Len(s), Colons(UpTo(s, i)) > 0
    PROVE  \E j \in 1..i : s[j] = ":"
<1> SUFFICES ASSUME \A j \in 1..i : s[j] # ":" PROVE FALSE
  OBVIOUS
<1>1. {j \in 1..i : s[j] = ":"} = {}
  OBVIOUS
<1>2. Colons(UpTo(s, i)) = Cardinality({})
  BY <1>1, ColonsUpTo
<1> QED BY <1>2, FS_EmptySet

-----------------------------------------------------------------------------
(* A word that find_severity takes: the first that is located. *)
Taking(line, k) ==
    /\ k \in 1..4
    /\ Located(line, Find(line, Words[k]))
    /\ \A m \in 1..(k - 1) : ~Located(line, Find(line, Words[m]))

\* What FindSeverity finds is a word that it takes, where it is first.
LEMMA FindSeverityIs ==
    ASSUME NEW line
    PROVE  /\ FindSeverity(line) # 0 => \E k \in 1..4 : Taking(line, k)
           /\ \A k \in 1..4 : Taking(line, k) => FindSeverity(line) = Find(line, Words[k])
<1> DEFINE I == {k \in 1..4 : Located(line, Find(line, Words[k]))}
<1>1. PICK f : f = FirstOf(I)
  OBVIOUS
<1>2. Len(Words) = 4
  BY DEF Words
<1>3. FindSeverity(line) = IF f = 0 THEN 0 ELSE Find(line, Words[f])
  BY <1>1, <1>2 DEF FindSeverity, SelectInSeq, FirstOf
<1>4. \A k \in 1..4 : k \in I <=> Located(line, Find(line, Words[k]))
  OBVIOUS
<1>5. I \in SUBSET (Nat \ {0}) /\ I \in SUBSET (1..4)
  OBVIOUS
<1> HIDE DEF I
<1>6. f \in Nat /\ (f = 0 => I = {}) /\ (f # 0 => f \in I) /\ \A j \in I : f <= j
  BY <1>1, <1>5, FirstOfIs
<1>7. ASSUME f # 0 PROVE f \in 1..4 /\ Taking(line, f)
  <2>1. f \in 1..4
    BY <1>5, <1>6, <1>7
  <2>2. \A m \in 1..(f - 1) : m \in 1..4 /\ ~(f <= m)
    BY <2>1
  <2> QED BY <1>4, <1>6, <1>7, <2>1, <2>2 DEF Taking
<1>8. ASSUME NEW k \in 1..4, Taking(line, k) PROVE f = k
  <2>1. k \in I /\ f <= k /\ f # 0
    BY <1>4, <1>6, <1>8 DEF Taking
  <2>2. f \in 1..4 /\ Located(line, Find(line, Words[f]))
    BY <1>7, <2>1 DEF Taking
  <2>3. ~(f \in 1..(k - 1))
    BY <1>8, <2>2 DEF Taking
  <2> QED BY <2>1, <2>2, <2>3
<1> QED BY <1>3, <1>7, <1>8

\* What split takes a line apart by.
HeadOf(line) == UpTo(line, FindSeverity(line))
LocatorOf(line) == TrimEndOf(Before(HeadOf(line)), NoColon)
SeverityOf(line) == ParseSeverity(Trim(LastField(HeadOf(line))))
MessageOf(line) == TrimStart(From(line, FindSeverity(line) + 2))

\* Split, of those parts.
LEMMA SplitUnfolds ==
    ASSUME NEW line
    PROVE  Split(line) =
               IF FindSeverity(line) = 0 \/ SeverityOf(line) = None \/ PathOf(LocatorOf(line)) = <<>>
               THEN NoSplit
               ELSE [path |-> PathOf(LocatorOf(line)),
                     position |-> From(LocatorOf(line), Len(PathOf(LocatorOf(line))) + 2),
                     severity |-> SeverityOf(line), message |-> MessageOf(line)]
BY Zenon DEF Split, HeadOf, LocatorOf, SeverityOf, MessageOf

\* The start of a start.
LEMMA PartOfPart ==
    ASSUME NEW S, NEW s \in Seq(S), NEW a \in 0..Len(s), NEW b \in 0..a
    PROVE  UpTo(UpTo(s, a), b) = UpTo(s, b)
<1>1. UpTo(s, a) \in Seq(S) /\ Len(UpTo(s, a)) = a /\ \A j \in 1..a : UpTo(s, a)[j] = s[j]
  BY PartsOf
<1>2. Len(s) \in Nat
  OBVIOUS
<1>3. b \in 0..Len(s) /\ b \in 0..Len(UpTo(s, a))
  BY <1>1, <1>2
<1>4. UpTo(s, b) \in Seq(S) /\ Len(UpTo(s, b)) = b /\ \A j \in 1..b : UpTo(s, b)[j] = s[j]
  BY <1>3, PartsOf
<1>5. /\ UpTo(UpTo(s, a), b) \in Seq(S) /\ Len(UpTo(UpTo(s, a), b)) = b
      /\ \A j \in 1..b : UpTo(UpTo(s, a), b)[j] = UpTo(s, a)[j]
  BY <1>1, <1>3, PartsOf
<1>6. \A j \in 1..b : UpTo(UpTo(s, a), b)[j] = UpTo(s, b)[j]
  BY <1>1, <1>4, <1>5
<1> QED BY <1>4, <1>5, <1>6, SeqEqual

\* What stands before the last colon, if anything does.
LEMMA BeforeIs ==
    ASSUME NEW s \in Seq(Lexeme), Before(s) # <<>>
    PROVE  \E p \in 1..(Len(s) - 1) : Before(s) = UpTo(s, p) /\ s[p + 1] = ":"
<1>1. PICK c \in Nat : c = LastColon(s) /\ c <= Len(s) /\ (c # 0 => s[c] = ":")
  BY LastColonIs
<1>2. Before(s) = UpTo(s, c - 1) /\ Len(s) \in Nat
  BY <1>1 DEF Before
<1>3. c - 1 >= 1
  <2> SUFFICES ASSUME ~(c - 1 >= 1) PROVE FALSE
    OBVIOUS
  <2>1. c - 1 \in Int /\ c - 1 < 1
    OBVIOUS
  <2>2. UpTo(s, c - 1) = <<>>
    BY <2>1, SubSeqEmpty DEF UpTo
  <2> QED BY <1>2, <2>2
<1>4. c - 1 \in 1..(Len(s) - 1) /\ (c - 1) + 1 = c /\ s[c] = ":"
  BY <1>1, <1>2, <1>3
<1> QED BY <1>2, <1>4

\* The path of a locator, if it has one, is what stands before some colon.
LEMMA PathIs ==
    ASSUME NEW s \in Seq(Lexeme), PathOf(s) # <<>>
    PROVE  \E p \in 1..(Len(s) - 1) : PathOf(s) = UpTo(s, p) /\ s[p + 1] = ":"
<1>1. PathOf(s) = Before(s) \/ PathOf(s) = Before(Before(s))
  BY DEF PathOf, Taken
<1>2. CASE PathOf(s) = Before(s)
  BY <1>2, BeforeIs
<1>3. CASE PathOf(s) = Before(Before(s))
  <2>1. Before(s) # <<>>
    <3> SUFFICES ASSUME Before(s) = <<>> PROVE FALSE
      OBVIOUS
    <3>1. <<>> \in Seq(Lexeme) /\ Len(<<>>) = 0
      OBVIOUS
    <3>2. \A p : ~(p \in 1..(Len(<<>>) - 1))
      BY <3>1
    <3> QED BY <1>3, <3>1, <3>2, BeforeIs
  <2>2. PICK a \in 1..(Len(s) - 1) : Before(s) = UpTo(s, a)
    BY <2>1, BeforeIs
  <2>3. Len(s) \in Nat /\ a \in 0..Len(s)
    OBVIOUS
  <2>4. UpTo(s, a) \in Seq(Lexeme) /\ Len(UpTo(s, a)) = a /\ \A j \in 1..a : UpTo(s, a)[j] = s[j]
    BY <2>3, PartsOf
  <2>5. PICK p \in 1..(a - 1) : PathOf(s) = UpTo(UpTo(s, a), p) /\ UpTo(s, a)[p + 1] = ":"
    BY <1>3, <2>2, <2>4, BeforeIs
  <2>6. p \in 0..a /\ p + 1 \in 1..a /\ p \in 1..(Len(s) - 1)
    BY <2>3
  <2>7. UpTo(UpTo(s, a), p) = UpTo(s, p)
    BY <2>3, <2>6, PartOfPart
  <2> QED BY <2>4, <2>5, <2>6, <2>7
<1> QED BY <1>1, <1>2, <1>3

\* Where a line is taken apart: i is the word of the severity, c the colon
\* before it, e the end of the locator and p that of the path.
Parted(line, i, c, e, p) ==
    /\ i = FindSeverity(line) /\ i \in 1..(Len(line) - 1) /\ line[i + 1] = ":"
    /\ c \in 1..(i - 1) /\ line[c] = ":" /\ \A j \in (c + 1)..i : line[j] # ":"
    /\ e \in 1..(c - 1) /\ line[e] # ":" /\ \A j \in (e + 1)..c : line[j] = ":"
    /\ p \in 1..(e - 1) /\ line[p + 1] = ":"
    /\ LocatorOf(line) = UpTo(line, e) /\ PathOf(UpTo(line, e)) = UpTo(line, p)

\* The word found is one of the four, with a colon behind it and two before.
LEMMA FoundIs ==
    ASSUME NEW line \in Seq(Lexeme), NEW k \in 1..4, Taking(line, k)
    PROVE  LET i == Find(line, Words[k])
           IN  /\ i \in 1..(Len(line) - 1) /\ line[i] = Words[k] /\ line[i + 1] = ":"
               /\ Colons(UpTo(line, i)) >= 2
<1>1. Find(line, Words[k]) > 0 /\ Colons(UpTo(line, Find(line, Words[k]))) >= 2
  BY DEF Taking, Located
<1>2. Place(line, Words[k], Find(line, Words[k]))
  BY <1>1, FindIs
<1> QED BY <1>1, <1>2 DEF Place

\* The words that find_severity looks for.
LEMMA WordsAre ==
    /\ Words[1] = "error" /\ Words[2] = "warning" /\ Words[3] = "note" /\ Words[4] = "info"
    /\ \A k \in 1..4 : Words[k] # ":" /\ Words[k] # " " /\ Words[k] \in Lexeme
    /\ \A k, m \in 1..4 : Words[k] = Words[m] => k = m
    /\ \A k \in 1..4 : /\ Words[k] = "error" => k = 1
                       /\ Words[k] = "warning" => k = 2
                       /\ Words[k] = "note" => k = 3
                       /\ Words[k] = "info" => k = 4
    /\ 1 \in 1..3 /\ 2 \in 1..3 /\ 3 \in 1..3
<1>1. Words[1] = "error" /\ Words[2] = "warning" /\ Words[3] = "note" /\ Words[4] = "info"
  BY DEF Words
<1>2. \A k \in 1..4 : k = 1 \/ k = 2 \/ k = 3 \/ k = 4
  OBVIOUS
<1>3. \A k \in 1..4 : Words[k] # ":" /\ Words[k] # " " /\ Words[k] \in Lexeme
  BY <1>1, <1>2 DEF Lexeme
<1>4. \A k, m \in 1..4 : Words[k] = Words[m] => k = m
  BY <1>1, <1>2
<1>5. \A k \in 1..4 : /\ Words[k] = "error" => k = 1
                      /\ Words[k] = "warning" => k = 2
                      /\ Words[k] = "note" => k = 3
                      /\ Words[k] = "info" => k = 4
  BY <1>1, <1>2
<1>6. 1 \in 1..3 /\ 2 \in 1..3 /\ 3 \in 1..3
  OBVIOUS
<1> QED BY <1>1, <1>3, <1>4, <1>5, <1>6, Zenon

\* Every line that is split has those places.
LEMMA SplitParts ==
    ASSUME NEW line \in Seq(Lexeme), Split(line) # NoSplit
    PROVE  \E i, c, e, p \in Nat : Parted(line, i, c, e, p)
<1>1. FindSeverity(line) # 0 /\ PathOf(LocatorOf(line)) # <<>>
  BY SplitUnfolds
<1>2. PICK k \in 1..4 : Taking(line, k) /\ FindSeverity(line) = Find(line, Words[k])
  BY <1>1, FindSeverityIs
<1>3. PICK i \in Nat : i = FindSeverity(line)
  BY <1>2, FindIs
<1>4. PICK n \in Nat : n = Len(line)
  OBVIOUS
<1>5. i \in 1..(n - 1) /\ line[i] = Words[k] /\ line[i + 1] = ":" /\ Colons(UpTo(line, i)) >= 2
  BY <1>2, <1>3, <1>4, FoundIs
<1> DEFINE head == UpTo(line, i)
<1>6. i \in 0..Len(line)
  BY <1>4, <1>5
<1>7. head \in Seq(Lexeme) /\ Len(head) = i /\ \A j \in 1..i : head[j] = line[j]
  BY <1>6, PartsOf
<1>8. HeadOf(line) = head
  BY <1>3 DEF HeadOf
<1>9. PICK d \in 1..i : line[d] = ":"
  <2>1. Colons(UpTo(line, i)) > 0
    <3>1. Colons(UpTo(line, i)) \in Nat
      BY <1>6, ColonsUpTo
    <3> QED BY <1>5, <3>1
  <2> QED BY <1>6, <2>1, OneColon
<1> HIDE DEF head
<1>10. PICK c \in Nat : c = LastColon(head)
  BY <1>7, LastColonIs
<1>11. c \in 0..i /\ (c # 0 => head[c] = ":") /\ \A j \in (c + 1)..i : head[j] # ":"
  BY <1>7, <1>10, LastColonIs
<1>12. c # 0
  <2>1. head[d] = ":"
    BY <1>7, <1>9
  <2> QED BY <1>11, <2>1
<1>13. c \in 1..(i - 1) /\ line[c] = ":" /\ \A j \in (c + 1)..i : line[j] # ":"
  <2>1. c \in 1..i
    BY <1>11, <1>12
  <2>2. line[c] = ":"
    BY <1>7, <1>11, <1>12, <2>1
  <2>3. c # i
    BY <1>5, <2>2, WordsAre
  <2>4. \A j \in (c + 1)..i : j \in 1..i
    BY <2>1
  <2>5. \A j \in (c + 1)..i : line[j] # ":"
    BY <1>7, <1>11, <2>4
  <2> QED BY <2>1, <2>2, <2>3, <2>5
<1> DEFINE b == UpTo(line, c - 1)
<1>14. Before(HeadOf(line)) = b
  <2>1. c - 1 \in 0..i
    BY <1>13
  <2>2. UpTo(head, c - 1) = b
    BY <1>6, <2>1, PartOfPart DEF head
  <2> QED BY <1>8, <1>10, <2>2 DEF Before
<1>15. c - 1 \in 0..Len(line)
  BY <1>4, <1>5, <1>13
<1>16. b \in Seq(Lexeme) /\ Len(b) = c - 1 /\ \A j \in 1..(c - 1) : b[j] = line[j]
  BY <1>15, PartsOf
<1> HIDE DEF b
<1>17. PICK e \in 0..Len(b) : /\ TrimEndOf(b, NoColon) = UpTo(b, e)
                              /\ e # 0 => b[e] # ":"
                              /\ \A j \in (e + 1)..Len(b) : b[j] = ":"
  BY <1>16, TrimEndIs
<1>18. e \in 0..(c - 1)
  BY <1>16, <1>17
<1>19. LocatorOf(line) = UpTo(line, e)
  <2>1. UpTo(b, e) = UpTo(line, e)
    BY <1>15, <1>18, PartOfPart DEF b
  <2> QED BY <1>14, <1>17, <2>1 DEF LocatorOf
<1>20. e \in 0..Len(line)
  BY <1>4, <1>5, <1>13, <1>18
<1>21. UpTo(line, e) \in Seq(Lexeme) /\ Len(UpTo(line, e)) = e /\ \A j \in 1..e : UpTo(line, e)[j] = line[j]
  BY <1>20, PartsOf
<1>22. PICK p \in 1..(e - 1) : PathOf(UpTo(line, e)) = UpTo(UpTo(line, e), p) /\ UpTo(line, e)[p + 1] = ":"
  BY <1>1, <1>19, <1>21, PathIs
<1>23. p \in 0..e /\ p + 1 \in 1..e /\ e \in 1..(c - 1)
  BY <1>18, <1>22
<1>24. PathOf(UpTo(line, e)) = UpTo(line, p) /\ line[p + 1] = ":"
  <2>1. UpTo(UpTo(line, e), p) = UpTo(line, p)
    BY <1>20, <1>23, PartOfPart
  <2> QED BY <1>21, <1>22, <1>23, <2>1
<1>25. line[e] # ":" /\ \A j \in (e + 1)..c : line[j] = ":"
  <2>1. line[e] # ":"
    BY <1>16, <1>17, <1>23
  <2>2. ASSUME NEW j \in (e + 1)..c PROVE line[j] = ":"
    <3>1. CASE j = c
      BY <1>13, <3>1
    <3>2. CASE j # c
      <4>1. j \in (e + 1)..(c - 1) /\ j \in 1..(c - 1)
        BY <1>18, <3>2
      <4> QED BY <1>16, <1>17, <4>1
    <3> QED BY <3>1, <3>2
  <2> QED BY <2>1, <2>2
<1>26. Parted(line, i, c, e, p)
  BY <1>3, <1>4, <1>5, <1>13, <1>19, <1>22, <1>23, <1>24, <1>25 DEF Parted
<1>27. e \in Nat /\ p \in Nat
  BY <1>18, <1>22
<1> QED BY <1>26, <1>27
-----------------------------------------------------------------------------
\* What a sequence ends in.
EndsIn(s, x) == Len(s) # 0 /\ s[Len(s)] = x

\* A field that ends in a word is trimmed at its start only.
LEMMA TrimIs ==
    ASSUME NEW s \in Seq(Lexeme), NEW x, EndsIn(s, x), NoSpace(x)
    PROVE  \E q \in 0..(Len(s) - 1) : /\ Trim(s) = From(s, q + 1)
                                      /\ \A j \in 1..q : s[j] = " "
                                      /\ s[q + 1] # " "
<1>0. PICK n \in Nat : n = Len(s) /\ n > 0
  BY DEF EndsIn
<1>00. s[n] = x
  BY <1>0 DEF EndsIn
<1>1. PICK q \in 0..n : /\ TrimStart(s) = From(s, q + 1)
                        /\ \A j \in 1..q : s[j] = " "
                        /\ q < n => s[q + 1] # " "
  BY <1>0, TrimStartIs
<1>2. q # n
  <2> SUFFICES ASSUME q = n PROVE FALSE
    OBVIOUS
  <2>1. n \in 1..q
    BY <1>0
  <2> QED BY <1>00, <1>1, <2>1 DEF NoSpace, IsBlank
<1>3. PICK t : t = From(s, q + 1)
  OBVIOUS
<1>4. t \in Seq(Lexeme) /\ Len(t) = n - q /\ \A j \in 1..(n - q) : t[j] = s[q + j]
  <2>1. q \in 0..Len(s) /\ Len(s) - q = n - q
    BY <1>0
  <2> QED BY <1>0, <1>3, <2>1, PartsOf
<1>5. n - q \in 1..(n - q) /\ q + (n - q) = n /\ n - q \in Nat
  BY <1>0, <1>2
<1>6. t[n - q] # " "
  <2>1. t[n - q] = s[q + (n - q)]
    BY <1>4, <1>5
  <2>2. s[q + (n - q)] = s[n]
    BY <1>5
  <2> QED BY <1>00, <2>1, <2>2 DEF NoSpace, IsBlank
<1>7. TrimEndOf(t, NoSpace) = t
  <2> DEFINE I == {i \in 1..Len(t) : NoSpace(t[i])}
  <2>1. PICK e : e = LastOf(I)
    OBVIOUS
  <2>2. TrimEndOf(t, NoSpace) = UpTo(t, e)
    BY <2>1 DEF TrimEndOf, SelectLastInSeq, LastOf
  <2>3. I \in SUBSET (1..(n - q)) /\ n - q \in I
    BY <1>4, <1>5, <1>6 DEF NoSpace, IsBlank
  <2> HIDE DEF I
  <2>4. e \in 0..(n - q) /\ n - q <= e
    BY <1>5, <2>1, <2>3, LastOfIs
  <2>5. e = n - q /\ e = Len(t) /\ e \in 0..Len(t)
    BY <1>4, <1>5, <2>4
  <2>6. UpTo(t, e) \in Seq(Lexeme) /\ Len(UpTo(t, e)) = e /\ \A j \in 1..e : UpTo(t, e)[j] = t[j]
    BY <1>4, <2>5, PartsOf
  <2> QED BY <1>4, <2>2, <2>5, <2>6, SeqEqual
<1>8. Trim(s) = From(s, q + 1)
  BY <1>1, <1>3, <1>7 DEF Trim
<1>9. q \in 0..(Len(s) - 1) /\ q < n
  BY <1>0, <1>2
<1> QED BY <1>1, <1>8, <1>9

\* What a sequence of one or of three ends in.
LEMMA LastOfFew ==
    /\ \A a, x : EndsIn(<<a>>, x) => x = a
    /\ \A a, b, c, x : EndsIn(<<a, b, c>>, x) => x = c
BY DEF EndsIn

\* A name of a severity ends in its word, and its word says the same; only
\* info becomes note.
LEMMA SeverityWords ==
    ASSUME NEW word \in Seq(Lexeme), ParseSeverity(word) # None,
           NEW k \in 1..4, EndsIn(word, Words[k])
    PROVE  \E m \in 1..3 : /\ SeverityWord(ParseSeverity(word)) = <<Words[m]>>
                           /\ ParseSeverity(<<Words[m]>>) = ParseSeverity(word)
                           /\ m = k \/ (m = 3 /\ k = 4)
<1>1. \/ word = <<"error">> \/ word = <<"fatal", " ", "error">>
      \/ word = <<"warning">> \/ word = <<"note">> \/ word = <<"info">>
  BY DEF ParseSeverity
<1>2. /\ ParseSeverity(<<"error">>) = "Error" /\ ParseSeverity(<<"fatal", " ", "error">>) = "Error"
      /\ ParseSeverity(<<"warning">>) = "Warning"
      /\ ParseSeverity(<<"note">>) = "Note" /\ ParseSeverity(<<"info">>) = "Note"
  BY DEF ParseSeverity
<1>3. /\ SeverityWord("Error") = <<"error">> /\ SeverityWord("Warning") = <<"warning">>
      /\ SeverityWord("Note") = <<"note">>
  BY DEF SeverityWord
<1>4. CASE word = <<"error">> \/ word = <<"fatal", " ", "error">>
  <2>1. Words[k] = "error"
    BY LastOfFew, <1>4
  <2>2. k = 1
    BY <2>1, WordsAre
  <2>3. 1 \in 1..3 /\ Words[1] = "error"
    BY WordsAre
  <2> QED BY <1>2, <1>3, <1>4, <2>2, <2>3
<1>5. CASE word = <<"warning">>
  <2>1. Words[k] = "warning"
    BY LastOfFew, <1>5
  <2>2. k = 2
    BY <2>1, WordsAre
  <2>3. 2 \in 1..3 /\ Words[2] = "warning"
    BY WordsAre
  <2> QED BY <1>2, <1>3, <1>5, <2>2, <2>3
<1>6. CASE word = <<"note">>
  <2>1. Words[k] = "note"
    BY LastOfFew, <1>6
  <2>2. k = 3
    BY <2>1, WordsAre
  <2>3. 3 \in 1..3 /\ Words[3] = "note"
    BY WordsAre
  <2> QED BY <1>2, <1>3, <1>6, <2>2, <2>3
<1>7. CASE word = <<"info">>
  <2>1. Words[k] = "info"
    BY LastOfFew, <1>7
  <2>2. k = 4
    BY <2>1, WordsAre
  <2>3. 3 \in 1..3 /\ Words[3] = "note"
    BY WordsAre
  <2> QED BY <1>2, <1>3, <1>7, <2>2, <2>3
<1> QED BY <1>1, <1>4, <1>5, <1>6, <1>7

LastColonAt(line, i, c) == line[c] = ":" /\ \A j \in (c + 1)..i : line[j] # ":"

\* The last field of the head, by where the last colon is.
LEMMA HeadEnds ==
    ASSUME NEW line \in Seq(Lexeme), NEW i \in Nat, NEW c \in Nat,
           FindSeverity(line) = i, i <= Len(line), i > 0,
           c < i, c > 0, LastColonAt(line, i, c)
    PROVE  /\ Before(HeadOf(line)) = UpTo(line, c - 1)
           /\ IsRest(Lexeme, line, c, i - c, LastField(HeadOf(line)))
<1>1. PICK head : head = UpTo(line, i) /\ HeadOf(line) = head
  BY DEF HeadOf
<1>0. PICK n \in Nat : n = Len(line)
  OBVIOUS
<1>2. i \in 0..Len(line)
  BY <1>0
<1>3. head \in Seq(Lexeme) /\ Len(head) = i /\ \A j \in 1..i : head[j] = line[j]
  <2>1. IsStart(Lexeme, line, i, head)
    BY <1>1, <1>2, StartIs, Zenon
  <2> QED BY <2>1 DEF IsStart
<1>4. PICK d \in Nat : d = LastColon(head)
  BY <1>3, LastColonIs
<1>5. d \in 0..i /\ (d # 0 => head[d] = ":") /\ \A j \in (d + 1)..i : head[j] # ":"
  BY <1>3, <1>4, LastColonIs
<1>6. ~(d < c)
  <2> SUFFICES ASSUME d < c PROVE FALSE
    OBVIOUS
  <2>1. c \in (d + 1)..i /\ c \in 1..i
    BY <1>5
  <2> QED BY <1>3, <1>5, <2>1 DEF LastColonAt
<1>7. ~(c < d)
  <2> SUFFICES ASSUME c < d PROVE FALSE
    OBVIOUS
  <2>1. d \in (c + 1)..i /\ d \in 1..i /\ d # 0
    BY <1>5
  <2> QED BY <1>3, <1>5, <2>1 DEF LastColonAt
<1>8. d = c
  BY <1>6, <1>7
<1>9. Before(head) = UpTo(line, c - 1)
  <2>1. c - 1 \in 0..i
    OBVIOUS
  <2>2. UpTo(UpTo(line, i), c - 1) = UpTo(line, c - 1)
    BY <1>2, <2>1, PartOfPart
  <2> QED BY <1>1, <1>4, <1>8, <2>2 DEF Before
<1>10. LastField(head) = From(head, c + 1)
  BY <1>4, <1>8 DEF LastField
<1>11. c \in 0..Len(head)
  BY <1>3
<1>12. /\ From(head, c + 1) \in Seq(Lexeme) /\ Len(From(head, c + 1)) = i - c
       /\ \A j \in 1..(i - c) : From(head, c + 1)[j] = head[c + j]
  <2>1. c \in Nat /\ i - c \in Nat /\ c + (i - c) = Len(head)
    BY <1>3
  <2>2. IsRest(Lexeme, head, c, i - c, From(head, c + 1))
    BY <1>3, <2>1, RestIs
  <2> QED BY <2>2 DEF IsRest
<1>13. \A j \in 1..(i - c) : c + j \in 1..i
  OBVIOUS
<1>14. IsRest(Lexeme, line, c, i - c, From(head, c + 1))
  BY <1>3, <1>12, <1>13 DEF IsRest
<1> QED BY <1>1, <1>9, <1>10, <1>14, Zenon

\* The word that a severity is printed as.
LEMMA SaidAgain ==
    ASSUME NEW line \in Seq(Lexeme), NEW i \in Nat, NEW c \in Nat, NEW e \in Nat, NEW p \in Nat,
           Parted(line, i, c, e, p), SeverityOf(line) # None,
           NEW k \in 1..4, line[i] = Words[k]
    PROVE  \E m \in 1..3 : /\ SeverityWord(SeverityOf(line)) = <<Words[m]>>
                           /\ ParseSeverity(<<Words[m]>>) = SeverityOf(line)
                           /\ m = k \/ (m = 3 /\ k = 4)
<1>1. PICK f : f = LastField(HeadOf(line))
  OBVIOUS
<1>2. i \in 1..Len(line) /\ c \in 1..(i - 1) /\ i - c \in Nat /\ i - c > 0
  BY DEF Parted
<1>3. f \in Seq(Lexeme) /\ Len(f) = i - c /\ \A j \in 1..(i - c) : f[j] = line[c + j]
  <2>1. FindSeverity(line) = i /\ LastColonAt(line, i, c)
    BY DEF Parted, LastColonAt
  <2>2. i <= Len(line) /\ i > 0 /\ c < i /\ c > 0
    BY <1>2
  <2>3. IsRest(Lexeme, line, c, i - c, f)
    BY <1>1, <2>1, <2>2, HeadEnds, Zenon
  <2> QED BY <2>3 DEF IsRest
<1>4. PICK n \in Nat : n = i - c /\ n > 0 /\ c + n = i
  BY <1>2
<1>5. f[n] = Words[k]
  <2>1. n \in 1..(i - c)
    BY <1>4
  <2>2. f[n] = line[c + n]
    BY <1>3, <2>1
  <2> QED BY <1>4, <2>2, WordsAre
<1>6. PICK q \in 0..(n - 1) : Trim(f) = From(f, q + 1)
  <2>1. n = Len(f)
    BY <1>3, <1>4
  <2>2. EndsIn(f, Words[k])
    <3>1. Len(f) # 0
      BY <1>4, <2>1
    <3> QED BY <1>5, <2>1, <3>1, Zenon DEF EndsIn
  <2>3. NoSpace(Words[k])
    BY WordsAre DEF NoSpace, IsBlank
  <2> QED BY <1>3, <2>1, <2>2, <2>3, TrimIs
<1>7. PICK w : w = From(f, q + 1)
  OBVIOUS
<1>8. w \in Seq(Lexeme) /\ Len(w) = n - q /\ \A j \in 1..(n - q) : w[j] = f[q + j]
  <2>1. q \in Nat /\ n - q \in Nat /\ q + (n - q) = Len(f)
    BY <1>3, <1>4
  <2>2. IsRest(Lexeme, f, q, n - q, w)
    BY <1>3, <1>7, <2>1, RestIs, Zenon
  <2> QED BY <2>2 DEF IsRest
<1>9. PICK l \in Nat : l = n - q /\ l > 0 /\ q + l = n
  OBVIOUS
<1>10. w[l] = Words[k]
  <2>1. l \in 1..(n - q)
    BY <1>9
  <2>2. w[l] = f[q + l]
    BY <1>8, <2>1
  <2> QED BY <1>5, <1>9, <2>2
<1>11. SeverityOf(line) = ParseSeverity(w)
  BY <1>1, <1>6, <1>7 DEF SeverityOf
<1>12. EndsIn(w, Words[k])
  <2>1. Len(w) = l /\ l # 0
    BY <1>8, <1>9
  <2> QED BY <1>10, <2>1 DEF EndsIn
<1>13. \E m \in 1..3 : /\ SeverityWord(ParseSeverity(w)) = <<Words[m]>>
                       /\ ParseSeverity(<<Words[m]>>) = ParseSeverity(w)
                       /\ m = k \/ (m = 3 /\ k = 4)
  <2>1. w \in Seq(Lexeme) /\ ParseSeverity(w) # None
    BY <1>8, <1>11
  <2> QED BY <1>12, <2>1, SeverityWords, Zenon
<1> QED BY <1>11, <1>13, Zenon
-----------------------------------------------------------------------------
\* The rest of a rest.
LEMMA RestOfRest ==
    ASSUME NEW S, NEW s \in Seq(S), NEW a \in Nat, NEW b \in Nat, a + b <= Len(s)
    PROVE  From(From(s, a + 1), b + 1) = From(s, (a + b) + 1)
<1>1. PICK n \in Nat : n = Len(s)
  OBVIOUS
<1>2. PICK t : t = From(s, a + 1)
  OBVIOUS
<1>3. t \in Seq(S) /\ Len(t) = n - a /\ \A j \in 1..(n - a) : t[j] = s[a + j]
  <2>1. a \in 0..Len(s)
    BY <1>1
  <2> QED BY <1>1, <1>2, <2>1, PartsOf
<1>4. a + b \in 0..Len(s) /\ b \in 0..Len(t) /\ n - (a + b) = (n - a) - b /\ (n - a) - b \in Nat
  BY <1>1, <1>3
<1>5. PICK m \in Nat : m = (n - a) - b
  BY <1>1, <1>4
<1>6. PICK x : x = From(t, b + 1)
  OBVIOUS
<1>7. x \in Seq(S) /\ Len(x) = m /\ \A j \in 1..m : x[j] = t[b + j]
  <2>1. b + m = Len(t)
    BY <1>3, <1>5
  <2>2. IsRest(S, t, b, m, x)
    BY <1>3, <1>6, <2>1, RestIs, Zenon
  <2> QED BY <2>2 DEF IsRest
<1>8. PICK y : y = From(s, (a + b) + 1)
  OBVIOUS
<1>9. y \in Seq(S) /\ Len(y) = m /\ \A j \in 1..m : y[j] = s[(a + b) + j]
  <2>1. (a + b) + m = Len(s) /\ a + b \in Nat
    BY <1>1, <1>4, <1>5
  <2>2. IsRest(S, s, a + b, m, y)
    BY <1>8, <2>1, RestIs, Zenon
  <2> QED BY <2>2 DEF IsRest
<1>10. \A j \in 1..m : b + j \in 1..(n - a) /\ a + (b + j) = (a + b) + j
  BY <1>1, <1>4, <1>5
<1>11. ASSUME NEW j \in 1..m PROVE x[j] = y[j]
  <2>1. x[j] = t[b + j] /\ y[j] = s[(a + b) + j]
    BY <1>7, <1>9
  <2>2. t[b + j] = s[a + (b + j)]
    BY <1>3, <1>10
  <2> QED BY <1>10, <2>1, <2>2
<1>12. x = y
  BY <1>7, <1>9, <1>11, SeqEqual
<1> QED BY <1>2, <1>4, <1>6, <1>8, <1>12

\* The message is what is left of the line behind some place.
LEMMA MessageIs ==
    ASSUME NEW line \in Seq(Lexeme), NEW i \in Nat, FindSeverity(line) = i,
           i > 0, i < Len(line)
    PROVE  \E q \in Nat : /\ q > i /\ q <= Len(line)
                          /\ MessageOf(line) = From(line, q + 1)
                          /\ q < Len(line) => NoSpace(line[q + 1])
<1>1. PICK n \in Nat : n = Len(line)
  OBVIOUS
<1>2. PICK s : s = From(line, (i + 1) + 1)
  OBVIOUS
<1>3. i + 1 \in 0..Len(line)
  BY <1>1
<1>4. s \in Seq(Lexeme) /\ Len(s) = n - (i + 1) /\ \A j \in 1..(n - (i + 1)) : s[j] = line[(i + 1) + j]
  BY <1>1, <1>2, <1>3, PartsOf
<1>5. PICK b \in 0..Len(s) : TrimStart(s) = From(s, b + 1) /\ (b < Len(s) => s[b + 1] # " ")
  BY <1>4, TrimStartIs
<1>6. MessageOf(line) = TrimStart(s)
  <2>1. i + 2 = (i + 1) + 1
    OBVIOUS
  <2> QED BY <1>2, <2>1 DEF MessageOf
<1>7. b \in Nat /\ i + 1 \in Nat /\ (i + 1) + b <= Len(line)
  <2>1. b \in 0..(n - (i + 1))
    BY <1>4, <1>5
  <2> QED BY <1>1, <2>1
<1>8. MessageOf(line) = From(line, ((i + 1) + b) + 1)
  BY <1>2, <1>5, <1>6, <1>7, RestOfRest
<1>9. PICK q \in Nat : q = (i + 1) + b
  BY <1>7
<1>10. q > i /\ q <= Len(line)
  BY <1>1, <1>7, <1>9
<1>11. ASSUME q < Len(line) PROVE NoSpace(line[q + 1])
  <2>1. b < Len(s) /\ b + 1 \in 1..(n - (i + 1)) /\ (i + 1) + (b + 1) = q + 1
    BY <1>1, <1>4, <1>7, <1>9, <1>11
  <2> QED BY <1>4, <1>5, <2>1 DEF NoSpace, IsBlank
<1> QED BY <1>8, <1>9, <1>10, <1>11

\* One sequence and another make up a third.
IsJoin(S, a, b, m, n, c) ==
    /\ c \in Seq(S) /\ Len(c) = m + n
    /\ \A j \in 1..m : c[j] = a[j]
    /\ \A j \in 1..n : c[m + j] = b[j]

\* Two sequences, one behind the other, are such a third.
LEMMA Joined ==
    ASSUME NEW S, NEW a \in Seq(S), NEW b \in Seq(S)
    PROVE  IsJoin(S, a, b, Len(a), Len(b), a \o b)
<1>1. PICK c : c = a \o b
  OBVIOUS
<1>2. /\ c \in Seq(S) /\ Len(a) \in Nat /\ Len(b) \in Nat /\ Len(c) = Len(a) + Len(b)
      /\ \A i \in 1..Len(c) : c[i] = IF i <= Len(a) THEN a[i] ELSE b[i - Len(a)]
  BY <1>1
<1>3. \A j \in 1..Len(a) : j \in 1..Len(c) /\ j <= Len(a)
  BY <1>2
<1>4. \A j \in 1..Len(b) : /\ Len(a) + j \in 1..Len(c) /\ ~(Len(a) + j <= Len(a))
                           /\ (Len(a) + j) - Len(a) = j
  BY <1>2
<1>5. /\ c \in Seq(S) /\ Len(c) = Len(a) + Len(b)
      /\ \A j \in 1..Len(a) : c[j] = a[j]
      /\ \A j \in 1..Len(b) : c[Len(a) + j] = b[j]
  BY <1>2, <1>3, <1>4
<1> QED BY <1>1, <1>5 DEF IsJoin

\* Seven runs in a row.
Texts(r1, r2, r3, r4, r5, r6, r7) ==
    (((((r1.text \o r2.text) \o r3.text) \o r4.text) \o r5.text) \o r6.text) \o r7.text

LEMMA Seven ==
    ASSUME NEW S, NEW runs, Len(runs) = 7, \A i \in 1..7 : runs[i].text \in Seq(S)
    PROVE  TextOf(runs) = Texts(runs[1], runs[2], runs[3], runs[4], runs[5], runs[6], runs[7])
<1>1. PICK s : s = [i \in 1..7 |-> runs[i].text]
  OBVIOUS
<1>2. s \in Seq(Seq(S)) /\ Len(s) = 7
  BY <1>1
<1>3. \A i \in 1..7 : s[i] = runs[i].text
  BY <1>1
<1>4. \A i \in 1..7 : Flat(s)[i] = IF i = 1 THEN s[i] ELSE Flat(s)[i - 1] \o s[i]
  BY <1>2, FlatGrows
<1>5. /\ Flat(s)[1] = s[1] /\ Flat(s)[2] = Flat(s)[1] \o s[2] /\ Flat(s)[3] = Flat(s)[2] \o s[3]
      /\ Flat(s)[4] = Flat(s)[3] \o s[4] /\ Flat(s)[5] = Flat(s)[4] \o s[5]
      /\ Flat(s)[6] = Flat(s)[5] \o s[6] /\ Flat(s)[7] = Flat(s)[6] \o s[7]
  <2>1. Flat(s)[1] = s[1]
    BY <1>4
  <2>2. ASSUME NEW i \in 2..7 PROVE Flat(s)[i] = Flat(s)[i - 1] \o s[i]
    <3>1. i \in 1..7 /\ i # 1
      OBVIOUS
    <3> QED BY <1>4, <3>1, Zenon
  <2>3. /\ 2 \in 2..7 /\ 3 \in 2..7 /\ 4 \in 2..7 /\ 5 \in 2..7 /\ 6 \in 2..7 /\ 7 \in 2..7
        /\ 2 - 1 = 1 /\ 3 - 1 = 2 /\ 4 - 1 = 3 /\ 5 - 1 = 4 /\ 6 - 1 = 5 /\ 7 - 1 = 6
    OBVIOUS
  <2>4. Flat(s)[2] = Flat(s)[1] \o s[2] /\ Flat(s)[3] = Flat(s)[2] \o s[3]
    BY <2>2, <2>3
  <2>5. Flat(s)[4] = Flat(s)[3] \o s[4] /\ Flat(s)[5] = Flat(s)[4] \o s[5]
    BY <2>2, <2>3
  <2>6. Flat(s)[6] = Flat(s)[5] \o s[6] /\ Flat(s)[7] = Flat(s)[6] \o s[7]
    BY <2>2, <2>3
  <2> QED BY <2>1, <2>4, <2>5, <2>6
<1>6. FlattenSeq(s) = Flat(s)[7]
  BY <1>2 DEF FlattenSeq, Flat
<1>7. TextOf(runs) = Flat(s)[7]
  BY <1>1, <1>6 DEF TextOf
<1>8. /\ s[1] = runs[1].text /\ s[2] = runs[2].text /\ s[3] = runs[3].text /\ s[4] = runs[4].text
      /\ s[5] = runs[5].text /\ s[6] = runs[6].text /\ s[7] = runs[7].text
  BY <1>3
<1> QED BY <1>5, <1>7, <1>8, Zenon DEF Texts

\* A line as it is printed: up to e as it was, then the word, then what it was
\* behind q.
Relaid(line, e, q, v, N) ==
    /\ N \in Seq(Lexeme) /\ Len(N) = (e + 5) + (Len(line) - q)
    /\ \A j \in 1..e : N[j] = line[j]
    /\ N[e + 1] = ":" /\ N[e + 2] = " " /\ N[e + 3] = v /\ N[e + 4] = ":" /\ N[e + 5] = " "
    /\ \A j \in 1..(Len(line) - q) : N[(e + 5) + j] = line[q + j]

Colon(line, j) == line[j] = ":"

\* The path, a colon and the position are the locator they were cut from.
LEMMA PathAgain ==
    ASSUME NEW line \in Seq(Lexeme), NEW e \in Nat, NEW p \in Nat, e <= Len(line), p < e,
           NEW x \in Lexeme, line[p + 1] = x
    PROVE  (UpTo(line, p) \o <<x>>) \o From(UpTo(line, e), p + 2) = UpTo(line, e)
<1>1. PICK u : u = UpTo(line, e)
  OBVIOUS
<1>2. e \in 0..Len(line) /\ p \in 0..Len(line)
  OBVIOUS
<1>3. u \in Seq(Lexeme) /\ Len(u) = e /\ \A j \in 1..e : u[j] = line[j]
  <2>1. IsStart(Lexeme, line, e, u)
    BY <1>1, <1>2, StartIs, Zenon
  <2> QED BY <2>1 DEF IsStart
<1>4. PICK w : w = UpTo(line, p)
  OBVIOUS
<1>5. w \in Seq(Lexeme) /\ Len(w) = p /\ \A j \in 1..p : w[j] = line[j]
  <2>1. IsStart(Lexeme, line, p, w)
    BY <1>2, <1>4, StartIs, Zenon
  <2> QED BY <2>1 DEF IsStart
<1>6. PICK r : r = From(u, (p + 1) + 1)
  OBVIOUS
<1>7. /\ p + 1 \in Nat /\ e - (p + 1) \in Nat /\ (p + 1) + (e - (p + 1)) = Len(u)
      /\ (p + 1) + 1 = p + 2
  BY <1>3
<1>8. r \in Seq(Lexeme) /\ Len(r) = e - (p + 1) /\ \A j \in 1..(e - (p + 1)) : r[j] = u[(p + 1) + j]
  <2>1. IsRest(Lexeme, u, p + 1, e - (p + 1), r)
    BY <1>3, <1>6, <1>7, RestIs, Zenon
  <2> QED BY <2>1 DEF IsRest
<1>9. PICK wx : wx = w \o <<x>>
  OBVIOUS
<1>10. /\ wx \in Seq(Lexeme) /\ Len(wx) = p + 1 /\ wx[p + 1] = x
       /\ \A j \in 1..p : wx[j] = line[j]
  <2>1. <<x>> \in Seq(Lexeme) /\ Len(<<x>>) = 1 /\ <<x>>[1] = x /\ 1 \in 1..1
    OBVIOUS
  <2>2. IsJoin(Lexeme, w, <<x>>, p, 1, wx)
    BY <1>5, <1>9, <2>1, Joined, Zenon
  <2> QED BY <1>5, <2>1, <2>2 DEF IsJoin
<1>11. PICK t : t = wx \o r
  OBVIOUS
<1>12. /\ t \in Seq(Lexeme) /\ Len(t) = (p + 1) + (e - (p + 1))
       /\ \A j \in 1..(p + 1) : t[j] = wx[j]
       /\ \A j \in 1..(e - (p + 1)) : t[(p + 1) + j] = r[j]
  <2>1. IsJoin(Lexeme, wx, r, p + 1, e - (p + 1), t)
    BY <1>8, <1>10, <1>11, Joined, Zenon
  <2> QED BY <2>1 DEF IsJoin
<1>13. Len(t) = e
  BY <1>12
<1>14. ASSUME NEW j \in 1..e PROVE t[j] = u[j]
  <2>1. CASE j \in 1..p
    <3>1. j \in 1..(p + 1)
      BY <2>1
    <3> QED BY <1>3, <1>10, <1>12, <2>1, <3>1
  <2>2. CASE j = p + 1
    <3>1. j \in 1..(p + 1)
      BY <2>2
    <3> QED BY <1>3, <1>10, <1>12, <2>2, <3>1
  <2>3. CASE j > p + 1
    <3>1. PICK d \in Nat : d = j - (p + 1)
      BY <2>3
    <3>2. d \in 1..(e - (p + 1)) /\ j = (p + 1) + d
      BY <2>3, <3>1
    <3> QED BY <1>8, <1>12, <3>2
  <2> QED BY <2>1, <2>2, <2>3
<1>15. t = u
  BY <1>3, <1>12, <1>13, <1>14, SeqEqual
<1> QED BY <1>1, <1>4, <1>6, <1>7, <1>9, <1>11, <1>15

\* What the seven pieces make up.
LEMMA LaidOut ==
    ASSUME NEW line \in Seq(Lexeme), NEW e \in Nat, NEW q \in Nat, e <= Len(line), q <= Len(line),
           NEW v \in Lexeme
    PROVE  Relaid(line, e, q, v,
                  (((UpTo(line, e) \o <<":", " ">>) \o <<v>>) \o <<":", " ">>) \o From(line, q + 1))
<1>1. PICK cs : cs = <<":", " ">>
  OBVIOUS
<1>2. cs \in Seq(Lexeme) /\ Len(cs) = 2
  <2>1. \A a, b : a \in Lexeme /\ b \in Lexeme => <<a, b>> \in Seq(Lexeme) /\ Len(<<a, b>>) = 2
    OBVIOUS
  <2>2. ":" \in Lexeme /\ " " \in Lexeme
    BY DEF Lexeme
  <2> QED BY <1>1, <2>1, <2>2, Zenon
<1>24. cs[1] = ":" /\ cs[2] = " "
  BY <1>1
<1>3. <<v>> \in Seq(Lexeme) /\ Len(<<v>>) = 1 /\ <<v>>[1] = v
  OBVIOUS
<1>4. PICK u : u = UpTo(line, e)
  OBVIOUS
<1>5. e \in 0..Len(line) /\ q \in 0..Len(line)
  OBVIOUS
<1>6. u \in Seq(Lexeme) /\ Len(u) = e /\ \A j \in 1..e : u[j] = line[j]
  BY <1>4, <1>5, PartsOf
<1>7. PICK r : r = From(line, q + 1)
  OBVIOUS
<1>8. PICK l \in Nat : l = Len(line) - q
  BY <1>5
<1>9. r \in Seq(Lexeme) /\ Len(r) = l /\ \A j \in 1..l : r[j] = line[q + j]
  BY <1>5, <1>7, <1>8, PartsOf
<1>10. PICK a : a = u \o cs
  OBVIOUS
<1>11. /\ a \in Seq(Lexeme) /\ Len(a) = e + 2
       /\ \A j \in 1..e : a[j] = line[j]
       /\ a[e + 1] = cs[1] /\ a[e + 2] = cs[2]
  <2>1. 1 \in 1..2 /\ 2 \in 1..2
    OBVIOUS
  <2>2. IsJoin(Lexeme, u, cs, e, 2, a)
    BY <1>2, <1>6, <1>10, Joined, Zenon
  <2> QED BY <1>6, <2>1, <2>2 DEF IsJoin
<1>12. PICK b : b = a \o <<v>>
  OBVIOUS
<1>13. /\ b \in Seq(Lexeme) /\ Len(b) = e + 3
       /\ \A j \in 1..(e + 2) : b[j] = a[j]
       /\ b[(e + 2) + 1] = v
  <2>1. 1 \in 1..1 /\ (e + 2) + 1 = e + 3
    OBVIOUS
  <2>2. IsJoin(Lexeme, a, <<v>>, e + 2, 1, b)
    BY <1>3, <1>11, <1>12, Joined, Zenon
  <2> QED BY <1>3, <2>1, <2>2 DEF IsJoin
<1>14. PICK c : c = b \o cs
  OBVIOUS
<1>15. /\ c \in Seq(Lexeme) /\ Len(c) = e + 5
       /\ \A j \in 1..(e + 3) : c[j] = b[j]
       /\ c[(e + 3) + 1] = cs[1] /\ c[(e + 3) + 2] = cs[2]
  <2>1. 1 \in 1..2 /\ 2 \in 1..2 /\ (e + 3) + 2 = e + 5
    OBVIOUS
  <2>2. IsJoin(Lexeme, b, cs, e + 3, 2, c)
    BY <1>2, <1>13, <1>14, Joined, Zenon
  <2> QED BY <2>1, <2>2 DEF IsJoin
<1>16. PICK N : N = c \o r
  OBVIOUS
<1>17. /\ N \in Seq(Lexeme) /\ Len(N) = (e + 5) + l
       /\ \A j \in 1..(e + 5) : N[j] = c[j]
       /\ \A j \in 1..l : N[(e + 5) + j] = r[j]
  <2>1. IsJoin(Lexeme, c, r, e + 5, l, N)
    BY <1>9, <1>15, <1>16, Joined, Zenon
  <2> QED BY <2>1 DEF IsJoin
<1>18. \A j \in 1..e : N[j] = line[j]
  <2> TAKE j \in 1..e
  <2>1. j \in 1..(e + 2) /\ j \in 1..(e + 3) /\ j \in 1..(e + 5)
    OBVIOUS
  <2> QED BY <1>11, <1>13, <1>15, <1>17, <2>1
<1>19. N[e + 1] = cs[1] /\ N[e + 2] = cs[2]
  <2>1. /\ e + 1 \in 1..(e + 2) /\ e + 1 \in 1..(e + 3) /\ e + 1 \in 1..(e + 5)
        /\ e + 2 \in 1..(e + 2) /\ e + 2 \in 1..(e + 3) /\ e + 2 \in 1..(e + 5)
    OBVIOUS
  <2> QED BY <1>11, <1>13, <1>15, <1>17, <2>1
<1>20. N[e + 3] = v
  <2>1. e + 3 \in 1..(e + 3) /\ e + 3 \in 1..(e + 5) /\ (e + 2) + 1 = e + 3
    OBVIOUS
  <2> QED BY <1>13, <1>15, <1>17, <2>1
<1>21. N[e + 4] = cs[1] /\ N[e + 5] = cs[2]
  <2>1. /\ e + 4 \in 1..(e + 5) /\ e + 5 \in 1..(e + 5)
        /\ (e + 3) + 1 = e + 4 /\ (e + 3) + 2 = e + 5
    OBVIOUS
  <2> QED BY <1>15, <1>17, <2>1
<1>22. \A j \in 1..l : N[(e + 5) + j] = line[q + j]
  BY <1>9, <1>17
<1>23. Relaid(line, e, q, v, N)
  BY <1>24, <1>8, <1>17, <1>18, <1>19, <1>20, <1>21, <1>22, Zenon DEF Relaid
<1> QED BY <1>1, <1>4, <1>7, <1>10, <1>12, <1>14, <1>16, <1>23

\* The text of a line that was taken apart.
LEMMA TextIs ==
    ASSUME NEW line \in Seq(Lexeme), Split(line) # NoSplit,
           NEW i \in Nat, NEW c \in Nat, NEW e \in Nat, NEW p \in Nat, Parted(line, i, c, e, p),
           NEW q \in Nat, q <= Len(line), MessageOf(line) = From(line, q + 1),
           NEW v \in Lexeme, SeverityWord(SeverityOf(line)) = <<v>>
    PROVE  Relaid(line, e, q, v, TextOf(EmitLine(line)))
<1>1. PICK s : s = Split(line)
  OBVIOUS
<1>2. LocatorOf(line) = UpTo(line, e) /\ PathOf(UpTo(line, e)) = UpTo(line, p) /\ line[p + 1] = ":"
  BY DEF Parted
<1>3. e <= Len(line) /\ p < e
  <2>1. PICK n \in Nat : n = Len(line)
    OBVIOUS
  <2>2. i \in 1..(n - 1) /\ c \in 1..(i - 1) /\ e \in 1..(c - 1) /\ p \in 1..(e - 1)
    BY <2>1 DEF Parted
  <2> QED BY <2>1, <2>2
<1>4. Len(UpTo(line, p)) = p
  <2>1. p \in 0..Len(line)
    BY <1>3
  <2> QED BY <2>1, PartsOf
<1>5. /\ s.path = UpTo(line, p) /\ s.position = From(UpTo(line, e), p + 2)
      /\ s.severity = SeverityOf(line) /\ s.message = From(line, q + 1)
  <2>1. s = [path |-> PathOf(LocatorOf(line)),
             position |-> From(LocatorOf(line), Len(PathOf(LocatorOf(line))) + 2),
             severity |-> SeverityOf(line), message |-> MessageOf(line)]
    BY <1>1, SplitUnfolds, Zenon
  <2> QED BY <1>2, <1>4, <2>1
<1>6. EmitLine(line) =
          <<Run("FilePath", s.path), Run("Plain", <<":">>), Run("Number", s.position),
            Run("Plain", <<":", " ">>),
            Run(SeverityKind(s.severity), SeverityWord(s.severity)),
            Run("Plain", <<":", " ">>), Run("Plain", s.message)>>
  BY <1>1, Zenon DEF EmitLine
<1> DEFINE path == UpTo(line, p)
           position == From(UpTo(line, e), p + 2)
           message == From(line, q + 1)
<1>7. PICK runs : runs = EmitLine(line)
  OBVIOUS
<1>8. /\ Len(runs) = 7
      /\ runs[1].text = path /\ runs[2].text = <<":">> /\ runs[3].text = position
      /\ runs[4].text = <<":", " ">> /\ runs[5].text = <<v>> /\ runs[6].text = <<":", " ">>
      /\ runs[7].text = message
  <2>1. /\ Len(runs) = 7
        /\ runs[1].text = s.path /\ runs[2].text = <<":">> /\ runs[3].text = s.position
        /\ runs[4].text = <<":", " ">> /\ runs[5].text = SeverityWord(s.severity)
        /\ runs[6].text = <<":", " ">> /\ runs[7].text = s.message
    <3>1. \A k, t : Run(k, t).text = t
      BY DEF Run
    <3>2. \A a, b, x, d, y, g, h :
              /\ Len(<<a, b, x, d, y, g, h>>) = 7
              /\ <<a, b, x, d, y, g, h>>[1] = a /\ <<a, b, x, d, y, g, h>>[2] = b
              /\ <<a, b, x, d, y, g, h>>[3] = x /\ <<a, b, x, d, y, g, h>>[4] = d
              /\ <<a, b, x, d, y, g, h>>[5] = y /\ <<a, b, x, d, y, g, h>>[6] = g
              /\ <<a, b, x, d, y, g, h>>[7] = h
      OBVIOUS
    <3>3. PICK r1, r2, r3, r4, r5, r6, r7 :
              /\ r1 = Run("FilePath", s.path) /\ r2 = Run("Plain", <<":">>) /\ r3 = Run("Number", s.position)
              /\ r4 = Run("Plain", <<":", " ">>)
              /\ r5 = Run(SeverityKind(s.severity), SeverityWord(s.severity))
              /\ r6 = Run("Plain", <<":", " ">>) /\ r7 = Run("Plain", s.message)
      OBVIOUS
    <3>4. runs = <<r1, r2, r3, r4, r5, r6, r7>>
      BY <1>6, <1>7, <3>3, Zenon
    <3>5. /\ Len(runs) = 7 /\ runs[1] = r1 /\ runs[2] = r2 /\ runs[3] = r3 /\ runs[4] = r4
          /\ runs[5] = r5 /\ runs[6] = r6 /\ runs[7] = r7
      BY <3>2, <3>4
    <3>6. /\ r1.text = s.path /\ r2.text = <<":">> /\ r3.text = s.position /\ r4.text = <<":", " ">>
          /\ r5.text = SeverityWord(s.severity) /\ r6.text = <<":", " ">> /\ r7.text = s.message
      <4>1. r1.text = s.path /\ r2.text = <<":">> /\ r3.text = s.position
        BY <3>1, <3>3
      <4>2. r4.text = <<":", " ">> /\ r5.text = SeverityWord(s.severity)
        BY <3>1, <3>3
      <4>3. r6.text = <<":", " ">> /\ r7.text = s.message
        BY <3>1, <3>3
      <4> QED BY <4>1, <4>2, <4>3
    <3> QED BY <3>5, <3>6, Zenon
  <2> QED BY <1>5, <2>1
<1>9. /\ path \in Seq(Lexeme) /\ UpTo(line, e) \in Seq(Lexeme)
      /\ message \in Seq(Lexeme)
  <2>1. p \in 0..Len(line) /\ e \in 0..Len(line) /\ q \in 0..Len(line)
    BY <1>3
  <2> QED BY <2>1, PartsOf
<1>10. position \in Seq(Lexeme)
  <2>1. e \in 0..Len(line)
    BY <1>3
  <2>2. Len(UpTo(line, e)) = e
    BY <2>1, PartsOf
  <2>3. p + 1 \in 0..Len(UpTo(line, e)) /\ p + 2 = (p + 1) + 1
    BY <1>3, <2>2
  <2> QED BY <1>9, <2>3, PartsOf
<1>11. <<":">> \in Seq(Lexeme) /\ <<":", " ">> \in Seq(Lexeme) /\ <<v>> \in Seq(Lexeme) /\ ":" \in Lexeme
  <2>1. ":" \in Lexeme /\ " " \in Lexeme
    BY DEF Lexeme
  <2>2. \A a, b : a \in Lexeme /\ b \in Lexeme => <<a>> \in Seq(Lexeme) /\ <<a, b>> \in Seq(Lexeme)
    OBVIOUS
  <2> QED BY <2>1, <2>2, Zenon
<1> HIDE DEF path, position, message
<1>12. TextOf(runs) =
           (((((path \o <<":">>) \o position) \o <<":", " ">>) \o <<v>>) \o <<":", " ">>) \o message
  <2>1. \A n \in 1..7 : runs[n].text \in Seq(Lexeme)
    <3>1. \A n \in 1..7 : n = 1 \/ n = 2 \/ n = 3 \/ n = 4 \/ n = 5 \/ n = 6 \/ n = 7
      OBVIOUS
    <3> QED BY <1>8, <1>9, <1>10, <1>11, <3>1, Zenon
  <2>2. TextOf(runs) = Texts(runs[1], runs[2], runs[3], runs[4], runs[5], runs[6], runs[7])
    BY <1>8, <2>1, Seven, Zenon
  <2> QED BY <1>8, <2>2, Zenon DEF Texts
<1>13. (path \o <<":">>) \o position = UpTo(line, e)
  BY <1>2, <1>3, <1>11, PathAgain DEF path, position
<1> QED BY <1>3, <1>7, <1>12, <1>13, LaidOut, Zenon DEF message
-----------------------------------------------------------------------------
\* Where the words are in a line as it is printed.
NoWord(word) == word # ":" /\ word # " "

LEMMA PlacesAgain ==
    ASSUME NEW line \in Seq(Lexeme), NEW e \in Nat, NEW q \in Nat, e < Len(line), q <= Len(line),
           NEW v, NEW N, Relaid(line, e, q, v, N), Colon(line, e + 1),
           NEW word, NoWord(word), NEW j, Place(N, word, j)
    PROVE  \/ j <= e /\ Place(line, word, j)
           \/ j = e + 3 /\ word = v
           \/ j > e + 5 /\ \E l \in Nat : l > q /\ Place(line, word, l)
<1>1. PICK n \in Nat : n = Len(line)
  OBVIOUS
<1>2. Len(N) = (e + 5) + (n - q)
  BY <1>1 DEF Relaid
<1>3. j \in Nat /\ j >= 1 /\ j + 1 <= (e + 5) + (n - q)
  <2>1. j \in 1..(((e + 5) + (n - q)) - 1)
    BY <1>2 DEF Place
  <2> QED BY <1>1, <2>1
<1>4. N[j] = word /\ N[j + 1] = ":"
  BY DEF Place
<1>5. CASE j <= e
  <2>1. j \in 1..(n - 1)
    BY <1>1, <1>3, <1>5
  <2>2. line[j] = word
    <3>1. j \in 1..e
      BY <1>3, <1>5
    <3> QED BY <1>4, <3>1 DEF Relaid
  <2>3. line[j + 1] = ":"
    <3>1. CASE j < e
      <4>1. j + 1 \in 1..e
        BY <1>3, <3>1
      <4> QED BY <1>4, <4>1 DEF Relaid
    <3>2. CASE j = e
      BY <3>2 DEF Colon
    <3> QED BY <1>3, <1>5, <3>1, <3>2
  <2> QED BY <1>1, <1>5, <2>1, <2>2, <2>3, Zenon DEF Place
<1>6. CASE j = e + 1 \/ j = e + 2 \/ j = e + 4 \/ j = e + 5
  <2>1. N[j] = ":" \/ N[j] = " "
    BY <1>6, Zenon DEF Relaid
  <2> QED BY <1>4, <2>1, Zenon DEF NoWord
<1>7. CASE j = e + 3
  <2>1. N[j] = v
    BY <1>7, Zenon DEF Relaid
  <2> QED BY <1>4, <1>7, <2>1, Zenon
<1>8. CASE j > e + 5
  <2>1. PICK d \in Nat : d = j - (e + 5) /\ d >= 1
    BY <1>3, <1>8
  <2>2. /\ j = (e + 5) + d /\ j + 1 = (e + 5) + (d + 1)
        /\ d \in 1..(n - q) /\ d + 1 \in 1..(n - q)
    BY <1>1, <1>3, <2>1
  <2>3. \A x \in 1..(n - q) : N[(e + 5) + x] = line[q + x]
    BY <1>1 DEF Relaid
  <2>4. line[q + d] = word /\ line[q + (d + 1)] = ":"
    BY <1>4, <2>2, <2>3
  <2>5. PICK l \in Nat : l = q + d /\ l + 1 = q + (d + 1) /\ l > q /\ l \in 1..(n - 1)
    BY <1>1, <2>1, <2>2
  <2>6. Place(line, word, l)
    BY <1>1, <2>4, <2>5, Zenon DEF Place
  <2> QED BY <1>8, <2>5, <2>6
<1>9. j <= e \/ j = e + 1 \/ j = e + 2 \/ j = e + 3 \/ j = e + 4 \/ j = e + 5 \/ j > e + 5
  BY <1>3
<1> QED BY <1>5, <1>6, <1>7, <1>8, <1>9, Zenon

\* The places up to e are those of the line.
LEMMA PlacesKept ==
    ASSUME NEW line \in Seq(Lexeme), NEW e \in Nat, NEW q \in Nat, e < Len(line), q <= Len(line),
           NEW v, NEW N, Relaid(line, e, q, v, N),
           NEW word, NEW j, Place(line, word, j), j <= e
    PROVE  Place(N, word, j)
<1>1. PICK n \in Nat : n = Len(line)
  OBVIOUS
<1>2. Len(N) = (e + 5) + (n - q)
  BY <1>1 DEF Relaid
<1>3. j \in Nat /\ j >= 1
  <2>1. j \in 1..(n - 1)
    BY <1>1 DEF Place
  <2> QED BY <2>1
<1>4. line[j] = word /\ line[j + 1] = ":"
  BY DEF Place
<1>5. N[j] = word
  <2>1. j \in 1..e
    BY <1>3
  <2> QED BY <1>4, <2>1 DEF Relaid
<1>6. N[j + 1] = ":"
  <2>1. CASE j < e
    <3>1. j + 1 \in 1..e
      BY <1>3, <2>1
    <3> QED BY <1>4, <3>1 DEF Relaid
  <2>2. CASE j = e
    BY <2>2 DEF Relaid
  <2> QED BY <1>3, <2>1, <2>2
<1>7. j \in 1..(((e + 5) + (n - q)) - 1)
  BY <1>1, <1>3
<1> QED BY <1>2, <1>5, <1>6, <1>7, Zenon DEF Place

\* The word that a line is printed with: its own, or note for an info, which is
\* nowhere else in the line.
SameWord(line, k, m) ==
    /\ m \in 1..3
    /\ m = k \/ (m = 3 /\ k = 4 /\ Find(line, Words[m]) = 0)

\* The order of those places, and no word between the locator and the severity.
LEMMA InLine ==
    ASSUME NEW line \in Seq(Lexeme),
           NEW i \in Nat, NEW c \in Nat, NEW e \in Nat, NEW p \in Nat, Parted(line, i, c, e, p)
    PROVE  /\ i < Len(line) /\ i > 0 /\ c < i /\ e < c /\ e > 0 /\ p < e /\ p > 0
           /\ Colon(line, e + 1) /\ Colon(line, p + 1)
           /\ \A word, j : Place(line, word, j) /\ NoWord(word) /\ j < i => j <= e
<1>1. PICK n \in Nat : n = Len(line)
  OBVIOUS
<1>2. i \in 1..(n - 1) /\ c \in 1..(i - 1) /\ e \in 1..(c - 1) /\ p \in 1..(e - 1)
  BY <1>1 DEF Parted
<1>3. i < Len(line) /\ i > 0 /\ c < i /\ e < c /\ e > 0 /\ p < e /\ p > 0
  BY <1>1, <1>2
<1>4. Colon(line, e + 1) /\ Colon(line, p + 1)
  <2>1. e + 1 \in (e + 1)..c
    BY <1>3
  <2> QED BY <2>1 DEF Parted, Colon
<1>5. ASSUME NEW word, NEW j, Place(line, word, j), NoWord(word), j < i PROVE j <= e
  <2>1. j \in Nat /\ j >= 1
    <3>1. j \in 1..(n - 1)
      BY <1>1, <1>5 DEF Place
    <3> QED BY <3>1
  <2>2. line[j] # ":" /\ line[j + 1] = ":"
    BY <1>5 DEF Place, NoWord
  <2>3. ~(j > e /\ j <= c)
    <3>1. \A x \in (e + 1)..c : line[x] = ":"
      BY DEF Parted
    <3>2. j > e /\ j <= c => j \in (e + 1)..c
      BY <2>1
    <3> QED BY <2>2, <3>1, <3>2, Zenon
  <2>4. ~(j > c)
    <3>1. \A x \in (c + 1)..i : line[x] # ":"
      BY DEF Parted
    <3>2. j > c => j + 1 \in (c + 1)..i
      BY <1>5, <2>1
    <3> QED BY <2>2, <3>1, <3>2, Zenon
  <2> QED BY <2>1, <2>3, <2>4
<1> QED BY <1>3, <1>4, <1>5

NotBefore(line, word, i) == \A j \in Nat : Place(line, word, j) => i <= j

\* The word of a line is nowhere before it, nor the one it is printed with.
LEMMA NowhereBefore ==
    ASSUME NEW line \in Seq(Lexeme), NEW k \in 1..4, NEW m, SameWord(line, k, m)
    PROVE  NotBefore(line, Words[m], Find(line, Words[k]))
<1>1. PICK v, w : v = Words[m] /\ w = Words[k]
  OBVIOUS
<1>2. SUFFICES ASSUME NEW j \in Nat, Place(line, v, j) PROVE Find(line, w) <= j
  BY <1>1 DEF NotBefore
<1>3. CASE m = k
  <2>1. Find(line, v) > 0
    BY <1>2, FindIs
  <2> QED BY <1>1, <1>2, <1>3, <2>1, FindIs
<1>4. CASE Find(line, v) = 0
  BY <1>2, <1>4, FindIs
<1> QED BY <1>1, <1>3, <1>4 DEF SameWord

\* It is found where it was printed.
LEMMA FoundAgain ==
    ASSUME NEW line \in Seq(Lexeme),
           NEW i \in Nat, NEW c \in Nat, NEW e \in Nat, NEW p \in Nat, Parted(line, i, c, e, p),
           NEW q \in Nat, q > i, q <= Len(line),
           NEW v, NoWord(v), NotBefore(line, v, i),
           NEW N, Relaid(line, e, q, v, N)
    PROVE  Find(N, v) = e + 3
<1>3. N \in Seq(Lexeme)
  BY DEF Relaid
<1>4. Place(N, v, e + 3)
  <2>1. e + 3 \in 1..(Len(N) - 1)
    <3>1. Len(N) = (e + 5) + (Len(line) - q)
      BY DEF Relaid
    <3>2. Len(line) - q \in Nat
      OBVIOUS
    <3> QED BY <3>1, <3>2
  <2>2. N[e + 3] = v /\ N[(e + 3) + 1] = ":"
    <3>1. (e + 3) + 1 = e + 4
      OBVIOUS
    <3> QED BY <3>1 DEF Relaid
  <2> QED BY <2>1, <2>2 DEF Place
<1>5. ASSUME NEW j \in 1..((e + 3) - 1), Place(N, v, j) PROVE FALSE
  <2>1. e < Len(line) /\ e < i /\ Colon(line, e + 1)
    BY InLine
  <2>2. j <= e /\ Place(line, v, j)
    <3>1. \/ j <= e /\ Place(line, v, j)
          \/ j = e + 3
          \/ j > e + 5
      BY <1>5, <2>1, PlacesAgain
    <3> QED BY <3>1
  <2>3. i <= j
    BY <2>2 DEF NotBefore
  <2> QED BY <2>1, <2>2, <2>3
<1> QED BY <1>3, <1>4, <1>5, FindsFirst

\* Up to e, both lines have the same.
LEMMA SameColons ==
    ASSUME NEW line \in Seq(Lexeme), NEW e \in Nat, NEW q \in Nat, e <= Len(line), q <= Len(line),
           NEW v, NEW N, Relaid(line, e, q, v, N), NEW g \in Nat, g <= e
    PROVE  UpTo(N, g) = UpTo(line, g)
<1>1. N \in Seq(Lexeme) /\ Len(N) = (e + 5) + (Len(line) - q) /\ \A j \in 1..e : N[j] = line[j]
  BY DEF Relaid
<1>2. g \in 0..Len(N) /\ g \in 0..Len(line) /\ \A j \in 1..g : j \in 1..e
  BY <1>1
<1>3. UpTo(N, g) \in Seq(Lexeme) /\ Len(UpTo(N, g)) = g /\ \A j \in 1..g : UpTo(N, g)[j] = N[j]
  BY <1>1, <1>2, PartsOf
<1>4. UpTo(line, g) \in Seq(Lexeme) /\ Len(UpTo(line, g)) = g /\ \A j \in 1..g : UpTo(line, g)[j] = line[j]
  BY <1>2, PartsOf
<1>5. \A j \in 1..g : UpTo(N, g)[j] = UpTo(line, g)[j]
  BY <1>1, <1>2, <1>3, <1>4
<1> QED BY <1>3, <1>4, <1>5, SeqEqual

\* No word that is looked for before it is found in a place that is located.
LEMMA NoneBefore ==
    ASSUME NEW line \in Seq(Lexeme),
           NEW i \in Nat, NEW c \in Nat, NEW e \in Nat, NEW p \in Nat, Parted(line, i, c, e, p),
           NEW q \in Nat, q > i, q <= Len(line),
           Colons(UpTo(line, i)) >= 2,
           NEW v, NEW N, Relaid(line, e, q, v, N),
           NEW w, NoWord(w), w # v, ~Located(line, Find(line, w)), Find(line, w) # i
    PROVE  ~Located(N, Find(N, w))
<1>1. e < Len(line) /\ e < i /\ e <= Len(line) /\ i < Len(line) /\ Colon(line, e + 1)
  BY InLine
<1>2. PICK g \in Nat : g = Find(N, w)
  <2>1. N \in Seq(Lexeme)
    BY DEF Relaid
  <2> QED BY <2>1, FindIs
<1>3. PICK h \in Nat : h = Find(line, w)
  BY FindIs
<1>4. SUFFICES ASSUME g > 0 PROVE ~Located(N, g)
  BY <1>2 DEF Located
<1>5. Place(N, w, g) /\ \A j : Place(N, w, j) => g <= j
  <2>1. N \in Seq(Lexeme)
    BY DEF Relaid
  <2> QED BY <1>2, <1>4, <2>1, FindIs
<1>6. ASSUME NEW j \in Nat, Place(line, w, j)
      PROVE  /\ h > 0 /\ h <= j /\ h <= Len(line) /\ Place(line, w, h)
             /\ Colons(UpTo(line, h)) \in Nat /\ Colons(UpTo(line, h)) < 2
  <2>1. h > 0
    <3> SUFFICES ASSUME h = 0 PROVE FALSE
      OBVIOUS
    <3> QED BY <1>3, <1>6, FindIs
  <2>2. Place(line, w, h) /\ h <= j
    BY <1>3, <1>6, <2>1, FindIs
  <2>3. h <= Len(line)
    BY <2>2 DEF Place
  <2>4. ~(Colons(UpTo(line, h)) >= 2)
    BY <1>3, <2>1 DEF Located
  <2>5. Colons(UpTo(line, h)) \in Nat
    <3>1. h \in 0..Len(line)
      BY <2>3
    <3> QED BY <3>1, ColonsUpTo
  <2> QED BY <2>1, <2>2, <2>3, <2>4, <2>5
<1>7. \/ g <= e /\ Place(line, w, g)
      \/ g > e + 5 /\ \E l \in Nat : l > q /\ Place(line, w, l)
  BY <1>1, <1>5, PlacesAgain
<1>8. CASE g <= e /\ Place(line, w, g)
  <2>1. h > 0 /\ h <= g /\ Place(line, w, h) /\ Colons(UpTo(line, h)) \in Nat /\ Colons(UpTo(line, h)) < 2
    BY <1>6, <1>8
  <2>2. Place(N, w, h)
    <3>1. h <= e
      BY <1>8, <2>1
    <3> QED BY <1>1, <2>1, <3>1, PlacesKept
  <2>3. h = g
    BY <1>5, <2>1, <2>2
  <2>4. UpTo(N, g) = UpTo(line, g)
    BY <1>1, <1>8, SameColons
  <2> QED BY <2>1, <2>3, <2>4 DEF Located
<1>9. CASE g > e + 5 /\ \E l \in Nat : l > q /\ Place(line, w, l)
  <2>1. PICK l \in Nat : Place(line, w, l)
    BY <1>9
  <2>2. /\ h > 0 /\ Place(line, w, h) /\ Colons(UpTo(line, h)) \in Nat /\ Colons(UpTo(line, h)) < 2
        /\ h <= Len(line)
    BY <1>6, <2>1
  <2>3. ~(i <= h)
    <3> SUFFICES ASSUME i <= h PROVE FALSE
      OBVIOUS
    <3>1. i \in 0..Len(line) /\ h \in 0..Len(line)
      BY <1>1, <2>2
    <3>2. Colons(UpTo(line, i)) <= Colons(UpTo(line, h)) /\ Colons(UpTo(line, i)) \in Nat
      <4>1. Colons(UpTo(line, i)) <= Colons(UpTo(line, h))
        BY <3>1, ColonsGrow, Zenon
      <4>2. Colons(UpTo(line, i)) \in Nat
        BY <3>1, ColonsUpTo, Zenon
      <4> QED BY <4>1, <4>2
    <3> QED BY <2>2, <3>2
  <2>4. h <= e
    <3>1. h < i
      BY <2>3
    <3>2. \A word, j : Place(line, word, j) /\ NoWord(word) /\ j < i => j <= e
      BY InLine, Zenon
    <3> QED BY <2>2, <3>1, <3>2, Zenon
  <2>5. Place(N, w, h)
    BY <1>1, <2>2, <2>4, PlacesKept
  <2> QED BY <1>5, <1>9, <2>4, <2>5
<1> QED BY <1>7, <1>8, <1>9

FoundAt(line, k, i) == Taking(line, k) /\ Find(line, Words[k]) = i

\* Where the severity of a line is found that was printed.
FoundBehind(N, e) == FindSeverity(N) = e + 3

\* A line that was taken apart and printed.
PrintedAs(line, i, c, e, p, q, k, m, N) ==
    /\ Parted(line, i, c, e, p) /\ FoundAt(line, k, i) /\ SameWord(line, k, m)
    /\ q > i /\ q <= Len(line) /\ Relaid(line, e, q, Words[m], N)

\* Its word is the one that find_severity takes.
LEMMA SeverityAgain ==
    ASSUME NEW line \in Seq(Lexeme),
           NEW i \in Nat, NEW c \in Nat, NEW e \in Nat, NEW p \in Nat, NEW q \in Nat,
           NEW k \in 1..4, NEW m \in 1..3, NEW N, PrintedAs(line, i, c, e, p, q, k, m, N)
    PROVE  FoundBehind(N, e)
<1>0. /\ Parted(line, i, c, e, p) /\ FoundAt(line, k, i) /\ SameWord(line, k, m)
      /\ q > i /\ q <= Len(line) /\ Relaid(line, e, q, Words[m], N)
  BY DEF PrintedAs
<1>1. e <= Len(line) /\ e < i /\ p < e /\ p > 0 /\ Colon(line, p + 1)
  BY <1>0, InLine
<1>2. m \in 1..4 /\ m <= k
  BY <1>0 DEF SameWord
<1>7. PICK v : v = Words[m]
  OBVIOUS
<1>3. Find(N, v) = e + 3
  <2>1. NoWord(v)
    BY <1>2, <1>7, WordsAre DEF NoWord
  <2>2. NotBefore(line, v, i)
    BY <1>0, <1>7, NowhereBefore, Zenon DEF FoundAt
  <2>3. Relaid(line, e, q, v, N)
    BY <1>0, <1>7
  <2> QED BY <1>0, <2>1, <2>2, <2>3, FoundAgain
<1>4. Colons(UpTo(N, e + 3)) >= 2
  <2>1. N \in Seq(Lexeme) /\ N[e + 1] = ":" /\ \A j \in 1..e : N[j] = line[j]
    BY <1>0 DEF Relaid
  <2>2. e + 3 \in 0..Len(N)
    <3>1. Len(N) = (e + 5) + (Len(line) - q)
      BY <1>0 DEF Relaid
    <3>2. Len(line) - q \in Nat
      BY <1>0
    <3> QED BY <3>1, <3>2
  <2>3. p + 1 \in 1..(e + 3) /\ e + 1 \in 1..(e + 3) /\ p + 1 # e + 1 /\ p + 1 \in 1..e
    BY <1>1
  <2>4. N[p + 1] = ":"
    BY <1>1, <2>1, <2>3 DEF Colon
  <2> QED BY <2>1, <2>2, <2>3, <2>4, TwoColons
<1>5. Located(N, Find(N, Words[m]))
  BY <1>3, <1>4, <1>7 DEF Located
<1>6. ASSUME NEW o \in 1..(m - 1) PROVE ~Located(N, Find(N, Words[o]))
  <2>1. o \in 1..4 /\ o \in 1..(k - 1) /\ o # m /\ o # k
    BY <1>2
  <2>2. NoWord(Words[o]) /\ Words[o] # Words[m] /\ Words[o] # Words[k]
    BY <1>2, <2>1, WordsAre DEF NoWord
  <2>3. ~Located(line, Find(line, Words[o]))
    BY <1>0, <2>1 DEF FoundAt, Taking
  <2>4. Colons(UpTo(line, i)) >= 2
    BY <1>0 DEF FoundAt, Taking, Located
  <2>5. Find(line, Words[o]) # i
    <3> SUFFICES ASSUME Find(line, Words[o]) = i PROVE FALSE
      OBVIOUS
    <3>1. i > 0
      BY <1>1
    <3>2. Place(line, Words[o], i) /\ Place(line, Words[k], i)
      BY <1>0, <3>1, FindIs DEF FoundAt
    <3> QED BY <2>2, <3>2 DEF Place
  <2> QED BY <1>0, <2>2, <2>3, <2>4, <2>5, NoneBefore
<1>8. Taking(N, m)
  BY <1>2, <1>5, <1>6 DEF Taking
<1> QED BY <1>2, <1>3, <1>7, <1>8, FindSeverityIs DEF FoundBehind

\* What was trimmed is not trimmed further.
LEMMA NothingToTrim ==
    ASSUME NEW s \in Seq(Lexeme), NEW e, EndsIn(s, e), NoColon(e)
    PROVE  TrimEndOf(s, NoColon) = s
<1>1. PICK d \in 0..Len(s) : TrimEndOf(s, NoColon) = UpTo(s, d) /\ \A j \in (d + 1)..Len(s) : s[j] = ":"
  BY TrimEndIs
<1>2. d = Len(s)
  <2> SUFFICES ASSUME d # Len(s) PROVE FALSE
    OBVIOUS
  <2>1. Len(s) \in (d + 1)..Len(s)
    OBVIOUS
  <2> QED BY <1>1, <2>1, Zenon DEF EndsIn, NoColon
<1>3. UpTo(s, d) = s
  <2>1. Len(s) \in Nat /\ d \in 0..Len(s)
    OBVIOUS
  <2>2. UpTo(s, d) \in Seq(Lexeme) /\ Len(UpTo(s, d)) = d /\ \A j \in 1..d : UpTo(s, d)[j] = s[j]
    BY <2>1, PartsOf
  <2> QED BY <1>2, <2>2, SeqEqual
<1> QED BY <1>1, <1>3

\* Then the locator is the same, and the severity that of the word printed.
LEMMA LocatorAgain ==
    ASSUME NEW line \in Seq(Lexeme),
           NEW i \in Nat, NEW c \in Nat, NEW e \in Nat, NEW p \in Nat, Parted(line, i, c, e, p),
           NEW q \in Nat, q > i, q <= Len(line),
           NEW v \in Lexeme, NoWord(v),
           NEW N, Relaid(line, e, q, v, N), FindSeverity(N) = e + 3
    PROVE  LocatorOf(N) = LocatorOf(line) /\ SeverityOf(N) = ParseSeverity(<<v>>)
<1>1. e <= Len(line) /\ e < i /\ e > 0
  BY InLine
<1>2. N \in Seq(Lexeme)
  BY DEF Relaid
<1>3. e + 3 <= Len(N) /\ e + 3 > 0 /\ e + 3 \in Nat /\ e + 1 < e + 3 /\ e + 1 > 0 /\ e + 1 \in Nat
  <2>1. Len(N) = (e + 5) + (Len(line) - q)
    BY DEF Relaid
  <2>2. Len(line) - q \in Nat
    OBVIOUS
  <2> QED BY <2>1, <2>2
<1>4. LastColonAt(N, e + 3, e + 1)
  <2>1. N[e + 1] = ":" /\ N[e + 2] # ":" /\ N[e + 3] # ":"
    BY DEF Relaid, NoWord
  <2>2. \A j \in ((e + 1) + 1)..(e + 3) : j = e + 2 \/ j = e + 3
    OBVIOUS
  <2> QED BY <2>1, <2>2, Zenon DEF LastColonAt
<1>5. PICK n, b : n = e + 3 /\ b = e + 1
  OBVIOUS
<1>6. PICK f : f = LastField(HeadOf(N))
  OBVIOUS
<1>7. /\ Before(HeadOf(N)) = UpTo(N, b - 1)
      /\ f \in Seq(Lexeme) /\ Len(f) = n - b
      /\ \A j \in 1..(n - b) : f[j] = N[b + j]
  <2>1. /\ n \in Nat /\ b \in Nat /\ FindSeverity(N) = n /\ n <= Len(N) /\ n > 0 /\ b < n /\ b > 0
        /\ LastColonAt(N, n, b)
    BY <1>3, <1>4, <1>5
  <2>2. Before(HeadOf(N)) = UpTo(N, b - 1) /\ IsRest(Lexeme, N, b, n - b, f)
    BY <1>2, <1>6, <2>1, HeadEnds, Zenon
  <2> QED BY <2>2 DEF IsRest
<1>8. b - 1 = e /\ n - b = 2 /\ b + 1 = e + 2 /\ b + 2 = e + 3 /\ 1 \in 1..2 /\ 2 \in 1..2
  BY <1>5
<1>9. LocatorOf(N) = UpTo(line, e)
  <2>1. Before(HeadOf(N)) = UpTo(line, e)
    <3>1. UpTo(N, e) = UpTo(line, e)
      BY <1>1, SameColons
    <3> QED BY <1>7, <1>8, <3>1
  <2>2. PICK u : u = UpTo(line, e)
    OBVIOUS
  <2>3. u \in Seq(Lexeme) /\ Len(u) = e /\ u[e] = line[e]
    <3>1. e \in 0..Len(line) /\ e \in 1..e
      BY <1>1
    <3> QED BY <2>2, <3>1, PartsOf
  <2>4. EndsIn(u, line[e])
    <3>1. e # 0
      BY <1>1
    <3> QED BY <2>3, <3>1, Zenon DEF EndsIn
  <2>5. NoColon(line[e])
    BY DEF Parted, NoColon
  <2> QED BY <2>1, <2>2, <2>3, <2>4, <2>5, NothingToTrim DEF LocatorOf
<1>10. f[1] = " " /\ f[2] = v
  <2>1. f[1] = N[e + 2] /\ f[2] = N[e + 3]
    BY <1>7, <1>8
  <2> QED BY <2>1, Zenon DEF Relaid
<1>17. Len(f) = 2 /\ 2 # 0
  BY <1>7, <1>8
<1>11. EndsIn(f, v) /\ NoSpace(v)
  <2>2. EndsIn(f, v)
    BY <1>10, <1>17, Zenon DEF EndsIn
  <2>3. NoSpace(v)
    BY DEF NoSpace, IsBlank, NoWord
  <2> QED BY <2>2, <2>3
<1>12. PICK d \in 0..(Len(f) - 1) : Trim(f) = From(f, d + 1) /\ f[d + 1] # " "
  BY <1>7, <1>11, TrimIs
<1>13. d = 1
  <2>1. d = 0 \/ d = 1
    BY <1>17
  <2>2. d = 0 => d + 1 = 1
    OBVIOUS
  <2> QED BY <1>10, <1>12, <2>1, <2>2, Zenon
<1>14. From(f, 2) = <<v>>
  <2>1. 1 + 1 = Len(f) /\ 1 + 1 = 2 /\ 1 \in Nat /\ 1 \in 1..1
    BY <1>17
  <2>2. From(f, 2) \in Seq(Lexeme) /\ Len(From(f, 2)) = 1 /\ From(f, 2)[1] = f[2]
    <3>1. From(f, 1 + 1) \in Seq(Lexeme) /\ Len(From(f, 1 + 1)) = 1
          /\ \A j \in 1..1 : From(f, 1 + 1)[j] = f[1 + j]
      <4>1. IsRest(Lexeme, f, 1, 1, From(f, 1 + 1))
        BY <1>7, <2>1, RestIs, Zenon
      <4> QED BY <4>1 DEF IsRest
    <3> QED BY <2>1, <3>1
  <2>3. PICK w : w = From(f, 2)
    OBVIOUS
  <2>4. w \in Seq(Lexeme) /\ Len(w) = 1 /\ w[1] = v
    BY <1>10, <2>2, <2>3, Zenon
  <2>5. w = <<v>>
    BY <2>4
  <2> QED BY <2>3, <2>5
<1>15. SeverityOf(N) = ParseSeverity(<<v>>)
  <2>1. Trim(f) = <<v>>
    <3>1. d + 1 = 2
      BY <1>13
    <3> QED BY <1>12, <1>14, <3>1
  <2> QED BY <1>6, <2>1 DEF SeverityOf
<1>16. LocatorOf(line) = UpTo(line, e)
  BY DEF Parted
<1> QED BY <1>9, <1>15, <1>16

\* So is the message: the space printed before it is trimmed, and no other.
LEMMA MessageAgain ==
    ASSUME NEW line \in Seq(Lexeme), NEW e \in Nat, NEW q \in Nat, q <= Len(line),
           q < Len(line) => NoSpace(line[q + 1]),
           NEW v, NEW N, Relaid(line, e, q, v, N), FindSeverity(N) = e + 3
    PROVE  MessageOf(N) = From(line, q + 1)
<1>1. PICK l \in Nat : l = Len(line) - q
  OBVIOUS
<1>0. N \in Seq(Lexeme)
  BY DEF Relaid
<1>2. N[e + 5] = " " /\ \A j \in 1..l : N[(e + 5) + j] = line[q + j]
  BY <1>1 DEF Relaid
<1>3. Len(N) = (e + 5) + l
  BY <1>1 DEF Relaid
<1>4. PICK s : s = From(N, (e + 4) + 1)
  OBVIOUS
<1>5. s \in Seq(Lexeme) /\ Len(s) = l + 1 /\ \A j \in 1..(l + 1) : s[j] = N[(e + 4) + j]
  <2>1. e + 4 \in Nat /\ l + 1 \in Nat /\ (e + 4) + (l + 1) = Len(N)
    BY <1>3
  <2>2. IsRest(Lexeme, N, e + 4, l + 1, s)
    BY <1>0, <1>4, <2>1, RestIs, Zenon
  <2> QED BY <2>2 DEF IsRest
<1>6. s[1] = " " /\ \A j \in 1..l : s[1 + j] = line[q + j]
  <2>1. 1 \in 1..(l + 1) /\ (e + 4) + 1 = e + 5
    OBVIOUS
  <2>2. \A j \in 1..l : 1 + j \in 1..(l + 1) /\ (e + 4) + (1 + j) = (e + 5) + j
    OBVIOUS
  <2> QED BY <1>2, <1>5, <2>1, <2>2
<1>7. MessageOf(N) = TrimStart(s)
  <2>1. (e + 3) + 2 = (e + 4) + 1
    OBVIOUS
  <2> QED BY <1>4, <2>1, Zenon DEF MessageOf
<1>8. PICK b \in 0..Len(s) : /\ TrimStart(s) = From(s, b + 1)
                             /\ \A j \in 1..b : s[j] = " "
                             /\ b < Len(s) => s[b + 1] # " "
  BY <1>5, TrimStartIs
<1>9. b = 1
  <2>1. b \in 0..(l + 1)
    BY <1>5
  <2>2. b # 0
    <3> SUFFICES ASSUME b = 0 PROVE FALSE
      OBVIOUS
    <3>1. b < Len(s) /\ b + 1 = 1
      BY <1>5
    <3> QED BY <1>6, <1>8, <3>1
  <2>3. ~(b > 1)
    <3> SUFFICES ASSUME b > 1 PROVE FALSE
      OBVIOUS
    <3>1. 2 \in 1..b /\ 1 \in 1..l /\ 1 + 1 = 2
      BY <2>1
    <3>2. s[2] = " " /\ s[2] = line[q + 1]
      BY <1>6, <1>8, <3>1
    <3>3. q < Len(line)
      BY <1>1, <3>1
    <3> QED BY <3>2, <3>3 DEF NoSpace, IsBlank
  <2> QED BY <2>1, <2>2, <2>3
<1>10. From(s, 1 + 1) = From(line, q + 1)
  <2>1. 1 \in Nat /\ 1 + l = Len(s) /\ q + l = Len(line)
    BY <1>1, <1>5
  <2>2. PICK x, y : x = From(s, 1 + 1) /\ y = From(line, q + 1)
    OBVIOUS
  <2>3. x \in Seq(Lexeme) /\ Len(x) = l /\ \A j \in 1..l : x[j] = s[1 + j]
    <3>1. IsRest(Lexeme, s, 1, l, x)
      BY <1>5, <2>1, <2>2, RestIs, Zenon
    <3> QED BY <3>1 DEF IsRest
  <2>4. y \in Seq(Lexeme) /\ Len(y) = l /\ \A j \in 1..l : y[j] = line[q + j]
    <3>1. IsRest(Lexeme, line, q, l, y)
      BY <2>1, <2>2, RestIs, Zenon
    <3> QED BY <3>1 DEF IsRest
  <2>5. \A j \in 1..l : x[j] = y[j]
    BY <1>6, <2>3, <2>4
  <2>6. x = y
    BY <2>3, <2>4, <2>5, SeqEqual
  <2> QED BY <2>2, <2>6
<1> QED BY <1>7, <1>8, <1>9, <1>10

\* A line that cannot be taken apart is printed as it came.
LEMMA PrintedAsItCame ==
    ASSUME NEW line \in Seq(Lexeme), Split(line) = NoSplit
    PROVE  TextOf(EmitLine(line)) = line
<1>1. CASE Split(line) = NoSplit
  <2>1. PICK runs : runs = EmitLine(line)
    OBVIOUS
  <2>2. PICK kind : kind = IF Caret(line) THEN "InstructionOffset" ELSE "Plain"
    OBVIOUS
  <2>3. runs = <<Run(kind, line)>>
    BY <1>1, <2>1, <2>2, Zenon DEF EmitLine, Unsplit
  <2>4. Len(runs) = 1 /\ runs[1].text = line
    BY <2>3 DEF Run
  <2>5. PICK s : s = [n \in 1..1 |-> runs[n].text]
    OBVIOUS
  <2>6. s \in Seq(Seq(Lexeme)) /\ Len(s) = 1 /\ s[1] = line /\ 1 \in 1..1
    BY <2>4, <2>5
  <2>7. Flat(s)[1] = line
    BY <2>6, FlatGrows
  <2>8. FlattenSeq(s) = Flat(s)[1]
    BY <2>6 DEF FlattenSeq, Flat
  <2>9. TextOf(runs) = line
    BY <2>4, <2>5, <2>7, <2>8 DEF TextOf
  <2> QED BY <2>1, <2>9
<1> QED BY <1>1

\* A line that was not renamed is taken apart again into the same parts.
LEMMA ReadsTheSame ==
    ASSUME NEW line \in Seq(Lexeme), ~Renamed(line)
    PROVE  Split(TextOf(EmitLine(line))) = Split(line)
<1>1. CASE Split(line) = NoSplit
  <2>1. TextOf(EmitLine(line)) = line
    BY <1>1, PrintedAsItCame
  <2> QED BY <2>1
<1>2. CASE Split(line) # NoSplit
  <2>1. PICK i, c, e, p \in Nat : Parted(line, i, c, e, p)
    BY <1>2, SplitParts
  <2>2. FindSeverity(line) = i /\ i > 0 /\ i < Len(line)
    BY <2>1, InLine DEF Parted
  <2>3. PICK k \in 1..4 : Taking(line, k) /\ Find(line, Words[k]) = i
    <3>1. FindSeverity(line) # 0
      BY <2>2
    <3> QED BY <2>2, <3>1, FindSeverityIs
  <2>4. line[i] = Words[k]
    BY <2>3, FoundIs, Zenon
  <2>5. SeverityOf(line) # None
    BY <1>2, SplitUnfolds, Zenon
  <2>6. PICK m \in 1..3 : /\ SeverityWord(SeverityOf(line)) = <<Words[m]>>
                          /\ ParseSeverity(<<Words[m]>>) = SeverityOf(line)
                          /\ m = k \/ (m = 3 /\ k = 4)
    BY <2>1, <2>4, <2>5, SaidAgain
  <2>7. SameWord(line, k, m)
    <3>1. ASSUME m = 3, k = 4 PROVE Find(line, Words[m]) = 0
      <4>1. line[FindSeverity(line)] = "info" /\ Words[m] = "note"
        BY <2>2, <2>4, <3>1, WordsAre
      <4>2. FindSeverity(line) > 0
        BY <2>2
      <4>3. ~(Find(line, "note") > 0)
        BY <4>1, <4>2, Zenon DEF Renamed
      <4>4. Find(line, Words[m]) \in Nat /\ ~(Find(line, Words[m]) > 0)
        BY <4>1, <4>3, FindIs
      <4> QED BY <4>4
    <3> QED BY <2>6, <3>1, Zenon DEF SameWord
  <2>8. PICK q \in Nat : /\ q > i /\ q <= Len(line)
                         /\ MessageOf(line) = From(line, q + 1)
                         /\ q < Len(line) => NoSpace(line[q + 1])
    BY <2>2, MessageIs
  <2>9. PICK v : v = Words[m]
    OBVIOUS
  <2>10. v \in Lexeme /\ NoWord(v)
    <3>1. m \in 1..4
      OBVIOUS
    <3> QED BY <2>9, <3>1, WordsAre DEF NoWord
  <2>11. PICK N : N = TextOf(EmitLine(line))
    OBVIOUS
  <2>12. Relaid(line, e, q, v, N)
    <3>1. SeverityWord(SeverityOf(line)) = <<v>>
      BY <2>6, <2>9
    <3> QED BY <1>2, <2>1, <2>8, <2>10, <2>11, <3>1, TextIs
  <2>13. FindSeverity(N) = e + 3
    <3>1. Relaid(line, e, q, Words[m], N)
      BY <2>9, <2>12
    <3>2. FoundAt(line, k, i)
      BY <2>3 DEF FoundAt
    <3>3. q > i /\ q <= Len(line)
      BY <2>8
    <3>4. PrintedAs(line, i, c, e, p, q, k, m, N)
      BY <2>1, <2>7, <3>1, <3>2, <3>3, Zenon DEF PrintedAs
    <3>5. FoundBehind(N, e)
      BY <3>4, SeverityAgain, Zenon
    <3> QED BY <3>5 DEF FoundBehind
  <2>14. LocatorOf(N) = LocatorOf(line) /\ SeverityOf(N) = SeverityOf(line)
    <3>1. LocatorOf(N) = LocatorOf(line) /\ SeverityOf(N) = ParseSeverity(<<v>>)
      BY <2>1, <2>8, <2>10, <2>12, <2>13, LocatorAgain
    <3> QED BY <2>6, <2>9, <3>1
  <2>15. MessageOf(N) = MessageOf(line)
    <3>1. MessageOf(N) = From(line, q + 1)
      BY <2>8, <2>12, <2>13, MessageAgain
    <3> QED BY <2>8, <3>1
  <2>16. FindSeverity(N) # 0 /\ FindSeverity(line) # 0
    BY <2>2, <2>13
  <2>17. Split(N) = Split(line)
    BY <2>14, <2>15, <2>16, SplitUnfolds, Zenon
  <2> QED BY <2>11, <2>17
<1> QED BY <1>1, <1>2
-----------------------------------------------------------------------------
\* Which severities the first n lines have, and the worst of them.
SaysAt(lines, n, severity) == Split(lines[n]) # NoSplit /\ Split(lines[n]).severity = severity
Says(lines, n, severity) == \E j \in 1..n : SaysAt(lines, j, severity)
WorstOf(lines, n) ==
    IF Says(lines, n, "Error") THEN "Error" ELSE IF Says(lines, n, "Warning") THEN "Warning" ELSE "Note"

\* The fold keeps the worst severity.
LEMMA WorstIs ==
    ASSUME NEW lines \in Seq(Seq(Lexeme))
    PROVE  Worst(lines) = WorstOf(lines, Len(lines))
<1>1. PICK m \in Nat : m = Len(lines)
  OBVIOUS
<1> DEFINE Bad(n) == Split(lines[n]) # NoSplit
           Sev(n) == Split(lines[n]).severity
           Step == [n \in Nat |-> [x \in Severity |-> IF Bad(n) THEN Worse(Sev(n), x) ELSE x]]
           Equation(f) == f = [n \in 0..m |-> IF n = 0 THEN "Note"
                                              ELSE IF Split(lines[n]) = NoSplit THEN f[n - 1]
                                              ELSE Worse(Split(lines[n]).severity, f[n - 1])]
           worst == CHOOSE f : Equation(f)
<1>2. "Note" \in Severity /\ \A x, y : Worse(x, y) \in Severity
  BY DEF Severity, Worse
<1>3. Step \in [Nat -> [Severity -> Severity]]
  BY <1>2
<1>4. PICK g \in [0..m -> Severity] : Follows(g, "Note", Step, m)
  <2> HIDE DEF Step
  <2> QED BY <1>2, <1>3, Recursion
<1>5. \A n \in 1..m : g[n] = IF Bad(n) THEN Worse(Sev(n), g[n - 1]) ELSE g[n - 1]
  <2> TAKE n \in 1..m
  <2>1. n \in Nat /\ n - 1 \in 0..m
    OBVIOUS
  <2>2. g[n] = Step[n][g[n - 1]] /\ g[n - 1] \in Severity
    BY <1>4, <2>1 DEF Follows
  <2> HIDE DEF Bad, Sev
  <2> QED BY <2>1, <2>2
<1>6. g[0] = "Note"
  BY <1>4 DEF Follows
<1>7. Equation(g)
  <2>1. \A n \in 0..m : g[n] = IF n = 0 THEN "Note" ELSE IF Split(lines[n]) = NoSplit THEN g[n - 1]
                                ELSE Worse(Split(lines[n]).severity, g[n - 1])
    <3> TAKE n \in 0..m
    <3>1. n = 0 \/ n \in 1..m
      OBVIOUS
    <3> QED BY <1>5, <1>6, <3>1, Zenon
  <2> QED BY <2>1
<1>8. Equation(worst)
  <2> HIDE DEF Equation
  <2> QED BY <1>7
<1>9. Worst(lines) = worst[m]
  BY <1>1 DEF Worst
<1> HIDE DEF worst
<1>10. /\ worst[0] = "Note"
       /\ \A n \in 1..m : worst[n] = IF Bad(n) THEN Worse(Sev(n), worst[n - 1]) ELSE worst[n - 1]
  BY <1>8
<1> DEFINE T == {n \in Nat : n <= m => worst[n] = WorstOf(lines, n)}
<1>11. 0 \in T
  <2>1. ~Says(lines, 0, "Error") /\ ~Says(lines, 0, "Warning")
    BY DEF Says
  <2> QED BY <1>10, <2>1 DEF WorstOf
<1>12. ASSUME NEW n \in Nat, n \in T PROVE n + 1 \in T
  <2>1. SUFFICES ASSUME n + 1 <= m PROVE worst[n + 1] = WorstOf(lines, n + 1)
    OBVIOUS
  <2>2. worst[n] = WorstOf(lines, n)
    BY <1>12, <2>1
  <2>3. n + 1 \in 1..m /\ (n + 1) - 1 = n
    BY <2>1
  <2>4. worst[n + 1] = IF Bad(n + 1) THEN Worse(Sev(n + 1), worst[n]) ELSE worst[n]
    <3> HIDE DEF Bad, Sev
    <3> QED BY <1>10, <2>3
  <2>5. \A y : Says(lines, n + 1, y) <=> Says(lines, n, y) \/ SaysAt(lines, n + 1, y)
    <3>1. \A j : j \in 1..(n + 1) <=> j \in 1..n \/ j = n + 1
      OBVIOUS
    <3> QED BY <3>1, Zenon DEF Says
  <2>6. \A y : SaysAt(lines, n + 1, y) <=> Bad(n + 1) /\ Sev(n + 1) = y
    BY DEF SaysAt
  <2> HIDE DEF Bad, Sev, T
  <2> QED BY <2>2, <2>4, <2>5, <2>6 DEF WorstOf, Worse
<1>13. Nat \subseteq T
  <2>1. \A n \in Nat : n \in T => n + 1 \in T
    BY <1>12
  <2> HIDE DEF T
  <2> QED BY <1>11, <2>1, SetInduction
<1> QED BY <1>1, <1>9, <1>13

\* The severity of a line is one of the three.
LEMMA SplitSeverity ==
    ASSUME NEW line, Split(line) # NoSplit
    PROVE  Split(line).severity \in Severity
<1>1. SeverityOf(line) # None /\ Split(line).severity = SeverityOf(line)
  <2>1. Split(line) = [path |-> PathOf(LocatorOf(line)),
             position |-> From(LocatorOf(line), Len(PathOf(LocatorOf(line))) + 2),
             severity |-> SeverityOf(line), message |-> MessageOf(line)]
    BY SplitUnfolds, Zenon
  <2>2. SeverityOf(line) # None
    BY SplitUnfolds, Zenon
  <2> QED BY <2>1, <2>2
<1> QED BY <1>1 DEF SeverityOf, ParseSeverity, Severity

\* A line that was taken apart has seven runs, the fifth in the colour of its
\* severity.
LEMMA RunsOf ==
    ASSUME NEW line
    PROVE  /\ Len(EmitLine(line)) = 7 <=> Split(line) # NoSplit
           /\ Split(line) # NoSplit => EmitLine(line)[5].kind = SeverityKind(Split(line).severity)
<1>1. PICK s : s = Split(line)
  OBVIOUS
<1>2. CASE s = NoSplit
  <2>1. PICK kind : EmitLine(line) = <<Run(kind, line)>>
    BY <1>1, <1>2, Zenon DEF EmitLine, Unsplit
  <2>2. Len(EmitLine(line)) # 7
    BY <2>1
  <2> QED BY <1>1, <1>2, <2>2
<1>3. CASE s # NoSplit
  <2>1. PICK r1, r2, r3, r4, r6, r7 :
          EmitLine(line) = <<r1, r2, r3, r4, Run(SeverityKind(s.severity), SeverityWord(s.severity)), r6, r7>>
    BY <1>1, <1>3, Zenon DEF EmitLine
  <2>2. Len(EmitLine(line)) = 7 /\ EmitLine(line)[5] = Run(SeverityKind(s.severity), SeverityWord(s.severity))
    BY <2>1
  <2>3. EmitLine(line)[5].kind = SeverityKind(s.severity)
    BY <2>2 DEF Run
  <2> QED BY <1>1, <1>3, <2>2, <2>3
<1> QED BY <1>2, <1>3
-----------------------------------------------------------------------------
HeadLine(severity) == <<Run(SeverityKind(severity), <<"heading">>)>>

\* The lines of a document laid out.
DocumentLine ==
    {EmitLine(line) : line \in Seq(Lexeme)} \cup {HeadLine(Worst(lines)) : lines \in Seq(Seq(Lexeme))}
    \cup {<<>>}

HeadLines == IF heading THEN 2 ELSE 0

\* What is printed by the time a line is emitted: the heading, and the lines
\* before it.
DiagnosticInv ==
    /\ heading \in BOOLEAN /\ output \in Seq(Seq(Lexeme)) /\ at \in 0..(Len(output) + 1)
    /\ at = 0 => printed = <<>>
    /\ at > 0 =>
           /\ printed \in Seq(DocumentLine) /\ Len(printed) = HeadLines + (at - 1)
           /\ heading => printed[1] = HeadLine(Worst(output))
           /\ \A j \in 1..(at - 1) : printed[HeadLines + j] = EmitLine(output[j])

\* The invariant holds at first, and each step keeps it.
LEMMA LayoutBegins == DiagnosticInit => DiagnosticInv
<1> SUFFICES ASSUME DiagnosticInit PROVE DiagnosticInv
  OBVIOUS
<1>1. heading \in BOOLEAN /\ output \in Seq(Seq(Lexeme))
  BY DiagnosticAssumption DEF DiagnosticInit
<1>2. at = 0 /\ printed = <<>>
  BY DEF DiagnosticInit
<1>3. at \in 0..(Len(output) + 1)
  BY <1>1, <1>2
<1> QED BY <1>1, <1>2, <1>3 DEF DiagnosticInv

LEMMA HeadingKeeps == DiagnosticInv /\ Heading => DiagnosticInv'
<1> SUFFICES ASSUME DiagnosticInv, Heading PROVE DiagnosticInv'
  OBVIOUS
<1>1. heading \in BOOLEAN /\ output \in Seq(Seq(Lexeme)) /\ at = 0
  BY DEF DiagnosticInv, Heading
<1>2. heading' = heading /\ output' = output /\ at' = 1 /\ HeadLines' = HeadLines
  BY DEF Heading, HeadLines
<1>3. PICK head : head = HeadLine(Worst(output))
  OBVIOUS
<1>4. printed' = IF heading THEN <<head, <<>>>> ELSE <<>>
  BY <1>3 DEF Heading, Headed, HeadLine
<1>5. head \in DocumentLine /\ <<>> \in DocumentLine
  BY <1>1, <1>3 DEF DocumentLine
<1>6. printed' \in Seq(DocumentLine) /\ Len(printed') = HeadLines /\ (heading => printed'[1] = head)
  <2>1. CASE heading
    <3>1. printed' = <<head, <<>>>>
      BY <1>4, <2>1
    <3> QED BY <1>5, <2>1, <3>1 DEF HeadLines
  <2>2. CASE ~heading
    BY <1>4, <2>2 DEF HeadLines
  <2> QED BY <2>1, <2>2
<1>7. HeadLines \in Nat /\ HeadLines + (1 - 1) = HeadLines /\ \A j : ~(j \in 1..(1 - 1))
  BY DEF HeadLines
<1>8. 1 \in 0..(Len(output) + 1) /\ 1 # 0
  BY <1>1
<1> QED BY <1>1, <1>2, <1>3, <1>6, <1>7, <1>8 DEF DiagnosticInv

LEMMA LineKeeps == DiagnosticInv /\ Line => DiagnosticInv'
<1> SUFFICES ASSUME DiagnosticInv, Line PROVE DiagnosticInv'
  OBVIOUS
<1>1. heading \in BOOLEAN /\ output \in Seq(Seq(Lexeme)) /\ at \in 1..Len(output)
  BY DEF DiagnosticInv, Line
<1>2. heading' = heading /\ output' = output /\ at' = at + 1 /\ HeadLines' = HeadLines
  BY DEF Line, HeadLines
<1>3. PICK h \in Nat : h = HeadLines /\ (heading => h > 0)
  BY DEF HeadLines
<1>4. PICK a \in Nat : a = at /\ a > 0 /\ a <= Len(output)
  BY <1>1
<1>5. PICK line : line = EmitLine(output[a])
  OBVIOUS
<1>6. line \in DocumentLine
  <2>1. output[a] \in Seq(Lexeme)
    BY <1>1, <1>4
  <2> QED BY <1>5, <2>1 DEF DocumentLine
<1>7. /\ printed \in Seq(DocumentLine) /\ Len(printed) = h + (a - 1)
      /\ heading => printed[1] = HeadLine(Worst(output))
      /\ \A j \in 1..(a - 1) : printed[h + j] = EmitLine(output[j])
  BY <1>3, <1>4 DEF DiagnosticInv
<1>8. printed' = Append(printed, line)
  BY <1>4, <1>5 DEF Line
<1>9. PICK more : more = Append(printed, line)
  OBVIOUS
<1>10. /\ more \in Seq(DocumentLine) /\ Len(more) = h + a /\ more[h + a] = line
       /\ \A j \in 1..(h + (a - 1)) : more[j] = printed[j]
  <2>1. Len(printed) + 1 = h + a
    BY <1>7
  <2> QED BY <1>6, <1>7, <1>9, <2>1
<1>11. heading => more[1] = HeadLine(Worst(output))
  <2>1. heading => 1 \in 1..(h + (a - 1))
    BY <1>3, <1>4
  <2> QED BY <1>7, <1>10, <2>1
<1>12. \A j \in 1..a : more[h + j] = EmitLine(output[j])
  <2> TAKE j \in 1..a
  <2>1. CASE j = a
    BY <1>5, <1>10, <2>1
  <2>2. CASE j # a
    <3>1. j \in 1..(a - 1) /\ h + j \in 1..(h + (a - 1))
      BY <2>2
    <3> QED BY <1>7, <1>10, <3>1
  <2> QED BY <2>1, <2>2
<1>13. /\ at' = a + 1 /\ a + 1 \in 0..(Len(output) + 1) /\ a + 1 # 0 /\ (a + 1) - 1 = a
       /\ HeadLines' = h /\ printed' = more
  BY <1>1, <1>2, <1>3, <1>4, <1>8, <1>9
<1> QED BY <1>1, <1>2, <1>10, <1>11, <1>12, <1>13 DEF DiagnosticInv

LEMMA LayoutStep == DiagnosticInv /\ [DiagnosticNext]_diagnosticVars => DiagnosticInv'
<1>1. DiagnosticInv /\ UNCHANGED diagnosticVars => DiagnosticInv'
  BY DEF DiagnosticInv, diagnosticVars, HeadLines
<1> QED BY <1>1, HeadingKeeps, LineKeeps DEF DiagnosticNext

\* The lines emitted are those of the output.
LEMMA EmittedIs ==
    ASSUME DiagnosticInv
    PROVE  /\ Len(Emitted) \in 0..Len(output) /\ (at = Len(output) + 1 => Len(Emitted) = Len(output))
           /\ \A j \in 1..Len(Emitted) : Emitted[j] = EmitLine(output[j])
<1>1. CASE at = 0
  <2>1. Emitted = <<>> /\ Len(output) \in Nat
    BY <1>1 DEF Emitted, DiagnosticInv
  <2> QED BY <1>1, <2>1
<1>2. CASE at # 0
  <2>1. at \in 0..(Len(output) + 1) /\ Len(output) \in Nat
    BY DEF DiagnosticInv
  <2>2. PICK n \in Nat : at = n + 1 /\ n <= Len(output) /\ at > 0 /\ at - 1 = n
    <3>1. at - 1 \in Nat /\ at = (at - 1) + 1 /\ at - 1 <= Len(output) /\ at > 0
      BY <1>2, <2>1
    <3> QED BY <3>1
  <2>3. PICK h \in Nat : h = HeadLines /\ (IF heading THEN 3 ELSE 1) = h + 1
    BY DEF HeadLines
  <2>4. /\ printed \in Seq(DocumentLine) /\ Len(printed) = h + n
        /\ \A j \in 1..n : printed[h + j] = EmitLine(output[j])
    BY <2>2, <2>3 DEF DiagnosticInv
  <2>5. PICK t : t = Emitted
    OBVIOUS
  <2>6. t = From(printed, h + 1)
    BY <1>2, <2>3, <2>5 DEF Emitted
  <2>7. IsRest(DocumentLine, printed, h, n, t)
    <3>1. h + n = Len(printed)
      BY <2>4
    <3> QED BY <2>4, <2>6, <3>1, RestIs
  <2>8. Len(t) = n /\ \A j \in 1..n : t[j] = EmitLine(output[j])
    BY <2>4, <2>7 DEF IsRest
  <2>9. n \in 0..Len(output) /\ (at = Len(output) + 1 => n = Len(output))
    BY <2>1, <2>2
  <2> QED BY <2>5, <2>8, <2>9
<1> QED BY <1>1, <1>2

\* Line by line, what is printed reads as it did.
LEMMA SaysTheSame == DiagnosticInv => PrintedReadsTheSame
<1> SUFFICES ASSUME DiagnosticInv, NEW i \in 1..Len(Emitted)
             PROVE  /\ Renamed(output[i]) \/ Split(TextOf(Emitted[i])) = Split(output[i])
                    /\ Split(output[i]) = NoSplit => TextOf(Emitted[i]) = output[i]
  BY DEF PrintedReadsTheSame
<1>1. Emitted[i] = EmitLine(output[i]) /\ Len(Emitted) \in 0..Len(output)
  BY EmittedIs
<1>2. output \in Seq(Seq(Lexeme))
  BY DEF DiagnosticInv
<1>3. output[i] \in Seq(Lexeme)
  BY <1>1, <1>2
<1>4. Renamed(output[i]) \/ Split(TextOf(EmitLine(output[i]))) = Split(output[i])
  BY <1>3, ReadsTheSame
<1>5. Split(output[i]) = NoSplit => TextOf(EmitLine(output[i])) = output[i]
  BY <1>3, PrintedAsItCame
<1> QED BY <1>1, <1>4, <1>5

\* Which colours there are below the heading.
KindsOf(e) == {e[i][5].kind : i \in {j \in 1..Len(e) : Len(e[j]) = 7}}

LEMMA KindsAre ==
    ASSUME NEW severity \in Severity, NEW n \in Nat, NEW e, NEW o,
           Len(e) = n, \A j \in 1..n : e[j] = EmitLine(o[j])
    PROVE  SeverityKind(severity) \in KindsOf(e) <=> Says(o, n, severity)
<1>1. \A s, t \in Severity : SeverityKind(s) = SeverityKind(t) => s = t
  BY DEF Severity, SeverityKind
<1>2. ASSUME NEW j \in 1..n
      PROVE  Len(e[j]) = 7 /\ e[j][5].kind = SeverityKind(severity) <=> SaysAt(o, j, severity)
  <2>1. PICK line : line = o[j] /\ e[j] = EmitLine(line)
    OBVIOUS
  <2>2. Len(e[j]) = 7 <=> Split(line) # NoSplit
    BY <2>1, RunsOf
  <2>3. Split(line) # NoSplit =>
            /\ e[j][5].kind = SeverityKind(Split(line).severity)
            /\ Split(line).severity \in Severity
    BY <2>1, RunsOf, SplitSeverity
  <2>4. SaysAt(o, j, severity) <=> Split(line) # NoSplit /\ Split(line).severity = severity
    BY <2>1 DEF SaysAt
  <2> QED BY <1>1, <2>2, <2>3, <2>4, Zenon
<1>3. SeverityKind(severity) \in KindsOf(e)
          <=> \E j \in 1..n : Len(e[j]) = 7 /\ e[j][5].kind = SeverityKind(severity)
  BY Zenon DEF KindsOf
<1> QED BY <1>2, <1>3, Zenon DEF Says

\* The heading has the colour of the worst line.
LEMMA WorstHeading == DiagnosticInv => HeadingIsWorst
<1> SUFFICES ASSUME DiagnosticInv, heading, at = Len(output) + 1
             PROVE  LET kinds == {Emitted[i][5].kind : i \in {j \in 1..Len(Emitted) : Len(Emitted[j]) = 7}}
                    IN  printed[1][1].kind =
                            (IF "Malformed" \in kinds THEN "Malformed"
                             ELSE IF "AccessFlag" \in kinds THEN "AccessFlag" ELSE "Comment")
  BY DEF HeadingIsWorst
<1> DEFINE kinds == KindsOf(Emitted)
<1>1. PICK n \in Nat : n = Len(output)
  BY DEF DiagnosticInv
<1>2. Len(Emitted) = n /\ \A j \in 1..n : Emitted[j] = EmitLine(output[j])
  BY <1>1, EmittedIs
<1>3. /\ SeverityKind("Error") = "Malformed" /\ SeverityKind("Warning") = "AccessFlag"
      /\ SeverityKind("Note") = "Comment" /\ "Error" \in Severity /\ "Warning" \in Severity
  BY DEF SeverityKind, Severity
<1>4. /\ SeverityKind("Error") \in kinds <=> Says(output, n, "Error")
      /\ SeverityKind("Warning") \in kinds <=> Says(output, n, "Warning")
  <2>1. PICK e, o : e = Emitted /\ o = output
    OBVIOUS
  <2>2. Len(e) = n /\ \A j \in 1..n : e[j] = EmitLine(o[j])
    BY <1>2, <2>1
  <2>3. \A severity \in Severity : SeverityKind(severity) \in KindsOf(e) <=> Says(o, n, severity)
    BY <2>2, KindsAre
  <2> QED BY <1>3, <2>1, <2>3, Zenon
<1>5. printed[1] = HeadLine(Worst(output))
  <2>1. at > 0
    BY <1>1
  <2> QED BY <2>1 DEF DiagnosticInv
<1>6. printed[1][1].kind = SeverityKind(Worst(output))
  BY <1>5 DEF HeadLine, Run
<1>7. Worst(output) = WorstOf(output, n)
  <2>1. output \in Seq(Seq(Lexeme))
    BY DEF DiagnosticInv
  <2> QED BY <1>1, <2>1, WorstIs
<1> HIDE DEF kinds
<1>8. printed[1][1].kind =
          (IF "Malformed" \in kinds THEN "Malformed"
           ELSE IF "AccessFlag" \in kinds THEN "AccessFlag" ELSE "Comment")
  BY <1>3, <1>4, <1>6, <1>7, Zenon DEF WorstOf
<1> QED BY <1>8 DEF kinds, KindsOf

\* Whatever a compiler prints, its layout says what it said: each line is taken
\* apart again into the parts it was put together from, but for an info that
\* was renamed, and the heading has the colour of the worst severity.
THEOREM LaidOutAsSaid == DiagnosticSpec => []ShownAsItIs
<1>1. DiagnosticSpec => []DiagnosticInv
  BY LayoutBegins, LayoutStep, PTL DEF DiagnosticSpec
<1>2. DiagnosticInv => ShownAsItIs
  BY SaysTheSame, WorstHeading DEF ShownAsItIs
<1> QED BY <1>1, <1>2, PTL
=============================================================================
