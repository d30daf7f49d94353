---------------------------- MODULE ListingProofs ----------------------------
(***************************************************************************)
(* Proofs about the listing of a class: that the numbers counted are those *)
(* of its lines and that it is complete (EmitClass), that what it says of  *)
(* a constant is what the section of the pool does, and that flags and     *)
(* keywords agree (ClassListing), for any class files and flags.           *)
(***************************************************************************)
EXTENDS ClassListing, ArithmeticLemmas, SequenceTheorems

Sections == {"header", "blank", "pool", "field", "method", "code", "instruction", "remark",
             "exceptions", "locals", "lines", "frames", "close"}
LineType == [section : Sections, method : Nat]
Heading == {l \in LineType : l.section = "method"}

\* How many elements of a sequence are in a set.
Count(s, K) == Cardinality({i \in 1..Len(s) : s[i] \in K})

\* Counts add up.
LEMMA CountJoined ==
    ASSUME NEW S, NEW a \in Seq(S), NEW b \in Seq(S), NEW K
    PROVE  Count(a, K) \in Nat /\ Count(b, K) \in Nat /\ Count(a \o b, K) = Count(a, K) + Count(b, K)
<1> DEFINE n == Len(a)
           A == {i \in 1..Len(a) : a[i] \in K}
           B == {i \in 1..Len(b) : b[i] \in K}
           C == {i \in (n + 1)..(n + Len(b)) : b[i - n] \in K}
           D == {i \in 1..Len(a \o b) : (a \o b)[i] \in K}
<1>1. n \in Nat /\ Len(b) \in Nat /\ Len(a \o b) = n + Len(b)
      /\ \A i \in 1..(n + Len(b)) : (a \o b)[i] = IF i <= n THEN a[i] ELSE b[i - n]
  BY ConcatProperties
<1>2. /\ IsFiniteSet(1..Len(a)) /\ IsFiniteSet(1..Len(b)) /\ IsFiniteSet((n + 1)..(n + Len(b)))
  <2>1. 1 \in Int /\ n \in Int /\ Len(b) \in Int /\ n + 1 \in Int /\ n + Len(b) \in Int
    BY <1>1
  <2> QED BY <2>1, FS_Interval
<1>3. IsFiniteSet(A) /\ IsFiniteSet(B) /\ IsFiniteSet(C)
  <2>1. A \in SUBSET (1..Len(a)) /\ B \in SUBSET (1..Len(b)) /\ C \in SUBSET ((n + 1)..(n + Len(b)))
    OBVIOUS
  <2> HIDE DEF A, B, C, n
  <2> QED BY <1>2, <2>1, FS_Subset
<1>4. Cardinality(A) \in Nat /\ Cardinality(B) \in Nat /\ Cardinality(C) \in Nat
  <2> HIDE DEF A, B, C
  <2> QED BY <1>3, FS_CardinalityType
<1>5. Cardinality(C) = Cardinality(B)
  <2> DEFINE f == [i \in B |-> n + i]
  <2>1. \A i \in B : n + i \in C
    <3> SUFFICES ASSUME NEW i \in B PROVE n + i \in C
      OBVIOUS
    <3>1. n + i \in (n + 1)..(n + Len(b)) /\ (n + i) - n = i
      BY <1>1
    <3> QED BY <3>1
  <2>2. f \in [B -> C]
    BY <2>1
  <2>3. \A i, j \in B : f[i] = f[j] => i = j
    BY <1>1
  <2>4. \A k \in C : \E i \in B : f[i] = k
    <3> SUFFICES ASSUME NEW k \in C PROVE \E i \in B : f[i] = k
      OBVIOUS
    <3>1. k - n \in B /\ n + (k - n) = k
      BY <1>1
    <3> QED BY <3>1
  <2> HIDE DEF B, C, f
  <2>5. f \in Bijection(B, C)
    BY <2>2, <2>3, <2>4 DEF Bijection, Injection, Surjection, IsInjective
  <2>6. ExistsBijection(B, C)
    BY <2>5 DEF ExistsBijection
  <2> QED BY <1>3, <2>6, FS_Bijection
<1>6. A \cap C = {}
  BY <1>1
<1>7. D = A \cup C
  <2>1. ASSUME NEW i \in D PROVE i \in A \cup C
    <3>1. CASE i <= n
      BY <1>1, <3>1
    <3>2. CASE ~(i <= n)
      <4>1. i \in (n + 1)..(n + Len(b))
        BY <1>1, <3>2
      <4> QED BY <1>1, <3>2, <4>1
    <3> QED BY <3>1, <3>2
  <2>2. ASSUME NEW i \in A PROVE i \in D
    <3>1. i \in 1..(n + Len(b)) /\ i <= n
      BY <1>1
    <3> QED BY <1>1, <3>1
  <2>3. ASSUME NEW i \in C PROVE i \in D
    <3>1. i \in 1..(n + Len(b)) /\ ~(i <= n)
      BY <1>1
    <3> QED BY <1>1, <3>1
  <2> HIDE DEF A, C, D
  <2> QED BY <2>1, <2>2, <2>3
<1>8. Cardinality(D) = Cardinality(A) + Cardinality(B)
  <2>1. Cardinality(A \cap C) = 0
    BY <1>6, FS_EmptySet
  <2> HIDE DEF A, B, C, D
  <2>2. Cardinality(A \cup C) = Cardinality(A) + Cardinality(C) - Cardinality(A \cap C)
    BY <1>3, FS_Union
  <2> QED BY <1>4, <1>5, <1>7, <2>1, <2>2
<1> QED BY <1>4, <1>8 DEF Count

\* Lines that are all the same.
LEMMA CountLines ==
    ASSUME NEW sec \in Sections, NEW m \in Nat, NEW n \in Nat, NEW K
    PROVE  /\ Lines(sec, m, n) \in Seq(LineType)
           /\ Count(Lines(sec, m, n), K) = IF [section |-> sec, method |-> m] \in K THEN n ELSE 0
<1> DEFINE l == [section |-> sec, method |-> m]
           s == [i \in 1..n |-> l]
<1>1. l \in LineType
  BY DEF LineType
<1>2. s = Lines(sec, m, n)
  BY DEF Lines
<1> HIDE DEF l
<1>3. s \in Seq(LineType) /\ Len(s) = n /\ \A i \in 1..n : s[i] = l
  BY <1>1
<1>4. {i \in 1..Len(s) : s[i] \in K} = IF l \in K THEN 1..n ELSE {}
  BY <1>3
<1>5. Cardinality(1..n) = n
  BY FS_Interval, 1 \in Int, n \in Int
<1> HIDE DEF s
<1> QED BY <1>2, <1>3, <1>4, <1>5, FS_EmptySet DEF Count, l
-----------------------------------------------------------------------------
\* What a group of lines adds to the lines of a section and method, and two
\* groups to those of all.
Added(s, m, sec, k, n) == IF s = sec /\ m = k THEN n ELSE 0

ArePut(sec1, m1, n1, sec2, m2, n2) ==
    /\ listing' \in Seq(LineType)
    /\ \A s, m : /\ Printed(s, m) \in Nat
                 /\ Printed(s, m)' = Printed(s, m) + (Added(s, m, sec1, m1, n1) + Added(s, m, sec2, m2, n2))
    /\ Count(listing, Heading) \in Nat
    /\ Count(listing', Heading) = Count(listing, Heading)
           + ((IF sec1 = "method" THEN n1 ELSE 0) + (IF sec2 = "method" THEN n2 ELSE 0))

\* Two groups of lines printed behind what was there add up so.
LEMMA Puts ==
    ASSUME listing \in Seq(LineType),
           NEW sec1 \in Sections, NEW m1 \in Nat, NEW n1 \in Nat,
           NEW sec2 \in Sections, NEW m2 \in Nat, NEW n2 \in Nat,
           listing' = listing \o (Lines(sec1, m1, n1) \o Lines(sec2, m2, n2))
    PROVE  ArePut(sec1, m1, n1, sec2, m2, n2)
<1> DEFINE a == Lines(sec1, m1, n1)
           b == Lines(sec2, m2, n2)
           l1 == [section |-> sec1, method |-> m1]
           l2 == [section |-> sec2, method |-> m2]
<1>1. a \in Seq(LineType) /\ b \in Seq(LineType)
  BY CountLines
<1>2. \A K : Count(a, K) = (IF l1 \in K THEN n1 ELSE 0) /\ Count(b, K) = (IF l2 \in K THEN n2 ELSE 0)
  BY CountLines
<1> HIDE DEF a, b
<1>3. a \o b \in Seq(LineType)
  BY <1>1
<1>4. listing' \in Seq(LineType)
  BY <1>3 DEF a, b
<1>5. \A K : /\ Count(listing, K) \in Nat
             /\ Count(listing', K) = Count(listing, K)
                    + ((IF l1 \in K THEN n1 ELSE 0) + (IF l2 \in K THEN n2 ELSE 0))
  <2> SUFFICES ASSUME NEW K
               PROVE  /\ Count(listing, K) \in Nat
                      /\ Count(listing', K) = Count(listing, K)
                             + ((IF l1 \in K THEN n1 ELSE 0) + (IF l2 \in K THEN n2 ELSE 0))
    OBVIOUS
  <2>1. Count(a \o b, K) = Count(a, K) + Count(b, K)
    BY <1>1, CountJoined
  <2>2. Count(listing, K) \in Nat /\ Count(listing \o (a \o b), K) = Count(listing, K) + Count(a \o b, K)
    BY <1>3, CountJoined, ZenonT(30)
  <2>3. listing' = listing \o (a \o b)
    BY DEF a, b
  <2> QED BY <1>2, <2>1, <2>2, <2>3
<1>6. ASSUME NEW s, NEW m
      PROVE  /\ Printed(s, m) \in Nat
             /\ Printed(s, m)' = Printed(s, m) + (Added(s, m, sec1, m1, n1) + Added(s, m, sec2, m2, n2))
  <2> DEFINE K == {[section |-> s, method |-> m]}
  <2>1. Printed(s, m) = Count(listing, K) /\ Printed(s, m)' = Count(listing', K)
    BY DEF Printed, Count
  <2>2. (l1 \in K <=> s = sec1 /\ m = m1) /\ (l2 \in K <=> s = sec2 /\ m = m2)
    OBVIOUS
  <2> HIDE DEF K, l1, l2
  <2> QED BY <1>5, <2>1, <2>2 DEF Added
<1>7. (l1 \in Heading <=> sec1 = "method") /\ (l2 \in Heading <=> sec2 = "method")
  BY DEF Heading, LineType
<1> HIDE DEF l1, l2
<1> QED BY <1>4, <1>5, <1>6, <1>7 DEF ArePut
-----------------------------------------------------------------------------
(***************************************************************************)
(* The inductive invariant of the listing: at every stage, what of a       *)
(* method is behind emit_method is printed, and nothing else is.           *)
(***************************************************************************)
BeforeMethods == {"header", "pool", "fields"}
Body == {"instructions", "exceptions", "locals", "lines", "frames"}
Stages == BeforeMethods \cup Body \cup {"method", "code", "failed", "done"}

\* The sections of the method at hand that are printed, where they are due.
Each == {"method", "code", "instruction", "exceptions", "locals", "frames"}
Behind(at_) ==
    IF at_ \in {"code", "failed"} THEN {"method"}
    ELSE IF at_ = "instructions" THEN {"method", "code"}
    ELSE IF at_ = "exceptions" THEN {"method", "code", "instruction"}
    ELSE IF at_ = "locals" THEN {"method", "code", "instruction", "exceptions"}
    ELSE IF at_ \in {"lines", "frames"} THEN {"method", "code", "instruction", "exceptions", "locals"}
    ELSE Each

EmitTypeOK ==
    /\ class \in Class
    /\ stage \in Stages
    /\ method \in 0..Len(class.methods)
    /\ stats \in [classes : Nat, fields : Nat, methods : Nat, opcodes : Nat,
                  perMethod : Seq([method : Nat, opcodes : Nat])]
    /\ listing \in Seq(LineType)

\* What is known of the method the loop is at.
MethodAtHand ==
    /\ stage \in BeforeMethods => method = 0
    /\ stage \in Body \cup {"code", "failed"} => method > 0
    /\ stage \in Body => Current.code = "read"
    /\ stage = "code" => Current.code # "none"
    /\ stage = "failed" => Current.code = "malformed"
    /\ stage = "done" => method = Len(class.methods)
    /\ stage = "pool" => "CONSTANT_POOL" \in flags

IsBehind(s, m) == m < method \/ (m = method /\ s \in Behind(stage))

PrintedSoFar ==
    /\ \A m \in 1..Len(class.methods) : \A s \in Each :
           Printed(s, m) = IF IsBehind(s, m) THEN Expected(s, m) ELSE 0
    /\ Printed("pool", 0) =
           IF stage \in {"header", "pool"} \/ "CONSTANT_POOL" \notin flags THEN 0 ELSE 1 + class.pool
    /\ Printed("field", 0) = IF stage \in BeforeMethods THEN 0 ELSE class.fields

\* An entry of per_method is of a method whose instructions are printed.
Entered(i) ==
    LET e == stats.perMethod[i]
    IN  /\ e.method \in 1..Len(class.methods)
        /\ class.methods[e.method].code = "read"
        /\ e.opcodes = class.methods[e.method].opcodes
        /\ IsBehind("instruction", e.method)
        /\ i > 1 => stats.perMethod[i - 1].method < e.method

CountedSoFar ==
    /\ stats.methods = method
    /\ Count(listing, Heading) = method
    /\ stats.opcodes = OpcodesOf(stats.perMethod)
    /\ \A i \in 1..Len(stats.perMethod) : Entered(i)

EmitInv == EmitTypeOK /\ MethodAtHand /\ PrintedSoFar /\ CountedSoFar /\ CountedOnceWhenWhole
-----------------------------------------------------------------------------
\* No lines, and lines with none behind them.
LEMMA NoLines ==
    ASSUME NEW sec \in Sections, NEW m \in Nat, NEW n \in Nat
    PROVE  /\ Lines(sec, m, 0) = <<>>
           /\ Lines(sec, m, n) \o Lines("blank", 0, 0) = Lines(sec, m, n)
<1>1. \A any, k : Lines(any, k, 0) = <<>>
  BY DEF Lines
<1>2. Lines(sec, m, n) \in Seq(LineType)
  BY CountLines
<1> QED BY <1>1, <1>2

\* What there is of a method, and how much of it is to be listed.
LEMMA ExpectedOf ==
    ASSUME EmitTypeOK, NEW m \in 1..Len(class.methods)
    PROVE  LET t == class.methods[m]
               read == t.code = "read"
           IN  /\ t \in Tables
               /\ Expected("method", m) = 1
               /\ Expected("code", m) = IF read THEN 1 ELSE 0
               /\ Expected("instruction", m) = IF read THEN t.opcodes ELSE 0
               /\ Expected("exceptions", m) = IF read /\ t.exceptions > 0 THEN 1 + t.exceptions ELSE 0
               /\ Expected("locals", m) = IF read /\ Shown("LOCALS", t.locals) THEN 1 + t.locals.entries ELSE 0
               /\ Expected("frames", m) =
                      IF ~read \/ "STACK_MAP" \notin flags \/ t.frames.found = "absent" THEN 0
                      ELSE IF t.frames.found = "read" THEN 1 + t.frames.entries ELSE 1
<1> DEFINE t == class.methods[m]
<1>1. class.methods \in Seq(Tables)
  BY DEF EmitTypeOK, Class
<1>2. t \in Tables
  BY <1>1
<1>3. t.locals.found \in Found /\ t.frames.found \in Found
  BY <1>2 DEF Tables
<1>4. t.locals.found = "read" \/ t.locals.found = "unreadable" \/ t.locals.found = "absent"
  BY <1>3 DEF Found
<1>5. t.frames.found = "read" \/ t.frames.found = "unreadable" \/ t.frames.found = "absent"
  BY <1>3 DEF Found
<1>6. Expected("method", m) = 1
  BY DEF Expected
<1>7. Expected("code", m) = IF t.code = "read" THEN 1 ELSE 0
  BY DEF Expected
<1>8. Expected("instruction", m) = IF t.code = "read" THEN t.opcodes ELSE 0
  BY DEF Expected
<1>9. Expected("exceptions", m) = IF t.code = "read" /\ t.exceptions > 0 THEN 1 + t.exceptions ELSE 0
  BY DEF Expected
<1>10. Expected("locals", m) = IF t.code = "read" /\ Shown("LOCALS", t.locals) THEN 1 + t.locals.entries ELSE 0
  BY <1>4 DEF Expected, Shown
<1>11. Expected("frames", m) =
          IF t.code # "read" \/ "STACK_MAP" \notin flags \/ t.frames.found = "absent" THEN 0
          ELSE IF t.frames.found = "read" THEN 1 + t.frames.entries ELSE 1
  BY <1>5 DEF Expected
<1> QED BY <1>2, <1>6, <1>7, <1>8, <1>9, <1>10, <1>11

\* A section of the method at hand, and what is expected of every other.
LEMMA ShowsSection ==
    ASSUME EmitTypeOK, PrintedSoFar, UNCHANGED <<class, flags, method>>,
           method \in 1..Len(class.methods),
           stage \notin BeforeMethods, stage' \notin BeforeMethods,
           NEW sec \in {"code", "instruction", "exceptions", "locals", "lines", "frames"}, NEW n \in Nat,
           NEW other \in {"blank", "remark"}, NEW k \in Nat, NEW j \in Nat,
           listing' = listing \o (Lines(sec, method, n) \o Lines(other, k, j)),
           sec \in Each => n = Expected(sec, method) /\ sec \notin Behind(stage),
           Behind(stage') = Behind(stage) \cup ({sec} \cap Each)
    PROVE  /\ listing' \in Seq(LineType) /\ PrintedSoFar'
           /\ Count(listing', Heading) = Count(listing, Heading)
<1>1. sec \in Sections /\ other \in Sections /\ method \in Nat
  BY DEF Sections
<1>2. ArePut(sec, method, n, other, k, j)
  BY <1>1, Puts DEF EmitTypeOK
<1>3. Count(listing', Heading) = Count(listing, Heading)
  BY <1>2 DEF ArePut
<1>4. \A s, m : Expected(s, m)' = Expected(s, m)
  BY DEF Expected
<1>5. ASSUME NEW m \in 1..Len(class.methods), NEW s \in Each
      PROVE  Printed(s, m)' = IF IsBehind(s, m)' THEN Expected(s, m) ELSE 0
  <2>1. Printed(s, m) = IF IsBehind(s, m) THEN Expected(s, m) ELSE 0
    BY DEF PrintedSoFar
  <2>2. s # other /\ Printed(s, m) \in Nat /\ Printed(s, m)' = Printed(s, m) + Added(s, m, sec, method, n)
    <3>1. s # other
      BY DEF Each
    <3>2. Added(s, m, other, k, j) = 0 /\ Added(s, m, sec, method, n) \in Nat
      BY <3>1 DEF Added
    <3> QED BY <1>2, <3>1, <3>2 DEF ArePut
  <2>3. CASE s = sec /\ m = method
    <3>1. Printed(s, m) = 0 /\ n = Expected(s, m)
      BY <2>1, <2>3 DEF IsBehind
    <3>2. IsBehind(s, m)'
      BY <2>3 DEF IsBehind
    <3> QED BY <2>2, <2>3, <3>1, <3>2 DEF Added
  <2>4. CASE ~(s = sec /\ m = method)
    <3>1. IsBehind(s, m)' <=> IsBehind(s, m)
      BY <2>4 DEF IsBehind
    <3>2. Printed(s, m)' = Printed(s, m)
      BY <2>2, <2>4 DEF Added
    <3> QED BY <2>1, <3>1, <3>2
  <2> QED BY <2>3, <2>4
<1>6. Printed("pool", 0)' = Printed("pool", 0) /\ Printed("field", 0)' = Printed("field", 0)
  <2>1. /\ Added("pool", 0, sec, method, n) = 0 /\ Added("pool", 0, other, k, j) = 0
        /\ Added("field", 0, sec, method, n) = 0 /\ Added("field", 0, other, k, j) = 0
    BY DEF Added
  <2>2. Printed("pool", 0) \in Nat /\ Printed("field", 0) \in Nat
    BY <1>2 DEF ArePut
  <2>3. Printed("pool", 0)' = Printed("pool", 0) + (0 + 0) /\ Printed("field", 0)' = Printed("field", 0) + (0 + 0)
    BY <1>2, <2>1 DEF ArePut
  <2> QED BY <2>2, <2>3
<1>7. PrintedSoFar'
  BY <1>4, <1>5, <1>6 DEF PrintedSoFar, BeforeMethods
<1> QED BY <1>2, <1>3, <1>7 DEF ArePut

\* Lines outside the methods leave those of the methods alone.
LEMMA PutsOutside ==
    ASSUME EmitTypeOK, PrintedSoFar, UNCHANGED <<class, flags>>,
           \A m \in Nat, s \in Each : IsBehind(s, m)' <=> IsBehind(s, m),
           NEW sec1 \in Sections, NEW n1 \in Nat, sec1 # "method",
           NEW sec2 \in Sections, NEW n2 \in Nat, sec2 # "method",
           listing' = listing \o (Lines(sec1, 0, n1) \o Lines(sec2, 0, n2))
    PROVE  /\ listing' \in Seq(LineType)
           /\ \A m \in 1..Len(class.methods) : \A s \in Each :
                  Printed(s, m)' = IF IsBehind(s, m)' THEN Expected(s, m)' ELSE 0
           /\ Printed("pool", 0)' = Printed("pool", 0)
                  + (Added("pool", 0, sec1, 0, n1) + Added("pool", 0, sec2, 0, n2))
           /\ Printed("field", 0)' = Printed("field", 0)
                  + (Added("field", 0, sec1, 0, n1) + Added("field", 0, sec2, 0, n2))
           /\ Count(listing', Heading) = Count(listing, Heading)
<1>1. listing \in Seq(LineType) /\ 0 \in Nat
  BY DEF EmitTypeOK
<1>2. ArePut(sec1, 0, n1, sec2, 0, n2)
  BY <1>1, Puts
<1>3. Count(listing', Heading) = Count(listing, Heading)
  BY <1>2 DEF ArePut
<1>4. ASSUME NEW m \in 1..Len(class.methods), NEW s \in Each
      PROVE  Printed(s, m)' = IF IsBehind(s, m)' THEN Expected(s, m)' ELSE 0
  <2>1. Added(s, m, sec1, 0, n1) = 0 /\ Added(s, m, sec2, 0, n2) = 0
    BY DEF Added
  <2>2. Printed(s, m)' = Printed(s, m)
    BY <1>2, <2>1 DEF ArePut
  <2>3. Expected(s, m)' = Expected(s, m)
    BY DEF Expected
  <2>4. m \in Nat /\ (IsBehind(s, m)' <=> IsBehind(s, m))
    OBVIOUS
  <2> QED BY <2>2, <2>3, <2>4 DEF PrintedSoFar
<1> QED BY <1>2, <1>3, <1>4 DEF ArePut

\* What was counted stays, as long as nothing is counted.
LEMMA StaysCounted ==
    ASSUME CountedSoFar, UNCHANGED <<class, stats, method>>,
           Count(listing', Heading) = Count(listing, Heading),
           \A m \in Nat : IsBehind("instruction", m) => IsBehind("instruction", m)'
    PROVE  CountedSoFar'
<1>1. ASSUME NEW i \in 1..Len(stats.perMethod) PROVE Entered(i)'
  <2>1. Entered(i)
    BY DEF CountedSoFar
  <2>2. stats.perMethod[i].method \in Nat
    BY <2>1 DEF Entered
  <2> QED BY <2>1, <2>2 DEF Entered
<1> QED BY <1>1 DEF CountedSoFar, OpcodesOf

\* The sum of the entries of per_method.
LEMMA SumOfEntries ==
    ASSUME NEW s \in Seq([method : Nat, opcodes : Nat]), NEW e \in [method : Nat, opcodes : Nat]
    PROVE  OpcodesOf(<<>>) = 0 /\ OpcodesOf(s) \in Nat /\ OpcodesOf(Append(s, e)) = OpcodesOf(s) + e.opcodes
<1> DEFINE R == [method : Nat, opcodes : Nat]
           v == Append(s, e)
           n == Len(s)
           t == [i \in DOMAIN s |-> s[i].opcodes]
           u == [i \in DOMAIN v |-> v[i].opcodes]
<1>1. s \in Seq(R) /\ e \in R /\ \A r \in R : r.opcodes \in Nat
  OBVIOUS
<1> HIDE DEF R
<1>2. /\ n \in Nat /\ DOMAIN s = 1..n /\ DOMAIN v = 1..(n + 1) /\ Len(v) = n + 1
      /\ v[n + 1] = e /\ (\A i \in 1..n : v[i] = s[i] /\ s[i] \in R)
  BY <1>1
<1> HIDE DEF v, n
<1>3. t = [i \in 1..n |-> s[i].opcodes] /\ t \in [1..n -> Nat]
  BY <1>1, <1>2
<1>4. u = [i \in 1..(n + 1) |-> v[i].opcodes]
  BY <1>2
<1> HIDE DEF t, u
<1>5. t \in Seq(Nat) /\ Len(t) = n /\ \A i \in 1..n : t[i] = s[i].opcodes
  BY <1>2, <1>3
<1>6. Append(t, e.opcodes) = [i \in 1..(n + 1) |-> IF i = n + 1 THEN e.opcodes ELSE t[i]]
  BY <1>1, <1>2, <1>5
<1>7. \A i \in 1..(n + 1) : v[i].opcodes = IF i = n + 1 THEN e.opcodes ELSE t[i]
  <2> SUFFICES ASSUME NEW i \in 1..(n + 1)
               PROVE  v[i].opcodes = IF i = n + 1 THEN e.opcodes ELSE t[i]
    OBVIOUS
  <2>1. CASE i = n + 1
    BY <1>2, <2>1
  <2>2. CASE i # n + 1
    <3>1. i \in 1..n
      BY <1>2, <2>2
    <3> QED BY <1>2, <1>5, <2>2, <3>1
  <2> QED BY <2>1, <2>2
<1>8. u = Append(t, e.opcodes)
  BY <1>4, <1>6, <1>7
<1>9. SumOf(t) \in Nat /\ SumOf(Append(t, e.opcodes)) = SumOf(t) + e.opcodes
  BY <1>1, <1>5, SumOfAppend
<1>10. OpcodesOf(s) = SumOf(t) /\ OpcodesOf(Append(s, e)) = SumOf(u)
  BY DEF OpcodesOf, t, u, v
<1>11. OpcodesOf(<<>>) = 0
  <2>1. [i \in DOMAIN <<>> |-> <<>>[i].opcodes] = <<>>
    OBVIOUS
  <2> QED BY <2>1, SumOfNone DEF OpcodesOf
<1> QED BY <1>8, <1>9, <1>10, <1>11
-----------------------------------------------------------------------------
\* Nothing is printed yet.
LEMMA EmitInitial == ListingInit => EmitInv
<1> SUFFICES ASSUME ListingInit PROVE EmitInv
  OBVIOUS
<1> USE DEF ListingInit, Init
<1>1. listing = <<>> /\ listing \in Seq(LineType) /\ Len(listing) = 0
  OBVIOUS
<1>2. Count(listing, Heading) = 0 /\ \A s, m : Printed(s, m) = 0
  <2>1. 1..Len(listing) = {}
    BY <1>1
  <2>2. {k \in 1..Len(listing) : listing[k] \in Heading} = {}
    BY <2>1
  <2>3. ASSUME NEW s, NEW m PROVE {k \in 1..Len(listing) : listing[k] = [section |-> s, method |-> m]} = {}
    BY <2>1
  <2> QED BY <2>2, <2>3, FS_EmptySet DEF Count, Printed
<1>3. EmitTypeOK
  <2>1. class \in Class
    BY EmitAssumption
  <2>2. Len(class.methods) \in Nat
    BY <2>1 DEF Class
  <2>3. <<>> \in Seq([method : Nat, opcodes : Nat])
    OBVIOUS
  <2> QED BY <1>1, <2>1, <2>2, <2>3 DEF EmitTypeOK, Stages, BeforeMethods
<1>4. MethodAtHand
  BY DEF MethodAtHand, BeforeMethods, Body
<1>5. PrintedSoFar
  <2>1. ASSUME NEW m \in 1..Len(class.methods), NEW s \in Each PROVE ~IsBehind(s, m)
    BY DEF IsBehind
  <2> QED BY <1>2, <2>1 DEF PrintedSoFar, BeforeMethods
<1>6. CountedSoFar
  <2>1. OpcodesOf(<<>>) = 0
    <3>1. <<>> \in Seq([method : Nat, opcodes : Nat]) /\ [method |-> 0, opcodes |-> 0] \in [method : Nat, opcodes : Nat]
      OBVIOUS
    <3> QED BY <3>1, SumOfEntries
  <2> QED BY <1>2, <2>1 DEF CountedSoFar
<1>7. CountedOnceWhenWhole
  BY DEF CountedOnceWhenWhole
<1> QED BY <1>3, <1>4, <1>5, <1>6, <1>7 DEF EmitInv

\* In front of the methods and behind them, what is said of methods stays.
LEMMA HeaderKeeps == EmitInv /\ Header => EmitInv'
<1> SUFFICES ASSUME EmitInv, Header PROVE EmitInv'
  OBVIOUS
<1> USE DEF EmitInv
<1>1. /\ stage = "header" /\ stage' \in {"pool", "fields"} /\ method = 0
      /\ stage' = "pool" => "CONSTANT_POOL" \in flags
      /\ stage' = "fields" => "CONSTANT_POOL" \notin flags
      /\ UNCHANGED <<class, flags, method, stats, counter>>
  BY DEF Header, Goto, MethodAtHand, BeforeMethods
<1>2. listing' = listing \o (Lines("header", 0, 3) \o Lines("blank", 0, 0))
  <2>1. "header" \in Sections /\ 0 \in Nat /\ 3 \in Nat
    BY DEF Sections
  <2>2. Lines("header", 0, 3) \o Lines("blank", 0, 0) = Lines("header", 0, 3)
    BY <2>1, NoLines
  <2> QED BY <2>2 DEF Header, Out
<1>3. \A m \in Nat, s \in Each : IsBehind(s, m)' <=> IsBehind(s, m)
  BY <1>1 DEF IsBehind, Behind
<1>4. /\ listing' \in Seq(LineType)
      /\ \A m \in 1..Len(class.methods) : \A s \in Each :
             Printed(s, m)' = IF IsBehind(s, m)' THEN Expected(s, m)' ELSE 0
      /\ Printed("pool", 0)' = Printed("pool", 0) + (Added("pool", 0, "header", 0, 3) + Added("pool", 0, "blank", 0, 0))
      /\ Printed("field", 0)' = Printed("field", 0) + (Added("field", 0, "header", 0, 3) + Added("field", 0, "blank", 0, 0))
      /\ Count(listing', Heading) = Count(listing, Heading)
  BY <1>1, <1>2, <1>3, PutsOutside DEF Sections
<1>5. Printed("pool", 0) = 0 /\ Printed("field", 0) = 0
  BY <1>1 DEF PrintedSoFar, BeforeMethods
<1>6. Printed("pool", 0)' = 0 /\ Printed("field", 0)' = 0
  BY <1>4, <1>5 DEF Added
<1>7. EmitTypeOK'
  BY <1>1, <1>4 DEF EmitTypeOK, Stages, BeforeMethods
<1>8. MethodAtHand'
  BY <1>1 DEF MethodAtHand, BeforeMethods, Body
<1>9. PrintedSoFar'
  BY <1>1, <1>4, <1>6 DEF PrintedSoFar, BeforeMethods
<1>10. CountedSoFar'
  <2>1. \A m \in Nat : IsBehind("instruction", m) => IsBehind("instruction", m)'
    BY <1>3 DEF Each
  <2> QED BY <1>1, <1>4, <2>1, StaysCounted
<1>11. CountedOnceWhenWhole'
  BY <1>1 DEF CountedOnceWhenWhole
<1> QED BY <1>7, <1>8, <1>9, <1>10, <1>11

LEMMA PoolKeeps == EmitInv /\ Pool => EmitInv'
<1> SUFFICES ASSUME EmitInv, Pool PROVE EmitInv'
  OBVIOUS
<1> USE DEF EmitInv
<1>1. /\ stage = "pool" /\ stage' = "fields" /\ method = 0 /\ "CONSTANT_POOL" \in flags
      /\ UNCHANGED <<class, flags, method, stats, counter>>
  BY DEF Pool, Goto, MethodAtHand, BeforeMethods
<1>2. class.pool \in Nat /\ 1 + class.pool \in Nat
  BY DEF EmitTypeOK, Class
<1>3. listing' = listing \o (Lines("pool", 0, 1 + class.pool) \o Lines("blank", 0, 1))
  BY DEF Pool, Out, Headed, Blank
<1>4. \A m \in Nat, s \in Each : IsBehind(s, m)' <=> IsBehind(s, m)
  BY <1>1 DEF IsBehind, Behind
<1>5. /\ listing' \in Seq(LineType)
      /\ \A m \in 1..Len(class.methods) : \A s \in Each :
             Printed(s, m)' = IF IsBehind(s, m)' THEN Expected(s, m)' ELSE 0
      /\ Printed("pool", 0)' = Printed("pool", 0)
             + (Added("pool", 0, "pool", 0, 1 + class.pool) + Added("pool", 0, "blank", 0, 1))
      /\ Printed("field", 0)' = Printed("field", 0)
             + (Added("field", 0, "pool", 0, 1 + class.pool) + Added("field", 0, "blank", 0, 1))
      /\ Count(listing', Heading) = Count(listing, Heading)
  BY <1>1, <1>2, <1>3, <1>4, PutsOutside DEF Sections
<1>6. Printed("pool", 0) = 0 /\ Printed("field", 0) = 0
  BY <1>1 DEF PrintedSoFar, BeforeMethods
<1>7. Printed("pool", 0)' = 1 + class.pool /\ Printed("field", 0)' = 0
  BY <1>2, <1>5, <1>6 DEF Added
<1>8. EmitTypeOK'
  BY <1>1, <1>5 DEF EmitTypeOK, Stages, BeforeMethods
<1>9. MethodAtHand'
  BY <1>1 DEF MethodAtHand, BeforeMethods, Body
<1>10. PrintedSoFar'
  BY <1>1, <1>5, <1>7 DEF PrintedSoFar, BeforeMethods
<1>11. CountedSoFar'
  <2>1. \A m \in Nat : IsBehind("instruction", m) => IsBehind("instruction", m)'
    BY <1>4 DEF Each
  <2> QED BY <1>1, <1>5, <2>1, StaysCounted
<1>12. CountedOnceWhenWhole'
  BY <1>1 DEF CountedOnceWhenWhole
<1> QED BY <1>8, <1>9, <1>10, <1>11, <1>12

LEMMA FieldsKeeps == EmitInv /\ Fields => EmitInv'
<1> SUFFICES ASSUME EmitInv, Fields PROVE EmitInv'
  OBVIOUS
<1> USE DEF EmitInv
<1> DEFINE k == IF class.fields = 0 THEN 0 ELSE 1
<1>1. /\ stage = "fields" /\ stage' = "method" /\ method = 0
      /\ stats' = [stats EXCEPT !.fields = class.fields]
      /\ UNCHANGED <<class, flags, method, counter>>
  BY DEF Fields, Goto, MethodAtHand, BeforeMethods
<1>2. class.fields \in Nat /\ k \in Nat
  BY DEF EmitTypeOK, Class
<1>3. listing' = listing \o (Lines("field", 0, class.fields) \o Lines("blank", 0, k))
  <2>1. "blank" \in Sections /\ 0 \in Nat
    BY DEF Sections
  <2>2. Lines("blank", 0, 0) = <<>>
    BY <2>1, NoLines
  <2> QED BY <2>2 DEF Fields, Out, Blank
<1>4. \A m \in Nat, s \in Each : IsBehind(s, m)' <=> IsBehind(s, m)
  BY <1>1 DEF IsBehind, Behind
<1> HIDE DEF k
<1>5. /\ listing' \in Seq(LineType)
      /\ \A m \in 1..Len(class.methods) : \A s \in Each :
             Printed(s, m)' = IF IsBehind(s, m)' THEN Expected(s, m)' ELSE 0
      /\ Printed("pool", 0)' = Printed("pool", 0)
             + (Added("pool", 0, "field", 0, class.fields) + Added("pool", 0, "blank", 0, k))
      /\ Printed("field", 0)' = Printed("field", 0)
             + (Added("field", 0, "field", 0, class.fields) + Added("field", 0, "blank", 0, k))
      /\ Count(listing', Heading) = Count(listing, Heading)
  BY <1>1, <1>2, <1>3, <1>4, PutsOutside DEF Sections
<1>6. Printed("pool", 0) = (IF "CONSTANT_POOL" \notin flags THEN 0 ELSE 1 + class.pool) /\ Printed("field", 0) = 0
  BY <1>1 DEF PrintedSoFar, BeforeMethods
<1>7. class.pool \in Nat
  BY DEF EmitTypeOK, Class
<1>8. Printed("pool", 0)' = Printed("pool", 0) /\ Printed("field", 0)' = class.fields
  BY <1>2, <1>5, <1>6, <1>7 DEF Added
<1>9. EmitTypeOK'
  BY <1>1, <1>2, <1>5 DEF EmitTypeOK, Stages
<1>10. MethodAtHand'
  BY <1>1 DEF MethodAtHand, BeforeMethods, Body
<1>11. PrintedSoFar'
  BY <1>1, <1>5, <1>6, <1>8 DEF PrintedSoFar, BeforeMethods
<1>12. CountedSoFar'
  <2>1. /\ stats'.methods = stats.methods /\ stats'.opcodes = stats.opcodes /\ stats'.perMethod = stats.perMethod
    BY <1>1 DEF EmitTypeOK
  <2>2. ASSUME NEW i \in 1..Len(stats.perMethod) PROVE Entered(i)'
    <3>1. Entered(i)
      BY DEF CountedSoFar
    <3>2. stats.perMethod[i].method \in Nat
      BY <3>1 DEF Entered
    <3>3. \A m \in Nat : IsBehind("instruction", m) => IsBehind("instruction", m)'
      BY <1>4 DEF Each
    <3> QED BY <1>1, <2>1, <3>1, <3>2, <3>3 DEF Entered
  <2> QED BY <1>1, <1>5, <2>1, <2>2 DEF CountedSoFar, OpcodesOf
<1>13. CountedOnceWhenWhole'
  BY <1>1 DEF CountedOnceWhenWhole
<1> QED BY <1>9, <1>10, <1>11, <1>12, <1>13

LEMMA CloseKeeps == EmitInv /\ Close => EmitInv'
<1> SUFFICES ASSUME EmitInv, Close PROVE EmitInv'
  OBVIOUS
<1> USE DEF EmitInv
<1>1. /\ stage = "method" /\ stage' = "done" /\ method = Len(class.methods)
      /\ UNCHANGED <<class, flags, method, stats>>
  BY DEF Close, Goto
<1>2. listing' = listing \o (Lines("close", 0, 1) \o Lines("blank", 0, 0))
  <2>1. "close" \in Sections /\ 0 \in Nat /\ 1 \in Nat
    BY DEF Sections
  <2>2. Lines("close", 0, 1) \o Lines("blank", 0, 0) = Lines("close", 0, 1)
    BY <2>1, NoLines
  <2> QED BY <2>2 DEF Close, Out
<1>3. \A m \in Nat, s \in Each : IsBehind(s, m)' <=> IsBehind(s, m)
  BY <1>1 DEF IsBehind, Behind
<1>4. /\ listing' \in Seq(LineType)
      /\ \A m \in 1..Len(class.methods) : \A s \in Each :
             Printed(s, m)' = IF IsBehind(s, m)' THEN Expected(s, m)' ELSE 0
      /\ Printed("pool", 0)' = Printed("pool", 0) + (Added("pool", 0, "close", 0, 1) + Added("pool", 0, "blank", 0, 0))
      /\ Printed("field", 0)' = Printed("field", 0) + (Added("field", 0, "close", 0, 1) + Added("field", 0, "blank", 0, 0))
      /\ Count(listing', Heading) = Count(listing, Heading)
  BY <1>1, <1>2, <1>3, PutsOutside DEF Sections
<1>5. class.pool \in Nat /\ class.fields \in Nat
  BY DEF EmitTypeOK, Class
<1>6. /\ Printed("pool", 0) = (IF "CONSTANT_POOL" \notin flags THEN 0 ELSE 1 + class.pool)
      /\ Printed("field", 0) = class.fields
  BY <1>1 DEF PrintedSoFar, BeforeMethods
<1>7. Printed("pool", 0)' = Printed("pool", 0) /\ Printed("field", 0)' = Printed("field", 0)
  BY <1>4, <1>5, <1>6 DEF Added
<1>8. EmitTypeOK'
  BY <1>1, <1>4 DEF EmitTypeOK, Stages
<1>9. MethodAtHand'
  BY <1>1 DEF MethodAtHand, BeforeMethods, Body
<1>10. PrintedSoFar'
  BY <1>1, <1>4, <1>6, <1>7 DEF PrintedSoFar, BeforeMethods
<1>11. CountedSoFar'
  <2>1. \A m \in Nat : IsBehind("instruction", m) => IsBehind("instruction", m)'
    BY <1>3 DEF Each
  <2> QED BY <1>1, <1>4, <2>1, StaysCounted
<1>12. CountedOnceWhenWhole'
  <2>1. counter = 0 /\ stats.opcodes \in Nat
    BY <1>1 DEF CountedOnceWhenWhole, EmitTypeOK
  <2>2. counter' = (0 + stats.opcodes) % CounterSize /\ 0 + stats.opcodes = stats.opcodes
    BY <2>1 DEF Close, RecordOpcodes
  <2> QED BY <1>1, <2>2 DEF CountedOnceWhenWhole
<1> QED BY <1>8, <1>9, <1>10, <1>11, <1>12
-----------------------------------------------------------------------------
\* The declaration of a method, where none of it was printed.
LEMMA MethodKeeps == EmitInv /\ Method => EmitInv'
<1> SUFFICES ASSUME EmitInv, Method PROVE EmitInv'
  OBVIOUS
<1> USE DEF EmitInv
<1> DEFINE t == class.methods[method + 1]
           k == IF t.code = "none" THEN 1 ELSE 0
<1>1. /\ stage = "method" /\ method \in Nat /\ method' = method + 1 /\ method' \in 1..Len(class.methods)
      /\ stage' = IF t.code = "none" THEN "method" ELSE "code"
      /\ stats' = [stats EXCEPT !.methods = @ + 1]
      /\ UNCHANGED <<class, flags, counter>>
  <2>1. class.methods \in Seq(Tables)
    BY DEF EmitTypeOK, Class
  <2>2. Len(class.methods) \in Nat
    BY <2>1
  <2> QED BY <2>2 DEF Method, EmitTypeOK
<1>2. listing' = listing \o (Lines("method", method', 1) \o Lines("blank", 0, k))
  <2>1. "method" \in Sections /\ 0 \in Nat /\ 1 \in Nat /\ method' \in Nat
    BY <1>1 DEF Sections
  <2>2. Lines("method", method', 1) \o Lines("blank", 0, 0) = Lines("method", method', 1)
    BY <2>1, NoLines
  <2> QED BY <1>1, <2>2 DEF Method, Out, Blank
<1>3. k \in Nat
  OBVIOUS
<1> HIDE DEF k
<1>4. ArePut("method", method', 1, "blank", 0, k)
  <2>1. listing \in Seq(LineType) /\ "method" \in Sections /\ "blank" \in Sections /\ method' \in Nat
    BY <1>1 DEF EmitTypeOK, Sections
  <2>2. ASSUME NEW m \in Nat, m = method' PROVE ArePut("method", m, 1, "blank", 0, k)
    <3>1. listing' = listing \o (Lines("method", m, 1) \o Lines("blank", 0, k))
      BY <1>2, <2>2
    <3> QED BY <1>3, <2>1, <3>1, Puts
  <2> QED BY <2>1, <2>2
<1>5. \A s, m : Expected(s, m)' = Expected(s, m)
  BY <1>1 DEF Expected
<1>6. ASSUME NEW m \in 1..Len(class.methods), NEW s \in Each
      PROVE  Printed(s, m)' = IF IsBehind(s, m)' THEN Expected(s, m) ELSE 0
  <2>1. /\ Printed(s, m) = IF IsBehind(s, m) THEN Expected(s, m) ELSE 0
        /\ IsBehind(s, m) <=> m <= method
    <3>1. IsBehind(s, m) <=> m <= method
      BY <1>1 DEF IsBehind, Behind
    <3> QED BY <3>1 DEF PrintedSoFar
  <2>2. Printed(s, m) \in Nat /\ Printed(s, m)' = Printed(s, m) + Added(s, m, "method", method', 1)
    <3>1. Added(s, m, "blank", 0, k) = 0 /\ Added(s, m, "method", method', 1) \in Nat
      BY DEF Added
    <3> QED BY <1>4, <3>1 DEF ArePut
  <2>3. CASE m # method'
    <3>1. Printed(s, m)' = Printed(s, m)
      BY <2>2, <2>3 DEF Added
    <3>2. IsBehind(s, m)' <=> IsBehind(s, m)
      BY <1>1, <2>1, <2>3 DEF IsBehind
    <3> QED BY <2>1, <3>1, <3>2
  <2>4. CASE m = method'
    <3>1. Printed(s, m) = 0
      BY <1>1, <2>1, <2>4
    <3>2. CASE s = "method"
      <4>1. IsBehind(s, m)'
        BY <1>1, <2>4, <3>2 DEF IsBehind, Behind, Each
      <4>2. Expected(s, m) = 1
        BY <3>2, ExpectedOf
      <4> QED BY <2>2, <2>4, <3>1, <3>2, <4>1, <4>2 DEF Added
    <3>3. CASE s # "method"
      <4>1. Printed(s, m)' = 0
        BY <2>2, <3>1, <3>3 DEF Added
      <4>2. CASE t.code = "none"
        <5>1. class.methods[m].code # "read"
          BY <1>1, <2>4, <4>2
        <5>2. Expected(s, m) = 0
          <6>1. /\ Expected("code", m) = 0 /\ Expected("instruction", m) = 0 /\ Expected("exceptions", m) = 0
                /\ Expected("locals", m) = 0 /\ Expected("frames", m) = 0
            BY <5>1, ExpectedOf
          <6> QED BY <3>3, <6>1 DEF Each
        <5> QED BY <4>1, <5>2
      <4>3. CASE t.code # "none"
        <5>1. ~IsBehind(s, m)'
          BY <1>1, <2>4, <3>3, <4>3 DEF IsBehind, Behind
        <5> QED BY <4>1, <5>1
      <4> QED BY <4>2, <4>3
    <3> QED BY <3>2, <3>3
  <2> QED BY <2>3, <2>4
<1>7. Printed("pool", 0)' = Printed("pool", 0) /\ Printed("field", 0)' = Printed("field", 0)
  <2>1. /\ Added("pool", 0, "method", method', 1) = 0 /\ Added("pool", 0, "blank", 0, k) = 0
        /\ Added("field", 0, "method", method', 1) = 0 /\ Added("field", 0, "blank", 0, k) = 0
    BY DEF Added
  <2>2. Printed("pool", 0) \in Nat /\ Printed("field", 0) \in Nat
    BY <1>4 DEF ArePut
  <2>3. Printed("pool", 0)' = Printed("pool", 0) + (0 + 0) /\ Printed("field", 0)' = Printed("field", 0) + (0 + 0)
    BY <1>4, <2>1 DEF ArePut
  <2> QED BY <2>2, <2>3
<1>8. Count(listing', Heading) = Count(listing, Heading) + 1
  BY <1>4 DEF ArePut
<1>9. EmitTypeOK'
  <2>1. stage' \in Stages /\ method' \in 0..Len(class.methods)
    BY <1>1 DEF Stages
  <2>2. stats' \in [classes : Nat, fields : Nat, methods : Nat, opcodes : Nat,
                    perMethod : Seq([method : Nat, opcodes : Nat])]
    <3>1. stats.methods \in Nat /\ stats.methods + 1 \in Nat
      BY DEF EmitTypeOK
    <3> QED BY <1>1, <3>1 DEF EmitTypeOK
  <2>3. /\ class' \in Class /\ listing' \in Seq(LineType)
    BY <1>1, <1>4 DEF EmitTypeOK, ArePut
  <2> QED BY <1>1, <2>1, <2>2, <2>3 DEF EmitTypeOK
<1>10. MethodAtHand'
  <2>1. method' > 0 /\ Current' = t
    BY <1>1 DEF Current
  <2> QED BY <1>1, <2>1 DEF MethodAtHand, BeforeMethods, Body
<1>11. PrintedSoFar'
  BY <1>1, <1>5, <1>6, <1>7 DEF PrintedSoFar, BeforeMethods
<1>12. CountedSoFar'
  <2>1. /\ stats'.methods = stats.methods + 1 /\ stats'.opcodes = stats.opcodes /\ stats'.perMethod = stats.perMethod
    BY <1>1 DEF EmitTypeOK
  <2>2. ASSUME NEW i \in 1..Len(stats.perMethod) PROVE Entered(i)'
    <3>1. Entered(i)
      BY DEF CountedSoFar
    <3>2. stats.perMethod[i].method \in Nat
      BY <3>1 DEF Entered
    <3>3. \A m \in Nat : IsBehind("instruction", m) => IsBehind("instruction", m)'
      BY <1>1 DEF IsBehind
    <3> QED BY <1>1, <2>1, <3>1, <3>2, <3>3 DEF Entered
  <2> QED BY <1>1, <1>8, <2>1, <2>2 DEF CountedSoFar, OpcodesOf
<1>13. CountedOnceWhenWhole'
  BY <1>1 DEF CountedOnceWhenWhole
<1> QED BY <1>9, <1>10, <1>11, <1>12, <1>13

\* A section of the method at hand that counts nothing.
LEMMA ShowsAndCountsNothing ==
    ASSUME EmitInv, UNCHANGED <<class, flags, method, stats, counter>>,
           stage \in Body \cup {"code"}, stage' \in Body \cup {"method"},
           class.methods[method].code = "read",
           NEW sec \in {"code", "exceptions", "locals", "lines", "frames"}, NEW n \in Nat,
           NEW j \in Nat,
           listing' = listing \o (Lines(sec, method, n) \o Lines("blank", 0, j)),
           sec \in Each => n = Expected(sec, method) /\ sec \notin Behind(stage),
           Behind(stage') = Behind(stage) \cup ({sec} \cap Each)
    PROVE  EmitInv'
<1> USE DEF EmitInv
<1>1. method \in 1..Len(class.methods) /\ method \in Nat
  <2>1. Len(class.methods) \in Nat
    BY DEF EmitTypeOK, Class
  <2> QED BY <2>1 DEF EmitTypeOK, MethodAtHand
<1>2. stage \notin BeforeMethods /\ stage' \notin BeforeMethods
  BY DEF Body, BeforeMethods
<1>3. /\ listing' \in Seq(LineType) /\ PrintedSoFar'
      /\ Count(listing', Heading) = Count(listing, Heading)
  <2>1. sec \in {"code", "instruction", "exceptions", "locals", "lines", "frames"}
        /\ "blank" \in {"blank", "remark"} /\ 0 \in Nat
    OBVIOUS
  <2> QED BY <1>1, <1>2, <2>1, ShowsSection
<1>4. EmitTypeOK'
  BY <1>3 DEF EmitTypeOK, Stages
<1>5. MethodAtHand'
  BY <1>1, <1>2 DEF MethodAtHand, Body, Current
<1>6. CountedSoFar'
  <2>1. \A m \in Nat : IsBehind("instruction", m) => IsBehind("instruction", m)'
    BY DEF IsBehind
  <2> QED BY <1>3, <2>1, StaysCounted
<1>7. CountedOnceWhenWhole'
  BY DEF CountedOnceWhenWhole, Body
<1> QED BY <1>3, <1>4, <1>5, <1>6, <1>7

\* A Code attribute that does not parse ends the listing; one that does gets
\* its heading.
LEMMA CodeKeeps == EmitInv /\ Code => EmitInv'
<1> SUFFICES ASSUME EmitInv, Code PROVE EmitInv'
  OBVIOUS
<1> USE DEF EmitInv
<1>1. stage = "code" /\ UNCHANGED <<class, flags, method, stats, counter>>
  BY DEF Code
<1>2. method \in 1..Len(class.methods) /\ method \in Nat
  <2>1. Len(class.methods) \in Nat
    BY DEF EmitTypeOK, Class
  <2> QED BY <1>1, <2>1 DEF EmitTypeOK, MethodAtHand
<1>3. CASE Current.code = "malformed"
  <2>1. stage' = "failed" /\ listing' = listing
    BY <1>3 DEF Code, Goto
  <2>2. \A s, m : IsBehind(s, m)' <=> IsBehind(s, m)
    BY <1>1, <2>1 DEF IsBehind, Behind
  <2>3. \A s, m : Printed(s, m)' = Printed(s, m) /\ Expected(s, m)' = Expected(s, m)
    BY <1>1, <2>1 DEF Printed, Expected
  <2>4. EmitTypeOK'
    BY <1>1, <2>1 DEF EmitTypeOK, Stages
  <2>5. MethodAtHand'
    BY <1>1, <1>2, <1>3, <2>1 DEF MethodAtHand, BeforeMethods, Body, Current
  <2>6. PrintedSoFar'
    <3>1. ASSUME NEW m \in 1..Len(class.methods), NEW s \in Each
          PROVE  Printed(s, m)' = IF IsBehind(s, m)' THEN Expected(s, m)' ELSE 0
      BY <2>2, <2>3 DEF PrintedSoFar
    <3> QED BY <1>1, <2>1, <2>3, <3>1 DEF PrintedSoFar, BeforeMethods
  <2>7. CountedSoFar'
    BY <1>1, <2>1, <2>2, StaysCounted
  <2>8. CountedOnceWhenWhole'
    BY <1>1, <2>1 DEF CountedOnceWhenWhole
  <2> QED BY <2>4, <2>5, <2>6, <2>7, <2>8
<1>4. CASE Current.code # "malformed"
  <2>1. stage' = "instructions" /\ listing' = listing \o Lines("code", method, 1)
    BY <1>4 DEF Code, Goto, Out
  <2>2. class.methods[method].code = "read"
    <3>1. class.methods[method] \in Tables
      BY <1>2, ExpectedOf
    <3> QED BY <1>1, <1>4, <3>1 DEF MethodAtHand, Current, Tables
  <2>3. Expected("code", method) = 1
    BY <1>2, <2>2, ExpectedOf
  <2>4. listing' = listing \o (Lines("code", method, 1) \o Lines("blank", 0, 0))
    <3>1. "code" \in Sections /\ 1 \in Nat
      BY DEF Sections
    <3>2. Lines("code", method, 1) \o Lines("blank", 0, 0) = Lines("code", method, 1)
      BY <1>2, <3>1, NoLines
    <3> QED BY <2>1, <3>2
  <2>5. "code" \notin Behind(stage) /\ Behind(stage') = Behind(stage) \cup ({"code"} \cap Each)
    BY <1>1, <2>1 DEF Behind, Each
  <2> QED BY <1>1, <2>1, <2>2, <2>3, <2>4, <2>5, ShowsAndCountsNothing DEF Body
<1> QED BY <1>3, <1>4

\* What is counted of a method is what is printed of it.
LEMMA InstructionsKeeps == EmitInv /\ Instructions => EmitInv'
<1> SUFFICES ASSUME EmitInv, Instructions PROVE EmitInv'
  OBVIOUS
<1> USE DEF EmitInv
<1> DEFINE t == class.methods[method]
           e == [method |-> method, opcodes |-> t.opcodes]
           k == IF t.remark THEN 1 ELSE 0
<1>1. /\ stage = "instructions" /\ stage' = "exceptions" /\ t.code = "read"
      /\ listing' = listing \o (Lines("instruction", method, t.opcodes) \o Lines("remark", method, k))
      /\ stats' = [stats EXCEPT !.opcodes = @ + t.opcodes, !.perMethod = Append(@, e)]
      /\ UNCHANGED <<class, flags, method, counter>>
  BY DEF Instructions, Goto, Out, Walked, Counted, Current, MethodAtHand, Body
<1>2. method \in 1..Len(class.methods) /\ method \in Nat
  <2>1. Len(class.methods) \in Nat
    BY DEF EmitTypeOK, Class
  <2> QED BY <1>1, <2>1 DEF EmitTypeOK, MethodAtHand, Body
<1>3. t.opcodes \in Nat /\ k \in Nat /\ Expected("instruction", method) = t.opcodes
  <2>1. t \in Tables
    BY <1>2, ExpectedOf
  <2> QED BY <1>1, <1>2, <2>1, ExpectedOf DEF Tables
<1>4. e \in [method : Nat, opcodes : Nat] /\ e.method = method /\ e.opcodes = t.opcodes
  BY <1>2, <1>3
<1> HIDE DEF k, t
<1>5. /\ listing' \in Seq(LineType) /\ PrintedSoFar'
      /\ Count(listing', Heading) = Count(listing, Heading)
  <2>1. stage \notin BeforeMethods /\ stage' \notin BeforeMethods
    BY <1>1 DEF BeforeMethods
  <2>2. "instruction" \notin Behind(stage) /\ Behind(stage') = Behind(stage) \cup ({"instruction"} \cap Each)
    BY <1>1 DEF Behind, Each
  <2>3. "instruction" \in {"code", "instruction", "exceptions", "locals", "lines", "frames"}
        /\ "remark" \in {"blank", "remark"}
    OBVIOUS
  <2> QED BY <1>1, <1>2, <1>3, <2>1, <2>2, <2>3, ShowsSection
<1> HIDE DEF e
<1> DEFINE entries == stats.perMethod
<1>6. /\ entries \in Seq([method : Nat, opcodes : Nat]) /\ stats.opcodes \in Nat
      /\ stats'.methods = stats.methods /\ stats'.opcodes = stats.opcodes + t.opcodes
      /\ stats'.perMethod = Append(entries, e)
      /\ stats'.classes = stats.classes /\ stats'.fields = stats.fields
  BY <1>1 DEF EmitTypeOK
<1>7. Append(entries, e) \in Seq([method : Nat, opcodes : Nat])
  BY <1>4, <1>6
<1>8. EmitTypeOK'
  <2>1. stats' \in [classes : Nat, fields : Nat, methods : Nat, opcodes : Nat,
                    perMethod : Seq([method : Nat, opcodes : Nat])]
    <3>1. stats.opcodes + t.opcodes \in Nat
      BY <1>3, <1>6
    <3> QED BY <1>1, <1>7, <3>1 DEF EmitTypeOK
  <2> QED BY <1>1, <1>5, <2>1 DEF EmitTypeOK, Stages, Body
<1>9. MethodAtHand'
  BY <1>1, <1>2 DEF MethodAtHand, BeforeMethods, Body, Current, t
<1>10. CountedSoFar'
  <2>1. OpcodesOf(Append(entries, e)) = OpcodesOf(entries) + t.opcodes
    BY <1>4, <1>6, SumOfEntries
  <2>2. /\ Len(Append(entries, e)) = Len(entries) + 1 /\ Len(entries) \in Nat
        /\ Append(entries, e)[Len(entries) + 1] = e
        /\ \A i \in 1..Len(entries) : Append(entries, e)[i] = entries[i]
    BY <1>6
  <2>3. /\ \A m \in Nat : IsBehind("instruction", m) => m < method
        /\ \A m \in Nat : m <= method => IsBehind("instruction", m)'
    <3>1. "instruction" \notin Behind(stage) /\ "instruction" \in Behind(stage')
      BY <1>1 DEF Behind
    <3> QED BY <1>1, <1>2, <3>1 DEF IsBehind
  <2>4. ASSUME NEW i \in 1..Len(entries)
        PROVE  /\ Entered(i) /\ entries[i].method \in Nat /\ entries[i].method < method
               /\ Append(entries, e)[i] = entries[i]
    <3>1. Entered(i)
      BY DEF CountedSoFar
    <3>2. entries[i].method \in Nat
      BY <3>1 DEF Entered
    <3> QED BY <2>2, <2>3, <3>1, <3>2 DEF Entered
  <2> HIDE DEF entries
  <2>5. ASSUME NEW i \in 1..(Len(entries) + 1) PROVE Entered(i)'
    <3> DEFINE new == Append(entries, e)
    <3> HIDE DEF new
    <3>1. CASE i = Len(entries) + 1
      <4>1. new[i] = e
        BY <2>2, <3>1 DEF new
      <4>2. i > 1 => i - 1 \in 1..Len(entries) /\ new[i - 1].method < method
        <5> SUFFICES ASSUME i > 1 PROVE i - 1 \in 1..Len(entries) /\ new[i - 1].method < method
          OBVIOUS
        <5>1. i - 1 \in 1..Len(entries)
          BY <2>2, <3>1
        <5> QED BY <2>4, <5>1 DEF new
      <4>3. \A m \in Nat : m = method => IsBehind("instruction", m)'
        BY <1>2, <2>3
      <4>4. stats'.perMethod = new
        BY <1>6 DEF new
      <4> QED BY <1>1, <1>2, <1>4, <4>1, <4>2, <4>3, <4>4 DEF Entered, t
    <3>2. CASE i # Len(entries) + 1
      <4>1. i \in 1..Len(entries)
        BY <2>2, <3>2
      <4>2. Entered(i) /\ entries[i].method \in Nat /\ entries[i].method < method /\ new[i] = entries[i]
        BY <2>4, <4>1 DEF new
      <4>3. i > 1 => i - 1 \in 1..Len(entries) /\ new[i - 1] = entries[i - 1]
        BY <2>2, <4>1 DEF new
      <4>4. \A m \in Nat : m < method => IsBehind("instruction", m)'
        BY <1>2, <2>3
      <4>5. stats'.perMethod = new /\ stats.perMethod = entries
        BY <1>6 DEF new, entries
      <4> QED BY <1>1, <4>2, <4>3, <4>4, <4>5 DEF Entered
    <3> QED BY <3>1, <3>2
  <2> QED BY <1>1, <1>5, <1>6, <2>1, <2>2, <2>5 DEF CountedSoFar, entries
<1>11. CountedOnceWhenWhole'
  BY <1>1 DEF CountedOnceWhenWhole
<1> QED BY <1>5, <1>8, <1>9, <1>10, <1>11

\* The tables of a method, each with what is expected of it.
LEMMA TablesKeep == EmitInv /\ (Exceptions \/ Locals \/ LineNumbers \/ StackMap) => EmitInv'
<1> SUFFICES ASSUME EmitInv, Exceptions \/ Locals \/ LineNumbers \/ StackMap PROVE EmitInv'
  OBVIOUS
<1> DEFINE t == class.methods[method]
<1>1. /\ stage \in Body /\ t.code = "read"
      /\ UNCHANGED <<class, flags, method, stats, counter>>
  BY DEF EmitInv, MethodAtHand, Current, Body, Exceptions, Locals, LineNumbers, StackMap, Goto
<1>2. method \in 1..Len(class.methods) /\ method \in Nat
  <2>1. Len(class.methods) \in Nat
    BY DEF EmitInv, EmitTypeOK, Class
  <2> QED BY <1>1, <2>1 DEF EmitInv, EmitTypeOK, MethodAtHand
<1>3. /\ t \in Tables
      /\ Expected("exceptions", method) = IF t.exceptions > 0 THEN 1 + t.exceptions ELSE 0
      /\ Expected("locals", method) = IF Shown("LOCALS", t.locals) THEN 1 + t.locals.entries ELSE 0
      /\ Expected("frames", method) =
             IF "STACK_MAP" \notin flags \/ t.frames.found = "absent" THEN 0
             ELSE IF t.frames.found = "read" THEN 1 + t.frames.entries ELSE 1
  BY <1>1, <1>2, ExpectedOf DEF EmitInv
<1>4. /\ t.exceptions \in Nat /\ t.locals.entries \in Nat /\ t.frames.entries \in Nat
      /\ t.frames.found \in Found /\ t.lines.declared \in Nat /\ t.lines.present \in Nat
  BY <1>3 DEF Tables
<1>5. ASSUME NEW sec \in {"exceptions", "locals", "lines", "frames"}, NEW n \in Nat
      PROVE  /\ Lines(sec, method, 0) = <<>>
             /\ Lines(sec, method, n) \o Lines("blank", 0, 0) = Lines(sec, method, n)
  <2>1. sec \in Sections
    BY DEF Sections
  <2> QED BY <1>2, <2>1, NoLines
<1> HIDE DEF t
<1>6. CASE Exceptions
  <2> DEFINE n == IF t.exceptions > 0 THEN 1 + t.exceptions ELSE 0
  <2>1. n \in Nat /\ stage = "exceptions" /\ stage' = "locals" /\ stage' \in Body
    BY <1>4, <1>6 DEF Exceptions, Goto, Body
  <2>2. listing' = listing \o Lines("exceptions", method, n)
    <3>1. Lines("exceptions", method, 0) = <<>>
      BY <1>5, 0 \in Nat
    <3>2. listing' = listing \o (IF t.exceptions = 0 THEN <<>> ELSE Lines("exceptions", method, 1 + t.exceptions))
      BY <1>6 DEF Exceptions, Out, Headed, Current, t
    <3>3. CASE t.exceptions = 0
      <4>1. n = 0 /\ listing' = listing \o <<>>
        BY <3>2, <3>3
      <4> HIDE DEF n
      <4> QED BY <3>1, <4>1
    <3>4. CASE t.exceptions # 0
      <4>1. n = 1 + t.exceptions
        BY <1>4, <3>4
      <4> HIDE DEF n
      <4> QED BY <3>2, <3>4, <4>1
    <3> QED BY <3>3, <3>4
  <2>3. n = Expected("exceptions", method)
    BY <1>3
  <2> HIDE DEF n
  <2>4. listing' = listing \o (Lines("exceptions", method, n) \o Lines("blank", 0, 0))
    BY <1>5, <2>1, <2>2
  <2>5. "exceptions" \notin Behind(stage) /\ Behind(stage') = Behind(stage) \cup ({"exceptions"} \cap Each)
    BY <2>1 DEF Behind, Each
  <2> QED BY <1>1, <2>1, <2>3, <2>4, <2>5, ShowsAndCountsNothing DEF t
<1>7. CASE Locals
  <2> DEFINE n == IF Shown("LOCALS", t.locals) THEN 1 + t.locals.entries ELSE 0
  <2>1. n \in Nat /\ stage = "locals" /\ stage' = "lines" /\ stage' \in Body
    BY <1>4, <1>7 DEF Locals, Goto, Body
  <2>2. listing' = listing \o Lines("locals", method, n)
    <3>1. Lines("locals", method, 0) = <<>>
      BY <1>5, 0 \in Nat
    <3> QED BY <1>7, <3>1 DEF Locals, LocalsPrinted, Out, Headed, Current, t
  <2>3. n = Expected("locals", method)
    BY <1>3
  <2> HIDE DEF n
  <2>4. listing' = listing \o (Lines("locals", method, n) \o Lines("blank", 0, 0))
    BY <1>5, <2>1, <2>2
  <2>5. "locals" \notin Behind(stage) /\ Behind(stage') = Behind(stage) \cup ({"locals"} \cap Each)
    BY <2>1 DEF Behind, Each
  <2> QED BY <1>1, <2>1, <2>3, <2>4, <2>5, ShowsAndCountsNothing DEF t
<1>8. CASE LineNumbers
  <2> DEFINE n == IF Shown("LINE_NUMBERS", t.lines) THEN 1 + Smaller(t.lines.declared, t.lines.present) ELSE 0
  <2>1. n \in Nat /\ stage = "lines" /\ stage' = "frames" /\ stage' \in Body
    <3>1. Smaller(t.lines.declared, t.lines.present) \in Nat
      BY <1>4 DEF Smaller
    <3> QED BY <1>8, <3>1 DEF LineNumbers, Goto, Body
  <2>2. listing' = listing \o Lines("lines", method, n)
    <3>1. Lines("lines", method, 0) = <<>>
      BY <1>5, 0 \in Nat
    <3> QED BY <1>8, <3>1 DEF LineNumbers, Out, Headed, Current, t
  <2> HIDE DEF n
  <2>3. listing' = listing \o (Lines("lines", method, n) \o Lines("blank", 0, 0))
    BY <1>5, <2>1, <2>2
  <2>4. "lines" \notin Each /\ Behind(stage') = Behind(stage) \cup ({"lines"} \cap Each)
    BY <2>1 DEF Behind, Each
  <2> QED BY <1>1, <2>1, <2>3, <2>4, ShowsAndCountsNothing DEF t
<1>9. CASE StackMap
  <2> DEFINE n == IF "STACK_MAP" \notin flags \/ t.frames.found = "absent" THEN 0
                  ELSE IF t.frames.found = "read" THEN 1 + t.frames.entries ELSE 1
  <2>1. n \in Nat /\ stage = "frames" /\ stage' = "method" /\ stage' \in Body \cup {"method"}
    BY <1>4, <1>9 DEF StackMap, Goto
  <2>2. listing' = listing \o (Lines("frames", method, n) \o Lines("blank", 0, 1))
    BY <1>4, <1>9 DEF StackMap, Out, Headed, Unreadable, Blank, Shown, Found, Current, t
  <2>3. n = Expected("frames", method)
    BY <1>3
  <2> HIDE DEF n
  <2>4. "frames" \notin Behind(stage) /\ Behind(stage') = Behind(stage) \cup ({"frames"} \cap Each)
    BY <2>1 DEF Behind, Each
  <2> QED BY <1>1, <2>1, <2>2, <2>3, <2>4, ShowsAndCountsNothing DEF t
<1> QED BY <1>6, <1>7, <1>8, <1>9

LEMMA EmitStep == EmitInv /\ [Next]_vars => EmitInv'
<1>1. ASSUME EmitInv, UNCHANGED vars PROVE EmitInv'
  <2>1. /\ stage' = stage /\ listing' = listing
        /\ UNCHANGED <<class, flags, stage, method, stats, listing, counter>>
    BY <1>1 DEF vars
  <2>2. EmitTypeOK' /\ MethodAtHand' /\ CountedOnceWhenWhole'
    BY <1>1, <2>1 DEF EmitInv, EmitTypeOK, MethodAtHand, CountedOnceWhenWhole, Current
  <2>3. \A s, m : IsBehind(s, m)' <=> IsBehind(s, m)
    BY <2>1 DEF IsBehind
  <2>4. \A s, m : Printed(s, m)' = Printed(s, m) /\ Expected(s, m)' = Expected(s, m)
    BY <2>1 DEF Printed, Expected
  <2>5. PrintedSoFar'
    <3>1. ASSUME NEW m \in 1..Len(class.methods), NEW s \in Each
          PROVE  Printed(s, m)' = IF IsBehind(s, m)' THEN Expected(s, m)' ELSE 0
      BY <1>1, <2>3, <2>4 DEF EmitInv, PrintedSoFar
    <3> QED BY <1>1, <2>1, <2>4, <3>1 DEF EmitInv, PrintedSoFar
  <2>6. CountedSoFar'
    BY <1>1, <2>1, <2>3, StaysCounted DEF EmitInv
  <2> QED BY <2>2, <2>5, <2>6 DEF EmitInv
<1> QED BY <1>1, HeaderKeeps, PoolKeeps, FieldsKeeps, MethodKeeps, CodeKeeps, InstructionsKeeps,
           TablesKeep, CloseKeeps DEF Next

\* Every step of the listing of constants is one of emit_class, or none.
LEMMA ListingIsEmitted == [ListingNext]_listingVars => [Next]_vars
  BY DEF ListingNext, listingVars, Next, ListHeader, ListConstant, EndSection, ListFields, ListMethod,
         ListMethodBody, ListInstructions, ListExceptions, ListLocals, ListFrames, ListRest

\* In every state, what is printed is that of the methods behind emit_method.
THEOREM EmitInvariance == ListingSpec => []EmitInv
<1>1. EmitInv /\ [ListingNext]_listingVars => EmitInv'
  BY EmitStep, ListingIsEmitted
<1> QED BY EmitInitial, <1>1, PTL DEF ListingSpec

\* The numbers of the statistics and of the process are those of the listing
\* (Stats, emit_class, record_opcodes).
THEOREM CountsMatch == ListingSpec => []CountsAreThoseOfTheListing
<1>1. EmitInv => CountsAreThoseOfTheListing
  <2> SUFFICES ASSUME EmitInv PROVE CountsAreThoseOfTheListing
    OBVIOUS
  <2> USE DEF EmitInv
  <2>1. stats.methods = Cardinality({i \in 1..Len(listing) : listing[i].section = "method"})
    <3>1. \A i \in 1..Len(listing) : listing[i] \in LineType
      BY DEF EmitTypeOK
    <3>2. {i \in 1..Len(listing) : listing[i].section = "method"} = {i \in 1..Len(listing) : listing[i] \in Heading}
      BY <3>1 DEF Heading
    <3> QED BY <3>2 DEF CountedSoFar, Count
  <2>2. ASSUME NEW i \in 1..Len(stats.perMethod)
        PROVE  /\ stats.perMethod[i].opcodes = Printed("instruction", stats.perMethod[i].method)
               /\ i > 1 => stats.perMethod[i - 1].method < stats.perMethod[i].method
    <3>1. Entered(i)
      BY DEF CountedSoFar
    <3> DEFINE e == stats.perMethod[i]
    <3>2. /\ e.method \in 1..Len(class.methods) /\ class.methods[e.method].code = "read"
          /\ e.opcodes = class.methods[e.method].opcodes /\ IsBehind("instruction", e.method)
          /\ i > 1 => stats.perMethod[i - 1].method < e.method
      BY <3>1 DEF Entered
    <3> HIDE DEF e
    <3>3. Expected("instruction", e.method) = e.opcodes
      BY <3>2, ExpectedOf
    <3>4. Printed("instruction", e.method) = Expected("instruction", e.method)
      BY <3>2 DEF PrintedSoFar, Each
    <3> QED BY <3>2, <3>3, <3>4 DEF e
  <2>3. TotalsMatchListing
    BY <2>1, <2>2 DEF TotalsMatchListing, CountedSoFar
  <2> QED BY <2>3 DEF CountsAreThoseOfTheListing
<1> QED BY EmitInvariance, <1>1, PTL

\* Under any set of flags, a class listed to its end has its fields and the
\* declaration, code and exceptions of every method, and the constants, locals
\* and stack maps exactly if their own flag is set, all of them in full
\* (emit_class, emit_method).  METHODS decides nothing of it.
THEOREM ListedInFull == ListingSpec => []ListingIsComplete
<1>1. EmitInv => ListingIsComplete
  <2> SUFFICES ASSUME EmitInv, stage = "done"
               PROVE  /\ \A m \in 1..Len(class.methods) : \A s \in Each : Printed(s, m) = Expected(s, m)
                      /\ Printed("pool", 0) = IF "CONSTANT_POOL" \in flags THEN 1 + class.pool ELSE 0
                      /\ Printed("field", 0) = class.fields
    BY DEF ListingIsComplete, Each
  <2>1. method = Len(class.methods) /\ method \in Nat
    BY DEF EmitInv, MethodAtHand, EmitTypeOK, Class
  <2>2. ASSUME NEW m \in 1..Len(class.methods), NEW s \in Each PROVE IsBehind(s, m)
    BY <2>1 DEF IsBehind, Behind
  <2> QED BY <2>2 DEF EmitInv, PrintedSoFar, BeforeMethods
<1> QED BY EmitInvariance, <1>1, PTL
-----------------------------------------------------------------------------
(***************************************************************************)
(* The section of the pool: of every constant behind the iterator there is *)
(* one line, in order, that says what the pool says, so that what is found *)
(* in the lines is what is found in the pool.                              *)
(***************************************************************************)
LineFor(n) ==
    [index |-> n, tag |-> Get(n).tag, refs |-> References(Get(n)), words |-> Words(Get(n))]
Listed == {n \in 1..(Len(file.entries) - 1) : Get(n) # Unusable}

\* What some place may have said of slot n.
SaidOf(n) ==
    {This(n), Mention("super", n, <<>>, ClassName(n)), Interface(n), Operand(n), Text(n),
     Caught(n), Verified(n), Unset(n)}

Of == file \in Files /\ class = file.class /\ flags = file.view

InOrder ==
    /\ section \in Seq({LineFor(n) : n \in Listed})
    /\ \A i \in 1..Len(section) : section[i].index <= at
    /\ \A i, j \in 1..Len(section) : i < j => section[i].index < section[j].index

Reached == \A n \in Listed : n <= at => \E i \in 1..Len(section) : section[i].index = n

SectionInv ==
    /\ Of /\ at \in Nat
    /\ InOrder /\ Reached
    /\ SectionIsPrinted => Coming = {}
    /\ \A i \in DOMAIN said : \E n \in Nat : said[i] \in SaidOf(n)

\* What a file that was read holds.
LEMMA FileHolds ==
    ASSUME Of
    PROVE  /\ file \in File
           /\ file.entries \in Seq(Constant) /\ Len(file.entries) \in Nat
           /\ Get(0) = Unusable
           /\ \A n \in Nat : n < Len(file.entries) =>
                  Get(n) = file.entries[n + 1] /\ Get(n) \in Constant /\ Formed(Get(n))
           /\ \A n \in Nat : ~(n < Len(file.entries)) => Get(n) = NoConstant
<1> DEFINE e == file.entries
<1>1. file \in File /\ Holes(e) = {1} \cup {i \in 2..Len(e) : e[i - 1].tag \in {"Long", "Double"}}
      /\ \A i \in DOMAIN e : Formed(e[i])
  BY ClassListingAssumption DEF Of
<1>2. e \in Seq(Constant)
  BY <1>1 DEF File
<1> HIDE DEF e
<1>3. Len(e) \in Nat /\ DOMAIN e = 1..Len(e) /\ \A i \in 1..Len(e) : e[i] \in Constant
  BY <1>2
<1>4. 1 \in DOMAIN e /\ e[1] = Unusable
  <2>1. 1 \in Holes(e)
    BY <1>1
  <2> QED BY <2>1 DEF Holes
<1>5. Get(0) = Unusable
  <2>1. 0 < Len(e) /\ 0 + 1 = 1
    BY <1>3, <1>4
  <2> QED BY <1>4, <2>1 DEF Get, e
<1>6. ASSUME NEW n \in Nat, n < Len(e)
      PROVE  Get(n) = e[n + 1] /\ Get(n) \in Constant /\ Formed(Get(n))
  <2>1. n + 1 \in 1..Len(e)
    BY <1>3, <1>6
  <2>2. Get(n) = e[n + 1]
    BY <1>6 DEF Get, e
  <2> QED BY <1>1, <1>3, <2>1, <2>2
<1>7. ASSUME NEW n \in Nat, ~(n < Len(e)) PROVE Get(n) = NoConstant
  BY <1>7 DEF Get, e
<1> QED BY <1>1, <1>2, <1>3, <1>5, <1>6, <1>7 DEF e

\* What is no constant has no tag.
LEMMA Untagged ==
    ASSUME NEW c, c.tag \in Tags
    PROVE  c # Unusable /\ c # NoConstant
<1>1. "" \notin Tags /\ "none" \notin Tags
  BY DEF Tags, Numbers, ByName, Members, Dynamics
<1>2. Unusable.tag = "" /\ NoConstant.tag = "none"
  BY DEF Unusable, NoConstant
<1> QED BY <1>1, <1>2

\* A constant with a tag is one of the slots to be listed, and its refs are
\* slots.
LEMMA TaggedIsListed ==
    ASSUME Of, NEW n \in Nat, Get(n).tag \in Tags
    PROVE  /\ n \in Listed /\ Get(n) \in Constant
           /\ Get(n).tag \in ByName \cup {"MethodType"} => Len(Get(n).refs) = 1 /\ Get(n).refs[1] \in Nat
           /\ Get(n).tag \in Members \cup Dynamics \cup {"NameAndType"} =>
                  Get(n).refs[1] \in Nat /\ Get(n).refs[2] \in Nat
<1>1. Get(n) # Unusable /\ Get(n) # NoConstant
  BY Untagged
<1>2. n < Len(file.entries) /\ n # 0 /\ Get(n) \in Constant /\ Formed(Get(n)) /\ Len(file.entries) \in Nat
  <2>1. n < Len(file.entries)
    BY <1>1, FileHolds
  <2>2. Get(0) = Unusable /\ Len(file.entries) \in Nat
    BY FileHolds
  <2>3. Get(n) \in Constant /\ Formed(Get(n))
    BY <2>1, FileHolds
  <2> QED BY <1>1, <2>1, <2>2, <2>3
<1>3. n \in Listed
  BY <1>1, <1>2 DEF Listed
<1>4. Get(n).refs \in Seq(Nat)
  <2>1. Get(n) \in [tag : Tags, refs : Seq(Nat), text : STRING]
    BY <1>1, <1>2 DEF Constant
  <2> QED BY <2>1
<1>5. Get(n).tag \in ByName \cup {"MethodType"} => Len(Get(n).refs) = 1 /\ Get(n).refs[1] \in Nat
  BY <1>2, <1>4 DEF Formed
<1>6. Get(n).tag \in Members \cup Dynamics \cup {"NameAndType"} =>
          Get(n).refs[1] \in Nat /\ Get(n).refs[2] \in Nat
  BY <1>2, <1>4 DEF Formed
<1> QED BY <1>2, <1>3, <1>5, <1>6

\* A slot that is listed has a tag.
LEMMA ListedIsTagged ==
    ASSUME Of
    PROVE  /\ \A n \in Listed : n \in Nat /\ n > 0 /\ Get(n).tag \in Tags
           /\ \A n \in Nat : n \notin Listed <=> Get(n) \in {Unusable, NoConstant}
<1>1. Len(file.entries) \in Nat
  BY FileHolds
<1>2. ASSUME NEW n \in Listed PROVE n \in Nat /\ n > 0 /\ Get(n).tag \in Tags
  <2>1. n \in Nat /\ n > 0 /\ n < Len(file.entries) /\ Get(n) # Unusable
    BY <1>1 DEF Listed
  <2>2. Get(n) \in Constant
    BY <2>1, FileHolds
  <2> QED BY <2>1, <2>2 DEF Constant
<1>3. ASSUME NEW n \in Nat PROVE n \notin Listed <=> Get(n) \in {Unusable, NoConstant}
  <2>1. CASE n \in Listed
    <3>1. Get(n).tag \in Tags
      BY <1>2, <2>1
    <3>2. Get(n) # Unusable /\ Get(n) # NoConstant
      BY <3>1, Untagged
    <3> QED BY <2>1, <3>2
  <2>2. CASE n \notin Listed
    <3>1. CASE n < Len(file.entries)
      <4>1. n # 0 => n \in 1..(Len(file.entries) - 1)
        BY <1>1, <3>1
      <4>2. n = 0 \/ Get(n) = Unusable
        BY <2>2, <4>1 DEF Listed
      <4>3. Get(0) = Unusable
        BY FileHolds
      <4> QED BY <2>2, <4>2, <4>3
    <3>2. CASE ~(n < Len(file.entries))
      <4>1. Get(n) = NoConstant
        BY <3>2, FileHolds
      <4> QED BY <2>2, <4>1
    <3> QED BY <3>1, <3>2
  <2> QED BY <2>1, <2>2
<1> QED BY <1>2, <1>3

\* A line is that of the slot it is numbered by.
LEMMA LinesAreFor ==
    ASSUME InOrder
    PROVE  /\ Len(section) \in Nat /\ DOMAIN section = 1..Len(section)
           /\ \A i \in DOMAIN section :
                  section[i].index \in Listed /\ section[i] = LineFor(section[i].index)
<1> DEFINE OfSlots == {LineFor(n) : n \in Listed}
<1>1. section \in Seq(OfSlots)
  BY DEF InOrder
<1> HIDE DEF OfSlots
<1>2. Len(section) \in Nat /\ DOMAIN section = 1..Len(section) /\ \A i \in 1..Len(section) : section[i] \in OfSlots
  BY <1>1
<1>3. ASSUME NEW l \in OfSlots PROVE l.index \in Listed /\ l = LineFor(l.index)
  <2>1. PICK n \in Listed : l = LineFor(n)
    BY DEF OfSlots
  <2>2. LineFor(n).index = n
    BY DEF LineFor
  <2> QED BY <2>1, <2>2
<1> QED BY <1>2, <1>3

\* The section has one line for every slot that is listed, and no other.
LEMMA OneLineEach ==
    ASSUME SectionInv, SectionIsPrinted, NEW n \in Nat
    PROVE  /\ n \in Listed => /\ \E i \in DOMAIN section : LinesAt(n) = {i}
                              /\ LinesAt(n) # {} /\ LineAt(n) = LineFor(n)
           /\ n \notin Listed => LinesAt(n) = {}
<1> USE DEF SectionInv
<1>1. /\ Len(section) \in Nat /\ DOMAIN section = 1..Len(section)
      /\ \A i \in DOMAIN section :
             section[i].index \in Listed /\ section[i] = LineFor(section[i].index)
  BY LinesAreFor
<1>2. Len(file.entries) \in Nat /\ Listed \subseteq Nat
  BY FileHolds DEF Listed
<1>3. CASE n \in Listed
  <2>1. n <= at
    <3> SUFFICES ASSUME ~(n <= at) PROVE FALSE
      OBVIOUS
    <3>1. n \in (at + 1)..(Len(file.entries) - 1) /\ Get(n) # Unusable
      BY <1>2, <1>3 DEF Listed
    <3>2. n \in Coming
      BY <3>1 DEF Coming
    <3> QED BY <3>2
  <2>2. PICK i \in 1..Len(section) : section[i].index = n
    BY <1>3, <2>1 DEF Reached
  <2>3. ASSUME NEW j \in 1..Len(section), section[j].index = n PROVE j = i
    <3>1. ~(n < n)
      BY <1>2, <1>3
    <3>2. ~(i < j) /\ ~(j < i)
      BY <2>2, <2>3, <3>1 DEF InOrder
    <3> QED BY <1>1, <3>2
  <2>4. LinesAt(n) = {i}
    BY <1>1, <2>2, <2>3 DEF LinesAt
  <2>5. LineAt(n) = LineFor(n)
    <3>1. (CHOOSE k \in LinesAt(n) : TRUE) = i
      BY <2>4
    <3> QED BY <1>1, <2>2, <3>1 DEF LineAt
  <2> QED BY <1>1, <1>3, <2>4, <2>5
<1>4. CASE n \notin Listed
  BY <1>1, <1>4 DEF LinesAt
<1> QED BY <1>3, <1>4

\* What a reader finds in the lines is what the program finds in the pool.
LEMMA ReadersFindTheSame ==
    ASSUME SectionInv, SectionIsPrinted
    PROVE  \A n \in Nat : /\ TextAt(n) = Utf8(n) /\ ClassAt(n) = ClassName(n) /\ PairAt(n) = NameAndType(n)
                          /\ TagAt(n) = IF n \in Listed THEN Get(n).tag ELSE "none"
<1>1. Of
  BY DEF SectionInv
<1>2. {"Utf8", "Class", "NameAndType"} \subseteq Tags /\ "none" \notin Tags
  BY DEF Tags, Numbers, ByName, Members, Dynamics
<1>3. ASSUME NEW n \in Nat
      PROVE  /\ TagAt(n) = IF n \in Listed THEN Get(n).tag ELSE "none"
             /\ \A tag \in {"Utf8", "Class", "NameAndType"} :
                    /\ TagAt(n) = tag <=> Get(n).tag = tag
                    /\ TagAt(n) = tag => LineAt(n).refs = Get(n).refs /\ LineAt(n).words = Words(Get(n))
  <2>1. TagAt(n) = IF n \in Listed THEN Get(n).tag ELSE "none"
    <3>1. CASE n \in Listed
      <4>1. LinesAt(n) # {} /\ LineAt(n) = LineFor(n)
        BY <3>1, OneLineEach
      <4>2. LineFor(n).tag = Get(n).tag
        BY DEF LineFor
      <4> QED BY <3>1, <4>1, <4>2 DEF TagAt
    <3>2. CASE n \notin Listed
      BY <3>2, OneLineEach DEF TagAt
    <3> QED BY <3>1, <3>2
  <2>2. ASSUME NEW tag \in {"Utf8", "Class", "NameAndType"}
        PROVE  /\ TagAt(n) = tag <=> Get(n).tag = tag
               /\ TagAt(n) = tag => LineAt(n).refs = Get(n).refs /\ LineAt(n).words = Words(Get(n))
    <3>1. Get(n).tag = tag => n \in Listed
      BY <1>1, <1>2, TaggedIsListed
    <3>2. TagAt(n) = tag <=> Get(n).tag = tag
      BY <1>2, <2>1, <3>1
    <3>3. ASSUME TagAt(n) = tag PROVE LineAt(n).refs = Get(n).refs /\ LineAt(n).words = Words(Get(n))
      <4>1. n \in Listed /\ Get(n).tag = tag
        BY <3>1, <3>2, <3>3
      <4>2. LineAt(n) = LineFor(n)
        BY <4>1, OneLineEach
      <4>3. LineFor(n).refs = References(Get(n)) /\ LineFor(n).words = Words(Get(n))
        BY DEF LineFor
      <4>4. References(Get(n)) = Get(n).refs
        BY <4>1 DEF References
      <4> QED BY <4>2, <4>3, <4>4
    <3> QED BY <3>2, <3>3
  <2> QED BY <2>1, <2>2
<1>4. ASSUME NEW n \in Nat PROVE TextAt(n) = Utf8(n)
  <2>1. Get(n).tag = "Utf8" => Words(Get(n)) = <<Get(n).text>>
    BY DEF Words, Numbers, ByName, Members, Dynamics
  <2> QED BY <1>3, <2>1 DEF TextAt, Utf8
<1>5. ASSUME NEW n \in Nat PROVE ClassAt(n) = ClassName(n)
  <2>1. Get(n).tag = "Class" => Get(n).refs[1] \in Nat
    BY <1>1, <1>2, TaggedIsListed DEF ByName
  <2> QED BY <1>3, <1>4, <2>1 DEF ClassAt, ClassName
<1>6. ASSUME NEW n \in Nat PROVE PairAt(n) = NameAndType(n)
  <2>1. CASE Get(n).tag = "NameAndType"
    <3>1. Get(n).refs[1] \in Nat /\ Get(n).refs[2] \in Nat
      BY <1>1, <1>2, <2>1, TaggedIsListed
    <3>2. TagAt(n) = "NameAndType" /\ LineAt(n).refs = Get(n).refs
      BY <1>3, <2>1
    <3>3. TextAt(LineAt(n).refs[1]) = Utf8(Get(n).refs[1]) /\ TextAt(LineAt(n).refs[2]) = Utf8(Get(n).refs[2])
      BY <1>4, <3>1, <3>2
    <3> QED BY <2>1, <3>2, <3>3 DEF PairAt, NameAndType
  <2>2. CASE Get(n).tag # "NameAndType"
    <3>1. TagAt(n) # "NameAndType"
      BY <1>3, <2>2
    <3> QED BY <2>2, <3>1 DEF PairAt, NameAndType
  <2> QED BY <2>1, <2>2
<1> QED BY <1>3, <1>4, <1>5, <1>6
-----------------------------------------------------------------------------
\* The pool of a file does not change, nor what is said of it.
LEMMA PoolStays ==
    ASSUME file' = file
    PROVE  /\ \A n : Get(n)' = Get(n) /\ LineFor(n)' = LineFor(n) /\ SaidOf(n)' = SaidOf(n)
           /\ Listed' = Listed
<1>1. \A n : Get(n)' = Get(n)
  BY DEF Get
<1>2. \A n : Utf8(n)' = Utf8(n)
  BY <1>1 DEF Utf8
<1>3. \A n : ClassName(n)' = ClassName(n) /\ NameAndType(n)' = NameAndType(n)
  BY <1>1, <1>2 DEF ClassName, NameAndType
<1>4. \A c : Member(c)' = Member(c)
  BY <1>3 DEF Member
<1>5. \A c : Words(c)' = Words(c)
  BY <1>2, <1>4 DEF Words
<1>6. \A c : OperandWords(c)' = OperandWords(c)
  BY <1>2, <1>3, <1>4 DEF OperandWords
<1>7. \A n : LineFor(n)' = LineFor(n)
  BY <1>1, <1>5 DEF LineFor
<1>8. Listed' = Listed
  BY <1>1 DEF Listed
<1>9. ASSUME NEW n PROVE SaidOf(n)' = SaidOf(n)
  <2>1. This(n)' = This(n) /\ Interface(n)' = Interface(n) /\ Caught(n)' = Caught(n)
    BY <1>3 DEF This, Interface, Caught
  <2>2. Text(n)' = Text(n)
    BY <1>2 DEF Text
  <2>3. Operand(n)' = Operand(n)
    BY <1>1, <1>6 DEF Operand
  <2>4. Verified(n)' = Verified(n) /\ Unset(n)' = Unset(n)
    BY <1>3 DEF Verified, Unset
  <2>5. ClassName(n)' = ClassName(n)
    BY <1>3
  <2> QED BY <2>1, <2>2, <2>3, <2>4, <2>5 DEF SaidOf
<1> QED BY <1>1, <1>7, <1>8, <1>9

\* Nothing is listed or said yet.
LEMMA SectionInitial == ListingInit => SectionInv
<1> SUFFICES ASSUME ListingInit PROVE SectionInv
  OBVIOUS
<1>1. Of /\ at = 0 /\ section = <<>> /\ said = <<>> /\ ~SectionIsPrinted
  BY DEF ListingInit, Init, Of, SectionIsPrinted
<1>2. InOrder
  <2>1. section \in Seq({LineFor(n) : n \in Listed}) /\ Len(section) = 0
    BY <1>1
  <2> QED BY <2>1 DEF InOrder
<1>3. Reached
  BY <1>1, ListedIsTagged DEF Reached
<1> QED BY <1>1, <1>2, <1>3 DEF SectionInv

\* One turn of the loop: the next slot that is no hole.
LEMMA ConstantIsListed ==
    ASSUME SectionInv, ListConstant
    PROVE  SectionInv'
<1> USE DEF SectionInv
<1>1. /\ file' = file /\ said' = said /\ class' = class /\ flags' = flags /\ stage' = stage
      /\ stage = "pool"
  BY DEF ListConstant, vars
<1>2. PICK n \in Coming :
          /\ \A m \in Coming : n <= m
          /\ at' = n
          /\ section' = Append(section, LineFor(n))
  BY DEF ListConstant, LineFor, Numbered
<1>3. Coming = {m \in Listed : at < m} /\ Listed \subseteq Nat
  <2>1. Len(file.entries) \in Nat
    BY FileHolds
  <2> QED BY <2>1 DEF Coming, Listed
<1>4. n \in Listed /\ n \in Nat /\ at < n
  BY <1>2, <1>3
<1>5. Listed' = Listed /\ \A m : LineFor(m)' = LineFor(m) /\ SaidOf(m)' = SaidOf(m)
  BY <1>1, PoolStays
<1> DEFINE OfSlots == {LineFor(m) : m \in Listed}
<1>6. section \in Seq(OfSlots) /\ LineFor(n) \in OfSlots
  BY <1>4 DEF InOrder
<1>7. OfSlots' = OfSlots
  BY <1>5
<1> HIDE DEF OfSlots
<1>8. /\ section' \in Seq(OfSlots) /\ Len(section') = Len(section) + 1 /\ Len(section) \in Nat
      /\ section'[Len(section) + 1] = LineFor(n)
      /\ \A i \in 1..Len(section) : section'[i] = section[i]
  BY <1>2, <1>6
<1>9. LineFor(n).index = n
  BY DEF LineFor
<1>10. \A i \in 1..Len(section) : section[i].index \in Nat /\ section[i].index <= at
  BY <1>3, LinesAreFor DEF InOrder
<1>11. InOrder'
  <2>1. section' \in Seq({LineFor(m) : m \in Listed})'
    BY <1>7, <1>8 DEF OfSlots
  <2>2. ASSUME NEW i \in 1..(Len(section) + 1) PROVE section'[i].index <= n
    <3>1. CASE i = Len(section) + 1
      BY <1>4, <1>8, <1>9, <3>1
    <3>2. CASE i # Len(section) + 1
      <4>1. i \in 1..Len(section)
        BY <1>8, <3>2
      <4> QED BY <1>4, <1>8, <1>10, <4>1
    <3> QED BY <3>1, <3>2
  <2>3. ASSUME NEW i \in 1..(Len(section) + 1), NEW j \in 1..(Len(section) + 1), i < j
        PROVE  section'[i].index < section'[j].index
    <3>1. i \in 1..Len(section)
      BY <1>8, <2>3
    <3>2. CASE j = Len(section) + 1
      BY <1>4, <1>8, <1>9, <1>10, <3>1, <3>2
    <3>3. CASE j # Len(section) + 1
      <4>1. j \in 1..Len(section)
        BY <1>8, <3>3
      <4>2. section[i].index < section[j].index
        BY <2>3, <3>1, <4>1 DEF InOrder
      <4> QED BY <1>8, <3>1, <4>1, <4>2
    <3> QED BY <3>2, <3>3
  <2> QED BY <1>2, <1>8, <2>1, <2>2, <2>3 DEF InOrder
<1>12. Reached'
  <2> SUFFICES ASSUME NEW m \in Listed, m <= n
               PROVE  \E i \in 1..(Len(section) + 1) : section'[i].index = m
    BY <1>2, <1>5, <1>8 DEF Reached
  <2>1. CASE m <= at
    <3>1. PICK i \in 1..Len(section) : section[i].index = m
      BY <2>1 DEF Reached
    <3>2. i \in 1..(Len(section) + 1)
      BY <1>8
    <3> QED BY <1>8, <3>1, <3>2
  <2>2. CASE ~(m <= at)
    <3>1. m \in Coming /\ m \in Nat
      BY <1>3, <2>2
    <3>2. m = n
      BY <1>2, <1>4, <3>1
    <3>3. Len(section) + 1 \in 1..(Len(section) + 1)
      BY <1>8
    <3> QED BY <1>8, <1>9, <3>2, <3>3
  <2> QED BY <2>1, <2>2
<1>13. ~SectionIsPrinted'
  BY <1>1 DEF SectionIsPrinted
<1>14. \A i \in DOMAIN said' : \E m \in Nat : said'[i] \in SaidOf(m)'
  BY <1>1, <1>5
<1> QED BY <1>1, <1>2, <1>4, <1>11, <1>12, <1>13, <1>14 DEF Of

\* Any other step leaves the section alone; what it says is of the pool.
LEMMA SectionStays ==
    ASSUME SectionInv, UNCHANGED <<file, class, flags, at, section>>,
           SectionIsPrinted' => SectionIsPrinted \/ Coming = {},
           \A i \in DOMAIN said' : \E n \in Nat : said'[i] \in SaidOf(n)
    PROVE  SectionInv'
<1> USE DEF SectionInv
<1>1. Listed' = Listed /\ \A n : Get(n)' = Get(n) /\ LineFor(n)' = LineFor(n) /\ SaidOf(n)' = SaidOf(n)
  BY PoolStays
<1>2. Coming' = Coming
  BY <1>1 DEF Coming
<1>3. {LineFor(n) : n \in Listed}' = {LineFor(n) : n \in Listed}
  BY <1>1
<1>4. InOrder'
  BY <1>3 DEF InOrder
<1>5. Reached'
  BY <1>1 DEF Reached
<1>6. \A i \in DOMAIN said' : \E n \in Nat : said'[i] \in SaidOf(n)'
  BY <1>1
<1> QED BY <1>2, <1>4, <1>5, <1>6 DEF Of

\* One of the places that may be in some lines, or none.
LEMMA SaysOfSlots ==
    ASSUME NEW M, Says(M), \A m \in M : \E n \in Nat : m \in SaidOf(n)
    PROVE  \A i \in DOMAIN said' : \E n \in Nat : said'[i] \in SaidOf(n)
<1>1. said' = <<>> \/ \E m \in M : said' = <<m>>
  BY DEF Says
<1> QED BY <1>1

\* The declaration of a class names itself, its superclass and its interfaces.
LEMMA HeaderSays ==
    ASSUME Of, ListHeader
    PROVE  \A i \in DOMAIN said' : \E n \in Nat : said'[i] \in SaidOf(n)
<1> DEFINE M == {m \in UNION {SaidOf(n) : n \in Nat} : TRUE}
           heirs == Super(file.super)
           rest == [i \in DOMAIN file.interfaces |-> Interface(file.interfaces[i])]
<1>1. file.this \in Nat /\ file.super \in Nat /\ file.interfaces \in Seq(Nat)
  BY FileHolds DEF File
<1>2. \A n \in Nat : /\ This(n) \in M /\ Interface(n) \in M
                     /\ Mention("super", n, <<>>, ClassName(n)) \in M
  BY DEF SaidOf
<1>3. \A m \in M : \E n \in Nat : m \in SaidOf(n)
  OBVIOUS
<1> HIDE DEF M
<1>4. <<This(file.this)>> \in Seq(M)
  BY <1>1, <1>2
<1>5. heirs \in Seq(M)
  <2>1. <<>> \in Seq(M)
    OBVIOUS
  <2>2. Mention("super", file.super, <<>>, ClassName(file.super)) \in M
    BY <1>1, <1>2
  <2>3. <<Mention("super", file.super, <<>>, ClassName(file.super))>> \in Seq(M)
    BY <2>2
  <2> QED BY <2>1, <2>3 DEF Super
<1>6. rest \in Seq(M)
  <2>1. Len(file.interfaces) \in Nat /\ DOMAIN file.interfaces = 1..Len(file.interfaces)
        /\ \A i \in 1..Len(file.interfaces) : file.interfaces[i] \in Nat
    BY <1>1
  <2>2. \A i \in 1..Len(file.interfaces) : Interface(file.interfaces[i]) \in M
    BY <1>2, <2>1
  <2>3. rest \in [1..Len(file.interfaces) -> M]
    BY <2>1, <2>2
  <2> HIDE DEF rest
  <2> QED BY <2>1, <2>3
<1>7. said' = <<This(file.this)>> \o heirs \o rest
  BY DEF ListHeader
<1> HIDE DEF heirs, rest
<1>8. said' \in Seq(M)
  BY <1>4, <1>5, <1>6, <1>7
<1>9. \A i \in DOMAIN said' : said'[i] \in M
  BY <1>8
<1> QED BY <1>3, <1>9

LEMMA SectionStep == SectionInv /\ [ListingNext]_listingVars => SectionInv'
<1> SUFFICES ASSUME SectionInv, [ListingNext]_listingVars PROVE SectionInv'
  OBVIOUS
<1>1. Of /\ file.indices \subseteq Nat
  BY FileHolds DEF SectionInv, File
<1>2. CASE ListHeader
  <2>1. UNCHANGED <<file, class, flags, at, section>>
    BY <1>2 DEF ListHeader, Header
  <2>2. ~SectionIsPrinted'
    BY <1>2 DEF ListHeader, Header, Goto, SectionIsPrinted
  <2>3. \A i \in DOMAIN said' : \E n \in Nat : said'[i] \in SaidOf(n)
    BY <1>1, <1>2, HeaderSays
  <2> QED BY <2>1, <2>2, <2>3, SectionStays
<1>3. CASE ListConstant
  BY <1>3, ConstantIsListed
<1>4. CASE EndSection
  <2>1. UNCHANGED <<file, class, flags, at, section, said>> /\ Coming = {}
    BY <1>4 DEF EndSection, Pool
  <2>2. \A i \in DOMAIN said' : \E n \in Nat : said'[i] \in SaidOf(n)
    BY <2>1 DEF SectionInv
  <2> QED BY <2>1, <2>2, SectionStays
<1>5. \A n \in Nat : {Operand(n), Text(n), Caught(n), Verified(n), Unset(n)} \subseteq SaidOf(n)
  BY DEF SaidOf
<1>6. CASE ListFields \/ ListMethod
  <2>1. UNCHANGED <<file, class, flags, at, section>>
    BY <1>6 DEF ListFields, ListMethod, Fields, Method
  <2>2. SectionIsPrinted' => SectionIsPrinted
    BY <1>6, <2>1 DEF SectionIsPrinted, ListFields, ListMethod, Fields, Method, Goto
  <2>3. PICK N \in SUBSET Nat : Says({Text(n) : n \in N})
    BY <1>1, <1>6 DEF ListFields, ListMethod
  <2>4. \A m \in {Text(n) : n \in N} : \E n \in Nat : m \in SaidOf(n)
    BY <1>5
  <2>5. \A i \in DOMAIN said' : \E n \in Nat : said'[i] \in SaidOf(n)
    BY <2>3, <2>4, SaysOfSlots
  <2> QED BY <2>1, <2>2, <2>5, SectionStays
<1>7. CASE ListMethodBody
  <2>1. UNCHANGED <<file, class, flags, at, section>>
    BY <1>7 DEF ListMethodBody, ListInstructions, ListExceptions, ListLocals, ListFrames, ListRest,
                Instructions, Exceptions, Locals, StackMap, Code, LineNumbers, Close
  <2>2. stage \notin {"header", "pool"}
    BY <1>7 DEF ListMethodBody, ListInstructions, ListExceptions, ListLocals, ListFrames, ListRest,
                Instructions, Exceptions, Locals, StackMap, Code, LineNumbers, Close, Goto
  <2>3. SectionIsPrinted' => SectionIsPrinted
    BY <2>1, <2>2 DEF SectionIsPrinted
  <2>4. CASE said' = <<>>
    BY <2>1, <2>3, <2>4, SectionStays
  <2>5. CASE said' # <<>>
    <3>1. PICK M : Says(M) /\ \A m \in M : \E n \in Nat : m \in SaidOf(n)
      <4>1. CASE ListInstructions
        BY <1>1, <1>5, <4>1 DEF ListInstructions
      <4>2. CASE ListExceptions
        <5> DEFINE N == IF Current.exceptions = 0 THEN {} ELSE file.indices
        <5>1. Says({Caught(n) : n \in N}) /\ N \subseteq Nat
          BY <1>1, <4>2 DEF ListExceptions
        <5> HIDE DEF N
        <5> QED BY <1>5, <5>1
      <4>3. CASE ListLocals
        <5> DEFINE N == IF Shown("LOCALS", Current.locals) THEN file.indices ELSE {}
        <5>1. Says({Text(n) : n \in N}) /\ N \subseteq Nat
          BY <1>1, <4>3 DEF ListLocals
        <5> HIDE DEF N
        <5> QED BY <1>5, <5>1
      <4>4. CASE ListFrames
        <5> DEFINE N == IF Shown("STACK_MAP", Current.frames) THEN file.indices ELSE {}
                   M == UNION {{Verified(n), Unset(n)} : n \in N}
        <5>1. Says(M) /\ N \subseteq Nat
          BY <1>1, <4>4 DEF ListFrames
        <5> HIDE DEF N
        <5>2. \A m \in M : \E n \in Nat : m \in SaidOf(n)
          BY <1>5, <5>1
        <5> HIDE DEF M
        <5> QED BY <5>1, <5>2
      <4> QED BY <1>7, <2>5, <4>1, <4>2, <4>3, <4>4 DEF ListMethodBody, ListRest
    <3>2. \A i \in DOMAIN said' : \E n \in Nat : said'[i] \in SaidOf(n)
      BY <3>1, SaysOfSlots
    <3> QED BY <2>1, <2>3, <3>2, SectionStays
  <2> QED BY <2>4, <2>5
<1>8. CASE UNCHANGED listingVars
  <2>1. UNCHANGED <<file, class, flags, stage, at, section, said>>
    BY <1>8 DEF listingVars, vars
  <2>2. SectionIsPrinted' => SectionIsPrinted
    BY <2>1 DEF SectionIsPrinted
  <2>3. \A i \in DOMAIN said' : \E n \in Nat : said'[i] \in SaidOf(n)
    BY <2>1 DEF SectionInv
  <2> QED BY <2>1, <2>2, <2>3, SectionStays
<1> QED BY <1>2, <1>3, <1>4, <1>6, <1>7, <1>8 DEF ListingNext

\* In every state the section holds what is behind the iterator, and what was
\* said is of the pool.
THEOREM SectionInvariance == ListingSpec => []SectionInv
<1> QED BY SectionInitial, SectionStep, PTL DEF ListingSpec

\* What is found is a sequence of texts, and of a member there is always one.
Texts == {Get(n).text : n \in Nat} \cup {"?"}

LEMMA FoundTexts ==
    ASSUME Of
    PROVE  \A n \in Nat : ClassName(n) \in Seq(Texts) /\ NameAndType(n) \in Seq(Texts)
<1>1. \A n \in Nat : Get(n).text \in Texts
  BY DEF Texts
<1> HIDE DEF Texts
<1>2. ASSUME NEW n \in Nat PROVE Utf8(n) \in Seq(Texts)
  <2>1. Get(n).text \in Texts
    BY <1>1
  <2>2. <<Get(n).text>> \in Seq(Texts) /\ <<>> \in Seq(Texts)
    BY <2>1
  <2> QED BY <2>2 DEF Utf8
<1>3. {"Class", "NameAndType"} \subseteq Tags
  BY DEF Tags, ByName
<1>4. ASSUME NEW n \in Nat PROVE ClassName(n) \in Seq(Texts)
  <2>1. Get(n).tag = "Class" => Get(n).refs[1] \in Nat
    BY <1>3, TaggedIsListed DEF ByName
  <2>2. <<>> \in Seq(Texts)
    OBVIOUS
  <2> QED BY <1>2, <2>1, <2>2 DEF ClassName
<1>5. ASSUME NEW n \in Nat PROVE NameAndType(n) \in Seq(Texts)
  <2>1. CASE Get(n).tag = "NameAndType"
    <3>1. Get(n).refs[1] \in Nat /\ Get(n).refs[2] \in Nat
      BY <1>3, <2>1, TaggedIsListed
    <3> DEFINE a == Utf8(Get(n).refs[1])
               b == Utf8(Get(n).refs[2])
    <3>2. a \in Seq(Texts) /\ b \in Seq(Texts)
      BY <1>2, <3>1
    <3>3. NameAndType(n) = IF a # <<>> /\ b # <<>> THEN a \o b ELSE <<>>
      BY <2>1 DEF NameAndType
    <3> HIDE DEF a, b
    <3> QED BY <3>2, <3>3
  <2>2. CASE Get(n).tag # "NameAndType"
    BY <2>2 DEF NameAndType
  <2> QED BY <2>1, <2>2
<1> QED BY <1>4, <1>5

LEMMA MemberIsSomething ==
    ASSUME Of, NEW n \in Nat, Get(n).tag \in Members
    PROVE  Member(Get(n)) # <<>>
<1> DEFINE a == OrUnknown(ClassName(Get(n).refs[1]))
           b == NameAndType(Get(n).refs[2])
<1>1. Get(n).refs[1] \in Nat /\ Get(n).refs[2] \in Nat
  BY TaggedIsListed DEF Tags
<1>2. ClassName(Get(n).refs[1]) \in Seq(Texts) /\ b \in Seq(Texts)
  BY <1>1, FoundTexts
<1>3. a \in Seq(Texts) /\ a # <<>>
  <2>1. "?" \in Texts
    BY DEF Texts
  <2> HIDE DEF Texts
  <2> QED BY <1>2, <2>1 DEF OrUnknown
<1>4. Member(Get(n)) = a \o b
  BY DEF Member
<1>5. a \o b # <<>>
  <2> HIDE DEF a, b
  <2>1. Len(a) \in Nat /\ Len(a) > 0 /\ Len(b) \in Nat
    BY <1>2, <1>3
  <2>2. Len(a \o b) = Len(a) + Len(b)
    BY <1>2, <1>3
  <2> QED BY <2>1, <2>2
<1> QED BY <1>4, <1>5

\* Every number of the section leads where its comment says
\* (emit_constant_pool, ConstantPool::iter, utf8, class_name, name_and_type).
THEOREM CommentsLead == ListingSpec => []CommentsSayWhereNumbersLead
<1>1. SectionInv => CommentsSayWhereNumbersLead
  <2> SUFFICES ASSUME SectionInv, SectionIsPrinted PROVE CommentsSayWhereNumbersLead
    BY DEF CommentsSayWhereNumbersLead
  <2>1. Of /\ InOrder
    BY DEF SectionInv
  <2>2. Len(file.entries) \in Nat
    BY <2>1, FileHolds
  <2>3. ASSUME NEW n \in 0..Len(file.entries)
        PROVE  IF Get(n) \in {Unusable, NoConstant} THEN LinesAt(n) = {}
               ELSE \E i \in DOMAIN section : LinesAt(n) = {i}
    <3>1. n \in Nat
      BY <2>2
    <3>2. n \notin Listed <=> Get(n) \in {Unusable, NoConstant}
      BY <2>1, <3>1, ListedIsTagged
    <3> QED BY <3>1, <3>2, OneLineEach
  <2>4. ASSUME NEW i \in DOMAIN section
        PROVE  LET l == section[i]
               IN  /\ i > 1 => section[i - 1].index < l.index
                   /\ l.tag \in ByName => l.words = TextAt(l.refs[1])
                   /\ l.tag \in Members =>
                          l.words = OrUnknown(ClassAt(l.refs[1])) \o PairAt(l.refs[2])
                   /\ l.tag = "NameAndType" =>
                          l.words = OrUnknown(TextAt(l.refs[1])) \o OrUnknown(TextAt(l.refs[2]))
    <3> DEFINE l == section[i]
               c == Get(l.index)
    <3>1. l.index \in Listed /\ l = LineFor(l.index) /\ i \in 1..Len(section) /\ Len(section) \in Nat
      BY <2>1, LinesAreFor
    <3>2. i > 1 => section[i - 1].index < l.index
      <4>1. i > 1 => i - 1 \in 1..Len(section) /\ i - 1 < i
        BY <3>1
      <4> QED BY <2>1, <3>1, <4>1 DEF InOrder
    <3>3. LineFor(l.index).tag = c.tag /\ LineFor(l.index).refs = References(c) /\ LineFor(l.index).words = Words(c)
      BY DEF LineFor
    <3>4. l.tag = c.tag /\ l.refs = References(c) /\ l.words = Words(c)
      <4> HIDE DEF l
      <4> QED BY <3>1, <3>3
    <3>5. l.index \in Nat /\ c.tag \in Tags
      BY <2>1, <3>1, ListedIsTagged
    <3>6. /\ c.tag \in ByName \cup {"MethodType"} => c.refs[1] \in Nat
          /\ c.tag \in Members \cup {"NameAndType"} => c.refs[1] \in Nat /\ c.refs[2] \in Nat
      BY <2>1, <3>5, TaggedIsListed
    <3> HIDE DEF l, c
    <3>7. ASSUME l.tag \in ByName PROVE l.words = TextAt(l.refs[1])
      <4>1. Words(c) = Utf8(c.refs[1]) /\ References(c) = c.refs
        BY <3>4, <3>7 DEF Words, References, Numbers, ByName, Members, Dynamics
      <4> QED BY <3>4, <3>6, <3>7, <4>1, ReadersFindTheSame
    <3>8. ASSUME l.tag \in Members
          PROVE  l.words = OrUnknown(ClassAt(l.refs[1])) \o PairAt(l.refs[2])
      <4>1. Words(c) = Member(c) /\ References(c) = c.refs
        BY <3>4, <3>8 DEF Words, References, Numbers, ByName, Members, Dynamics
      <4>2. ClassAt(c.refs[1]) = ClassName(c.refs[1]) /\ PairAt(c.refs[2]) = NameAndType(c.refs[2])
        BY <3>4, <3>6, <3>8, ReadersFindTheSame
      <4> QED BY <3>4, <4>1, <4>2 DEF Member
    <3>9. ASSUME l.tag = "NameAndType"
          PROVE  l.words = OrUnknown(TextAt(l.refs[1])) \o OrUnknown(TextAt(l.refs[2]))
      <4>1. Words(c) = OrUnknown(Utf8(c.refs[1])) \o OrUnknown(Utf8(c.refs[2])) /\ References(c) = c.refs
        BY <3>4, <3>9 DEF Words, References, Numbers, ByName, Members, Dynamics
      <4>2. TextAt(c.refs[1]) = Utf8(c.refs[1]) /\ TextAt(c.refs[2]) = Utf8(c.refs[2])
        BY <3>4, <3>6, <3>9, ReadersFindTheSame
      <4> QED BY <3>4, <4>1, <4>2
    <3> QED BY <3>2, <3>7, <3>8, <3>9 DEF l
  <2> QED BY <2>3, <2>4 DEF CommentsSayWhereNumbersLead
<1> QED BY SectionInvariance, <1>1, PTL

\* A name is the same wherever it is printed (emit_header, emit_pool_operand,
\* emit_exception_table, emit_locals, emit_verification_type).
THEOREM NamesAgree == ListingSpec => []SaidAsListed
<1>1. SectionInv => SaidAsListed
  <2> SUFFICES ASSUME SectionInv, SectionIsPrinted, NEW i \in DOMAIN said
               PROVE  LET m == said[i]
                      IN  /\ m.site \in {"super", "interface", "caught", "verified"} /\ m.index # 0 =>
                                 m.words \in {ClassAt(m.index), OrUnknown(ClassAt(m.index))}
                          /\ m.site = "this" => m.words \in {ClassAt(m.index), <<"<unnamed>">>}
                          /\ m.site = "text" => m.words = OrUnknown(TextAt(m.index))
                          /\ m.site = "unset" =>
                                 m.words = IF PairAt(m.index) = <<>> THEN <<>> ELSE <<PairAt(m.index)[1]>>
                          /\ m.site = "operand" /\ TagAt(m.index) \in Numbers \cup Members \cup {"Class", "String"} =>
                                 m.words = OrUnknown(LineAt(m.index).words)
                          /\ m.site = "operand" /\ TagAt(m.index) \in Dynamics =>
                                 m.words = PairAt(LineAt(m.index).refs[2])
    BY DEF SaidAsListed
  <2>1. Of
    BY DEF SectionInv
  <2>2. PICK n \in Nat : said[i] \in SaidOf(n)
    BY DEF SectionInv
  <2>3. /\ TextAt(n) = Utf8(n) /\ ClassAt(n) = ClassName(n) /\ PairAt(n) = NameAndType(n)
        /\ TagAt(n) = IF n \in Listed THEN Get(n).tag ELSE "none"
    BY <2>2, ReadersFindTheSame
  <2>4. CASE said[i] = Operand(n)
    <3> DEFINE c == Get(n)
               m == said[i]
    <3>1. /\ m.site = "operand" /\ m.index = n
          /\ m.words = IF c = NoConstant THEN <<>> ELSE OperandWords(c)
      BY <2>4 DEF Operand, Mention
    <3> HIDE DEF m
    <3>2. "none" \notin Numbers \cup Members \cup {"Class", "String"} \cup Dynamics
      BY DEF Numbers, Members, Dynamics
    <3>3. ASSUME TagAt(n) \in Numbers \cup Members \cup {"Class", "String"} \cup Dynamics
          PROVE  /\ n \in Listed /\ TagAt(n) = c.tag /\ c.tag \in Tags /\ m.words = OperandWords(c)
                 /\ LineAt(n).words = Words(c) /\ LineAt(n).refs = References(c)
      <4>1. n \in Listed /\ TagAt(n) = c.tag
        BY <2>3, <3>2, <3>3
      <4>2. LineAt(n) = LineFor(n)
        BY <4>1, OneLineEach
      <4>3. LineFor(n).words = Words(c) /\ LineFor(n).refs = References(c)
        BY DEF LineFor
      <4>4. c.tag \in Tags
        BY <2>1, <4>1, ListedIsTagged
      <4>5. c # NoConstant
        BY <4>4, Untagged
      <4> QED BY <3>1, <4>1, <4>2, <4>3, <4>4, <4>5
    <3> HIDE DEF c
    <3>4. ASSUME TagAt(n) \in Numbers PROVE m.words = OrUnknown(LineAt(n).words)
      <4>1. c.tag \in Numbers /\ m.words = OperandWords(c) /\ LineAt(n).words = Words(c)
        BY <3>3, <3>4
      <4>2. OperandWords(c) = <<c.text>> /\ Words(c) = <<c.text>>
        BY <4>1 DEF OperandWords, Words, Numbers, ByName, Members, Dynamics
      <4> QED BY <4>1, <4>2 DEF OrUnknown
    <3>5. ASSUME TagAt(n) \in {"Class", "String"} PROVE m.words = OrUnknown(LineAt(n).words)
      <4>1. c.tag \in {"Class", "String"} /\ m.words = OperandWords(c) /\ LineAt(n).words = Words(c)
        BY <3>3, <3>5
      <4>2. OperandWords(c) = OrUnknown(Utf8(c.refs[1])) /\ Words(c) = Utf8(c.refs[1])
        BY <4>1 DEF OperandWords, Words, Numbers, ByName, Members, Dynamics
      <4> QED BY <4>1, <4>2
    <3>6. ASSUME TagAt(n) \in Members PROVE m.words = OrUnknown(LineAt(n).words)
      <4>1. c.tag \in Members /\ m.words = OperandWords(c) /\ LineAt(n).words = Words(c)
        BY <3>3, <3>6
      <4>2. OperandWords(c) = Member(c) /\ Words(c) = Member(c)
        BY <4>1 DEF OperandWords, Words, Numbers, ByName, Members, Dynamics
      <4>3. Member(c) # <<>>
        BY <2>1, <4>1, MemberIsSomething DEF c
      <4> QED BY <4>1, <4>2, <4>3 DEF OrUnknown
    <3>7. ASSUME TagAt(n) \in Dynamics PROVE m.words = PairAt(LineAt(n).refs[2])
      <4>1. c.tag \in Dynamics /\ c.tag \in Tags /\ m.words = OperandWords(c) /\ LineAt(n).refs = References(c)
        BY <3>3, <3>7
      <4>2. OperandWords(c) = NameAndType(c.refs[2]) /\ References(c) = c.refs
        BY <4>1 DEF OperandWords, References, Numbers, ByName, Members, Dynamics
      <4>3. c.refs[2] \in Nat
        BY <2>1, <4>1, TaggedIsListed DEF c
      <4> QED BY <4>1, <4>2, <4>3, ReadersFindTheSame
    <3>8. TagAt(n) \in Numbers \cup Members \cup {"Class", "String"} => m.words = OrUnknown(LineAt(n).words)
      BY <3>4, <3>5, <3>6
    <3> QED BY <3>1, <3>7, <3>8 DEF m
  <2>5. CASE said[i] = This(n)
    BY <2>3, <2>5 DEF This, Mention
  <2>6. CASE said[i] = Mention("super", n, <<>>, ClassName(n)) \/ said[i] = Interface(n)
    BY <2>3, <2>6 DEF Interface, Mention
  <2>7. CASE said[i] = Text(n)
    BY <2>3, <2>7 DEF Text, Mention
  <2>8. CASE said[i] = Caught(n)
    BY <2>3, <2>8 DEF Caught, Mention
  <2>9. CASE said[i] = Verified(n)
    BY <2>3, <2>9 DEF Verified, OrNumber, Mention
  <2>10. CASE said[i] = Unset(n)
    BY <2>3, <2>10 DEF Unset, OrNumber, Mention
  <2> QED BY <2>2, <2>4, <2>5, <2>6, <2>7, <2>8, <2>9, <2>10 DEF SaidOf
<1> QED BY SectionInvariance, <1>1, PTL
-----------------------------------------------------------------------------
(***************************************************************************)
(* The flags and the keywords of a declaration.                            *)
(***************************************************************************)

\* The words of the tests that are passed.
Passed(n, t, w) == FlattenSeq([i \in 1..n |-> Pushed(t[i], w[i])])
PassedSet(n, t, w) == {w[i] : i \in {i \in 1..n : t[i]}}

LEMMA PushedWords ==
    ASSUME NEW n \in Nat, NEW t \in [1..n -> BOOLEAN], NEW S, NEW w \in [1..n -> S]
    PROVE  /\ Passed(n, t, w) \in Seq(S)
           /\ Elements(Passed(n, t, w)) = PassedSet(n, t, w)
<1> DEFINE s == [i \in 1..n |-> Pushed(t[i], w[i])]
<1>1. \A i \in 1..n : /\ Pushed(t[i], w[i]) \in Seq(S)
                      /\ Elements(Pushed(t[i], w[i])) = IF t[i] THEN {w[i]} ELSE {}
  <2> TAKE i \in 1..n
  <2>1. w[i] \in S
    OBVIOUS
  <2>2. CASE t[i]
    <3>1. Pushed(t[i], w[i]) = <<w[i]>>
      BY <2>2 DEF Pushed
    <3>2. PICK q : q = <<w[i]>>
      OBVIOUS
    <3>3. q \in Seq(S) /\ Len(q) = 1 /\ q[1] = w[i] /\ 1..1 = {1}
      BY <2>1, <3>2
    <3>4. Elements(q) = {w[i]}
      BY <3>3 DEF Elements
    <3> QED BY <2>2, <3>1, <3>2, <3>3, <3>4
  <2>3. CASE ~t[i]
    <3>1. Pushed(t[i], w[i]) = <<>> /\ 1..Len(<<>>) = {}
      BY <2>3 DEF Pushed
    <3> QED BY <2>3, <3>1 DEF Elements
  <2> QED BY <2>2, <2>3
<1>2. s \in Seq(Seq(S)) /\ Len(s) = n /\ \A i \in 1..n : s[i] = Pushed(t[i], w[i])
  BY <1>1
<1>3. Passed(n, t, w) = Flattened(s)
  BY DEF Passed, FlattenSeq, Flattened, Flat
<1> HIDE DEF s
<1>4. /\ Flattened(s) \in Seq(S)
      /\ Elements(Flattened(s)) = UNION {Elements(s[i]) : i \in 1..n}
  BY <1>2, FlattenedElements
<1>5. \A i \in 1..n : Elements(s[i]) = IF t[i] THEN {w[i]} ELSE {}
  BY <1>1, <1>2
<1>6. UNION {Elements(s[i]) : i \in 1..n} = {w[i] : i \in {i \in 1..n : t[i]}}
  <2>1. ASSUME NEW x \in UNION {Elements(s[i]) : i \in 1..n}
        PROVE  x \in {w[i] : i \in {i \in 1..n : t[i]}}
    <3>1. PICK i \in 1..n : x \in Elements(s[i])
      OBVIOUS
    <3>2. t[i] /\ x = w[i]
      BY <1>5, <3>1
    <3> QED BY <3>2
  <2>2. ASSUME NEW i \in 1..n, t[i] PROVE w[i] \in UNION {Elements(s[j]) : j \in 1..n}
    BY <1>5, <2>2
  <2> QED BY <2>1, <2>2
<1> QED BY <1>3, <1>4, <1>6 DEF s, PassedSet

LEMMA ElementsAreTheSet == ASSUME NEW S, NEW q \in Seq(S) PROVE ToSet(q) = Elements(q)
BY DEF ToSet, Elements

\* Where a declaration is listed.
Declaring == {"Class", "Field", "Method"}

\* The tables of those, entry by entry.
LEMMA TablesAre ==
    /\ TableOf["Class"] = OfClass /\ TableOf["Field"] = OfField /\ TableOf["Method"] = OfMethod
    /\ Declaring \subseteq Contexts
    /\ OfClass[1] = "PUBLIC" /\ OfClass[2] = "PRIVATE" /\ OfClass[3] = "PROTECTED"
    /\ OfClass[4] = "STATIC" /\ OfClass[5] = "FINAL" /\ OfClass[6] = "SUPER"
    /\ OfClass[7] = "-" /\ OfClass[8] = "-" /\ OfClass[9] = "-" /\ OfClass[10] = "INTERFACE"
    /\ OfClass[11] = "ABSTRACT" /\ OfClass[12] = "-" /\ OfClass[13] = "SYNTHETIC"
    /\ OfClass[14] = "ANNOTATION" /\ OfClass[15] = "ENUM" /\ OfClass[16] = "MODULE"
    /\ OfField[1] = "PUBLIC" /\ OfField[2] = "PRIVATE" /\ OfField[3] = "PROTECTED"
    /\ OfField[4] = "STATIC" /\ OfField[5] = "FINAL" /\ OfField[6] = "-"
    /\ OfField[7] = "VOLATILE" /\ OfField[8] = "TRANSIENT" /\ OfField[9] = "-"
    /\ OfField[10] = "-" /\ OfField[11] = "-" /\ OfField[12] = "STRICT_INIT"
    /\ OfField[13] = "SYNTHETIC" /\ OfField[14] = "-" /\ OfField[15] = "ENUM" /\ OfField[16] = "-"
    /\ OfMethod[1] = "PUBLIC" /\ OfMethod[2] = "PRIVATE" /\ OfMethod[3] = "PROTECTED"
    /\ OfMethod[4] = "STATIC" /\ OfMethod[5] = "FINAL" /\ OfMethod[6] = "SYNCHRONIZED"
    /\ OfMethod[7] = "BRIDGE" /\ OfMethod[8] = "VARARGS" /\ OfMethod[9] = "NATIVE"
    /\ OfMethod[10] = "-" /\ OfMethod[11] = "ABSTRACT" /\ OfMethod[12] = "STRICT"
    /\ OfMethod[13] = "SYNTHETIC" /\ OfMethod[14] = "-" /\ OfMethod[15] = "-" /\ OfMethod[16] = "-"
<1>1. TableOf["Class"] = OfClass /\ TableOf["Field"] = OfField /\ TableOf["Method"] = OfMethod
  BY DEF TableOf
<1>2. Declaring \subseteq Contexts
  BY DEF Declaring, Contexts, TableOf
<1>3. /\ OfClass[1] = "PUBLIC" /\ OfClass[2] = "PRIVATE" /\ OfClass[3] = "PROTECTED"
      /\ OfClass[4] = "STATIC" /\ OfClass[5] = "FINAL" /\ OfClass[6] = "SUPER"
      /\ OfClass[7] = "-" /\ OfClass[8] = "-" /\ OfClass[9] = "-" /\ OfClass[10] = "INTERFACE"
      /\ OfClass[11] = "ABSTRACT" /\ OfClass[12] = "-" /\ OfClass[13] = "SYNTHETIC"
      /\ OfClass[14] = "ANNOTATION" /\ OfClass[15] = "ENUM" /\ OfClass[16] = "MODULE"
  BY DEF OfClass, Access
<1>4. /\ OfField[1] = "PUBLIC" /\ OfField[2] = "PRIVATE" /\ OfField[3] = "PROTECTED"
      /\ OfField[4] = "STATIC" /\ OfField[5] = "FINAL" /\ OfField[6] = "-"
      /\ OfField[7] = "VOLATILE" /\ OfField[8] = "TRANSIENT" /\ OfField[9] = "-"
      /\ OfField[10] = "-" /\ OfField[11] = "-" /\ OfField[12] = "STRICT_INIT"
      /\ OfField[13] = "SYNTHETIC" /\ OfField[14] = "-" /\ OfField[15] = "ENUM" /\ OfField[16] = "-"
  BY DEF OfField, Access
<1>5. /\ OfMethod[1] = "PUBLIC" /\ OfMethod[2] = "PRIVATE" /\ OfMethod[3] = "PROTECTED"
      /\ OfMethod[4] = "STATIC" /\ OfMethod[5] = "FINAL" /\ OfMethod[6] = "SYNCHRONIZED"
      /\ OfMethod[7] = "BRIDGE" /\ OfMethod[8] = "VARARGS" /\ OfMethod[9] = "NATIVE"
      /\ OfMethod[10] = "-" /\ OfMethod[11] = "ABSTRACT" /\ OfMethod[12] = "STRICT"
      /\ OfMethod[13] = "SYNTHETIC" /\ OfMethod[14] = "-" /\ OfMethod[15] = "-" /\ OfMethod[16] = "-"
  BY DEF OfMethod, Access
<1> QED BY <1>1, <1>2, <1>3, <1>4, <1>5

\* What a bit is called, whatever else is set: a name stands for one bit,
\* wherever it is used, and none is the mark of the bits that have no name.
Named(name) ==
    CASE name = "PUBLIC" -> 0 [] name = "PRIVATE" -> 1 [] name = "PROTECTED" -> 2
      [] name = "STATIC" -> 3 [] name = "FINAL" -> 4
      [] name \in {"SUPER", "IDENTITY", "SYNCHRONIZED"} -> 5
      [] name \in {"VOLATILE", "BRIDGE"} -> 6 [] name \in {"TRANSIENT", "VARARGS"} -> 7
      [] name = "NATIVE" -> 8 [] name = "INTERFACE" -> 9 [] name = "ABSTRACT" -> 10
      [] name \in {"STRICT", "STRICT_INIT"} -> 11 [] name = "SYNTHETIC" -> 12
      [] name = "ANNOTATION" -> 13 [] name = "ENUM" -> 14 [] name = "MODULE" -> 15
      [] OTHER -> 16

LEMMA NamesAreOfBits ==
    ASSUME NEW c \in Declaring, NEW pre \in BOOLEAN
    PROVE  \A b \in Known(c) : Named(NameOf(c, pre, b)) = b
<1>1. \A b \in Bits : b = 0 \/ b = 1 \/ b = 2 \/ b = 3 \/ b = 4 \/ b = 5 \/ b = 6 \/ b = 7 \/ b = 8
                      \/ b = 9 \/ b = 10 \/ b = 11 \/ b = 12 \/ b = 13 \/ b = 14 \/ b = 15
  BY DEF Bits
<1>2. CASE c = "Class"
  <2>0. TableOf[c] = OfClass
    BY <1>2, TablesAre
  <2>1. \A b \in Bits : NameOf(c, pre, b) = IF pre /\ b = 5 THEN "IDENTITY" ELSE OfClass[b + 1]
    BY <1>2, <2>0, Zenon DEF NameOf
  <2>2. \A b \in Bits : OfClass[b + 1] # "-" => Named(NameOf(c, pre, b)) = b
    BY <1>1, <2>1, TablesAre DEF Named
  <2> QED BY <2>0, <2>2 DEF Known
<1>3. CASE c = "Field"
  <2>0. TableOf[c] = OfField
    BY <1>3, TablesAre
  <2>1. \A b \in Bits : NameOf(c, pre, b) = OfField[b + 1]
    BY <1>3, <2>0, Zenon DEF NameOf
  <2>2. \A b \in Bits : OfField[b + 1] # "-" => Named(NameOf(c, pre, b)) = b
    BY <1>1, <2>1, TablesAre DEF Named
  <2> QED BY <2>0, <2>2 DEF Known
<1>4. CASE c = "Method"
  <2>0. TableOf[c] = OfMethod
    BY <1>4, TablesAre
  <2>1. \A b \in Bits : NameOf(c, pre, b) = OfMethod[b + 1]
    BY <1>4, <2>0, Zenon DEF NameOf
  <2>2. \A b \in Bits : OfMethod[b + 1] # "-" => Named(NameOf(c, pre, b)) = b
    BY <1>1, <2>1, TablesAre DEF Named
  <2> QED BY <2>0, <2>2 DEF Known
<1> QED BY <1>2, <1>3, <1>4 DEF Declaring

\* The tests, one by one.
LEMMA TestsAre ==
    /\ Len(Tests) = 11 /\ DOMAIN Tests = 1..11
    /\ Tests[1] = Keyword("public", 0, Contexts) /\ Tests[2] = Keyword("private", 1, Contexts)
    /\ Tests[3] = Keyword("protected", 2, Contexts) /\ Tests[4] = Keyword("static", 3, Contexts)
    /\ Tests[5] = Keyword("final", 4, Contexts) /\ Tests[6] = Keyword("synchronized", 5, {"Method"})
    /\ Tests[7] = Keyword("volatile", 6, {"Field"}) /\ Tests[8] = Keyword("transient", 7, {"Field"})
    /\ Tests[9] = Keyword("native", 8, {"Method"}) /\ Tests[10] = Keyword("abstract", 10, Contexts)
    /\ Tests[11] = Keyword("strictfp", 11, {"Method"})
BY DEF Tests

\* A keyword has its flag beside it wherever it is tested, but for "abstract"
\* of a field; and that flag is of no other bit, and known nowhere else.
LEMMA KeywordsAreOfFlags ==
    ASSUME NEW c \in Declaring, NEW pre \in BOOLEAN, NEW i \in 1..11
    PROVE  /\ Tests[i].word \in DOMAIN FlagOf /\ FlagOf[Tests[i].word] # "UNKNOWN"
           /\ c \in Tests[i].where =>
                  \/ /\ Tests[i].bit \in Known(c)
                     /\ NameOf(c, pre, Tests[i].bit) = FlagOf[Tests[i].word]
                  \/ Tests[i].word = "abstract" /\ c = "Field" /\ Tests[i].bit \notin Known(c)
           /\ \A b \in Known(c) :
                  NameOf(c, pre, b) = FlagOf[Tests[i].word] => b = Tests[i].bit /\ c \in Tests[i].where
<1>1. c \in Contexts
  BY TablesAre
<1>2. CASE c = "Class"
  BY <1>1, <1>2, TablesAre, TestsAre, SMTT(60) DEF NameOf, Known, Bits, Keyword, FlagOf
<1>3. CASE c = "Field"
  BY <1>1, <1>3, TablesAre, TestsAre, SMTT(60) DEF NameOf, Known, Bits, Keyword, FlagOf
<1>4. CASE c = "Method"
  BY <1>1, <1>4, TablesAre, TestsAre, SMTT(60) DEF NameOf, Known, Bits, Keyword, FlagOf
<1> QED BY <1>2, <1>3, <1>4 DEF Declaring

LEMMA EveryKeywordIsTested == \A w \in DOMAIN FlagOf : \E i \in 1..11 : Tests[i].word = w
BY TestsAre DEF FlagOf, Keyword

\* The names of the bits that are set: of every known one, and of the others
\* the mark.
LEMMA NamesDecoded ==
    ASSUME NEW c \in Declaring, NEW pre, NEW set \in SUBSET Bits
    PROVE  ToSet(Decode(c, set, pre)) =
               {NameOf(c, pre, b) : b \in set \cap Known(c)}
               \cup (IF set \subseteq Known(c) THEN {} ELSE {"UNKNOWN"})
<1> DEFINE t == [i \in 1..16 |-> i - 1 \in set \cap Known(c)]
           w == [i \in 1..16 |-> NameOf(c, pre, i - 1)]
           S == {w[i] : i \in 1..16} \cup {"UNKNOWN"}
           q == Passed(16, t, w)
           mark == Pushed(~(set \subseteq Known(c)), "UNKNOWN")
<1>1. Decode(c, set, pre) = q \o mark
  BY DEF Decode, Passed
<1>2. t \in [1..16 -> BOOLEAN] /\ w \in [1..16 -> S]
  OBVIOUS
<1>3. PassedSet(16, t, w) = {NameOf(c, pre, b) : b \in set \cap Known(c)}
  <2>1. ASSUME NEW b \in set \cap Known(c)
        PROVE  \E i \in 1..16 : t[i] /\ w[i] = NameOf(c, pre, b)
    <3>1. b + 1 \in 1..16 /\ (b + 1) - 1 = b
      BY DEF Bits
    <3>2. t[b + 1] /\ w[b + 1] = NameOf(c, pre, b)
      BY <3>1
    <3> QED BY <3>1, <3>2
  <2>2. ASSUME NEW i \in 1..16, t[i]
        PROVE  w[i] \in {NameOf(c, pre, b) : b \in set \cap Known(c)}
    <3>1. i - 1 \in set \cap Known(c) /\ w[i] = NameOf(c, pre, i - 1)
      BY <2>2
    <3> QED BY <3>1
  <2> HIDE DEF t, w
  <2> QED BY <2>1, <2>2 DEF PassedSet
<1>4. \A i \in 1..16 : t[i] \in BOOLEAN
  BY <1>2
<1> HIDE DEF t, w
<1>5. "UNKNOWN" \in S
  OBVIOUS
<1> HIDE DEF S
<1>6. q \in Seq(S) /\ Elements(q) = PassedSet(16, t, w)
  <2>1. 16 \in Nat
    OBVIOUS
  <2> QED BY <1>2, <2>1, PushedWords
<1>7. mark \in Seq(S) /\ Elements(mark) = IF set \subseteq Known(c) THEN {} ELSE {"UNKNOWN"}
  <2>1. CASE set \subseteq Known(c)
    <3>1. mark = <<>> /\ 1..Len(<<>>) = {} /\ <<>> \in Seq(S)
      BY <2>1 DEF Pushed
    <3> QED BY <2>1, <3>1 DEF Elements
  <2>2. CASE ~(set \subseteq Known(c))
    <3>1. mark = <<"UNKNOWN">>
      BY <2>2 DEF Pushed
    <3>2. PICK p : p = <<"UNKNOWN">>
      OBVIOUS
    <3>3. p \in Seq(S) /\ Len(p) = 1 /\ p[1] = "UNKNOWN" /\ 1..1 = {1}
      BY <1>5, <3>2
    <3>4. Elements(p) = {"UNKNOWN"}
      BY <3>3 DEF Elements
    <3> QED BY <2>2, <3>1, <3>2, <3>3, <3>4
  <2> QED BY <2>1, <2>2
<1> HIDE DEF q, mark
<1>8. q \o mark \in Seq(S) /\ Elements(q \o mark) = Elements(q) \cup Elements(mark)
  BY <1>6, <1>7, ElementsJoined
<1>9. ToSet(q \o mark) = Elements(q \o mark)
  BY <1>8, ElementsAreTheSet
<1> QED BY <1>1, <1>3, <1>6, <1>7, <1>8, <1>9

\* The keywords are those of the tests that are passed.
LEMMA WordsDeclared ==
    ASSUME NEW c, NEW set
    PROVE  ToSet(DeclarationKeywords(c, set)) =
               {Tests[i].word : i \in {i \in 1..11 : c \in Tests[i].where /\ Tests[i].bit \in set}}
<1> DEFINE t == [i \in 1..11 |-> c \in Tests[i].where /\ Tests[i].bit \in set]
           w == [i \in 1..11 |-> Tests[i].word]
           S == {w[i] : i \in 1..11}
           q == Passed(11, t, w)
<1>1. DeclarationKeywords(c, set) = q
  <2>1. DOMAIN Tests = 1..11
    BY TestsAre
  <2> QED BY <2>1 DEF DeclarationKeywords, Passed
<1>2. t \in [1..11 -> BOOLEAN] /\ w \in [1..11 -> S]
  OBVIOUS
<1>3. PassedSet(11, t, w) =
      {Tests[i].word : i \in {i \in 1..11 : c \in Tests[i].where /\ Tests[i].bit \in set}}
  <2>1. \A i \in 1..11 : /\ t[i] <=> c \in Tests[i].where /\ Tests[i].bit \in set
                         /\ w[i] = Tests[i].word
    OBVIOUS
  <2> HIDE DEF t, w
  <2> QED BY <2>1 DEF PassedSet
<1> HIDE DEF t, w, S
<1>4. q \in Seq(S) /\ Elements(q) = PassedSet(11, t, w)
  <2>1. 11 \in Nat
    OBVIOUS
  <2> QED BY <1>2, <2>1, PushedWords
<1>5. ToSet(q) = Elements(q)
  BY <1>4, ElementsAreTheSet
<1> QED BY <1>1, <1>3, <1>4, <1>5

\* What is declared is of some flags, in one of the three places.
DeclaredInv ==
    \A i \in DOMAIN declared : \E c \in Declaring, set \in SUBSET Bits :
        declared[i] = Declaration(c, set)

LEMMA DeclaresFlags ==
    ASSUME NEW c \in Declaring, NEW sets \in Seq(SUBSET Bits), Declares(c, sets), UNCHANGED file
    PROVE  DeclaredInv'
<1>1. DOMAIN declared' = DOMAIN sets /\ \A i \in DOMAIN sets : declared'[i] = Declaration(c, sets[i])
  BY DEF Declares
<1>2. \A i \in DOMAIN sets : sets[i] \in SUBSET Bits
  OBVIOUS
<1>3. \A set : Declaration(c, set)' = Declaration(c, set)
  BY DEF Declaration
<1>4. \A i \in DOMAIN declared' : declared'[i] = Declaration(c, sets[i])'
  BY <1>1, <1>3
<1> QED BY <1>1, <1>2, <1>4 DEF DeclaredInv

LEMMA DeclaredStep ==
    EmitInv /\ SectionInv /\ DeclaredInv /\ [ListingNext]_listingVars => DeclaredInv'
<1> SUFFICES ASSUME EmitInv, SectionInv, DeclaredInv, [ListingNext]_listingVars PROVE DeclaredInv'
  OBVIOUS
<1>1. /\ file.access \in SUBSET Bits /\ file.fields \in Seq(SUBSET Bits)
      /\ file.methods \in Seq(SUBSET Bits)
      /\ Len(file.methods) = Len(class.methods)
  <2>1. Of
    BY DEF SectionInv
  <2>2. file \in File
    BY <2>1, FileHolds
  <2>3. Len(file.methods) = Len(class.methods)
    BY <2>1, ClassListingAssumption DEF Of
  <2> QED BY <2>2, <2>3 DEF File
<1>2. "Class" \in Declaring /\ "Field" \in Declaring /\ "Method" \in Declaring
  BY DEF Declaring
<1>3. CASE ListHeader
  <2>1. <<file.access>> \in Seq(SUBSET Bits) /\ Declares("Class", <<file.access>>) /\ UNCHANGED file
    BY <1>1, <1>3 DEF ListHeader
  <2> QED BY <1>2, <2>1, DeclaresFlags
<1>4. CASE ListFields
  <2>1. Declares("Field", file.fields) /\ UNCHANGED file
    BY <1>4 DEF ListFields
  <2> QED BY <1>1, <1>2, <2>1, DeclaresFlags
<1>5. CASE ListMethod
  <2>1. method \in Nat /\ method < Len(class.methods) /\ method' = method + 1
    BY <1>5 DEF ListMethod, Method, EmitInv, EmitTypeOK
  <2>2. Len(file.methods) \in Nat /\ \A i \in 1..Len(file.methods) : file.methods[i] \in SUBSET Bits
    BY <1>1
  <2>3. method' \in 1..Len(file.methods)
    BY <1>1, <2>1, <2>2
  <2>4. PICK set \in SUBSET Bits : set = file.methods[method']
    BY <2>2, <2>3
  <2>5. <<set>> \in Seq(SUBSET Bits) /\ Declares("Method", <<set>>) /\ UNCHANGED file
    BY <1>5, <2>4 DEF ListMethod
  <2> QED BY <1>2, <2>5, DeclaresFlags
<1>6. CASE UNCHANGED <<file, declared>>
  BY <1>6 DEF DeclaredInv, Declaration
<1>7. CASE ListConstant \/ EndSection \/ ListMethodBody \/ UNCHANGED listingVars
  BY <1>6, <1>7 DEF ListConstant, EndSection, ListMethodBody, listingVars
<1> QED BY <1>3, <1>4, <1>5, <1>7 DEF ListingNext

\* The flags and the keywords of a declaration never disagree: each says which
\* bits are set, and no more than "abstract" of a field is said without its
\* flag (decode, declaration_keywords).
THEOREM FlagsAreSaid == ListingSpec => []DeclarationsSayTheirFlags
<1>1. ListingInit => DeclaredInv
  BY DEF ListingInit, DeclaredInv
<1>2. SectionInv /\ DeclaredInv => DeclarationsSayTheirFlags
  <2> SUFFICES ASSUME SectionInv, DeclaredInv, NEW n \in DOMAIN declared
               PROVE  LET d == declared[n]
                          known == Known(d.context)
                          says == ToSet(d.names)
                      IN  /\ {b \in known : NameOf(d.context, file.preview, b) \in says}
                             = d.set \cap known
                          /\ d.set \subseteq known <=> "UNKNOWN" \notin says
                          /\ \A w \in ToSet(d.words) :
                                 \/ FlagOf[w] \in says
                                 \/ w = "abstract" /\ d.context = "Field" /\ "UNKNOWN" \in says
                          /\ \A w \in DOMAIN FlagOf : FlagOf[w] \in says => w \in ToSet(d.words)
    BY DEF DeclarationsSayTheirFlags
  <2>1. PICK c \in Declaring, set \in SUBSET Bits : declared[n] = Declaration(c, set)
    BY DEF DeclaredInv
  <2>2. file.preview \in BOOLEAN
    BY FileHolds DEF SectionInv, File
  <2>3. PICK pre \in BOOLEAN : pre = file.preview
    BY <2>2
  <2>4. PICK says : says = ToSet(Decode(c, set, pre))
    OBVIOUS
  <2>5. PICK words : words = ToSet(DeclarationKeywords(c, set))
    OBVIOUS
  <2>6. /\ declared[n].context = c /\ declared[n].set = set
        /\ ToSet(declared[n].names) = says /\ ToSet(declared[n].words) = words
    BY <2>1, <2>3, <2>4, <2>5 DEF Declaration
  <2>7. says = {NameOf(c, pre, b) : b \in set \cap Known(c)}
               \cup (IF set \subseteq Known(c) THEN {} ELSE {"UNKNOWN"})
    BY <2>4, NamesDecoded
  <2>8. words = {Tests[i].word : i \in {i \in 1..11 : c \in Tests[i].where /\ Tests[i].bit \in set}}
    BY <2>5, WordsDeclared
  <2>9. \A b \in Known(c) : Named(NameOf(c, pre, b)) = b
    BY NamesAreOfBits
  <2>10. \A b \in Known(c) : b # 16 /\ b \in Bits
    BY DEF Known, Bits
  <2>11. Named("UNKNOWN") = 16
    BY DEF Named
  <2>12. \A b \in Known(c) : NameOf(c, pre, b) # "UNKNOWN"
    BY <2>9, <2>10, <2>11
  <2>13. \A b \in Known(c) : NameOf(c, pre, b) \in says <=> b \in set
    <3> TAKE b \in Known(c)
    <3>1. ASSUME b \in set PROVE NameOf(c, pre, b) \in says
      BY <2>7, <3>1
    <3>2. ASSUME NameOf(c, pre, b) \in says PROVE b \in set
      <4>1. PICK d \in set \cap Known(c) : NameOf(c, pre, b) = NameOf(c, pre, d)
        BY <2>7, <2>12, <3>2
      <4>2. b = d
        BY <2>9, <4>1
      <4> QED BY <4>2
    <3> QED BY <3>1, <3>2
  <2>14. set \subseteq Known(c) <=> "UNKNOWN" \notin says
    BY <2>7, <2>12
  <2>15. \A w \in words : \/ FlagOf[w] \in says
                          \/ w = "abstract" /\ c = "Field" /\ "UNKNOWN" \in says
    <3> TAKE w \in words
    <3>1. PICK i \in 1..11 : c \in Tests[i].where /\ Tests[i].bit \in set /\ w = Tests[i].word
      BY <2>8
    <3>2. CASE Tests[i].bit \in Known(c) /\ NameOf(c, pre, Tests[i].bit) = FlagOf[w]
      BY <2>13, <3>1, <3>2
    <3>3. CASE w = "abstract" /\ c = "Field" /\ Tests[i].bit \notin Known(c)
      BY <2>14, <3>1, <3>3
    <3> QED BY <3>1, <3>2, <3>3, KeywordsAreOfFlags
  <2>16. \A w \in DOMAIN FlagOf : FlagOf[w] \in says => w \in words
    <3> SUFFICES ASSUME NEW w \in DOMAIN FlagOf, FlagOf[w] \in says PROVE w \in words
      OBVIOUS
    <3>1. PICK i \in 1..11 : Tests[i].word = w
      BY EveryKeywordIsTested
    <3>2. FlagOf[w] # "UNKNOWN"
      BY <3>1, KeywordsAreOfFlags
    <3>3. PICK b \in set \cap Known(c) : FlagOf[w] = NameOf(c, pre, b)
      BY <2>7, <3>2
    <3>4. b = Tests[i].bit /\ c \in Tests[i].where
      BY <3>1, <3>3, KeywordsAreOfFlags
    <3> QED BY <2>8, <3>1, <3>3, <3>4
  <2>17. {b \in Known(c) : NameOf(c, pre, b) \in says} = set \cap Known(c)
    BY <2>13
  <2> QED BY <2>3, <2>6, <2>14, <2>15, <2>16, <2>17
<1>3. EmitInv /\ SectionInv /\ DeclaredInv /\ [ListingNext]_listingVars => DeclaredInv'
  BY DeclaredStep
<1> QED BY <1>1, <1>2, <1>3, EmitInvariance, SectionInvariance, PTL DEF ListingSpec
=============================================================================
