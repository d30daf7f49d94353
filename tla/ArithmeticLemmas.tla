-------------------------- MODULE ArithmeticLemmas --------------------------
(***************************************************************************)
(* Facts about numbers that the proofs of several modules need and the     *)
(* backends do not find by themselves: products and quotients, induction,  *)
(* functions by recursion, sums, and pieces put one behind the other.      *)
(*                                                                         *)
(* Induction is stated of a set, not of a predicate, since no backend can  *)
(* instantiate one.  That there is a least element comes from the library: *)
(* the subsets of a finite set are well-founded, and so are the 0..k.      *)
(***************************************************************************)
EXTENDS Totals, FiniteSetTheorems, TLAPS

\* A product grows with its factor.
LEMMA ProductMonotone ==
    ASSUME NEW a \in Nat, NEW b \in Nat, NEW c \in Nat, a <= b
    PROVE  a * c <= b * c
  <1>1. PICK d \in Nat : b = a + d
    BY b - a \in Nat
  <1>2. b * c = a * c + d * c
    BY <1>1
  <1>3. d * c >= 0
    OBVIOUS
  <1> QED
    BY <1>2, <1>3

\* The number of runs of size that n items need is the least that can hold
\* them: what the rounded-up divisions of push and of pages compute.
LEMMA CeilingBounds ==
    ASSUME NEW n \in Nat, n > 0, NEW size \in Nat, size > 0
    PROVE  LET k == (n + size - 1) \div size
           IN  /\ k \in Nat
               /\ k >= 1
               /\ (k - 1) * size < n
               /\ n <= k * size
  OBVIOUS

\* A quotient and a rest are those of the number they make up.
LEMMA QuotientAndRest ==
    ASSUME NEW k \in Nat, NEW n \in Nat, n > 0, NEW l \in 0..(n - 1)
    PROVE  (k * n + l) \div n = k /\ (k * n + l) % n = l
  <1> DEFINE x == k * n + l
             q == x \div n
  <1>1. k * n \in Nat /\ x \in Nat
    OBVIOUS
  <1>2. q \in Nat /\ n * q <= x /\ x < n * q + n /\ x % n = x - n * q
    <2> HIDE DEF x
    <2> QED BY <1>1
  <1> HIDE DEF q
  <1>3. n * q = q * n /\ q * n \in Nat /\ (q + 1) * n = q * n + n /\ (k + 1) * n = k * n + n
    BY <1>2
  <1>4. ~(k + 1 <= q)
    BY <1>1, <1>2, <1>3, ProductMonotone
  <1>5. ~(q + 1 <= k)
    BY <1>1, <1>2, <1>3, ProductMonotone
  <1>6. q = k
    BY <1>2, <1>4, <1>5
  <1> QED
    BY <1>1, <1>2, <1>3, <1>6 DEF q
-----------------------------------------------------------------------------
\* Every non-empty set of naturals has a least element.
LEMMA LeastElement ==
    ASSUME NEW T \in SUBSET Nat, T # {}
    PROVE  \E x \in T : \A y \in T : x <= y
<1>1. PICK n \in T : TRUE
  OBVIOUS
<1> DEFINE I == {0..k : k \in {m \in T : m <= n}}
<1>2. IsWellFoundedOn(StrictSubsetOrdering(0..n), FiniteSubsetsOf(0..n))
  BY FS_StrictSubsetOrderingWellFounded
<1>3. I \subseteq FiniteSubsetsOf(0..n)
  <2> SUFFICES ASSUME NEW k \in T, k <= n PROVE 0..k \in FiniteSubsetsOf(0..n)
    OBVIOUS
  <2>1. 0..k \in SUBSET (0..n)
    OBVIOUS
  <2>2. IsFiniteSet(0..k)
    BY FS_Interval, 0 \in Int, k \in Int
  <2> QED BY <2>1, <2>2 DEF FiniteSubsetsOf
<1>4. I # {}
  OBVIOUS
<1>5. PICK X \in I : \A Y \in I : <<Y, X>> \notin StrictSubsetOrdering(0..n)
  <2> HIDE DEF I
  <2> QED BY <1>2, <1>3, <1>4, WFMin
<1>6. PICK k \in T : k <= n /\ X = 0..k
  OBVIOUS
<1>7. ASSUME NEW y \in T, y < k PROVE FALSE
  <2>1. 0..y \in I
    BY <1>6, <1>7
  <2>2. 0..y \subseteq 0..k /\ k \in 0..k /\ k \notin 0..y
    BY <1>7
  <2>3. 0..y \in SUBSET (0..n) /\ 0..k \in SUBSET (0..n)
    BY <1>6, <1>7
  <2>4. <<0..y, 0..k>> \in StrictSubsetOrdering(0..n)
    <3> DEFINE a == 0..y
               b == 0..k
    <3>1. a \in SUBSET (0..n) /\ b \in SUBSET (0..n) /\ a \subseteq b /\ a # b
      BY <2>2, <2>3
    <3> HIDE DEF a, b
    <3>2. <<a, b>> \in StrictSubsetOrdering(0..n)
      BY <3>1 DEF StrictSubsetOrdering
    <3> QED BY <3>2 DEF a, b
  <2> QED BY <1>5, <1>6, <2>1, <2>4
<1> QED BY <1>6, <1>7

\* Induction over the naturals, for a set.
LEMMA SetInduction ==
    ASSUME NEW T, 0 \in T, \A n \in Nat : n \in T => n + 1 \in T
    PROVE  Nat \subseteq T
<1> SUFFICES ASSUME Nat \ T # {} PROVE FALSE
  OBVIOUS
<1>1. PICK x \in Nat \ T : \A y \in Nat \ T : x <= y
  BY LeastElement
<1>2. x # 0 /\ x - 1 \in Nat
  BY <1>1
<1>3. x - 1 \in T
  BY <1>1, <1>2
<1> QED BY <1>1, <1>2, <1>3

\* A bounded set of naturals has a largest element.
LEMMA LargestElement ==
    ASSUME NEW T \in SUBSET Nat, T # {}, NEW b \in Nat, \A x \in T : x <= b
    PROVE  \E x \in T : \A y \in T : y <= x
<1> DEFINE Bounds == {u \in Nat : \A x \in T : x <= u}
<1>1. Bounds \in SUBSET Nat /\ Bounds # {}
  OBVIOUS
<1>2. PICK u \in Bounds : \A v \in Bounds : u <= v
  <2> HIDE DEF Bounds
  <2> QED BY <1>1, LeastElement
<1>3. u \in T
  <2> SUFFICES ASSUME u \notin T PROVE FALSE
    OBVIOUS
  <2>1. \A x \in T : x < u
    BY <1>2
  <2>2. u # 0
    <3>1. PICK x \in T : TRUE
      OBVIOUS
    <3> QED BY <2>1, <3>1
  <2>3. u - 1 \in Bounds
    BY <1>2, <2>1, <2>2
  <2> QED BY <1>2, <2>3
<1> QED BY <1>2, <1>3

\* So has the set of the numbers of a sequence.
LEMMA BoundedSequence ==
    ASSUME NEW m \in Nat, NEW s \in [1..m -> Nat]
    PROVE  \E b \in Nat : \A i \in 1..m : s[i] <= b
<1> DEFINE T == {n \in Nat : \E b \in Nat : \A i \in 1..m : i <= n => s[i] <= b}
<1>1. 0 \in T
  OBVIOUS
<1>2. ASSUME NEW n \in Nat, n \in T PROVE n + 1 \in T
  <2>1. PICK b \in Nat : \A i \in 1..m : i <= n => s[i] <= b
    BY <1>2
  <2>2. CASE n + 1 \in 1..m
    <3>1. s[n + 1] \in Nat
      BY <2>2
    <3>2. ASSUME NEW i \in 1..m, i <= n + 1 PROVE s[i] <= b + s[n + 1]
      <4>1. s[i] \in Nat
        OBVIOUS
      <4>2. CASE i <= n
        <5>1. s[i] <= b
          BY <2>1, <4>2
        <5> QED BY <3>1, <4>1, <5>1
      <4>3. CASE i = n + 1
        BY <3>1, <4>3
      <4> QED BY <3>2, <4>2, <4>3
    <3>3. b + s[n + 1] \in Nat
      BY <3>1
    <3> DEFINE c == b + s[n + 1]
    <3>4. c \in Nat /\ \A i \in 1..m : i <= n + 1 => s[i] <= c
      BY <3>2, <3>3
    <3> HIDE DEF c
    <3> QED BY <3>4
  <2>3. CASE n + 1 \notin 1..m
    BY <2>1, <2>3
  <2> QED BY <2>2, <2>3
<1>3. Nat \subseteq T
  <2> HIDE DEF T
  <2> QED BY <1>1, <1>2, SetInduction
<1>4. m \in T
  BY <1>3
<1> QED BY <1>4
-----------------------------------------------------------------------------
\* Up to m, each value of f is made of the one before.
Follows(f, base, step, m) ==
    f[0] = base /\ \A n \in 1..m : f[n] = step[n][f[n - 1]]

\* A function by recursion exists.
LEMMA Recursion ==
    ASSUME NEW D, NEW base \in D, NEW step \in [Nat -> [D -> D]], NEW m \in Nat
    PROVE  \E f \in [0..m -> D] : Follows(f, base, step, m)
<1> DEFINE T == {k \in Nat : \E f \in [0..k -> D] : Follows(f, base, step, k)}
<1>1. 0 \in T
  <2>1. [n \in 0..0 |-> base] \in [0..0 -> D] /\ Follows([n \in 0..0 |-> base], base, step, 0)
    BY DEF Follows
  <2> QED BY <2>1
<1>2. ASSUME NEW k \in Nat, k \in T PROVE k + 1 \in T
  <2>1. PICK f \in [0..k -> D] : Follows(f, base, step, k)
    BY <1>2
  <2> DEFINE g == [n \in 0..(k + 1) |-> IF n <= k THEN f[n] ELSE step[k + 1][f[k]]]
  <2>2. f[k] \in D /\ step[k + 1][f[k]] \in D
    <3>1. k + 1 \in Nat /\ f[k] \in D
      OBVIOUS
    <3> QED BY <3>1
  <2>3. g \in [0..(k + 1) -> D]
    BY <2>2
  <2>4. ASSUME NEW n \in 1..(k + 1) PROVE g[n] = step[n][g[n - 1]]
    <3>1. CASE n <= k
      <4>1. g[n] = f[n] /\ g[n - 1] = f[n - 1] /\ n \in 1..k
        BY <3>1
      <4> QED BY <2>1, <4>1 DEF Follows
    <3>2. CASE n = k + 1
      BY <3>2
    <3> QED BY <3>1, <3>2
  <2>5. g[0] = base
    BY <2>1 DEF Follows
  <2> HIDE DEF g
  <2>6. Follows(g, base, step, k + 1)
    BY <2>4, <2>5 DEF Follows
  <2> QED BY <2>3, <2>6
<1>3. Nat \subseteq T
  <2> HIDE DEF T
  <2> QED BY <1>1, <1>2, SetInduction
<1>4. m \in T
  BY <1>3
<1> QED BY <1>4

\* The running sum is what its equation says.
LEMMA RunningSum ==
    ASSUME NEW s \in Seq(Nat)
    PROVE  /\ Running(s) \in [0..Len(s) -> Nat]
           /\ Running(s)[0] = 0
           /\ \A n \in 1..Len(s) : Running(s)[n] = Running(s)[n - 1] + s[n]
<1> DEFINE Step == [n \in Nat |-> [x \in Nat |-> x + (IF n \in 1..Len(s) THEN s[n] ELSE 0)]]
           Equation(f) == f = [n \in 0..Len(s) |-> IF n = 0 THEN 0 ELSE f[n - 1] + s[n]]
<1>1. Step \in [Nat -> [Nat -> Nat]]
  OBVIOUS
<1>2. PICK f \in [0..Len(s) -> Nat] : Follows(f, 0, Step, Len(s))
  <2> HIDE DEF Step
  <2>1. Len(s) \in Nat /\ 0 \in Nat
    OBVIOUS
  <2> QED BY <1>1, <2>1, Recursion
<1>3. \A n \in 1..Len(s) : f[n] = f[n - 1] + s[n]
  <2> TAKE n \in 1..Len(s)
  <2>1. n \in Nat /\ n - 1 \in 0..Len(s) /\ f[n - 1] \in Nat
    OBVIOUS
  <2> QED BY <1>2, <2>1 DEF Follows
<1>4. Equation(f)
  BY <1>2, <1>3 DEF Follows
<1>5. Running(s) = CHOOSE g : Equation(g)
  BY DEF Running
<1>6. Equation(Running(s))
  <2> HIDE DEF Equation
  <2> QED BY <1>4, <1>5
<1>7. \A n \in 0..Len(s) : Running(s)[n] = IF n = 0 THEN 0 ELSE Running(s)[n - 1] + s[n]
  BY <1>6
<1> DEFINE T == {n \in Nat : n <= Len(s) => Running(s)[n] \in Nat}
<1>8. Nat \subseteq T
  <2>1. 0 \in T BY <1>7
  <2>2. ASSUME NEW n \in Nat, n \in T PROVE n + 1 \in T
    BY <1>7, <2>2
  <2> HIDE DEF T
  <2> QED BY <2>1, <2>2, SetInduction
<1>9. \A n \in 0..Len(s) : Running(s)[n] \in Nat
  BY <1>8
<1>10. Running(s) \in [0..Len(s) -> Nat]
  BY <1>6, <1>9
<1> QED BY <1>7, <1>10

\* Nothing sums up to nothing.
LEMMA SumOfNone == SumOf(<<>>) = 0
<1>1. <<>> \in Seq(Nat) /\ Len(<<>>) = 0
  OBVIOUS
<1>2. Running(<<>>)[0] = 0
  BY <1>1, RunningSum
<1> QED BY <1>1, <1>2 DEF SumOf

\* One number more, and the sum is as much larger.
LEMMA SumOfAppend ==
    ASSUME NEW s \in Seq(Nat), NEW x \in Nat
    PROVE  SumOf(s) \in Nat /\ SumOf(Append(s, x)) = SumOf(s) + x
<1> DEFINE t == Append(s, x)
           T == {n \in Nat : n <= Len(s) => Running(t)[n] = Running(s)[n]}
<1>1. t \in Seq(Nat) /\ Len(t) = Len(s) + 1 /\ t[Len(s) + 1] = x
      /\ \A n \in 1..Len(s) : t[n] = s[n]
  OBVIOUS
<1> HIDE DEF t
<1>0. \A n \in 1..Len(t) : Running(t)[n] = Running(t)[n - 1] + t[n]
  BY <1>1, RunningSum
<1>00. \A n \in 1..Len(s) : Running(s)[n] = Running(s)[n - 1] + s[n]
  BY RunningSum
<1>2. Nat \subseteq T
  <2>1. 0 \in T
    BY <1>1, RunningSum
  <2>2. ASSUME NEW n \in Nat, n \in T, n + 1 <= Len(s) PROVE Running(t)[n + 1] = Running(s)[n + 1]
    <3>0. n + 1 \in 1..Len(s) /\ n + 1 \in 1..Len(t) /\ (n + 1) - 1 = n
      BY <1>1, <2>2
    <3>1. Running(t)[n + 1] = Running(t)[n] + t[n + 1]
      BY <1>0, <3>0
    <3>2. Running(s)[n + 1] = Running(s)[n] + s[n + 1]
      BY <1>00, <3>0
    <3> QED BY <1>1, <2>2, <3>1, <3>2
  <2>3. \A n \in Nat : n \in T => n + 1 \in T
    BY <2>2
  <2> HIDE DEF T
  <2> QED BY <2>1, <2>3, SetInduction
<1>3. Running(t)[Len(s)] = Running(s)[Len(s)]
  BY <1>2
<1>4. Running(t)[Len(s) + 1] = Running(t)[Len(s)] + x
  <2>1. Len(s) + 1 \in 1..Len(t) /\ (Len(s) + 1) - 1 = Len(s)
    BY <1>1
  <2> QED BY <1>0, <1>1, <2>1
<1>5. Running(s)[Len(s)] \in Nat
  BY RunningSum
<1> QED BY <1>1, <1>3, <1>4, <1>5 DEF SumOf, t
-----------------------------------------------------------------------------
(***************************************************************************)
(* Pieces put one behind the other, the recursive function of FlattenSeq,  *)
(* which has to be shown to be what its equation says.                     *)
(***************************************************************************)
Flat(s) == CHOOSE f : f = [i \in 1..Len(s) |-> IF i = 1 THEN s[i] ELSE f[i - 1] \o s[i]]

\* Each piece is put behind those before it.
LEMMA FlatGrows ==
    ASSUME NEW S, NEW s \in Seq(Seq(S))
    PROVE  \A i \in 1..Len(s) :
               /\ Flat(s)[i] \in Seq(S)
               /\ Flat(s)[i] = IF i = 1 THEN s[i] ELSE Flat(s)[i - 1] \o s[i]
<1> DEFINE D == Seq(S)
           m == Len(s)
           Step == [n \in Nat |-> [x \in D |-> IF n \in 1..m THEN x \o s[n] ELSE x]]
           Equation(f) == f = [i \in 1..m |-> IF i = 1 THEN s[i] ELSE f[i - 1] \o s[i]]
<1>1. m \in Nat /\ (\A n \in 1..m : s[n] \in D) /\ <<>> \in D
      /\ \A x, y \in D : x \o y \in D /\ <<>> \o x = x
  OBVIOUS
<1> HIDE DEF D
<1>2. Step \in [Nat -> [D -> D]]
  BY <1>1
<1>3. PICK g \in [0..m -> D] : Follows(g, <<>>, Step, m)
  <2> HIDE DEF Step, m
  <2> QED BY <1>1, <1>2, Recursion
<1>4. \A n \in 1..m : g[n] \in D /\ g[n - 1] \in D /\ g[n] = g[n - 1] \o s[n]
  <2> TAKE n \in 1..m
  <2>1. n \in Nat /\ n - 1 \in 0..m /\ n \in 0..m
    BY <1>1
  <2>2. g[n] \in D /\ g[n - 1] \in D /\ g[n] = Step[n][g[n - 1]]
    BY <1>3, <2>1 DEF Follows
  <2> QED BY <2>1, <2>2
<1>5. \A n \in 1..m : g[n] = IF n = 1 THEN s[n] ELSE g[n - 1] \o s[n]
  <2> TAKE n \in 1..m
  <2>1. CASE n = 1
    <3>1. g[0] = <<>>
      BY <1>3 DEF Follows
    <3>2. g[n - 1] = <<>>
      BY <2>1, <3>1
    <3>3. s[n] \in D /\ g[n] = g[n - 1] \o s[n]
      BY <1>1, <1>4
    <3>4. g[n] = <<>> \o s[n]
      BY <3>2, <3>3
    <3>5. g[n] = s[n]
      BY <1>1, <3>3, <3>4
    <3> QED BY <2>1, <3>5
  <2> QED BY <1>4, <2>1
<1> DEFINE h == [i \in 1..m |-> g[i]]
<1>6. Equation(h)
  <2>1. \A i \in 1..m : h[i] = IF i = 1 THEN s[i] ELSE h[i - 1] \o s[i]
    <3> TAKE i \in 1..m
    <3>1. i # 1 => i - 1 \in 1..m
      BY <1>1
    <3> QED BY <1>5, <3>1
  <2> QED BY <2>1
<1>7. Equation(Flat(s))
  <2>1. Flat(s) = CHOOSE f : Equation(f)
    BY DEF Flat
  <2> HIDE DEF Equation, h
  <2> QED BY <1>6, <2>1
<1>8. \A i \in 1..m : Flat(s)[i] = IF i = 1 THEN s[i] ELSE Flat(s)[i - 1] \o s[i]
  BY <1>7
<1> DEFINE T == {n \in Nat : n \in 1..m => Flat(s)[n] \in D}
<1>9. Nat \subseteq T
  <2>1. 0 \in T
    OBVIOUS
  <2>2. ASSUME NEW n \in Nat, n \in T PROVE n + 1 \in T
    <3>1. SUFFICES ASSUME n + 1 \in 1..m PROVE Flat(s)[n + 1] \in D
      OBVIOUS
    <3>2. CASE n = 0
      <4>1. n + 1 = 1 /\ 1 \in 1..m
        BY <3>1, <3>2
      <4>2. Flat(s)[1] = s[1] /\ s[1] \in D
        BY <1>1, <1>8, <4>1
      <4> QED BY <4>1, <4>2
    <3>3. CASE n # 0
      <4>1. n \in 1..m /\ (n + 1) - 1 = n /\ n + 1 # 1
        BY <1>1, <3>1, <3>3
      <4>2. Flat(s)[n + 1] = Flat(s)[n] \o s[n + 1]
        BY <1>8, <3>1, <4>1
      <4> QED BY <1>1, <2>2, <3>1, <4>1, <4>2
    <3> QED BY <3>2, <3>3
  <2>3. \A n \in Nat : n \in T => n + 1 \in T
    BY <2>2
  <2> HIDE DEF T
  <2> QED BY <2>1, <2>3, SetInduction
<1>10. \A i \in 1..m : Flat(s)[i] \in D
  BY <1>9
<1> QED BY <1>8, <1>10 DEF D

Flattened(s) == IF Len(s) = 0 THEN s ELSE Flat(s)[Len(s)]

\* One piece more.
LEMMA FlattenedAppend ==
    ASSUME NEW S, NEW s \in Seq(Seq(S)), NEW x \in Seq(S)
    PROVE  /\ Flattened(<<>>) = <<>>
           /\ Flattened(s) \in Seq(S) /\ Flattened(Append(s, x)) = Flattened(s) \o x
<1> DEFINE t == Append(s, x)
           m == Len(s)
<1>1. m \in Nat /\ t \in Seq(Seq(S)) /\ Len(t) = m + 1 /\ t[m + 1] = x
      /\ (\A n \in 1..m : t[n] = s[n]) /\ (m = 0 => s = <<>>)
  OBVIOUS
<1>2. \A v : Flattened(v) = IF Len(v) = 0 THEN v ELSE Flat(v)[Len(v)]
  BY DEF Flattened
<1> HIDE DEF t, m
<1>3. \A i \in 1..m : /\ Flat(s)[i] \in Seq(S)
                      /\ Flat(s)[i] = IF i = 1 THEN s[i] ELSE Flat(s)[i - 1] \o s[i]
  BY FlatGrows DEF m
<1>4. \A i \in 1..(m + 1) : Flat(t)[i] = IF i = 1 THEN t[i] ELSE Flat(t)[i - 1] \o t[i]
  BY <1>1, FlatGrows
<1> DEFINE T == {n \in Nat : n \in 1..m => Flat(t)[n] = Flat(s)[n]}
<1>5. Nat \subseteq T
  <2>1. 0 \in T
    OBVIOUS
  <2>2. ASSUME NEW n \in Nat, n \in T PROVE n + 1 \in T
    <3>1. SUFFICES ASSUME n + 1 \in 1..m PROVE Flat(t)[n + 1] = Flat(s)[n + 1]
      OBVIOUS
    <3>2. n + 1 \in 1..(m + 1) /\ t[n + 1] = s[n + 1] /\ (n + 1) - 1 = n
      BY <1>1, <3>1
    <3>3. CASE n = 0
      BY <1>3, <1>4, <3>1, <3>2, <3>3
    <3>4. CASE n # 0
      <4>1. n \in 1..m /\ n + 1 # 1
        BY <1>1, <3>1, <3>4
      <4>2. Flat(t)[n + 1] = Flat(t)[n] \o t[n + 1]
        BY <1>4, <3>2, <4>1
      <4>3. Flat(s)[n + 1] = Flat(s)[n] \o s[n + 1]
        BY <1>3, <3>1, <3>2, <4>1
      <4> QED BY <2>2, <3>2, <4>1, <4>2, <4>3
    <3> QED BY <3>3, <3>4
  <2>3. \A n \in Nat : n \in T => n + 1 \in T
    BY <2>2
  <2> HIDE DEF T
  <2> QED BY <2>1, <2>3, SetInduction
<1>6. Flattened(<<>>) = <<>>
  BY <1>2
<1>7. Flattened(t) = Flat(t)[m + 1]
  BY <1>1, <1>2
<1>8. CASE m = 0
  <2>1. Flattened(s) = <<>> /\ Flat(t)[1] = x
    BY <1>1, <1>4, <1>6, <1>8
  <2>2. <<>> \in Seq(S) /\ <<>> \o x = x
    OBVIOUS
  <2> QED BY <1>6, <1>7, <1>8, <2>1, <2>2 DEF t
<1>9. CASE m # 0
  <2>1. m \in 1..m /\ m + 1 \in 1..(m + 1) /\ (m + 1) - 1 = m /\ m + 1 # 1
    BY <1>1, <1>9
  <2>2. Flat(t)[m] = Flat(s)[m]
    BY <1>1, <1>5, <2>1
  <2>3. Flattened(s) = Flat(s)[m]
    BY <1>2, <1>9 DEF m
  <2>4. Flat(t)[m + 1] = Flat(t)[m] \o x
    BY <1>1, <1>4, <2>1
  <2> QED BY <1>3, <1>6, <1>7, <2>1, <2>2, <2>3, <2>4 DEF t
<1> QED BY <1>8, <1>9

Elements(q) == {q[j] : j \in 1..Len(q)}

LEMMA ElementsJoined ==
    ASSUME NEW S, NEW a \in Seq(S), NEW b \in Seq(S)
    PROVE  a \o b \in Seq(S) /\ Elements(a \o b) = Elements(a) \cup Elements(b)
<1> DEFINE c == a \o b
<1>1. /\ c \in Seq(S) /\ Len(a) \in Nat /\ Len(b) \in Nat /\ Len(c) = Len(a) + Len(b)
      /\ \A i \in 1..Len(c) : c[i] = IF i <= Len(a) THEN a[i] ELSE b[i - Len(a)]
  OBVIOUS
<1> HIDE DEF c
<1>2. ASSUME NEW i \in 1..Len(c) PROVE c[i] \in Elements(a) \cup Elements(b)
  <2>1. CASE i <= Len(a)
    <3>1. i \in 1..Len(a) /\ c[i] = a[i]
      BY <1>1, <2>1
    <3> QED BY <3>1 DEF Elements
  <2>2. CASE ~(i <= Len(a))
    <3>1. i - Len(a) \in 1..Len(b) /\ c[i] = b[i - Len(a)]
      BY <1>1, <2>2
    <3> QED BY <3>1 DEF Elements
  <2> QED BY <2>1, <2>2
<1>3. ASSUME NEW i \in 1..Len(a) PROVE a[i] \in Elements(c)
  <2>1. i \in 1..Len(c) /\ c[i] = a[i]
    BY <1>1
  <2> QED BY <2>1 DEF Elements
<1>4. ASSUME NEW i \in 1..Len(b) PROVE b[i] \in Elements(c)
  <2>1. /\ i + Len(a) \in 1..Len(c) /\ ~(i + Len(a) <= Len(a)) /\ (i + Len(a)) - Len(a) = i
    BY <1>1
  <2>2. c[i + Len(a)] = b[i]
    BY <1>1, <2>1
  <2> QED BY <2>1, <2>2 DEF Elements
<1>5. Elements(c) = Elements(a) \cup Elements(b)
  <2>1. Elements(c) \subseteq Elements(a) \cup Elements(b)
    BY <1>2 DEF Elements
  <2>2. Elements(a) \subseteq Elements(c)
    BY <1>3 DEF Elements
  <2>3. Elements(b) \subseteq Elements(c)
    BY <1>4 DEF Elements
  <2> QED BY <2>1, <2>2, <2>3
<1> QED BY <1>1, <1>5 DEF c

\* What is in the pieces is in what they make up, and nothing else.
LEMMA FlattenedElements ==
    ASSUME NEW S, NEW s \in Seq(Seq(S))
    PROVE  /\ Flattened(s) \in Seq(S)
           /\ Elements(Flattened(s)) = UNION {Elements(s[i]) : i \in 1..Len(s)}
<1> DEFINE m == Len(s)
           Up(n) == UNION {Elements(s[i]) : i \in 1..n}
           T == {n \in Nat : n \in 1..m => Elements(Flat(s)[n]) = Up(n)}
<1>1. m \in Nat /\ (\A n \in 1..m : s[n] \in Seq(S)) /\ (m = 0 => s = <<>>)
  OBVIOUS
<1>2. \A i \in 1..m : /\ Flat(s)[i] \in Seq(S)
                      /\ Flat(s)[i] = IF i = 1 THEN s[i] ELSE Flat(s)[i - 1] \o s[i]
  BY FlatGrows
<1> HIDE DEF m
<1>3. 0 \in T
  OBVIOUS
<1>4. ASSUME NEW n \in Nat, n \in T PROVE n + 1 \in T
  <2>1. SUFFICES ASSUME n + 1 \in 1..m PROVE Elements(Flat(s)[n + 1]) = Up(n + 1)
    OBVIOUS
  <2>2. CASE n = 0
    <3>1. Flat(s)[1] = s[1] /\ n + 1 = 1 /\ 1..1 = {1}
      BY <1>2, <2>1, <2>2
    <3>2. Up(1) = Elements(s[1])
      BY <3>1
    <3> QED BY <3>1, <3>2
  <2>3. CASE n # 0
    <3>1. n \in 1..m /\ n + 1 # 1 /\ (n + 1) - 1 = n /\ 1..(n + 1) = (1..n) \cup {n + 1}
      BY <1>1, <2>1, <2>3
    <3>2. Flat(s)[n + 1] = Flat(s)[n] \o s[n + 1]
      BY <1>2, <2>1, <3>1
    <3>3. Flat(s)[n] \in Seq(S) /\ s[n + 1] \in Seq(S)
      BY <1>1, <1>2, <2>1, <3>1
    <3>4. Elements(Flat(s)[n] \o s[n + 1]) = Elements(Flat(s)[n]) \cup Elements(s[n + 1])
      BY <3>3, ElementsJoined
    <3>5. Elements(Flat(s)[n]) = Up(n)
      BY <1>4, <3>1
    <3>6. Up(n + 1) = Up(n) \cup Elements(s[n + 1])
      BY <3>1
    <3> QED BY <3>2, <3>4, <3>5, <3>6
  <2> QED BY <2>2, <2>3
<1>5. \A n \in Nat : n \in T => n + 1 \in T
  BY <1>4
<1>6. Nat \subseteq T
  <2> HIDE DEF T
  <2> QED BY <1>3, <1>5, SetInduction
<1>7. CASE m = 0
  <2>1. Flattened(s) = <<>> /\ <<>> \in Seq(S) /\ 1..m = {} /\ Elements(<<>>) = {}
    BY <1>1, <1>7 DEF Flattened, m, Elements
  <2> QED BY <2>1 DEF m
<1>8. CASE m # 0
  <2>1. m \in 1..m /\ Flattened(s) = Flat(s)[m]
    BY <1>1, <1>8 DEF Flattened, m
  <2>2. Elements(Flat(s)[m]) = Up(m)
    BY <1>6, <1>1, <2>1
  <2> QED BY <1>2, <2>1, <2>2 DEF m
<1> QED BY <1>7, <1>8
=============================================================================
