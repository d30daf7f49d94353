--------------------------- MODULE ClassFileProofs ---------------------------
(***************************************************************************)
(* Proofs about ConstantPool and ClassFile, for input of any size and for  *)
(* any constants, counts and lengths.                                      *)
(*                                                                         *)
(* The slots: while the pool is read, the last slot is no wide constant    *)
(* (its hole is pushed with it), and there are never more slots than were  *)
(* declared but for one hole.  The slices: the last one ends where the     *)
(* reader is or before, and there is none before the pool has ended.       *)
(***************************************************************************)
EXTENDS ClassFile, ArithmeticLemmas

HolesFollowWide ==
    \A i \in 1..Len(entries) :
        entries[i] = Unusable <=> i = 1 \/ Wide(entries[i - 1])

Numbered == Len(entries) = count \/ (Len(entries) = count + 1 /\ Wide(entries[count]))

PoolInv ==
    /\ entries \in Seq(Constants \cup {Unusable})
    /\ count \in 0..(U16 - 1)
    /\ HolesFollowWide
    /\ outcome = "start" => entries = <<>>
    /\ outcome \in {"reading", "ok"} => Len(entries) >= 1 /\ count >= 1
    /\ outcome = "reading" => ~Wide(entries[Len(entries)])
    /\ count < U16 - 1 =>
           /\ outcome = "reading" =>
                  index = Len(entries) /\ (Len(entries) < count \/ Numbered)
           /\ outcome = "ok" => Numbered
-----------------------------------------------------------------------------
\* A constant is no hole, whatever it is, and a hole is not wide.
LEMMA ConstantsAreNoHoles ==
    /\ \A c \in Constants : c # Unusable
    /\ ~Wide(Unusable)
BY PoolAssumption DEF Constant, Unusable, Wide

\* The constant, and the hole behind it if it is wide, keep every hole where
\* it belongs.
LEMMA SlotsKeepHoles ==
    ASSUME entries \in Seq(Constants \cup {Unusable}), Len(entries) >= 1,
           HolesFollowWide, ~Wide(entries[Len(entries)]), NEW c \in Constants,
           entries' = entries \o Slots(c)
    PROVE  /\ entries' \in Seq(Constants \cup {Unusable})
           /\ Len(entries') = Len(entries) + (IF Wide(c) THEN 2 ELSE 1)
           /\ entries'[Len(entries) + 1] = c
           /\ ~Wide(entries'[Len(entries')])
           /\ HolesFollowWide'
<1>1. c # Unusable /\ ~Wide(Unusable)
  BY ConstantsAreNoHoles
<1>2. Slots(c) \in Seq(Constants \cup {Unusable})
  <2>1. <<c>> \in Seq(Constants \cup {Unusable})
    OBVIOUS
  <2>2. <<c, Unusable>> \in Seq(Constants \cup {Unusable})
    OBVIOUS
  <2> QED BY <2>1, <2>2 DEF Slots
<1>3. /\ Len(Slots(c)) = IF Wide(c) THEN 2 ELSE 1
      /\ Slots(c)[1] = c
      /\ Wide(c) => Slots(c)[2] = Unusable
  BY DEF Slots
<1>4. /\ entries' \in Seq(Constants \cup {Unusable})
      /\ Len(entries') = Len(entries) + Len(Slots(c))
      /\ \A i \in 1..Len(entries) : entries'[i] = entries[i]
      /\ \A i \in 1..Len(Slots(c)) : entries'[Len(entries) + i] = Slots(c)[i]
  BY <1>2
<1>5. /\ entries'[Len(entries) + 1] = c
      /\ Wide(c) => entries'[Len(entries) + 2] = Unusable
  BY <1>3, <1>4
<1>6. ~Wide(entries'[Len(entries')])
  BY <1>1, <1>3, <1>4, <1>5
<1>7. ASSUME NEW i \in 1..Len(entries')
      PROVE  entries'[i] = Unusable <=> i = 1 \/ Wide(entries'[i - 1])
  <2>1. CASE i <= Len(entries)
    <3>1. i \in 1..Len(entries) /\ entries'[i] = entries[i]
      BY <2>1, <1>4
    <3>2. i = 1 \/ i - 1 \in 1..Len(entries)
      BY <3>1
    <3>3. i # 1 => entries'[i - 1] = entries[i - 1]
      BY <3>2, <1>4
    <3> QED BY <3>1, <3>3 DEF HolesFollowWide
  <2>2. CASE i = Len(entries) + 1
    <3>1. entries'[i] = c /\ entries'[i - 1] = entries[Len(entries)] /\ i # 1
      BY <2>2, <1>4, <1>5
    <3> QED BY <3>1, <1>1
  <2>3. CASE i = Len(entries) + 2
    <3>1. Wide(c) /\ entries'[i] = Unusable /\ entries'[i - 1] = c
      BY <2>3, <1>3, <1>4, <1>5
    <3> QED BY <3>1
  <2> QED BY <2>1, <2>2, <2>3, <1>3, <1>4
<1> QED BY <1>3, <1>4, <1>5, <1>6, <1>7 DEF HolesFollowWide

LEMMA PoolInit_Inv == PoolInit => PoolInv
BY PoolAssumption DEF PoolInit, PoolInv, HolesFollowWide

\* Every turn of the pool's loop keeps its slots.
LEMMA PoolStep == PoolInv /\ PoolNext => PoolInv'
<1> SUFFICES ASSUME PoolInv, PoolNext PROVE PoolInv'
  OBVIOUS
<1>1. U16 \in Nat /\ U16 > 1 /\ count \in Nat
  BY PoolAssumption DEF PoolInv
<1>2. CASE ReadCount
  <2>1. CASE outcome' = "malformed"
    <3>1. UNCHANGED <<entries, count>>
      BY <1>2, <2>1 DEF ReadCount, Malformed
    <3> QED BY <3>1, <2>1 DEF PoolInv, HolesFollowWide, Wide
  <2>2. CASE outcome' # "malformed"
    <3>1. /\ entries' = <<Unusable>> /\ index' = 1 /\ outcome' = "reading"
          /\ count' \in 1..(U16 - 1)
      BY <1>1, <1>2, <2>2 DEF ReadCount, Malformed
    <3>2. /\ entries' \in Seq(Constants \cup {Unusable}) /\ Len(entries') = 1
          /\ entries'[1] = Unusable
      BY <3>1
    <3>3. ~Wide(entries'[Len(entries')])
      BY <3>2, ConstantsAreNoHoles
    <3>4. HolesFollowWide'
      BY <3>2 DEF HolesFollowWide
    <3>5. Len(entries') < count' \/ Numbered'
      <4>1. 1 < count' \/ count' = 1
        BY <1>1, <3>1
      <4> QED BY <3>2, <4>1 DEF Numbered
    <3> QED BY <1>1, <3>1, <3>2, <3>3, <3>4, <3>5 DEF PoolInv
  <2> QED BY <2>1, <2>2
<1>3. CASE ReadConstant
  <2>1. CASE outcome' = "malformed"
    <3>1. UNCHANGED <<entries, count>>
      BY <1>3, <2>1 DEF ReadConstant, Malformed
    <3> QED BY <3>1, <2>1 DEF PoolInv, HolesFollowWide, Wide
  <2>2. CASE outcome' # "malformed"
    <3>1. PICK c \in Constants :
              /\ entries' = entries \o Slots(c)
              /\ index' = (index + IF Wide(c) THEN 2 ELSE 1) % U16
              /\ outcome' = outcome
      BY <1>3, <2>2 DEF ReadConstant, Malformed
    <3>2. outcome = "reading" /\ index < count /\ count' = count
      BY <1>3 DEF ReadConstant, MoreToRead
    <3>3. /\ entries' \in Seq(Constants \cup {Unusable})
          /\ Len(entries') = Len(entries) + (IF Wide(c) THEN 2 ELSE 1)
          /\ entries'[Len(entries) + 1] = c
          /\ ~Wide(entries'[Len(entries')])
          /\ HolesFollowWide'
      BY <3>1, <3>2, SlotsKeepHoles DEF PoolInv
    <3>4. Len(entries) \in Nat /\ Len(entries) >= 1 /\ count >= 1
      BY <3>2 DEF PoolInv
    <3>5. ASSUME count < U16 - 1
          PROVE  index' = Len(entries') /\ (Len(entries') < count \/ Numbered')
      <4>1. index = Len(entries) /\ Len(entries) < count
        BY <3>2, <3>5 DEF PoolInv
      <4>2. Len(entries') \in Nat /\ Len(entries') < U16
        BY <1>1, <3>3, <3>4, <3>5, <4>1
      <4>3. index' = Len(entries') % U16
        BY <3>1, <3>3, <4>1
      <4>4. index' = Len(entries')
        BY <1>1, <4>2, <4>3
      <4>5. CASE Wide(c)
        BY <1>1, <3>2, <3>3, <3>4, <4>1, <4>4, <4>5 DEF Numbered
      <4>6. CASE ~Wide(c)
        BY <1>1, <3>2, <3>3, <3>4, <4>1, <4>4, <4>6 DEF Numbered
      <4> QED BY <4>5, <4>6
    <3> QED BY <1>1, <3>1, <3>2, <3>3, <3>4, <3>5 DEF PoolInv
  <2> QED BY <2>1, <2>2
<1>4. CASE FinishPool
  <2>1. /\ outcome = "reading" /\ outcome' = "ok" /\ ~(index < count)
        /\ UNCHANGED <<entries, count, index>>
    BY <1>4 DEF FinishPool, MoreToRead
  <2>2. ASSUME count < U16 - 1 PROVE Numbered
    BY <1>1, <2>1, <2>2 DEF PoolInv
  <2>3. (HolesFollowWide /\ Numbered)' = (HolesFollowWide /\ Numbered)
    BY <2>1 DEF HolesFollowWide, Numbered, Wide
  <2>4. HolesFollowWide' /\ (count < U16 - 1 => Numbered')
    BY <2>1, <2>2 DEF PoolInv, HolesFollowWide, Numbered, Wide
  <2> QED BY <2>1, <2>4 DEF PoolInv
<1> QED BY <1>2, <1>3, <1>4 DEF PoolNext

LEMMA PoolStutter == PoolInv /\ UNCHANGED poolVars => PoolInv'
BY DEF PoolInv, poolVars, HolesFollowWide, Numbered, Wide

\* What is invariant of the pool is what its slots are to be.
LEMMA PoolInvNumbers == PoolInv => SlotsAreNumbered
<1> SUFFICES ASSUME PoolInv, count < U16 - 1
             PROVE  /\ HolesFollowWide
                    /\ outcome = "reading" => index = Len(entries)
                    /\ outcome = "ok" =>
                           Numbered /\ \A e \in Iter : Get(e.index) = e.constant
  BY DEF SlotsAreNumbered, HolesFollowWide, Numbered
<1>1. U16 \in Nat /\ U16 > 1 /\ count \in Nat /\ Len(entries) \in Nat
  BY PoolAssumption DEF PoolInv
<1>2. ASSUME outcome = "ok", NEW e \in Iter PROVE Get(e.index) = e.constant
  <2>1. PICK i \in 2..Len(entries) :
            e = [index |-> (i - 1) % U16, constant |-> entries[i]]
    BY <1>2 DEF Iter
  <2>2. i - 1 \in Nat /\ i - 1 < U16 /\ i - 1 < Len(entries)
    BY <1>1, <1>2, <2>1 DEF PoolInv, Numbered
  <2>3. (i - 1) % U16 = i - 1
    BY <1>1, <2>2
  <2> QED BY <2>1, <2>2, <2>3 DEF Get
<1> QED BY <1>2 DEF PoolInv
-----------------------------------------------------------------------------
Early == {"magic", "version", "pool"}
Sections == Early \cup {"head", "interfaces", "fields", "methods", "attributes"}

\* What ClassFile hands out of an attribute.
Extent == [of : Sections, from : Nat, to : Nat]

ReaderInside == size \in Nat /\ pos \in 0..size

SliceInv ==
    /\ ReaderInside
    /\ section \in Sections
    /\ attributesLeft \in Nat
    /\ poolEnd \in Nat
    /\ section \notin Early => poolEnd <= pos
    /\ section \in Early \cup {"head"} => Len(attributes) = 0 /\ attributesLeft = 0
    /\ attributes \in Seq(Extent)
    /\ Len(attributes) > 0 => attributes[Len(attributes)].to <= pos
    /\ SlicesAreDisjoint

\* What a reader moves by is there.
LEMMA FittingStaysInside ==
    ASSUME ReaderInside, NEW w \in Nat, Fits(pos, w)
    PROVE  pos + w \in 0..size
BY DEF ReaderInside, Fits

\* The pool's reads as well.
LEMMA PoolStaysInside ==
    ASSUME ReaderInside, PoolNext
    PROVE  pos' \in pos..size /\ size' = size
<1>1. size \in Nat /\ pos \in Nat /\ pos <= size
  BY DEF ReaderInside
<1>2. CASE ReadCount
  BY <1>1, <1>2 DEF ReadCount, Fits
<1>3. CASE ReadConstant
  <2>1. CASE ~Fits(pos, 1)
    BY <1>1, <1>3, <2>1 DEF ReadConstant
  <2>2. CASE Fits(pos, 1)
    <3>1. PICK c \in Constants :
              pos' \in {pos + 1, EndOf(pos + 1, c.widths)}
              /\ (pos' = EndOf(pos + 1, c.widths) /\ pos' # pos + 1 => pos' # -1)
      BY <1>1, <1>3, <2>2 DEF ReadConstant
    <3>2. c.widths[1] \in Nat /\ c.widths[2] \in Nat
      BY PoolAssumption DEF Constant
    <3>3. EndOf(pos + 1, c.widths) = -1 \/ EndOf(pos + 1, c.widths) \in pos..size
      BY <1>1, <3>2 DEF EndOf, Fits
    <3>4. pos + 1 \in pos..size
      BY <1>1, <2>2 DEF Fits
    <3>5. size' = size
      BY <1>3 DEF ReadConstant
    <3> QED BY <1>1, <3>1, <3>3, <3>4, <3>5
  <2> QED BY <2>1, <2>2
<1>4. CASE FinishPool
  BY <1>1, <1>4 DEF FinishPool
<1> QED BY <1>2, <1>3, <1>4 DEF PoolNext

\* One more slice, behind the reader and within the input.
LEMMA NextSliceIsDisjoint ==
    ASSUME SliceInv, section \notin Early, NEW length \in Nat,
           Fits(pos, 6), Fits(pos + 6, length),
           attributes' = Append(attributes, Slice(length)),
           UNCHANGED <<size, poolEnd>>
    PROVE  /\ attributes' \in Seq(Extent)
           /\ Len(attributes') > 0
           /\ attributes'[Len(attributes')].to = pos + 6 + length
           /\ SlicesAreDisjoint'
<1>1. /\ size \in Nat /\ pos \in Nat /\ pos <= size /\ section \in Sections
      /\ attributes \in Seq(Extent) /\ Len(attributes) \in Nat
      /\ poolEnd \in Nat /\ poolEnd <= pos
  BY DEF SliceInv, ReaderInside
<1>2. /\ Slice(length) \in Extent
      /\ Slice(length).from = pos + 6
      /\ Slice(length).to = pos + 6 + length
  BY <1>1 DEF Slice, Extent
<1>3. pos + 6 + length <= size
  BY <1>1 DEF Fits
<1>4. /\ attributes' \in Seq(Extent)
      /\ Len(attributes') = Len(attributes) + 1
      /\ \A i \in 1..Len(attributes) : attributes'[i] = attributes[i]
      /\ attributes'[Len(attributes) + 1] = Slice(length)
  BY <1>1, <1>2
<1>5. ASSUME NEW i \in 1..Len(attributes')
      PROVE  /\ attributes'[i].from <= attributes'[i].to
             /\ attributes'[i].to <= size
             /\ attributes'[i].from >= 6 + IF i = 1 THEN poolEnd ELSE attributes'[i - 1].to
  <2>1. CASE i \in 1..Len(attributes)
    <3>1. attributes'[i] = attributes[i]
      BY <2>1, <1>4
    <3>2. i # 1 => i - 1 \in 1..Len(attributes) /\ attributes'[i - 1] = attributes[i - 1]
      BY <2>1, <1>1, <1>4
    <3> QED BY <2>1, <3>1, <3>2 DEF SliceInv, SlicesAreDisjoint
  <2>2. CASE i = Len(attributes) + 1
    <3>1. attributes'[i].from = pos + 6 /\ attributes'[i].to = pos + 6 + length
      BY <2>2, <1>2, <1>4
    <3>2. CASE i = 1
      BY <3>1, <3>2, <1>1, <1>3
    <3>3. CASE i # 1
      <4>1. i - 1 = Len(attributes) /\ i - 1 \in 1..Len(attributes)
        BY <2>2, <3>3, <1>1
      <4>2. attributes'[i - 1] = attributes[Len(attributes)]
        BY <4>1, <1>4
      <4>3. attributes[Len(attributes)] \in Extent /\ attributes[Len(attributes)].to <= pos
        BY <4>1, <1>1 DEF SliceInv
      <4>4. attributes'[i - 1].to \in Nat /\ attributes'[i - 1].to <= pos
        BY <4>2, <4>3 DEF Extent
      <4> QED BY <3>1, <3>3, <4>4, <1>1, <1>3
    <3> QED BY <3>2, <3>3
  <2> QED BY <2>1, <2>2, <1>1, <1>4
<1>6. SlicesAreDisjoint'
  BY <1>5 DEF SlicesAreDisjoint
<1> QED BY <1>1, <1>2, <1>4, <1>6

LEMMA SliceInit == Init => SliceInv
BY ClassFileAssumption, PoolAssumption
   DEF Init, PoolInit, SliceInv, ReaderInside, Sections, Early, SlicesAreDisjoint

\* A step that leaves the slices alone may move the reader, and the section
\* with it.
LEMMA MovingOn ==
    ASSUME SliceInv, UNCHANGED <<size, poolEnd, attributes>>,
           pos' \in pos..size, attributesLeft' \in Nat,
           section' \in Sections,
           section \notin Early <=> section' \notin Early,
           section' \in Early \cup {"head"} =>
               section \in Early \cup {"head"} /\ attributesLeft' = attributesLeft
    PROVE  SliceInv'
<1>1. size \in Nat /\ pos \in Nat /\ pos <= size /\ poolEnd \in Nat /\ pos' \in Nat /\ pos <= pos'
  BY DEF SliceInv, ReaderInside
<1>2. ASSUME Len(attributes) > 0 PROVE attributes[Len(attributes)].to \in Nat
  <2>1. Len(attributes) \in 1..Len(attributes) /\ attributes \in Seq(Extent)
    BY <1>2 DEF SliceInv
  <2>2. attributes[Len(attributes)] \in Extent
    BY <2>1
  <2> QED BY <2>2 DEF Extent
<1>3. SlicesAreDisjoint'
  BY DEF SliceInv, SlicesAreDisjoint
<1> QED BY <1>1, <1>2, <1>3 DEF SliceInv, ReaderInside

\* Every step of the parser keeps the slices apart.
LEMMA SliceStep == SliceInv /\ Next => SliceInv'
<1> SUFFICES ASSUME SliceInv, Next PROVE SliceInv'
  OBVIOUS
<1>1. size \in Nat /\ pos \in Nat /\ pos \in pos..size /\ attributesLeft \in Nat /\ section \in Sections
  BY DEF SliceInv, ReaderInside
<1>2. ASSUME UNCHANGED <<size, poolEnd, attributes, pos, attributesLeft, section>>
      PROVE  SliceInv'
  BY <1>1, <1>2, MovingOn
<1>3. ASSUME NEW error, Fail(error) PROVE SliceInv'
  BY <1>3, <1>2 DEF Fail, poolVars
<1>4. ASSUME NEW part, NEW width, TooShort(part, width) PROVE SliceInv'
  BY <1>4, <1>3 DEF TooShort
<1>5. ASSUME NEW width \in Nat, Take(width)
      PROVE  pos' \in pos..size /\ size' = size /\ pos' = pos + width
  <2>1. Fits(pos, width) /\ pos' = pos + width /\ size' = size
    BY <1>5 DEF Take
  <2>2. pos + width \in 0..size
    BY <2>1, FittingStaysInside DEF SliceInv
  <2> QED BY <1>1, <1>5, <2>1, <2>2
<1>6. CASE ReadMagic
  <2>1. CASE Take(4) /\ section = "magic" /\ section' = "version"
             /\ UNCHANGED <<attributesLeft, poolEnd, attributes>>
    BY <1>1, <1>5, <2>1, MovingOn DEF Sections, Early
  <2> QED BY <1>3, <1>4, <1>6, <2>1 DEF ReadMagic, Reading
<1>7. CASE ReadVersion
  <2>1. CASE Take(4) /\ section = "version" /\ section' = "pool"
             /\ UNCHANGED <<attributesLeft, poolEnd, attributes>>
    BY <1>1, <1>5, <2>1, MovingOn DEF Sections, Early
  <2> QED BY <1>3, <1>4, <1>7, <2>1 DEF ReadVersion, Reading
<1>8. CASE ReadPool
  <2>1. section = "pool" /\ UNCHANGED <<attributesLeft, attributes>> /\ PoolNext
    BY <1>8 DEF ReadPool, Reading
  <2>2. pos' \in pos..size /\ size' = size
    BY <1>1, <2>1, PoolStaysInside DEF SliceInv
  <2>3. CASE outcome' = "ok"
    <3>1. section' = "head" /\ poolEnd' = pos
      BY <1>8, <2>3 DEF ReadPool
    <3>2. Len(attributes) = 0 /\ attributesLeft = 0
      BY <2>1 DEF SliceInv, Early
    <3>3. SlicesAreDisjoint'
      BY <2>1, <3>2 DEF SlicesAreDisjoint
    <3> QED BY <1>1, <2>1, <2>2, <3>1, <3>2, <3>3 DEF SliceInv, ReaderInside, Sections, Early
  <2>4. CASE outcome' # "ok"
    <3>1. UNCHANGED <<section, poolEnd>>
      BY <1>8, <2>4 DEF ReadPool
    <3> QED BY <1>1, <2>1, <2>2, <3>1, MovingOn
  <2> QED BY <2>3, <2>4
<1>9. CASE ReadHead
  <2>1. CASE Take(6) /\ section = "head" /\ section' = "interfaces"
             /\ UNCHANGED <<attributesLeft, poolEnd, attributes>>
    BY <1>1, <1>5, <2>1, MovingOn DEF Sections, Early
  <2> QED BY <1>4, <1>9, <2>1 DEF ReadHead, Reading
<1>10. CASE ReadListCount
  <2>1. PICK i \in 1..4 :
            /\ section = Lists[i]
            /\ \/ TooShort(Lists[i], 2)
               \/ /\ Take(2)
                  /\ \E n \in Counts : attributesLeft' = IF Lists[i] = "attributes" THEN n ELSE 0
                  /\ UNCHANGED <<section, poolEnd, attributes>>
    BY <1>10 DEF ReadListCount, Reading
  <2>2. section \in {"interfaces", "fields", "methods", "attributes"}
    BY <2>1 DEF Lists
  <2>3. CASE Take(2) /\ attributesLeft' \in Nat /\ UNCHANGED <<section, poolEnd, attributes>>
    BY <1>1, <1>5, <2>2, <2>3, MovingOn DEF Early
  <2> QED BY <1>4, <2>1, <2>3, ClassFileAssumption
<1>11. CASE ReadInterface
  <2>1. CASE Take(2) /\ UNCHANGED <<section, attributesLeft, poolEnd, attributes>>
    BY <1>1, <1>5, <2>1, MovingOn
  <2> QED BY <1>4, <1>11, <2>1 DEF ReadInterface
<1>12. CASE ReadMember
  <2>1. CASE /\ section \in {"fields", "methods"} /\ Take(8)
             /\ attributesLeft' \in Nat /\ UNCHANGED <<section, poolEnd, attributes>>
    BY <1>1, <1>5, <2>1, MovingOn DEF Early
  <2> QED BY <1>4, <1>12, <2>1, ClassFileAssumption DEF ReadMember, Reading
<1>13. CASE ReadAttribute
  <2>1. PICK length \in Lengths :
            IF ~Fits(pos, 6) \/ ~Fits(pos + 6, length)
            THEN Fail("malformed")
            ELSE /\ Take(6 + length)
                 /\ attributes' = Append(attributes, Slice(length))
                 /\ attributesLeft' = attributesLeft - 1
                 /\ UNCHANGED <<section, poolEnd>>
    BY <1>13 DEF ReadAttribute
  <2>2. attributesLeft > 0 /\ length \in Nat
    BY <1>13, ClassFileAssumption DEF ReadAttribute
  <2>3. section \notin Early \cup {"head"}
    BY <1>1, <2>2 DEF SliceInv
  <2>4. CASE Fits(pos, 6) /\ Fits(pos + 6, length)
    <3>1. /\ Take(6 + length)
          /\ attributes' = Append(attributes, Slice(length))
          /\ attributesLeft' = attributesLeft - 1
          /\ UNCHANGED <<section, poolEnd>>
      BY <2>1, <2>4
    <3>2. pos' \in pos..size /\ size' = size /\ pos' = pos + (6 + length)
      BY <1>5, <2>2, <3>1
    <3>3. /\ attributes' \in Seq(Extent)
          /\ attributes'[Len(attributes')].to = pos + 6 + length
          /\ SlicesAreDisjoint'
      BY <2>2, <2>3, <2>4, <3>1, <3>2, NextSliceIsDisjoint
    <3>4. poolEnd \in Nat /\ poolEnd <= pos
      BY <2>3 DEF SliceInv
    <3>5. pos' \in Nat /\ poolEnd <= pos' /\ pos + 6 + length <= pos'
      BY <1>1, <2>2, <3>2, <3>4
    <3> QED BY <1>1, <2>2, <2>3, <3>1, <3>2, <3>3, <3>4, <3>5 DEF SliceInv, ReaderInside
  <2> QED BY <1>3, <2>1, <2>4
<1>14. CASE EndList
  <2>1. PICK i \in 1..4 :
            /\ section = Lists[i]
            /\ IF i = 4 THEN UNCHANGED section ELSE section' = Lists[i + 1]
    BY <1>14 DEF EndList, Reading
  <2>2. {section, section'} \subseteq {"interfaces", "fields", "methods", "attributes"}
    BY <2>1 DEF Lists
  <2>3. UNCHANGED <<size, pos, attributesLeft, poolEnd, attributes>>
    BY <1>14 DEF EndList, poolVars
  <2> QED BY <1>1, <2>2, <2>3, MovingOn DEF Sections, Early
<1> QED BY <1>6, <1>7, <1>8, <1>9, <1>10, <1>11, <1>12, <1>13, <1>14 DEF Next
-----------------------------------------------------------------------------
\* The steps of the parser that are none of the pool's leave it alone.
LEMMA PoolOrNot == Next => PoolNext \/ UNCHANGED <<count, index, entries, outcome>>
BY DEF Next, ReadMagic, ReadVersion, ReadPool, ReadHead, ReadListCount, ReadInterface,
       ReadMember, ReadAttribute, EndList, TooShort, Fail, Take, poolVars

\* In every class file that is read, however it goes on behind the pool and
\* wherever it ends, the holes of the pool are where its wide constants put
\* them, and the number a constant is listed under finds it.
THEOREM SlotNumbers == Spec => []SlotsAreNumbered
<1>1. Init => PoolInv
  BY PoolInit_Inv DEF Init
<1>2. PoolInv /\ [Next]_vars => PoolInv'
  <2> SUFFICES ASSUME PoolInv, [Next]_vars PROVE PoolInv'
    OBVIOUS
  <2>1. CASE PoolNext
    BY <2>1, PoolStep
  <2>2. CASE UNCHANGED <<count, index, entries, outcome>>
    BY <2>2 DEF PoolInv, HolesFollowWide, Numbered, Wide
  <2> QED BY <2>1, <2>2, PoolOrNot DEF vars, poolVars
<1> QED BY <1>1, <1>2, PoolInvNumbers, PTL DEF Spec

\* No byte of a class file is handed out as part of two attributes, none of
\* the pool's, and none that is not there.
THEOREM DisjointSlices == Spec => []SlicesAreDisjoint
<1>1. SliceInv /\ [Next]_vars => SliceInv'
  <2> SUFFICES ASSUME SliceInv, UNCHANGED vars PROVE SliceInv'
    BY SliceStep
  <2>1. /\ UNCHANGED <<size, poolEnd, attributes, pos, attributesLeft, section>>
        /\ pos \in pos..size /\ attributesLeft \in Nat /\ section \in Sections
    BY DEF vars, poolVars, classVars, SliceInv, ReaderInside
  <2> QED BY <2>1, MovingOn
<1>2. SliceInv => SlicesAreDisjoint
  BY DEF SliceInv
<1> QED BY <1>1, <1>2, SliceInit, PTL DEF Spec
-----------------------------------------------------------------------------
(***************************************************************************)
(* What was read adds up: behind the head, the items read and those still  *)
(* to come are those declared, and the reader is behind as many bytes as   *)
(* the counts and the items read so far take.                              *)
(***************************************************************************)
Place ==
    IF section = "fields" THEN 1 ELSE IF section = "methods" THEN 2
    ELSE IF section = "attributes" THEN 3 ELSE 0
CountsRead == Place + IF left = -1 THEN 0 ELSE 1
StillToCome == attributesLeft + IF left = -1 THEN 0 ELSE left
InFront == Early \cup {"head"}

WholeTypes ==
    /\ interfaces \in Nat /\ members \in [fields : Nat, methods : Nat] /\ declared \in Nat
    /\ left = -1 \/ left \in Nat
    /\ AttributeBytes(attributes) \in Nat

WholeInv ==
    /\ SliceInv /\ WholeTypes
    /\ section \in InFront =>
           left = 0 /\ interfaces = 0 /\ members = [fields |-> 0, methods |-> 0] /\ declared = 0
    /\ section = "head" => pos = poolEnd
    /\ left = -1 => attributesLeft = 0
    /\ section = "interfaces" => attributesLeft = 0
    /\ section = "attributes" => left \in {-1, 0}
    /\ section \notin InFront =>
           /\ interfaces + members.fields + members.methods + Len(attributes) + StillToCome = declared
           /\ pos = poolEnd + 6 + 2 * CountsRead + 2 * interfaces
                    + 8 * (members.fields + members.methods) + AttributeBytes(attributes)
    /\ parse = "ok" => section = "attributes" /\ left = 0 /\ attributesLeft = 0

\* The bytes of one attribute more.
LEMMA BytesOfAppend ==
    ASSUME NEW s \in Seq(Extent), \A i \in 1..Len(s) : s[i].from <= s[i].to,
           NEW e \in Extent, e.from <= e.to
    PROVE  /\ AttributeBytes(<<>>) = 0 /\ AttributeBytes(s) \in Nat
           /\ AttributeBytes(Append(s, e)) = AttributeBytes(s) + 6 + (e.to - e.from)
<1> DEFINE Bytes(a) == 6 + (a.to - a.from)
           v == Append(s, e)
           n == Len(s)
           t == [i \in DOMAIN s |-> Bytes(s[i])]
           u == [i \in DOMAIN v |-> Bytes(v[i])]
<1>1. ASSUME NEW a \in Extent, a.from <= a.to PROVE Bytes(a) \in Nat
  <2>1. a.from \in Nat /\ a.to \in Nat
    BY DEF Extent
  <2> QED BY <1>1, <2>1
<1>2. /\ n \in Nat /\ DOMAIN s = 1..n /\ DOMAIN v = 1..(n + 1) /\ Len(v) = n + 1
      /\ v[n + 1] = e /\ (\A i \in 1..n : v[i] = s[i] /\ s[i] \in Extent)
  OBVIOUS
<1>3. Bytes(e) \in Nat /\ \A i \in 1..n : Bytes(s[i]) \in Nat
  <2> HIDE DEF Bytes
  <2> QED BY <1>1, <1>2
<1> DEFINE x == Bytes(e)
<1>4. x = 6 + (e.to - e.from) /\ x \in Nat /\ e.to \in Nat /\ e.from \in Nat
  BY <1>3 DEF Extent
<1>5. x = Bytes(e)
  OBVIOUS
<1>6. AttributeBytes(s) = SumOf(t) /\ AttributeBytes(v) = SumOf(u)
  BY DEF AttributeBytes
<1> HIDE DEF Bytes, v, n, x
<1>7. t = [i \in 1..n |-> Bytes(s[i])] /\ t \in [1..n -> Nat]
  BY <1>2, <1>3
<1>8. u = [i \in 1..(n + 1) |-> Bytes(v[i])]
  BY <1>2
<1> HIDE DEF t, u
<1>9. t \in Seq(Nat) /\ Len(t) = n /\ \A i \in 1..n : t[i] = Bytes(s[i])
  BY <1>2, <1>7
<1>10. Append(t, x) = [i \in 1..(n + 1) |-> IF i = n + 1 THEN x ELSE t[i]]
  BY <1>2, <1>4, <1>9
<1>11. \A i \in 1..(n + 1) : Bytes(v[i]) = IF i = n + 1 THEN x ELSE t[i]
  <2> SUFFICES ASSUME NEW i \in 1..(n + 1)
               PROVE  Bytes(v[i]) = IF i = n + 1 THEN x ELSE t[i]
    OBVIOUS
  <2>1. CASE i = n + 1
    BY <1>2, <1>5, <2>1
  <2>2. CASE i # n + 1
    <3>1. i \in 1..n
      BY <1>2, <2>2
    <3> QED BY <1>2, <1>9, <2>2, <3>1
  <2> QED BY <2>1, <2>2
<1>12. u = Append(t, x)
  BY <1>8, <1>10, <1>11
<1>13. SumOf(t) \in Nat /\ SumOf(Append(t, x)) = SumOf(t) + x
  BY <1>4, <1>9, SumOfAppend
<1>14. AttributeBytes(<<>>) = 0
  <2>1. [i \in DOMAIN <<>> |-> 6 + (<<>>[i].to - <<>>[i].from)] = <<>>
    OBVIOUS
  <2> QED BY <2>1, SumOfNone DEF AttributeBytes
<1>15. AttributeBytes(Append(s, e)) = SumOf(t) + x
  BY <1>6, <1>12, <1>13 DEF v
<1>16. SumOf(t) + x = SumOf(t) + 6 + (e.to - e.from)
  BY <1>4, <1>13
<1> QED BY <1>6, <1>13, <1>14, <1>15, <1>16

\* The slices read are as the last lemma asks for.
LEMMA SlicesAscend ==
    ASSUME SliceInv
    PROVE  /\ attributes \in Seq(Extent) /\ AttributeBytes(attributes) \in Nat
           /\ \A i \in 1..Len(attributes) : attributes[i].from <= attributes[i].to
<1>1. attributes \in Seq(Extent) /\ \A i \in 1..Len(attributes) : attributes[i].from <= attributes[i].to
  BY DEF SliceInv, SlicesAreDisjoint
<1>2. [of |-> "magic", from |-> 0, to |-> 0] \in Extent
  BY DEF Extent, Sections, Early
<1> DEFINE e == [of |-> "magic", from |-> 0, to |-> 0]
<1>3. e \in Extent /\ e.from <= e.to
  BY <1>2
<1> HIDE DEF e
<1> QED BY <1>1, <1>3, BytesOfAppend

LEMMA WholeInit == Init => WholeInv
<1> SUFFICES ASSUME Init PROVE WholeInv
  OBVIOUS
<1>1. SliceInv
  BY SliceInit
<1>2. AttributeBytes(attributes) \in Nat
  BY <1>1, SlicesAscend
<1> QED BY <1>1, <1>2 DEF Init, WholeInv, WholeTypes, InFront, Early

\* A parse that ends with an error, and one that does nothing.
LEMMA EndsWithError ==
    ASSUME WholeInv, parse' # "ok" \/ parse' = parse,
           UNCHANGED <<size, pos, section, left, attributesLeft, poolEnd, interfaces, members,
                       attributes, declared>>
    PROVE  WholeInv'
<1>1. SliceInv'
  <2>1. pos \in pos..size /\ attributesLeft \in Nat /\ section \in Sections
    BY DEF WholeInv, SliceInv, ReaderInside
  <2> QED BY <2>1, MovingOn DEF WholeInv
<1> QED BY <1>1 DEF WholeInv, WholeTypes, Place, CountsRead, StillToCome

LEMMA FailEnds == ASSUME WholeInv, NEW error, error # "ok", Fail(error) PROVE WholeInv'
  BY EndsWithError DEF Fail, poolVars

LEMMA TooShortEnds == ASSUME WholeInv, NEW part, NEW width, TooShort(part, width) PROVE WholeInv'
  BY FailEnds DEF TooShort

\* In front of the lists nothing is counted, and the head ends 6 bytes behind
\* the pool.
LEMMA HeadAddsUp ==
    ASSUME WholeInv, SliceInv', ReadMagic \/ ReadVersion \/ ReadPool \/ ReadHead
    PROVE  WholeInv'
<1>1. CASE ReadMagic \/ ReadVersion
  <2>1. CASE \/ TooShort("magic", 4) \/ TooShort("version", 4) \/ Fail("malformed") \/ Fail("unsupported")
    BY <2>1, FailEnds, TooShortEnds
  <2>2. CASE /\ parse = "reading" /\ parse' = parse /\ section \in {"magic", "version"}
             /\ section' \in {"version", "pool"}
             /\ UNCHANGED <<left, attributesLeft, poolEnd, interfaces, members, attributes, declared>>
    BY <2>2 DEF WholeInv, WholeTypes, InFront, Early
  <2> QED BY <1>1, <2>1, <2>2 DEF ReadMagic, ReadVersion, Reading, Take
<1>2. CASE ReadPool
  <2>1. /\ parse = "reading" /\ section = "pool" /\ parse' # "ok" /\ section' \in {"pool", "head"}
        /\ UNCHANGED <<left, attributesLeft, interfaces, members, attributes, declared>>
    BY <1>2 DEF ReadPool, Reading
  <2>2. section' = "head" => pos' = poolEnd'
    <3>1. ASSUME section' = "head" PROVE outcome' = "ok" /\ poolEnd' = pos
      BY <1>2, <2>1, <3>1 DEF ReadPool
    <3>2. ASSUME outcome' = "ok" PROVE pos' = pos
      BY <1>2, <3>2 DEF ReadPool, PoolNext, ReadCount, ReadConstant, FinishPool, Malformed, Reading
    <3> QED BY <3>1, <3>2
  <2> QED BY <2>1, <2>2 DEF WholeInv, WholeTypes, InFront, Early
<1>3. CASE ReadHead
  <2>1. CASE TooShort("head", 6)
    BY <2>1, TooShortEnds
  <2>2. CASE ~TooShort("head", 6)
    <3>1. /\ parse = "reading" /\ parse' = parse /\ section = "head" /\ section' = "interfaces"
          /\ left' = -1 /\ pos' = pos + 6
          /\ UNCHANGED <<attributesLeft, poolEnd, interfaces, members, attributes, declared>>
      BY <1>3, <2>2 DEF ReadHead, Reading, Take
    <3>2. /\ attributesLeft = 0 /\ Len(attributes) = 0 /\ attributes = <<>> /\ pos = poolEnd /\ pos \in Nat
          /\ interfaces = 0 /\ members.fields = 0 /\ members.methods = 0 /\ declared = 0
      <4>1. attributes \in Seq(Extent) /\ Len(attributes) = 0
        BY <3>1 DEF WholeInv, SliceInv
      <4>2. attributes = <<>>
        BY <4>1
      <4> QED BY <3>1, <4>1, <4>2 DEF WholeInv, SliceInv, ReaderInside, InFront
    <3>3. AttributeBytes(attributes) = 0
      <4>1. [of |-> "magic", from |-> 0, to |-> 0] \in Extent /\ <<>> \in Seq(Extent)
        BY DEF Extent, Sections, Early
      <4> DEFINE e == [of |-> "magic", from |-> 0, to |-> 0]
      <4>2. e \in Extent /\ e.from <= e.to /\ \A i \in 1..Len(<<>>) : <<>>[i].from <= <<>>[i].to
        BY <4>1
      <4> HIDE DEF e
      <4> QED BY <3>2, <4>1, <4>2, BytesOfAppend
    <3>4. Place' = 0 /\ CountsRead' = 0 /\ StillToCome' = 0
      BY <3>1, <3>2 DEF Place, CountsRead, StillToCome
    <3>5. WholeTypes'
      BY <3>1 DEF WholeInv, WholeTypes
    <3>6. section' \notin InFront
      BY <3>1 DEF InFront, Early
    <3>7. /\ interfaces' + members'.fields + members'.methods + Len(attributes') + StillToCome' = declared'
          /\ pos' = poolEnd' + 6 + 2 * CountsRead' + 2 * interfaces'
                    + 8 * (members'.fields + members'.methods) + AttributeBytes(attributes)'
      BY <3>1, <3>2, <3>3, <3>4
    <3> QED BY <3>1, <3>2, <3>5, <3>6, <3>7 DEF WholeInv
  <2> QED BY <2>1, <2>2
<1> QED BY <1>1, <1>2, <1>3

\* What WholeInv says behind the head, with its types.
LEMMA Behind ==
    ASSUME WholeInv, section \notin InFront
    PROVE  /\ pos \in Nat /\ poolEnd \in Nat /\ attributesLeft \in Nat /\ Len(attributes) \in Nat
           /\ interfaces \in Nat /\ members.fields \in Nat /\ members.methods \in Nat
           /\ declared \in Nat /\ AttributeBytes(attributes) \in Nat
           /\ Place \in Nat /\ CountsRead \in Nat /\ StillToCome \in Nat
           /\ interfaces + members.fields + members.methods + Len(attributes) + StillToCome = declared
           /\ pos = poolEnd + 6 + 2 * CountsRead + 2 * interfaces
                    + 8 * (members.fields + members.methods) + AttributeBytes(attributes)
<1>1. /\ pos \in Nat /\ poolEnd \in Nat /\ attributesLeft \in Nat /\ attributes \in Seq(Extent)
      /\ interfaces \in Nat /\ members \in [fields : Nat, methods : Nat]
      /\ declared \in Nat /\ AttributeBytes(attributes) \in Nat /\ (left = -1 \/ left \in Nat)
  BY DEF WholeInv, WholeTypes, SliceInv, ReaderInside
<1>2. Place \in Nat /\ CountsRead \in Nat /\ StillToCome \in Nat
  BY <1>1 DEF Place, CountsRead, StillToCome
<1>3. Len(attributes) \in Nat /\ members.fields \in Nat /\ members.methods \in Nat
  BY <1>1
<1> QED BY <1>1, <1>2, <1>3 DEF WholeInv

LEMMA ListsAreBehind ==
    /\ \A i \in 1..4 : Lists[i] \notin InFront /\ Lists[i] \in {"interfaces", "fields", "methods", "attributes"}
    /\ Lists[1] = "interfaces" /\ Lists[2] = "fields" /\ Lists[3] = "methods" /\ Lists[4] = "attributes"
  BY DEF Lists, InFront, Early

\* The count of a list.
LEMMA CountAddsUp ==
    ASSUME WholeInv, SliceInv', ReadListCount
    PROVE  WholeInv'
<1>1. PICK i \in 1..4 :
          /\ Reading(Lists[i]) /\ left = -1
          /\ \/ TooShort(Lists[i], 2)
             \/ /\ Take(2)
                /\ \E n \in Counts :
                       /\ left' = IF Lists[i] = "attributes" THEN 0 ELSE n
                       /\ attributesLeft' = IF Lists[i] = "attributes" THEN n ELSE 0
                       /\ declared' = declared + n
                /\ UNCHANGED <<section, poolEnd, interfaces, members, attributes>>
  BY DEF ReadListCount
<1>2. CASE TooShort(Lists[i], 2)
  BY <1>2, TooShortEnds
<1>3. CASE ~TooShort(Lists[i], 2)
  <2>1. PICK n \in Counts :
            /\ left' = IF section = "attributes" THEN 0 ELSE n
            /\ attributesLeft' = IF section = "attributes" THEN n ELSE 0
            /\ declared' = declared + n
    BY <1>1, <1>3 DEF Reading
  <2>2. /\ pos' = pos + 2 /\ parse = "reading" /\ parse' = parse /\ left = -1
        /\ UNCHANGED <<section, poolEnd, interfaces, members, attributes>>
    BY <1>1, <1>3 DEF Take, Reading
  <2>3. section \notin InFront /\ section \in {"interfaces", "fields", "methods", "attributes"}
    BY <1>1, ListsAreBehind DEF Reading
  <2>4. n \in Nat
    BY ClassFileAssumption
  <2>5. attributesLeft = 0
    BY <2>2 DEF WholeInv
  <2>6. StillToCome = 0 /\ StillToCome' = n
    BY <2>1, <2>2, <2>4, <2>5 DEF StillToCome
  <2>7. Place' = Place
    BY <2>2 DEF Place
  <2>8. Place \in Nat
    BY <2>3, Behind
  <2>9. CountsRead' = CountsRead + 1
    BY <2>1, <2>2, <2>4, <2>7, <2>8 DEF CountsRead
  <2>10. /\ interfaces' + members'.fields + members'.methods + Len(attributes') + StillToCome' = declared'
         /\ pos' = poolEnd' + 6 + 2 * CountsRead' + 2 * interfaces'
                   + 8 * (members'.fields + members'.methods) + AttributeBytes(attributes)'
    <3>1. AttributeBytes(attributes)' = AttributeBytes(attributes)
      BY <2>2
    <3>2. /\ Len(attributes) \in Nat /\ interfaces \in Nat /\ members.fields \in Nat
          /\ members.methods \in Nat /\ poolEnd \in Nat /\ CountsRead \in Nat
          /\ AttributeBytes(attributes) \in Nat
          /\ interfaces + members.fields + members.methods + Len(attributes) + StillToCome = declared
          /\ pos = poolEnd + 6 + 2 * CountsRead + 2 * interfaces
                   + 8 * (members.fields + members.methods) + AttributeBytes(attributes)
      BY <2>3, Behind
    <3>3. /\ interfaces' = interfaces /\ members'.fields = members.fields
          /\ members'.methods = members.methods /\ Len(attributes') = Len(attributes)
          /\ poolEnd' = poolEnd
      BY <2>2
    <3>4. StillToCome = 0 /\ StillToCome' = n /\ declared' = declared + n
          /\ CountsRead' = CountsRead + 1 /\ pos' = pos + 2
      BY <2>1, <2>2, <2>6, <2>9
    <3>5. PICK f \in Nat, m \in Nat, a \in Nat, b \in Nat :
              /\ f = members.fields /\ m = members.methods
              /\ a = Len(attributes) /\ b = AttributeBytes(attributes)
      BY <3>2
    <3>6. /\ interfaces + f + m + a + StillToCome = declared
          /\ pos = poolEnd + 6 + 2 * CountsRead + 2 * interfaces + 8 * (f + m) + b
      BY <3>2, <3>5
    <3>7. /\ interfaces \in Nat /\ poolEnd \in Nat /\ CountsRead \in Nat
      BY <3>2
    <3>8. /\ members'.fields = f /\ members'.methods = m /\ Len(attributes') = a
          /\ AttributeBytes(attributes)' = b /\ interfaces' = interfaces /\ poolEnd' = poolEnd
      BY <3>1, <3>3, <3>5
    <3> QED BY <2>4, <3>4, <3>6, <3>7, <3>8
  <2>11. WholeTypes'
    BY <2>1, <2>2, <2>4 DEF WholeInv, WholeTypes
  <2>12. /\ left' = -1 => attributesLeft' = 0
         /\ section' = "interfaces" => attributesLeft' = 0
         /\ section' = "attributes" => left' \in {-1, 0}
    BY <2>1, <2>2, <2>4
  <2> QED BY <2>2, <2>3, <2>10, <2>11, <2>12 DEF WholeInv
<1> QED BY <1>2, <1>3

LEMMA InterfaceAddsUp ==
    ASSUME WholeInv, SliceInv', ReadInterface
    PROVE  WholeInv'
<1>1. CASE TooShort("interfaces", 2)
  BY <1>1, TooShortEnds
<1>2. CASE ~TooShort("interfaces", 2)
  <2>1. /\ left > 0 /\ section = "interfaces" /\ parse = "reading" /\ parse' = parse
        /\ pos' = pos + 2 /\ left' = left - 1 /\ interfaces' = interfaces + 1
        /\ UNCHANGED <<section, attributesLeft, poolEnd, members, attributes, declared>>
    BY <1>2 DEF ReadInterface, Reading, Take
  <2>2. section \notin InFront
    BY <2>1 DEF InFront, Early
  <2>3. left \in Nat /\ left' \in Nat /\ left # -1 /\ left' # -1
    <3>1. left = -1 \/ left \in Nat
      BY DEF WholeInv, WholeTypes
    <3> QED BY <2>1, <3>1
  <2>4. StillToCome' = StillToCome - 1 /\ CountsRead' = CountsRead
    <3>1. attributesLeft \in Nat
      BY <2>2, Behind
    <3> QED BY <2>1, <2>3, <3>1 DEF StillToCome, CountsRead, Place
  <2>5. /\ interfaces' + members'.fields + members'.methods + Len(attributes') + StillToCome' = declared'
        /\ pos' = poolEnd' + 6 + 2 * CountsRead' + 2 * interfaces'
                  + 8 * (members'.fields + members'.methods) + AttributeBytes(attributes)'
    <3>1. AttributeBytes(attributes)' = AttributeBytes(attributes)
      BY <2>1
    <3>2. /\ Len(attributes) \in Nat /\ interfaces \in Nat /\ members.fields \in Nat
          /\ members.methods \in Nat /\ poolEnd \in Nat /\ CountsRead \in Nat /\ StillToCome \in Nat
          /\ AttributeBytes(attributes) \in Nat
          /\ interfaces + members.fields + members.methods + Len(attributes) + StillToCome = declared
          /\ pos = poolEnd + 6 + 2 * CountsRead + 2 * interfaces
                   + 8 * (members.fields + members.methods) + AttributeBytes(attributes)
      BY <2>2, Behind
    <3>3. /\ members'.fields = members.fields /\ members'.methods = members.methods
          /\ Len(attributes') = Len(attributes) /\ poolEnd' = poolEnd
          /\ declared' = declared /\ interfaces' = interfaces + 1 /\ pos' = pos + 2
      BY <2>1
    <3>4. PICK f \in Nat, m \in Nat, a \in Nat, b \in Nat :
              /\ f = members.fields /\ m = members.methods
              /\ a = Len(attributes) /\ b = AttributeBytes(attributes)
      BY <3>2
    <3>5. /\ interfaces + f + m + a + StillToCome = declared
          /\ pos = poolEnd + 6 + 2 * CountsRead + 2 * interfaces + 8 * (f + m) + b
      BY <3>2, <3>4
    <3>6. interfaces \in Nat /\ poolEnd \in Nat /\ CountsRead \in Nat /\ StillToCome \in Nat
      BY <3>2
    <3>7. /\ members'.fields = f /\ members'.methods = m /\ Len(attributes') = a
          /\ AttributeBytes(attributes)' = b /\ poolEnd' = poolEnd
          /\ declared' = declared /\ interfaces' = interfaces + 1 /\ pos' = pos + 2
      BY <3>1, <3>3, <3>4
    <3> QED BY <2>4, <3>5, <3>6, <3>7
  <2>6. WholeTypes'
    BY <2>1, <2>3 DEF WholeInv, WholeTypes
  <2>7. attributesLeft' = 0
    BY <2>1 DEF WholeInv
  <2> QED BY <2>1, <2>2, <2>3, <2>5, <2>6, <2>7 DEF WholeInv
<1> QED BY <1>1, <1>2

LEMMA MemberAddsUp ==
    ASSUME WholeInv, SliceInv', ReadMember
    PROVE  WholeInv'
<1>1. PICK list \in {"fields", "methods"} :
          \/ TooShort(list, 8)
          \/ /\ Reading(list)
             /\ Take(8)
             /\ left' = left - 1
             /\ members' = [members EXCEPT ![list] = @ + 1]
             /\ \E n \in Counts : attributesLeft' = n /\ declared' = declared + n
             /\ UNCHANGED <<section, poolEnd, interfaces, attributes>>
  BY DEF ReadMember
<1>2. CASE TooShort(list, 8)
  BY <1>2, TooShortEnds
<1>3. CASE ~TooShort(list, 8)
  <2>1. PICK n \in Counts : attributesLeft' = n /\ declared' = declared + n
    BY <1>1, <1>3
  <2>2. /\ left > 0 /\ attributesLeft = 0 /\ section \in {"fields", "methods"}
        /\ parse = "reading" /\ parse' = parse
        /\ pos' = pos + 8 /\ left' = left - 1
        /\ UNCHANGED <<section, poolEnd, interfaces, attributes>>
    BY <1>1, <1>3 DEF ReadMember, MemberReady, Reading, Take
  <2>3. section \notin InFront /\ section # "interfaces" /\ section # "attributes"
    BY <2>2 DEF InFront, Early
  <2>4. left \in Nat /\ left' \in Nat /\ left # -1 /\ left' # -1 /\ n \in Nat
    <3>1. left = -1 \/ left \in Nat
      BY DEF WholeInv, WholeTypes
    <3> QED BY <2>2, <3>1, ClassFileAssumption
  <2>5. /\ members' \in [fields : Nat, methods : Nat]
        /\ members'.fields + members'.methods = members.fields + members.methods + 1
    <3>1. members \in [fields : Nat, methods : Nat] /\ members' = [members EXCEPT ![list] = @ + 1]
      BY <1>1, <1>3 DEF WholeInv, WholeTypes
    <3>2. members.fields \in Nat /\ members.methods \in Nat
      BY <3>1
    <3>3. CASE list = "fields"
      BY <3>1, <3>2, <3>3
    <3>4. CASE list = "methods"
      BY <3>1, <3>2, <3>4
    <3> QED BY <3>3, <3>4
  <2>6. StillToCome' = StillToCome - 1 + n /\ CountsRead' = CountsRead
    BY <2>1, <2>2, <2>4 DEF StillToCome, CountsRead, Place
  <2> DEFINE ms == members.fields + members.methods
             ns == members'.fields + members'.methods
  <2>7. ns = ms + 1 /\ ms \in Nat /\ members.fields \in Nat /\ members.methods \in Nat
        /\ members'.fields \in Nat /\ members'.methods \in Nat
    <3>1. members.fields \in Nat /\ members.methods \in Nat
      BY <2>3, Behind
    <3>2. members'.fields \in Nat /\ members'.methods \in Nat
      BY <2>5
    <3> QED BY <2>5, <3>1, <3>2
  <2>8. interfaces' + members'.fields + members'.methods + Len(attributes') + StillToCome' = declared'
    <3>1. /\ interfaces \in Nat /\ Len(attributes) \in Nat /\ StillToCome \in Nat
          /\ interfaces + members.fields + members.methods + Len(attributes) + StillToCome = declared
      BY <2>3, Behind
    <3>2. declared' = declared + n /\ n \in Nat /\ interfaces' = interfaces
          /\ Len(attributes') = Len(attributes) /\ StillToCome' = StillToCome - 1 + n
      BY <2>1, <2>2, <2>4, <2>6
    <3>3. members'.fields + members'.methods = members.fields + members.methods + 1
          /\ members.fields \in Nat /\ members.methods \in Nat
          /\ members'.fields \in Nat /\ members'.methods \in Nat
      BY <2>7
    <3>4. PICK f \in Nat, m \in Nat, ff \in Nat, mm \in Nat, a \in Nat :
              /\ f = members.fields /\ m = members.methods /\ a = Len(attributes)
              /\ ff = members'.fields /\ mm = members'.methods
      BY <3>1, <3>3
    <3>5. ff + mm = f + m + 1
      BY <3>3, <3>4
    <3>6. interfaces + f + m + a + StillToCome = declared /\ interfaces \in Nat /\ StillToCome \in Nat
      BY <3>1, <3>4
    <3>7. /\ members'.fields = ff /\ members'.methods = mm /\ Len(attributes') = a
          /\ declared' = declared + n /\ n \in Nat /\ interfaces' = interfaces
          /\ StillToCome' = StillToCome - 1 + n
      BY <3>2, <3>4
    <3> QED BY <3>5, <3>6, <3>7
  <2>9. pos' = poolEnd' + 6 + 2 * CountsRead' + 2 * interfaces' + 8 * ns + AttributeBytes(attributes)'
    <3>1. /\ pos = poolEnd + 6 + 2 * CountsRead + 2 * interfaces + 8 * ms + AttributeBytes(attributes)
          /\ poolEnd \in Nat /\ CountsRead \in Nat /\ interfaces \in Nat /\ AttributeBytes(attributes) \in Nat
      BY <2>3, Behind
    <3>2. AttributeBytes(attributes)' = AttributeBytes(attributes)
      BY <2>2
    <3> HIDE DEF ms, ns
    <3> QED BY <2>2, <2>6, <2>7, <3>1, <3>2
  <2>10. WholeTypes'
    <3>1. declared' \in Nat
      BY <2>1, <2>4 DEF WholeInv, WholeTypes
    <3> QED BY <2>2, <2>4, <2>5, <3>1 DEF WholeInv, WholeTypes
  <2> QED BY <2>2, <2>3, <2>4, <2>8, <2>9, <2>10 DEF WholeInv
<1> QED BY <1>2, <1>3

LEMMA AttributeAddsUp ==
    ASSUME WholeInv, SliceInv', ReadAttribute
    PROVE  WholeInv'
<1>1. PICK length \in Lengths :
          IF ~Fits(pos, 6) \/ ~Fits(pos + 6, length)
          THEN Fail("malformed")
          ELSE /\ Take(6 + length)
               /\ attributes' = Append(attributes, Slice(length))
               /\ attributesLeft' = attributesLeft - 1
               /\ UNCHANGED <<section, left, poolEnd, interfaces, members, declared>>
  BY DEF ReadAttribute
<1>2. parse = "reading" /\ attributesLeft > 0
  BY DEF ReadAttribute
<1>3. CASE Fail("malformed")
  BY <1>3, FailEnds
<1>4. CASE ~Fail("malformed")
  <2>1. /\ pos' = pos + (6 + length) /\ parse' = parse
        /\ attributes' = Append(attributes, Slice(length))
        /\ attributesLeft' = attributesLeft - 1
        /\ UNCHANGED <<section, left, poolEnd, interfaces, members, declared>>
    BY <1>1, <1>4 DEF Take
  <2>2. section \notin InFront
    BY <1>2 DEF WholeInv, SliceInv, InFront
  <2>3. attributesLeft \in Nat /\ attributesLeft' \in Nat /\ length \in Nat /\ pos \in Nat
    <3>1. attributesLeft \in Nat /\ pos \in Nat
      BY <2>2, Behind
    <3> QED BY <1>2, <2>1, <3>1, ClassFileAssumption
  <2>4. Slice(length) \in Extent /\ Slice(length).from = pos + 6 /\ Slice(length).to = pos + 6 + length
    <3>1. section \in Sections
      BY DEF WholeInv, SliceInv
    <3> QED BY <2>3, <3>1 DEF Slice, Extent
  <2>5. /\ AttributeBytes(attributes)' = AttributeBytes(attributes) + (6 + length)
        /\ Len(attributes') = Len(attributes) + 1
    <3>1. /\ attributes \in Seq(Extent) /\ AttributeBytes(attributes) \in Nat
          /\ \A i \in 1..Len(attributes) : attributes[i].from <= attributes[i].to
      BY SlicesAscend DEF WholeInv
    <3> DEFINE e == Slice(length)
    <3>2. e \in Extent /\ e.from <= e.to /\ e.to - e.from = length
      BY <2>3, <2>4
    <3> HIDE DEF e
    <3>3. AttributeBytes(Append(attributes, e)) = AttributeBytes(attributes) + 6 + (e.to - e.from)
      BY <3>1, <3>2, BytesOfAppend
    <3>4. AttributeBytes(attributes)' = AttributeBytes(Append(attributes, e))
      BY <2>1 DEF e, AttributeBytes
    <3>5. Len(Append(attributes, e)) = Len(attributes) + 1
      BY <3>1
    <3> QED BY <2>1, <2>3, <3>1, <3>2, <3>3, <3>4, <3>5 DEF e
  <2>6. StillToCome' = StillToCome - 1 /\ CountsRead' = CountsRead
    <3>1. left = -1 \/ left \in Nat
      BY DEF WholeInv, WholeTypes
    <3> QED BY <2>1, <2>3, <3>1 DEF StillToCome, CountsRead, Place
  <2>7. interfaces' + members'.fields + members'.methods + Len(attributes') + StillToCome' = declared'
    <3>1. /\ Len(attributes) \in Nat /\ interfaces \in Nat /\ members.fields \in Nat
          /\ members.methods \in Nat /\ StillToCome \in Nat
          /\ interfaces + members.fields + members.methods + Len(attributes) + StillToCome = declared
      BY <2>2, Behind
    <3>2. /\ members'.fields = members.fields /\ members'.methods = members.methods
          /\ interfaces' = interfaces /\ declared' = declared
      BY <2>1
    <3>3. PICK f \in Nat, m \in Nat, a \in Nat :
              f = members.fields /\ m = members.methods /\ a = Len(attributes)
      BY <3>1
    <3>4. interfaces + f + m + a + StillToCome = declared /\ interfaces \in Nat /\ StillToCome \in Nat
      BY <3>1, <3>3
    <3>5. /\ members'.fields = f /\ members'.methods = m /\ Len(attributes') = a + 1
          /\ StillToCome' = StillToCome - 1
          /\ interfaces' = interfaces /\ declared' = declared
      BY <2>5, <2>6, <3>2, <3>3
    <3> QED BY <3>4, <3>5
  <2>8. pos' = poolEnd' + 6 + 2 * CountsRead' + 2 * interfaces'
               + 8 * (members'.fields + members'.methods) + AttributeBytes(attributes)'
    <3>1. /\ interfaces \in Nat /\ members.fields \in Nat /\ members.methods \in Nat
          /\ poolEnd \in Nat /\ CountsRead \in Nat /\ AttributeBytes(attributes) \in Nat
          /\ pos = poolEnd + 6 + 2 * CountsRead + 2 * interfaces
                   + 8 * (members.fields + members.methods) + AttributeBytes(attributes)
      BY <2>2, Behind
    <3>2. /\ members'.fields = members.fields /\ members'.methods = members.methods
          /\ interfaces' = interfaces /\ poolEnd' = poolEnd /\ pos' = pos + (6 + length)
      BY <2>1
    <3>3. PICK f \in Nat, m \in Nat, b \in Nat :
              f = members.fields /\ m = members.methods /\ b = AttributeBytes(attributes)
      BY <3>1
    <3>4. /\ pos = poolEnd + 6 + 2 * CountsRead + 2 * interfaces + 8 * (f + m) + b
          /\ interfaces \in Nat /\ poolEnd \in Nat /\ CountsRead \in Nat /\ length \in Nat
      BY <2>3, <3>1, <3>3
    <3>5. /\ members'.fields = f /\ members'.methods = m
          /\ AttributeBytes(attributes)' = b + (6 + length) /\ CountsRead' = CountsRead
          /\ interfaces' = interfaces /\ poolEnd' = poolEnd /\ pos' = pos + (6 + length)
      BY <2>5, <2>6, <3>2, <3>3
    <3> QED BY <3>4, <3>5
  <2>9. WholeTypes'
    <3>1. AttributeBytes(attributes)' \in Nat
      <4>1. AttributeBytes(attributes) \in Nat
        BY <2>2, Behind
      <4> QED BY <2>3, <2>5, <4>1
    <3> QED BY <2>1, <3>1 DEF WholeInv, WholeTypes
  <2>10. left' # -1 /\ section' # "interfaces"
    BY <1>2, <2>1 DEF WholeInv
  <2>11. /\ section' \notin InFront /\ section' # "head" /\ parse' # "ok"
         /\ section' = "attributes" => left' \in {-1, 0}
    <3>1. section = "attributes" => left \in {-1, 0}
      BY DEF WholeInv
    <3> QED BY <1>2, <2>1, <2>2, <3>1 DEF InFront
  <2> QED BY <2>7, <2>8, <2>9, <2>10, <2>11 DEF WholeInv
<1> QED BY <1>3, <1>4

LEMMA ListEndAddsUp ==
    ASSUME WholeInv, SliceInv', EndList
    PROVE  WholeInv'
<1>1. /\ left = 0 /\ attributesLeft = 0 /\ parse = "reading"
      /\ UNCHANGED <<poolVars, attributesLeft, poolEnd, interfaces, members, attributes, declared>>
  BY DEF EndList, Reading
<1>2. pos' = pos
  BY <1>1 DEF poolVars
<1>3. PICK i \in 1..4 : Reading(Lists[i]) /\ IF i = 4
                            THEN parse' = "ok" /\ UNCHANGED <<section, left>>
                            ELSE section' = Lists[i + 1] /\ left' = -1 /\ UNCHANGED parse
  BY DEF EndList
<1>4. section = Lists[i] /\ section \notin InFront
  BY <1>3, ListsAreBehind DEF Reading
<1>5. CASE i = 4
  <2>1. section = "attributes" /\ parse' = "ok" /\ section' = section /\ left' = left
    BY <1>3, <1>4, <1>5, ListsAreBehind
  <2>2. StillToCome' = StillToCome /\ CountsRead' = CountsRead
    BY <1>1, <2>1 DEF StillToCome, CountsRead, Place
  <2>3. WholeTypes'
    BY <1>1, <2>1 DEF WholeInv, WholeTypes
  <2>4. /\ interfaces' + members'.fields + members'.methods + Len(attributes') + StillToCome' = declared'
        /\ pos' = poolEnd' + 6 + 2 * CountsRead' + 2 * interfaces'
                  + 8 * (members'.fields + members'.methods) + AttributeBytes(attributes)'
    BY <1>1, <1>2, <1>4, <2>2, Behind
  <2>5. section' \notin InFront /\ section' = "attributes" /\ left' = 0 /\ attributesLeft' = 0
    BY <1>1, <1>4, <2>1
  <2> QED BY <2>3, <2>4, <2>5 DEF WholeInv
<1>6. CASE i # 4
  <2>1. /\ section' = Lists[i + 1] /\ i + 1 \in 1..4 /\ left' = -1 /\ parse' = parse
        /\ section' # "interfaces" /\ section' \notin InFront
    <3>1. i = 1 \/ i = 2 \/ i = 3
      BY <1>6
    <3> QED BY <1>3, <1>6, <3>1, ListsAreBehind
  <2>2. Place' = Place + 1 /\ Place \in Nat
    <3>1. \/ section = "interfaces" /\ section' = "fields"
          \/ section = "fields" /\ section' = "methods"
          \/ section = "methods" /\ section' = "attributes"
      <4>1. i = 1 \/ i = 2 \/ i = 3
        BY <1>6
      <4> QED BY <1>4, <2>1, <4>1, ListsAreBehind
    <3> QED BY <3>1 DEF Place
  <2>3. StillToCome' = StillToCome /\ CountsRead' = CountsRead
    BY <1>1, <2>1, <2>2 DEF StillToCome, CountsRead
  <2>4. WholeTypes'
    BY <1>1, <2>1 DEF WholeInv, WholeTypes
  <2>5. /\ interfaces' + members'.fields + members'.methods + Len(attributes') + StillToCome' = declared'
        /\ pos' = poolEnd' + 6 + 2 * CountsRead' + 2 * interfaces'
                  + 8 * (members'.fields + members'.methods) + AttributeBytes(attributes)'
    BY <1>1, <1>2, <1>4, <2>3, Behind
  <2>6. parse' # "ok" /\ section' # "head" /\ attributesLeft' = 0 /\ left' \in {-1, 0}
    BY <1>1, <2>1 DEF InFront
  <2> QED BY <2>1, <2>4, <2>5, <2>6 DEF WholeInv
<1> QED BY <1>5, <1>6

\* In every state what was read adds up, and so in the last
\* (ClassFile::parse).
THEOREM AcceptedWhole == Spec => []OnlyWholeFilesAccepted
<1>1. ASSUME WholeInv, [Next]_vars PROVE WholeInv'
  <2>1. CASE Next
    <3>1. SliceInv'
      BY <1>1, <2>1, SliceStep DEF WholeInv
    <3> QED BY <1>1, <2>1, <3>1, HeadAddsUp, CountAddsUp, InterfaceAddsUp, MemberAddsUp,
               AttributeAddsUp, ListEndAddsUp DEF Next
  <2>2. CASE UNCHANGED vars
    BY <1>1, <2>2, EndsWithError DEF vars, poolVars, classVars
  <2> QED BY <1>1, <2>1, <2>2
<1>2. WholeInv => OnlyWholeFilesAccepted
  <2> SUFFICES ASSUME WholeInv, parse = "ok"
               PROVE  /\ interfaces + members.fields + members.methods + Len(attributes) = declared
                      /\ pos = poolEnd + 6 + 4 * 2 + 2 * interfaces
                               + 8 * (members.fields + members.methods) + AttributeBytes(attributes)
    BY DEF OnlyWholeFilesAccepted
  <2>1. section = "attributes" /\ left = 0 /\ attributesLeft = 0
    BY DEF WholeInv
  <2>2. section \notin InFront /\ CountsRead = 4 /\ StillToCome = 0
    BY <2>1 DEF InFront, Early, CountsRead, StillToCome, Place
  <2>3. /\ Len(attributes) \in Nat /\ interfaces \in Nat /\ members.fields \in Nat
        /\ members.methods \in Nat /\ poolEnd \in Nat /\ AttributeBytes(attributes) \in Nat
        /\ interfaces + members.fields + members.methods + Len(attributes) + StillToCome = declared
        /\ pos = poolEnd + 6 + 2 * CountsRead + 2 * interfaces
                 + 8 * (members.fields + members.methods) + AttributeBytes(attributes)
    BY <2>2, Behind
  <2> QED BY <2>2, <2>3
<1> QED BY <1>1, <1>2, WholeInit, PTL DEF Spec
=============================================================================
