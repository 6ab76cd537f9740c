------------------------------ MODULE Lemmas ------------------------------
(***************************************************************************)
(* Facts about natural numbers and sequences that the proofs of several    *)
(* modules cite.                                                           *)
(***************************************************************************)
EXTENDS Integers, Sequences, Functions, FiniteSetsExt, WellFoundedInduction,
        TLAPS

\* A non-empty set of natural numbers has a least element.
LEMMA NatMin ==
  ASSUME NEW S \in SUBSET Nat, S # {}
  PROVE  \E x \in S : \A y \in S : x <= y
<1> DEFINE R == OpToRel(<, Nat)
<1>1. IsWellFoundedOn(R, Nat)
  BY NatLessThanWellFounded
<1>2. PICK x \in S : \A y \in S : ~ (<<y, x>> \in R)
  <2> HIDE DEF R
  <2> QED BY <1>1, WFMin
<1>3. \A y \in S : ~ (y < x)
  BY <1>2 DEF OpToRel
<1> QED BY <1>3

\* A non-empty bounded set of natural numbers has a maximum, the one that the
\* operator Max of the community modules chooses.
LEMMA MaxOfBounded ==
  ASSUME NEW S \in SUBSET Nat, S # {}, NEW n \in Nat, \A y \in S : y <= n
  PROVE  Max(S) \in S /\ \A y \in S : y <= Max(S)
<1> DEFINE U == {u \in Nat : \A y \in S : y <= u}
<1>1. PICK u \in U : \A v \in U : u <= v
  <2>1. U \in SUBSET Nat /\ n \in U
    OBVIOUS
  <2> HIDE DEF U
  <2> QED BY <2>1, NatMin
<1>2. u \in S
  <2> SUFFICES ASSUME u \notin S PROVE FALSE
    OBVIOUS
  <2>1. \A y \in S : y < u
    BY <1>1
  <2>2. u - 1 \in Nat /\ \A y \in S : y <= u - 1
    <3>1. PICK y \in S : TRUE
      OBVIOUS
    <3>2. u \in Nat /\ u >= 1
      BY <2>1, <3>1
    <3> QED BY <2>1, <3>2
  <2> QED BY <2>2, <1>1
<1>3. \A y \in S : u >= y
  BY <1>1
<1> QED BY <1>2, <1>3 DEF Max

\* What Append adds to the range of a sequence.
LEMMA RangeAppend ==
  ASSUME NEW S, NEW q \in Seq(S), NEW x \in S
  PROVE  /\ Append(q, x) \in Seq(S)
         /\ Len(Append(q, x)) = Len(q) + 1
         /\ \A i \in 1..Len(q) : Append(q, x)[i] = q[i]
         /\ Append(q, x)[Len(q) + 1] = x
         /\ Range(Append(q, x)) = Range(q) \union {x}
<1>1. /\ Append(q, x) \in Seq(S)
      /\ Len(Append(q, x)) = Len(q) + 1
      /\ \A i \in 1..Len(q) : Append(q, x)[i] = q[i]
      /\ Append(q, x)[Len(q) + 1] = x
  OBVIOUS
<1>2. DOMAIN q = 1..Len(q) /\ DOMAIN Append(q, x) = 1..(Len(q) + 1)
  BY <1>1
<1>3. \A i \in 1..(Len(q) + 1) : i \in 1..Len(q) \/ i = Len(q) + 1
  OBVIOUS
<1>4. Range(Append(q, x)) \subseteq Range(q) \union {x}
  BY <1>1, <1>2, <1>3 DEF Range
<1>5. Range(q) \union {x} \subseteq Range(Append(q, x))
  BY <1>1, <1>2 DEF Range
<1> QED BY <1>1, <1>4, <1>5

\* What Tail takes away from it.
LEMMA RangeTail ==
  ASSUME NEW S, NEW q \in Seq(S), q # << >>
  PROVE  /\ Len(q) \in Nat \ {0}
         /\ Head(q) = q[1]
         /\ Head(q) \in S
         /\ Tail(q) \in Seq(S)
         /\ Len(Tail(q)) = Len(q) - 1
         /\ \A i \in 1..(Len(q) - 1) : Tail(q)[i] = q[i + 1]
         /\ Range(q) = {Head(q)} \union Range(Tail(q))
<1>1. /\ Len(q) \in Nat \ {0}
      /\ Head(q) = q[1]
      /\ Head(q) \in S
      /\ Tail(q) \in Seq(S)
      /\ Len(Tail(q)) = Len(q) - 1
      /\ \A i \in 1..(Len(q) - 1) : Tail(q)[i] = q[i + 1]
  OBVIOUS
<1>2. DOMAIN q = 1..Len(q) /\ DOMAIN Tail(q) = 1..(Len(q) - 1)
  BY <1>1
<1>3. \A i \in 1..Len(q) : i = 1 \/ (i - 1 \in 1..(Len(q) - 1) /\ q[i] = Tail(q)[i - 1])
  BY <1>1
<1>4. Range(q) \subseteq {Head(q)} \union Range(Tail(q))
  <2> SUFFICES ASSUME NEW i \in 1..Len(q)
               PROVE  q[i] \in {Head(q)} \union Range(Tail(q))
    BY <1>2 DEF Range
  <2>1. CASE i = 1
    BY <2>1, <1>1
  <2>2. CASE i - 1 \in 1..(Len(q) - 1) /\ q[i] = Tail(q)[i - 1]
    BY <2>2, <1>2 DEF Range
  <2> QED BY <2>1, <2>2, <1>3
<1>5. {Head(q)} \union Range(Tail(q)) \subseteq Range(q)
  <2>1. \A i \in 1..(Len(q) - 1) : i + 1 \in 1..Len(q)
    BY <1>1
  <2> QED BY <1>1, <1>2, <2>1 DEF Range
<1> QED BY <1>1, <1>4, <1>5

\* The range of a sequence consists of its entries.
LEMMA RangeEntries ==
  ASSUME NEW S, NEW q \in Seq(S)
  PROVE  /\ Range(q) \subseteq S
         /\ \A i \in 1..Len(q) : q[i] \in Range(q)
         /\ \A x \in Range(q) : \E i \in 1..Len(q) : x = q[i]
         /\ q = << >> <=> Range(q) = {}
  BY DEF Range

\* Sequences over a set are sequences over a larger one.
LEMMA SeqSubset ==
  ASSUME NEW S, NEW T, S \subseteq T
  PROVE  Seq(S) \subseteq Seq(T)
  OBVIOUS
=============================================================================
