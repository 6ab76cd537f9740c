----------------------------- MODULE RoomProofs -----------------------------
(***************************************************************************)
(* Proofs about module Room, for all agents, readers, limits and handlers. *)
(***************************************************************************)
EXTENDS Room, Lemmas, FiniteSetTheorems

-----------------------------------------------------------------------------
(* Mailboxes as sequences.                                                 *)

\* Stamps tell the messages of a set apart.
Distinct(S) == \A m, x \in S : m.body = x.body => m = x

\* Oldest first, by stamps alone.
ByBody(q) == \A i, j \in 1..Len(q) : i < j => q[i].body < q[j].body

\* The number of messages of a set that are not younger than m.
RankIn(S, m) == Cardinality({x \in S : x.body <= m.body})

\* The ranks of a finite set of messages are among the numbers up to its size,
\* and grow with the stamps.
LEMMA RankFacts ==
  ASSUME NEW S \in SUBSET Msg, IsFiniteSet(S), NEW m \in S
  PROVE  /\ RankIn(S, m) \in 1..Cardinality(S)
         /\ \A x \in S : m.body < x.body => RankIn(S, m) < RankIn(S, x)
<1> DEFINE Below(y) == {x \in S : x.body <= y.body}
<1>1. \A x \in S : x.body \in Nat
  BY DEF Msg
<1>2. \A x \in S : Below(x) \in SUBSET S /\ x \in Below(x)
  BY <1>1
<1>3. \A x \in S : RankIn(S, x) = Cardinality(Below(x))
  BY DEF RankIn
<1>4. \A x \in S : m.body < x.body => Below(m) \in SUBSET Below(x) /\ x \notin Below(m)
  BY <1>1
<1> HIDE DEF Below
<1>5. Cardinality(S) \in Nat
  BY FS_CardinalityType
<1>6. \A x \in S : IsFiniteSet(Below(x)) /\ Cardinality(Below(x)) <= Cardinality(S)
  BY <1>2, FS_Subset
<1>7. \A x \in S : Cardinality(Below(x)) \in Nat /\ Cardinality(Below(x)) # 0
  BY <1>2, <1>6, FS_CardinalityType, FS_EmptySet
<1>8. \A x \in S : m.body < x.body =>
        /\ Cardinality(Below(m)) <= Cardinality(Below(x))
        /\ Cardinality(Below(m)) # Cardinality(Below(x))
  BY <1>2, <1>4, <1>6, FS_Subset
<1>9. \A x \in S : RankIn(S, x) \in Nat /\ RankIn(S, x) # 0 /\ RankIn(S, x) <= Cardinality(S)
  BY <1>3, <1>6, <1>7
<1>10. \A x \in S : m.body < x.body => RankIn(S, m) <= RankIn(S, x) /\ RankIn(S, m) # RankIn(S, x)
  BY <1>3, <1>8
<1> QED BY <1>5, <1>9, <1>10

\* If stamps tell the messages apart, every number up to the size of the set is
\* the rank of one of them.
LEMMA Ranks ==
  ASSUME NEW S \in SUBSET Msg, IsFiniteSet(S), Distinct(S)
  PROVE  /\ \A m, x \in S : RankIn(S, m) < RankIn(S, x) <=> m.body < x.body
         /\ \A i \in 1..Cardinality(S) : \E m \in S : RankIn(S, m) = i
<1>1. \A m \in S : m.body \in Nat
  BY DEF Msg
<1>2. \A m \in S : RankIn(S, m) \in 1..Cardinality(S)
  BY RankFacts
<1>3. \A m, x \in S : m.body < x.body => RankIn(S, m) < RankIn(S, x)
  BY RankFacts
<1>4. Cardinality(S) \in Nat
  BY FS_CardinalityType
<1>5. \A m, x \in S : m.body = x.body => m = x
  BY DEF Distinct
<1>6. \A m, x \in S : RankIn(S, m) < RankIn(S, x) <=> m.body < x.body
  BY <1>1, <1>2, <1>3, <1>4, <1>5
<1>7. \A i \in 1..Cardinality(S) : \E m \in S : RankIn(S, m) = i
  <2> DEFINE f == [m \in S |-> RankIn(S, m)]
  <2>1. f \in [S -> 1..Cardinality(S)]
    BY <1>2
  <2>2. \A m, x \in S : f[m] = f[x] => m = x
    <3>1. \A m, x \in S : RankIn(S, m) = RankIn(S, x) => m = x
      BY <1>1, <1>2, <1>4, <1>5, <1>6
    <3> QED BY <3>1
  <2>3. f \in Injection(S, 1..Cardinality(S))
    BY <2>1, <2>2 DEF Injection, IsInjective
  <2>4. IsFiniteSet(1..Cardinality(S)) /\ Cardinality(1..Cardinality(S)) = Cardinality(S)
    <3>1. \A n \in Nat : IsFiniteSet(1..n) /\ Cardinality(1..n) = n
      BY FS_Interval
    <3> QED BY <1>4, <3>1
  <2>5. f \in Surjection(S, 1..Cardinality(S))
    BY <2>3, <2>4, FS_Injection
  <2> QED BY <2>5 DEF Surjection
<1> QED BY <1>6, <1>7

\* Reading the rows back in the order of their ids lists each of them once,
\* oldest first.
LEMMA ListingFacts ==
  ASSUME NEW S \in SUBSET Msg, IsFiniteSet(S), Distinct(S)
  PROVE  /\ Listing(S) \in Seq(Msg)
         /\ Len(Listing(S)) = Cardinality(S)
         /\ Range(Listing(S)) = S
         /\ ByBody(Listing(S))
<1> DEFINE n == Cardinality(S)
           q == [i \in 1..n |-> CHOOSE m \in S : RankIn(S, m) = i]
<1>1. Listing(S) = q
  BY DEF Listing, RankIn
<1>2. n \in Nat
  BY FS_CardinalityType
<1>3. \A i \in 1..n : q[i] \in S /\ RankIn(S, q[i]) = i
  BY Ranks
<1>4. q \in Seq(Msg) /\ Len(q) = n /\ DOMAIN q = 1..n
  BY <1>2, <1>3
<1> HIDE DEF q
<1>5. ByBody(q)
  <2> SUFFICES ASSUME NEW i \in 1..n, NEW j \in 1..n, i < j
               PROVE  q[i].body < q[j].body
    BY <1>4 DEF ByBody
  <2>1. q[i] \in S /\ q[j] \in S /\ RankIn(S, q[i]) < RankIn(S, q[j])
    BY <1>3
  <2> QED BY <2>1, Ranks
<1>6. Range(q) = S
  <2>1. Range(q) \subseteq S
    BY <1>3, <1>4 DEF Range
  <2>2. ASSUME NEW m \in S
        PROVE  RankIn(S, m) \in 1..n /\ q[RankIn(S, m)] = m
    <3>1. RankIn(S, m) \in 1..n
      BY RankFacts
    <3>2. PICK x \in S : x = q[RankIn(S, m)] /\ RankIn(S, x) = RankIn(S, m)
      BY <3>1, <1>3
    <3>3. m.body \in Nat /\ x.body \in Nat
      BY DEF Msg
    <3>4. ~ (m.body < x.body) /\ ~ (x.body < m.body)
      BY <1>2, <3>1, <3>2, Ranks
    <3> QED BY <3>1, <3>2, <3>3, <3>4 DEF Distinct
  <2>3. S \subseteq Range(q)
    BY <2>2, <1>4 DEF Range
  <2> QED BY <2>1, <2>3
<1> QED BY <1>1, <1>4, <1>5, <1>6

\* A mailbox in order lists each of its messages once.
LEMMA ByBodyCount ==
  ASSUME NEW q \in Seq(Msg), ByBody(q)
  PROVE  /\ IsFiniteSet(Range(q))
         /\ Cardinality(Range(q)) = Len(q)
         /\ Distinct(Range(q))
<1>1. \A i \in 1..Len(q) : q[i] \in Msg /\ q[i].body \in Nat
  <2>1. \A i \in 1..Len(q) : q[i] \in Msg
    OBVIOUS
  <2> QED BY <2>1 DEF Msg
<1>2. \A i, j \in 1..Len(q) : q[i].body = q[j].body => i = j
  BY <1>1 DEF ByBody
<1>3. Distinct(Range(q))
  BY <1>2, RangeEntries DEF Distinct
<1> DEFINE f == [i \in 1..Len(q) |-> q[i]]
<1>4. f \in Bijection(1..Len(q), Range(q))
  <2>1. f \in [1..Len(q) -> Range(q)]
    BY RangeEntries
  <2>2. \A i, j \in 1..Len(q) : f[i] = f[j] => i = j
    BY <1>2
  <2>3. \A x \in Range(q) : \E i \in 1..Len(q) : f[i] = x
    BY RangeEntries
  <2> QED BY <2>1, <2>2, <2>3 DEF Bijection, Injection, Surjection, IsInjective
<1>5. Len(q) \in Nat /\ ExistsBijection(1..Len(q), Range(q))
  BY <1>4 DEF ExistsBijection
<1>6. Cardinality(Range(q)) = Len(q)
  BY <1>5, FS_CountingElements
<1>7. IsFiniteSet(Range(q))
  BY <1>5, FS_NatBijection
<1> QED BY <1>3, <1>6, <1>7

\* A message younger than all of a mailbox keeps it in order at its end.
LEMMA ByBodyAppend ==
  ASSUME NEW q \in Seq(Msg), ByBody(q), NEW m \in Msg,
         \A x \in Range(q) : x.body < m.body
  PROVE  ByBody(Append(q, m))
<1> SUFFICES ASSUME NEW i \in 1..Len(Append(q, m)),
                    NEW j \in 1..Len(Append(q, m)), i < j
             PROVE  Append(q, m)[i].body < Append(q, m)[j].body
  BY DEF ByBody
<1>1. Len(q) \in Nat /\ Len(Append(q, m)) = Len(q) + 1
  OBVIOUS
<1>2. i \in 1..Len(q) /\ Append(q, m)[i] = q[i] /\ q[i] \in Range(q)
  BY <1>1, RangeEntries
<1>3. CASE j \in 1..Len(q)
  BY <1>2, <1>3 DEF ByBody
<1>4. CASE j = Len(q) + 1
  BY <1>2, <1>4
<1> QED BY <1>1, <1>3, <1>4

\* What is left without the oldest message is in order, and younger.
LEMMA ByBodyTail ==
  ASSUME NEW q \in Seq(Msg), ByBody(q), q # << >>
  PROVE  /\ ByBody(Tail(q))
         /\ Range(Tail(q)) = Range(q) \ {Head(q)}
         /\ \A m \in Range(Tail(q)) : Head(q).body < m.body
<1>1. /\ Len(q) \in Nat \ {0}
      /\ Head(q) = q[1]
      /\ Head(q) \in Msg
      /\ Tail(q) \in Seq(Msg)
      /\ Len(Tail(q)) = Len(q) - 1
      /\ \A i \in 1..(Len(q) - 1) : Tail(q)[i] = q[i + 1]
      /\ Range(q) = {Head(q)} \union Range(Tail(q))
  BY RangeTail
<1>2. \A i \in 1..(Len(q) - 1) : i + 1 \in 1..Len(q)
  BY <1>1
<1>3. ByBody(Tail(q))
  BY <1>1, <1>2 DEF ByBody
<1>4. \A i \in 1..(Len(q) - 1) : Head(q).body < Tail(q)[i].body
  BY <1>1, <1>2 DEF ByBody
<1>5. \A m \in Range(Tail(q)) : Head(q).body < m.body
  <2>1. \A m \in Range(Tail(q)) : \E i \in 1..Len(Tail(q)) : m = Tail(q)[i]
    BY <1>1, RangeEntries
  <2> QED BY <1>1, <1>4, <2>1
<1>6. Head(q).body \in Nat
  BY <1>1 DEF Msg
<1> QED BY <1>1, <1>3, <1>5, <1>6

-----------------------------------------------------------------------------
(* What one agent has in the room: its mailbox q, its rows R, and the      *)
(* messages G that it was given, of the n messages sent so far.            *)

Box(q, R, G, n) ==
  /\ q \in Seq(Msg)
  /\ R \in SUBSET Msg /\ IsFiniteSet(R)
  /\ G \in SUBSET Msg /\ IsFiniteSet(G)
  /\ \A m \in Range(q) \union R \union G : m.body <= n
  /\ \A m \in Range(q) \union R : m.seq <= m.body
  /\ ByBody(q)
  /\ Distinct(R)
  /\ G \intersect (Range(q) \union R) = {}

\* The rows without those of one number.
RowsWithout(R, s) == {m \in R : m.seq # s}

\* All of it are messages, with numbers.
LEMMA BoxTypes ==
  ASSUME NEW q, NEW R, NEW G, NEW n, Box(q, R, G, n)
  PROVE  /\ \A m \in Range(q) \union R \union G :
              m \in Msg /\ m.seq \in Nat /\ m.body \in Nat /\ m.body <= n
         /\ \A i \in 1..Len(q) : q[i] \in Range(q)
<1>1. Range(q) \subseteq Msg /\ R \subseteq Msg /\ G \subseteq Msg
  BY RangeEntries DEF Box
<1>2. \A m \in Msg : m.seq \in Nat /\ m.body \in Nat
  BY DEF Msg
<1>3. \A i \in 1..Len(q) : q[i] \in Range(q)
  BY RangeEntries DEF Box
<1> QED BY <1>1, <1>2, <1>3 DEF Box

\* Messages sent to others change nothing.
LEMMA BoxLater ==
  ASSUME NEW q, NEW R, NEW G, NEW n \in Nat, NEW k \in Nat,
         Box(q, R, G, n), n <= k
  PROVE  Box(q, R, G, k)
<1>1. \A m \in Range(q) \union R \union G : m.body \in Nat
  BY BoxTypes
<1> QED BY <1>1 DEF Box

\* The mailbox is emptied; the rows stay or go.
LEMMA BoxEmptied ==
  ASSUME NEW q, NEW R, NEW G, NEW n \in Nat, Box(q, R, G, n)
  PROVE  Box(<< >>, R, G, n) /\ Box(<< >>, {}, G, n)
<1>1. << >> \in Seq(Msg) /\ Range(<< >>) = {} /\ ByBody(<< >>)
  BY DEF Range, ByBody
<1>2. IsFiniteSet({}) /\ Distinct({})
  BY FS_EmptySet DEF Distinct
<1> QED BY <1>1, <1>2 DEF Box

\* A new message is given to a blocked read.
LEMMA BoxHand ==
  ASSUME NEW q, NEW R, NEW G, NEW n \in Nat, Box(q, R, G, n),
         NEW m \in Msg, m.body = n + 1
  PROVE  /\ Box(q, R, G \union {m}, n + 1)
         /\ m \notin G \union R \union Range(q)
<1>1. \A x \in Range(q) \union R \union G : x.body \in Nat /\ x.body <= n
  BY BoxTypes
<1>2. m \notin G \union R \union Range(q)
  BY <1>1
<1>3. IsFiniteSet(G \union {m})
  BY FS_AddElement DEF Box
<1> QED BY <1>1, <1>2, <1>3 DEF Box

\* All of the mailbox is given out.
LEMMA BoxDrain ==
  ASSUME NEW q, NEW R, NEW G, NEW n \in Nat, Box(q, R, G, n)
  PROVE  Box(<< >>, {}, G \union Range(q), n)
<1>1. IsFiniteSet(Range(q)) /\ Range(q) \subseteq Msg
  BY ByBodyCount, RangeEntries DEF Box
<1>2. IsFiniteSet(G \union Range(q))
  BY <1>1, FS_Union DEF Box
<1>3. << >> \in Seq(Msg) /\ Range(<< >>) = {} /\ ByBody(<< >>)
  BY DEF Range, ByBody
<1>4. IsFiniteSet({}) /\ Distinct({})
  BY FS_EmptySet DEF Distinct
<1> QED BY <1>1, <1>2, <1>3, <1>4 DEF Box

\* The oldest message is given out, or makes way.
LEMMA BoxTail ==
  ASSUME NEW q, NEW R, NEW G, NEW n \in Nat, Box(q, R, G, n), q # << >>
  PROVE  /\ Box(Tail(q), RowsWithout(R, Head(q).seq), G \union {Head(q)}, n)
         /\ Box(Tail(q), RowsWithout(R, Head(q).seq), G, n)
         /\ Box(Tail(q), R, G, n)
<1>1. /\ Head(q) \in Msg /\ Tail(q) \in Seq(Msg)
      /\ Range(Tail(q)) = Range(q) \ {Head(q)}
      /\ Head(q) \in Range(q)
      /\ ByBody(Tail(q))
  BY RangeTail, ByBodyTail DEF Box
<1>2. RowsWithout(R, Head(q).seq) \subseteq R /\ Head(q) \notin RowsWithout(R, Head(q).seq)
  BY DEF RowsWithout
<1>3. IsFiniteSet(RowsWithout(R, Head(q).seq)) /\ Distinct(RowsWithout(R, Head(q).seq))
  BY <1>2, FS_Subset DEF Box, Distinct
<1>4. IsFiniteSet(G \union {Head(q)})
  BY FS_AddElement DEF Box
<1> QED BY <1>1, <1>2, <1>3, <1>4 DEF Box

\* A new message is put into the mailbox, with a row or without.
LEMMA BoxPush ==
  ASSUME NEW q, NEW R, NEW G, NEW n \in Nat, Box(q, R, G, n),
         NEW m \in Msg, m.body = n + 1, m.seq <= m.body
  PROVE  /\ Box(Append(q, m), R, G, n + 1)
         /\ Box(Append(q, m), R \union {m}, G, n + 1)
<1>1. \A x \in Range(q) \union R \union G : x.body \in Nat /\ x.body <= n
  BY BoxTypes
<1>2. Append(q, m) \in Seq(Msg) /\ Range(Append(q, m)) = Range(q) \union {m}
  BY RangeAppend DEF Box
<1>3. ByBody(Append(q, m))
  BY <1>1, ByBodyAppend DEF Box
<1>4. IsFiniteSet(R \union {m})
  BY FS_AddElement DEF Box
<1>5. Distinct(R \union {m})
  BY <1>1 DEF Box, Distinct
<1>6. m \notin G
  BY <1>1
<1>7. \A x \in Range(Append(q, m)) \union R \union {m} \union G : x.body <= n + 1
  BY <1>1, <1>2
<1> QED BY <1>1, <1>2, <1>3, <1>4, <1>5, <1>6, <1>7 DEF Box

\* The rows are listed into a mailbox.
LEMMA BoxListing ==
  ASSUME NEW q, NEW R, NEW G, NEW n \in Nat, Box(q, R, G, n)
  PROVE  Box(Listing(R), R, G, n)
<1>1. Listing(R) \in Seq(Msg) /\ Range(Listing(R)) = R /\ ByBody(Listing(R))
  BY ListingFacts DEF Box
<1> QED BY <1>1 DEF Box

-----------------------------------------------------------------------------
(* Numbers: of a mailbox q, its rows R and the bundles B, in a room that   *)
(* is at number s.                                                         *)

Numbered(q, R, B, s) ==
  /\ \A i, j \in 1..Len(q) : i < j => q[i].seq < q[j].seq
  /\ \A m, x \in R : m.body < x.body => m.seq < x.seq
  /\ \A m \in Range(q) \union R : m.seq <= s
  /\ Range(q) \ B \subseteq R

\* Nothing is in order.
LEMMA NumberedEmptied ==
  ASSUME NEW q, NEW R, NEW B, NEW s, Numbered(q, R, B, s)
  PROVE  Numbered(<< >>, R, B, s) /\ Numbered(<< >>, {}, B, s)
<1>1. Range(<< >>) = {}
  BY DEF Range
<1> QED BY <1>1 DEF Numbered

\* The counter goes up, and there may be a bundle more.
LEMMA NumberedLater ==
  ASSUME NEW q, NEW R, NEW G, NEW n, Box(q, R, G, n),
         NEW B, NEW C, B \subseteq C,
         NEW s \in Nat, NEW t \in Nat, Numbered(q, R, B, s), s <= t
  PROVE  Numbered(q, R, C, t)
<1>1. \A m \in Range(q) \union R : m.seq \in Nat
  BY BoxTypes
<1> QED BY <1>1 DEF Numbered

\* The row of the oldest message is the only one with its number.
LEMMA NumberedTail ==
  ASSUME NEW q, NEW R, NEW G, NEW n, Box(q, R, G, n),
         NEW B, NEW s \in Nat, Numbered(q, R, B, s), q # << >>
  PROVE  /\ Numbered(Tail(q), RowsWithout(R, Head(q).seq), B, s)
         /\ Numbered(Tail(q), R, B, s)
         /\ \A m \in Range(Tail(q)) : Head(q).seq < m.seq
<1>1. /\ q \in Seq(Msg)
      /\ Len(q) \in Nat \ {0} /\ Head(q) = q[1] /\ Head(q) \in Msg
      /\ Tail(q) \in Seq(Msg) /\ Len(Tail(q)) = Len(q) - 1
      /\ \A i \in 1..(Len(q) - 1) : Tail(q)[i] = q[i + 1]
      /\ Range(Tail(q)) \subseteq Range(q)
  BY RangeTail DEF Box
<1>2. \A i \in 1..(Len(q) - 1) : i + 1 \in 1..Len(q)
  BY <1>1
<1>3. \A i, j \in 1..Len(Tail(q)) : i < j => Tail(q)[i].seq < Tail(q)[j].seq
  BY <1>1, <1>2 DEF Numbered
<1>4. \A i \in 1..(Len(q) - 1) : Head(q).seq < Tail(q)[i].seq
  BY <1>1, <1>2 DEF Numbered
<1>5. \A m \in Range(Tail(q)) : Head(q).seq < m.seq
  <2>1. \A m \in Range(Tail(q)) : \E i \in 1..Len(Tail(q)) : m = Tail(q)[i]
    BY <1>1, RangeEntries
  <2> QED BY <1>1, <1>4, <2>1
<1>6. Head(q).seq \in Nat /\ \A m \in Range(Tail(q)) : m.seq # Head(q).seq
  <2>1. \A m \in Range(Tail(q)) : m.seq \in Nat
    BY <1>1, BoxTypes
  <2> QED BY <1>1, <1>5, <2>1 DEF Msg
<1> QED BY <1>1, <1>3, <1>5, <1>6 DEF Numbered, RowsWithout

\* The next message gets the next number; it has a row, or is a bundle.
LEMMA NumberedPush ==
  ASSUME NEW q, NEW R, NEW G, NEW n \in Nat, Box(q, R, G, n),
         NEW B, NEW C, B \subseteq C,
         NEW s \in Nat, Numbered(q, R, B, s),
         NEW m \in Msg, m.seq = s + 1, m.body = n + 1
  PROVE  /\ m \in C => Numbered(Append(q, m), R, C, s + 1)
         /\ Numbered(Append(q, m), R \union {m}, C, s + 1)
<1>1. \A x \in Range(q) \union R : x.seq \in Nat /\ x.seq <= s /\ x.body \in Nat /\ x.body <= n
  BY BoxTypes DEF Numbered
<1>2. /\ q \in Seq(Msg)
      /\ Append(q, m) \in Seq(Msg) /\ Range(Append(q, m)) = Range(q) \union {m}
      /\ Len(q) \in Nat /\ Len(Append(q, m)) = Len(q) + 1
      /\ \A i \in 1..Len(q) : Append(q, m)[i] = q[i] /\ q[i] \in Range(q)
      /\ Append(q, m)[Len(q) + 1] = m
  BY RangeAppend, RangeEntries DEF Box
<1>3. ASSUME NEW i \in 1..Len(Append(q, m)), NEW j \in 1..Len(Append(q, m)), i < j
      PROVE  Append(q, m)[i].seq < Append(q, m)[j].seq
  <2>1. i \in 1..Len(q) /\ Append(q, m)[i] = q[i] /\ q[i].seq \in Nat /\ q[i].seq <= s
    BY <1>1, <1>2, <1>3
  <2>2. CASE j \in 1..Len(q)
    BY <1>2, <1>3, <2>1, <2>2 DEF Numbered
  <2>3. CASE j = Len(q) + 1
    BY <1>2, <2>1, <2>3
  <2> QED BY <1>2, <2>2, <2>3
<1>4. \A x, y \in R \union {m} : x.body < y.body => x.seq < y.seq
  BY <1>1 DEF Numbered
<1>5. \A x \in Range(Append(q, m)) \union R \union {m} : x.seq <= s + 1
  BY <1>1, <1>2
<1> QED BY <1>2, <1>3, <1>4, <1>5 DEF Numbered

\* Rows that are listed into a mailbox, in a room that counts from them.
LEMMA NumberedListing ==
  ASSUME NEW q, NEW R, NEW G, NEW n \in Nat, Box(q, R, G, n),
         NEW B, NEW s, Numbered(q, R, B, s),
         NEW t \in Nat, \A m \in R : m.seq <= t
  PROVE  Numbered(Listing(R), R, B, t)
<1>1. /\ Listing(R) \in Seq(Msg) /\ Range(Listing(R)) = R
      /\ ByBody(Listing(R))
      /\ \A i \in 1..Len(Listing(R)) : Listing(R)[i] \in R
  BY ListingFacts, RangeEntries DEF Box
<1>2. \A i, j \in 1..Len(Listing(R)) : i < j => Listing(R)[i].seq < Listing(R)[j].seq
  BY <1>1 DEF Numbered, ByBody
<1> QED BY <1>1, <1>2 DEF Numbered

-----------------------------------------------------------------------------
(* The inductive invariant, in the parts that different steps need.        *)

RoomTypes ==
  /\ seq \in Nat /\ sent \in Nat /\ seq <= sent
  /\ members \subseteq Agents
  /\ memberRows \subseteq Agents
  /\ orphans \subseteq Agents
  /\ strays \subseteq Agents

BoxTypeOK ==
  /\ mailbox \in [Agents -> Seq(Msg)]
  /\ table \in [Agents -> SUBSET Msg]
  /\ handed \in [Agents -> SUBSET Msg]

CountTypes ==
  /\ dropped \in [Agents -> Nat]
  /\ dropRows \in [Agents -> Nat]
  /\ due \in [Agents -> Nat]
  /\ told \in [Agents -> Nat]

\* Messages that were sent; numbers never run ahead of stamps.
SentMsg == {m \in Msg : m.seq <= m.body /\ m.body <= sent}

\* The steps of jobs.
Steps ==
  {<<"room">>, <<"addAll">>}
    \union ({"add", "remove"} \X Agents)
    \union {d \in {"drop"} \X Agents : Tasks}
    \union {t \in {<<"open">>, <<"bundle">>} : Tasks}
    \union ({"archive"} \X BOOLEAN)
    \union ({"write"} \X SentMsg)

JobInv ==
  /\ jobs \subseteq Seq(Steps) \ {<< >>}
  /\ journal \in Seq(SentMsg)

WaitTypes ==
  /\ waiter \in [Agents -> Readers \union {NoReader}]
  /\ anyWaiter \in [Agents -> Readers \union {NoReader}]
  /\ phase \in [Readers -> {"idle", "wait", "waitAny"}]
  /\ slot \in [Readers -> Msg \union {Nothing}]

\* An entry is of a reader of the same agent; who is idle has nothing to take.
OwnEntries ==
  /\ \A a \in Agents : waiter[a] # NoReader => Owner[waiter[a]] = a
  /\ \A a \in Agents : anyWaiter[a] # NoReader => Owner[anyWaiter[a]] = a
  /\ \A r \in Readers : phase[r] = "idle" => slot[r] = Nothing

WaitInv == WaitTypes /\ OwnEntries /\ SendNeverBlocks

BoxInv == \A a \in Agents : Box(mailbox[a], table[a], handed[a], sent)

NumInv == \A a \in Agents \ orphans : Numbered(mailbox[a], table[a], bundles, seq)

IInv == /\ RoomTypes /\ BoxTypeOK /\ JobInv /\ WaitInv
        /\ BoxInv /\ NumInv /\ NoSleepOnMail

\* Nobody leaves the room, which belongs to no task and has its row.
Quiet == Leavers = {} /\ ~Tasks /\ Founded

\* An outsider, and an agent that is blocked in read-any, has no mail.
NoMailOutside ==
  \A a \in Agents \ strays :
    a \notin members \/ anyWaiter[a] # NoReader => mailbox[a] = << >>

QuietInv ==
  /\ row /\ exists /\ orphans = {}
  /\ CountTypes
  /\ MirrorIsExact
  /\ DropsAccounted
  /\ NoMailOutside
  /\ InOrder

\* No room or a new one, and nobody has sent anything.
LEMMA InitInv == Init => IInv
<1> SUFFICES ASSUME Init PROVE IInv
  OBVIOUS
<1> USE DEF Init
<1>1. RoomTypes /\ BoxTypeOK
  BY LeaverAssumption DEF RoomTypes, BoxTypeOK
<1>2. JobInv
  BY DEF JobInv
<1>3. WaitInv
  BY DEF WaitInv, WaitTypes, OwnEntries, SendNeverBlocks
<1>4. Range(<< >>) = {} /\ IsFiniteSet({})
  BY FS_EmptySet DEF Range
<1>5. \A a \in Agents : mailbox[a] = << >> /\ table[a] = {} /\ handed[a] = {}
  OBVIOUS
<1>6. Box(<< >>, {}, {}, sent) /\ Numbered(<< >>, {}, bundles, seq)
  BY <1>4 DEF Box, Numbered, ByBody, Distinct
<1>7. BoxInv /\ NumInv /\ NoSleepOnMail
  BY <1>5, <1>6 DEF BoxInv, NumInv, NoSleepOnMail
<1> QED BY <1>1, <1>2, <1>3, <1>7 DEF IInv

-----------------------------------------------------------------------------
(* Jobs and counters.                                                      *)

\* What the steps of jobs carry.
LEMMA StepFacts ==
  ASSUME NEW s \in Steps
  PROVE  /\ s[1] \in {"add", "remove", "drop"} => s[2] \in Agents
         /\ s[1] \in {"drop", "open", "bundle"} => Tasks
         /\ s[1] = "write" => s[2] \in SentMsg
  BY DEF Steps

\* What they are made of.
LEMMA StepMakers ==
  /\ <<"room">> \in Steps /\ <<"addAll">> \in Steps
  /\ \A a \in Agents : <<"add", a>> \in Steps /\ <<"remove", a>> \in Steps
  /\ \A b \in BOOLEAN : <<"archive", b>> \in Steps
  /\ Tasks => /\ <<"open">> \in Steps /\ <<"bundle">> \in Steps
              /\ \A a \in Agents : <<"drop", a>> \in Steps
  BY DEF Steps

\* The jobs that handlers start with.
LEMMA JobMakers ==
  /\ \A a \in Agents : /\ << <<"room">>, <<"add", a>> >> \in Seq(Steps)
                       /\ << <<"add", a>> >> \in Seq(Steps)
                       /\ << <<"remove", a>> >> \in Seq(Steps)
  /\ \A b \in BOOLEAN : << <<"archive", b>> >> \in Seq(Steps)
  /\ Tasks => /\ << <<"open">>, <<"bundle">> >> \in Seq(Steps)
              /\ \A a \in Agents : << <<"drop", a>> >> \in Seq(Steps)
<1>1. \A s, t \in Steps : <<s>> \in Seq(Steps) /\ <<s, t>> \in Seq(Steps)
  OBVIOUS
<1>2. \A a \in Agents : /\ << <<"room">>, <<"add", a>> >> \in Seq(Steps)
                        /\ << <<"add", a>> >> \in Seq(Steps)
                        /\ << <<"remove", a>> >> \in Seq(Steps)
  <2> SUFFICES ASSUME NEW a \in Agents
               PROVE  /\ << <<"room">>, <<"add", a>> >> \in Seq(Steps)
                      /\ << <<"add", a>> >> \in Seq(Steps)
                      /\ << <<"remove", a>> >> \in Seq(Steps)
    OBVIOUS
  <2>1. <<"room">> \in Steps /\ <<"add", a>> \in Steps /\ <<"remove", a>> \in Steps
    BY StepMakers
  <2> QED BY <1>1, <2>1
<1>3. ASSUME NEW b \in BOOLEAN PROVE << <<"archive", b>> >> \in Seq(Steps)
  <2>1. <<"archive", b>> \in Steps
    BY StepMakers
  <2> QED BY <1>1, <2>1
<1>4. Tasks => << <<"open">>, <<"bundle">> >> \in Seq(Steps)
  <2>1. Tasks => <<"open">> \in Steps /\ <<"bundle">> \in Steps
    BY StepMakers
  <2> QED BY <1>1, <2>1
<1>5. ASSUME Tasks, NEW a \in Agents PROVE << <<"drop", a>> >> \in Seq(Steps)
  <2>1. <<"drop", a>> \in Steps
    BY <1>5, StepMakers
  <2> QED BY <1>1, <2>1
<1> QED BY <1>2, <1>3, <1>4, <1>5

\* A step that was sent stays one.
LEMMA StepsGrow ==
  ASSUME RoomTypes, sent' \in Nat, sent <= sent'
  PROVE  /\ SentMsg \subseteq SentMsg' /\ Steps \subseteq Steps'
         /\ Seq(SentMsg) \subseteq Seq(SentMsg') /\ Seq(Steps) \subseteq Seq(Steps')
<1>1. SentMsg \subseteq SentMsg'
  <2>1. \A m \in Msg : m.body \in Nat
    BY DEF Msg
  <2> QED BY <2>1 DEF SentMsg, RoomTypes
<1>2. Steps \subseteq Steps'
  BY <1>1 DEF Steps
<1> QED BY <1>1, <1>2, SeqSubset

\* A handler that starts its job, or goes on with it.
LEMMA LaterJobs ==
  ASSUME JobInv, NEW job \in Seq(Steps'), Later(job), Seq(Steps) \subseteq Seq(Steps')
  PROVE  jobs' \subseteq Seq(Steps') \ {<< >>}
  BY DEF JobInv, Later

LEMMA GoOnJobs ==
  ASSUME JobInv, NEW job \in jobs, NEW rest \in Seq(Steps'), GoOn(job, rest),
         Seq(Steps) \subseteq Seq(Steps')
  PROVE  jobs' \subseteq Seq(Steps') \ {<< >>}
  BY DEF JobInv, GoOn

\* The first step of a job, and the rest of it.
LEMMA JobHead ==
  ASSUME JobInv, NEW job \in jobs
  PROVE  Head(job) \in Steps /\ Tail(job) \in Seq(Steps)
<1>1. job \in Seq(Steps) /\ job # << >>
  BY DEF JobInv
<1> QED BY <1>1, RangeTail

\* The number that a restart counts on from is that of a stored message, and no
\* unread row has a higher one.
LEMMA StoredSeqFacts ==
  ASSUME RoomTypes, BoxTypeOK, BoxInv, JobInv
  PROVE  /\ StoredSeq \in Nat /\ StoredSeq <= sent
         /\ \A a \in Agents : \A m \in table[a] : m.seq <= StoredSeq
<1> DEFINE S == {0} \union {m.seq : m \in Range(journal)}
                    \union UNION {{m.seq : m \in table[a]} : a \in Agents}
<1>1. \A m \in Range(journal) : m.seq \in Nat /\ m.seq <= sent
  <2>1. Range(journal) \subseteq SentMsg
    BY RangeEntries DEF JobInv
  <2> QED BY <2>1 DEF SentMsg, RoomTypes, Msg
<1>2. \A a \in Agents : \A m \in table[a] : m.seq \in Nat /\ m.seq <= sent
  <2> SUFFICES ASSUME NEW a \in Agents, NEW m \in table[a]
               PROVE  m.seq \in Nat /\ m.seq <= sent
    OBVIOUS
  <2>1. Box(mailbox[a], table[a], handed[a], sent)
    BY DEF BoxInv
  <2>2. m.seq \in Nat /\ m.body \in Nat /\ m.body <= sent /\ m.seq <= m.body
    BY <2>1, BoxTypes DEF Box
  <2> QED BY <2>2 DEF RoomTypes
<1>3. S \in SUBSET Nat /\ S # {} /\ \A y \in S : y <= sent
  BY <1>1, <1>2 DEF RoomTypes
<1>4. \A a \in Agents : \A m \in table[a] : m.seq \in S
  OBVIOUS
<1>5. StoredSeq = Max(S)
  BY DEF StoredSeq
<1>6. sent \in Nat
  BY DEF RoomTypes
<1> HIDE DEF S
<1>7. Max(S) \in S /\ \A y \in S : y <= Max(S)
  BY <1>3, <1>6, MaxOfBounded
<1> QED BY <1>3, <1>4, <1>5, <1>7

\* The next message has the next number and the next stamp.
LEMMA NextMsgFacts ==
  ASSUME RoomTypes, NEW f \in Agents
  PROVE  /\ NextMsg(f) \in Msg
         /\ NextMsg(f).seq = seq + 1 /\ NextMsg(f).body = sent + 1
         /\ NextMsg(f).seq <= NextMsg(f).body
         /\ NextMsg(f).from = f
  BY DEF RoomTypes, NextMsg, Msg

\* A message that is delivered was sent, and counted.
LEMMA DeliverJobs ==
  ASSUME IInv, NEW f \in Agents, Deliver(f, NextMsg(f))
  PROVE  /\ RoomTypes' /\ NextMsg(f) \in SentMsg'
         /\ <<"write", NextMsg(f)>> \in Steps'
         /\ Seq(Steps) \subseteq Seq(Steps')
         /\ journal' \in Seq(SentMsg')
<1>1. sent' = sent + 1 /\ seq' = seq + 1
      /\ UNCHANGED <<members, memberRows, orphans, strays, journal>>
  BY DEF Deliver, dbVars
<1>2. sent' \in Nat /\ sent <= sent' /\ RoomTypes'
  BY <1>1 DEF IInv, RoomTypes
<1>3. NextMsg(f) \in SentMsg'
  BY <1>1, NextMsgFacts DEF IInv, RoomTypes, SentMsg
<1>4. Seq(Steps) \subseteq Seq(Steps') /\ Seq(SentMsg) \subseteq Seq(SentMsg')
  BY <1>2, StepsGrow DEF IInv
<1>5. journal' \in Seq(SentMsg')
  BY <1>1, <1>4 DEF IInv, JobInv
<1>6. <<"write", NextMsg(f)>> \in Steps'
  BY <1>3 DEF Steps
<1> QED BY <1>2, <1>3, <1>4, <1>5, <1>6

\* The handlers that change members, and go on with a job.
LEMMA MemberJobs ==
  ASSUME IInv, NEW job \in Seq(Steps), Later(job),
         members' \subseteq Agents,
         UNCHANGED <<seq, sent, memberRows, orphans, strays, journal>>
  PROVE  RoomTypes' /\ JobInv'
<1>1. RoomTypes'
  BY DEF IInv, RoomTypes
<1>2. SentMsg' = SentMsg /\ Steps' = Steps
  BY DEF SentMsg, Steps
<1>3. jobs' \subseteq Seq(Steps') \ {<< >>}
  BY <1>2, LaterJobs DEF IInv
<1> QED BY <1>1, <1>2, <1>3 DEF IInv, JobInv

\* The steps of jobs that change members, or rows about them.
LEMMA MemberSteps ==
  ASSUME IInv, NEW job \in jobs, NEW rest \in Seq(Steps), GoOn(job, rest),
         members' \subseteq Agents, memberRows' \subseteq Agents,
         journal' \in Seq(SentMsg),
         UNCHANGED <<seq, sent, orphans, strays>>
  PROVE  RoomTypes' /\ JobInv'
<1>1. RoomTypes'
  BY DEF IInv, RoomTypes
<1>2. SentMsg' = SentMsg /\ Steps' = Steps
  BY DEF SentMsg, Steps
<1>3. jobs' \subseteq Seq(Steps') \ {<< >>}
  BY <1>2, GoOnJobs DEF IInv
<1> QED BY <1>1, <1>2, <1>3 DEF IInv, JobInv

\* The task handlers, for the supervisor and one more agent.
LEMMA EnsureJobs ==
  ASSUME IInv, NEW a \in Agents, NEW rest \in Seq(Steps),
         EnsureRoomWithMembers(a, rest)
  PROVE  RoomTypes' /\ JobInv'
<1>1. Founder \in Agents
  BY LeaverAssumption
<1>2. <<"room">> \in Steps /\ <<"addAll">> \in Steps
      /\ <<"add", a>> \in Steps /\ <<"add", Founder>> \in Steps
  BY <1>1, StepMakers
<1>3. << <<"room">>, <<"addAll">> >> \in Seq(Steps)
  BY <1>2
<1>4. AddSteps(a) \in Seq(Steps)
  <2>1. AddStep(a) \in Seq(Steps) /\ AddStep(Founder) \in Seq(Steps)
    BY <1>2 DEF AddStep
  <2> QED BY <2>1 DEF AddSteps
<1>5. CASE NewRoom({Founder, a}) /\ Later(<< <<"room">>, <<"addAll">> >> \o rest)
  <2>1. << <<"room">>, <<"addAll">> >> \o rest \in Seq(Steps)
    BY <1>3
  <2>2. members' \subseteq Agents
        /\ UNCHANGED <<seq, sent, memberRows, orphans, strays, journal>>
    BY <1>1, <1>5 DEF NewRoom, dbVars, logVars
  <2> QED BY <1>5, <2>1, <2>2, MemberJobs
<1>6. CASE Admit({Founder, a}, AddSteps(a) \o rest)
  <2>1. AddSteps(a) \o rest \in Seq(Steps)
    BY <1>4
  <2>2. /\ members' \subseteq Agents
        /\ UNCHANGED <<seq, sent, memberRows, orphans, strays, journal>>
        /\ Later(AddSteps(a) \o rest)
    BY <1>1, <1>6 DEF Admit, dbVars, logVars, IInv, RoomTypes
  <2> QED BY <2>1, <2>2, MemberJobs
<1> QED BY <1>5, <1>6 DEF EnsureRoomWithMembers

\* No step makes an illegal job, loses count, or names an unknown agent.
LEMMA JobStep ==
  ASSUME IInv, [Next]_vars
  PROVE  RoomTypes' /\ JobInv'
<1> USE DEF dbVars, logVars, memVars, boxVars, waitVars
<1>0. Founder \in Agents
  BY LeaverAssumption
<1>1. ASSUME NEW a \in Agents, RoomCreate(a)
      PROVE  RoomTypes' /\ JobInv'
  <2>1. << <<"room">>, <<"add", a>> >> \in Seq(Steps)
    BY JobMakers
  <2> QED BY <1>1, <2>1, MemberJobs DEF RoomCreate, NewRoom
<1>2. ASSUME NEW a \in Agents, Join(a)
      PROVE  RoomTypes' /\ JobInv'
  <2>1. << <<"add", a>> >> \in Seq(Steps)
    BY JobMakers
  <2>2. members' \subseteq Agents
    BY <1>2 DEF Join, Admit, IInv, RoomTypes
  <2> QED BY <1>2, <2>1, <2>2, MemberJobs DEF Join, Admit
<1>3. ASSUME NEW a \in Agents, Leave(a)
      PROVE  RoomTypes' /\ JobInv'
  <2>1. << <<"remove", a>> >> \in Seq(Steps)
    BY JobMakers
  <2>2. members' \subseteq Agents
    BY <1>3 DEF Leave, Remove, IInv, RoomTypes
  <2> QED BY <1>3, <2>1, <2>2, MemberJobs DEF Leave, Remove
<1>4. ASSUME NEW a \in Agents, Post(a)
      PROVE  RoomTypes' /\ JobInv'
  <2>1. Deliver(a, NextMsg(a)) /\ Later(<< <<"write", NextMsg(a)>> >>)
    BY <1>4 DEF Post
  <2>2. /\ RoomTypes' /\ Seq(Steps) \subseteq Seq(Steps')
        /\ <<"write", NextMsg(a)>> \in Steps' /\ journal' \in Seq(SentMsg')
    BY <2>1, DeliverJobs
  <2>3. << <<"write", NextMsg(a)>> >> \in Seq(Steps')
    BY <2>2
  <2>4. jobs' \subseteq Seq(Steps') \ {<< >>}
    BY <2>1, <2>2, <2>3, LaterJobs DEF IInv
  <2> QED BY <2>2, <2>4 DEF JobInv
<1>5. CASE UNCHANGED <<seq, sent, memberRows, orphans, strays, journal, jobs>>
           /\ members' \subseteq Agents
  BY <1>5 DEF IInv, RoomTypes, JobInv, SentMsg, Steps
<1>6. ASSUME NEW a \in Agents, TaskClaim(a)
      PROVE  RoomTypes' /\ JobInv'
  <2>1. << >> \in Seq(Steps)
    OBVIOUS
  <2> QED BY <1>6, <2>1, EnsureJobs DEF TaskClaim
<1>7. CASE TaskPublish
  <2>1. Tasks
    BY <1>7 DEF TaskPublish, EnsureRoomWithMembers
  <2>2. << <<"open">>, <<"bundle">> >> \in Seq(Steps)
    BY <2>1, JobMakers
  <2> QED BY <1>0, <1>7, <2>2, EnsureJobs DEF TaskPublish
<1>8. ASSUME NEW old \in Agents, NEW new \in Agents, TaskReassign(old, new)
      PROVE  RoomTypes' /\ JobInv'
  <2>1. Tasks
    BY <1>8 DEF TaskReassign, EnsureRoomWithMembers
  <2>2. << <<"drop", old>> >> \in Seq(Steps)
    BY <2>1, JobMakers
  <2> QED BY <1>8, <2>2, EnsureJobs DEF TaskReassign
<1>9. CASE ArchiveRoom
  <2>1. << <<"archive", TRUE>> >> \in Seq(Steps)
    BY JobMakers
  <2>2. members' \subseteq Agents
    BY <1>9 DEF ArchiveRoom, IInv, RoomTypes
  <2> QED BY <1>9, <2>1, <2>2, MemberJobs DEF ArchiveRoom
<1>10. ASSUME NEW job \in jobs, Store(job)
       PROVE  RoomTypes' /\ JobInv'
  <2>1. Head(job) \in Steps /\ Tail(job) \in Seq(Steps)
    BY JobHead DEF IInv
  <2>2. memberRows' \subseteq Agents
    BY <1>10, <2>1, StepFacts DEF Store, StoreMembers, IInv, RoomTypes
  <2>3. members' \subseteq Agents /\ journal' \in Seq(SentMsg)
    BY <1>10 DEF Store, IInv, RoomTypes, JobInv
  <2> QED BY <1>10, <2>1, <2>2, <2>3, MemberSteps DEF Store
<1>11. ASSUME NEW job \in jobs, EnqueueWrite(job)
       PROVE  RoomTypes' /\ JobInv'
  <2>1. Tail(job) \in Seq(Steps) /\ Head(job)[2] \in SentMsg
    BY <1>11, JobHead, StepFacts DEF IInv, EnqueueWrite
  <2>2. /\ members' \subseteq Agents /\ memberRows' \subseteq Agents
        /\ journal' \in Seq(SentMsg)
    BY <1>11, <2>1 DEF EnqueueWrite, IInv, RoomTypes, JobInv
  <2> QED BY <1>11, <2>1, <2>2, MemberSteps DEF EnqueueWrite
<1>12. ASSUME NEW job \in jobs, DropMember(job)
       PROVE  RoomTypes' /\ JobInv'
  <2>1. Tail(job) \in Seq(Steps)
    BY JobHead DEF IInv
  <2>2. /\ members' \subseteq Agents /\ memberRows' \subseteq Agents
        /\ journal' \in Seq(SentMsg)
    BY <1>12 DEF DropMember, IInv, RoomTypes, JobInv
  <2> QED BY <1>12, <2>1, <2>2, MemberSteps DEF DropMember
<1>13. ASSUME NEW job \in jobs, UnarchiveRoom(job)
       PROVE  RoomTypes' /\ JobInv'
  <2> DEFINE rest == (IF archived THEN << <<"archive", FALSE>> >> ELSE << >>) \o Tail(job)
  <2>1. Tail(job) \in Seq(Steps)
    BY JobHead DEF IInv
  <2>2. rest \in Seq(Steps)
    <3>1. << <<"archive", FALSE>> >> \in Seq(Steps)
      BY JobMakers
    <3>2. << <<"archive", FALSE>> >> \o Tail(job) \in Seq(Steps)
          /\ << >> \o Tail(job) \in Seq(Steps)
      BY <2>1, <3>1
    <3> QED BY <3>2
  <2>3. GoOn(job, rest)
    BY <1>13 DEF UnarchiveRoom
  <2>4. /\ members' \subseteq Agents /\ memberRows' \subseteq Agents
        /\ journal' \in Seq(SentMsg)
    BY <1>13 DEF UnarchiveRoom, IInv, RoomTypes, JobInv
  <2> HIDE DEF rest
  <2> QED BY <1>13, <2>2, <2>3, <2>4, MemberSteps DEF UnarchiveRoom
<1>14. ASSUME NEW job \in jobs, InternalPost(job)
       PROVE  RoomTypes' /\ JobInv'
  <2>1. Tail(job) \in Seq(Steps)
    BY JobHead DEF IInv
  <2>2. CASE Deliver(Founder, NextMsg(Founder))
             /\ GoOn(job, << <<"write", NextMsg(Founder)>> >> \o Tail(job))
    <3>1. /\ RoomTypes' /\ Seq(Steps) \subseteq Seq(Steps')
          /\ <<"write", NextMsg(Founder)>> \in Steps' /\ journal' \in Seq(SentMsg')
      BY <1>0, <2>2, DeliverJobs
    <3>2. << <<"write", NextMsg(Founder)>> >> \in Seq(Steps')
      BY <3>1
    <3>3. << <<"write", NextMsg(Founder)>> >> \o Tail(job) \in Seq(Steps')
      BY <2>1, <3>1, <3>2
    <3>4. jobs' \subseteq Seq(Steps') \ {<< >>}
      BY <2>2, <3>1, <3>3, GoOnJobs DEF IInv
    <3> QED BY <3>1, <3>4 DEF JobInv
  <2>3. CASE GoOn(job, Tail(job)) /\ UNCHANGED <<memVars, dbVars, logVars, journal>>
    <3>1. /\ members' \subseteq Agents /\ memberRows' \subseteq Agents
          /\ journal' \in Seq(SentMsg)
      BY <2>3 DEF IInv, RoomTypes, JobInv
    <3> QED BY <2>1, <2>3, <3>1, MemberSteps
  <2> QED BY <1>14, <2>2, <2>3 DEF InternalPost
<1>15. CASE Restart
  <2>1. seq' \in Nat /\ seq' <= sent
    BY <1>15, StoredSeqFacts DEF Restart, IInv, RoomTypes
  <2>2. RoomTypes'
    BY <1>15, <2>1 DEF Restart, IInv, RoomTypes
  <2>3. JobInv'
    BY <1>15 DEF Restart, IInv, JobInv, SentMsg, Steps
  <2> QED BY <2>2, <2>3
<1>16. ASSUME NEW a \in Agents, RemoveMembers(a)
       PROVE  RoomTypes' /\ JobInv'
  BY <1>5, <1>16 DEF RemoveMembers, Remove, IInv, RoomTypes
<1>17. ASSUME NEW old \in Agents, NEW new \in Agents, TaskHandoff(old, new)
       PROVE  RoomTypes' /\ JobInv'
  BY <1>5, <1>17 DEF TaskHandoff, IInv, RoomTypes
<1>18. ASSUME NEW r \in Readers, RoomRead(r) \/ ReadAny(r) \/ Wake(r) \/ Timeout(r)
       PROVE  RoomTypes' /\ JobInv'
  BY <1>5, <1>18 DEF RoomRead, ReadAny, Wake, Timeout, IInv, RoomTypes
<1>19. CASE UNCHANGED vars
  BY <1>5, <1>19 DEF vars, IInv, RoomTypes
<1> QED
  BY <1>1, <1>2, <1>3, <1>4, <1>6, <1>7, <1>8, <1>9, <1>10, <1>11, <1>12,
     <1>13, <1>14, <1>15, <1>16, <1>17, <1>18, <1>19 DEF Next

-----------------------------------------------------------------------------
(* The steps that touch mailboxes and blocked reads.                       *)

Still == UNCHANGED <<boxVars, waitVars, logVars, seq>>

\* A bundle is delivered.
Bundle ==
  /\ Tasks
  /\ Deliver(Founder, NextMsg(Founder))
  /\ bundles' = bundles \union {NextMsg(Founder)}
  /\ UNCHANGED <<table, dropRows>>

\* Every step is still, or one of these.
LEMMA Kinds ==
  ASSUME IInv, [Next]_vars
  PROVE  \/ Still
         \/ \E a \in Agents : Remove(a)
         \/ \E f \in Agents : Post(f)
         \/ Bundle
         \/ \E r \in Readers : RoomRead(r) \/ ReadAny(r) \/ Wake(r) \/ Timeout(r)
         \/ Restart
<1>1. ASSUME NEW a \in Agents, RoomCreate(a) \/ Join(a) PROVE Still
  BY <1>1 DEF RoomCreate, NewRoom, Join, Admit, Still
<1>2. ASSUME NEW a \in Agents, NEW rest, EnsureRoomWithMembers(a, rest) PROVE Still
  BY <1>2 DEF EnsureRoomWithMembers, NewRoom, Admit, Still
<1>3. ASSUME NEW old \in Agents, NEW new \in Agents,
             TaskReassign(old, new) \/ TaskHandoff(old, new)
      PROVE  Still
  BY <1>2, <1>3 DEF TaskReassign, TaskHandoff, Still
<1>4. CASE TaskPublish
  BY <1>2, <1>4, LeaverAssumption DEF TaskPublish
<1>5. ASSUME NEW a \in Agents, TaskClaim(a) PROVE Still
  BY <1>2, <1>5 DEF TaskClaim
<1>6. CASE ArchiveRoom
  BY <1>6 DEF ArchiveRoom, Still
<1>7. ASSUME NEW job \in jobs,
             Store(job) \/ EnqueueWrite(job) \/ DropMember(job) \/ UnarchiveRoom(job)
      PROVE  Still
  BY <1>7 DEF Store, EnqueueWrite, DropMember, UnarchiveRoom, Still, memVars
<1>8. ASSUME NEW job \in jobs, InternalPost(job) PROVE Bundle \/ Still
  <2>1. Tasks
    BY <1>8, JobHead, StepFacts DEF IInv, InternalPost
  <2> QED BY <1>8, <2>1 DEF InternalPost, Bundle, Still, memVars
<1>9. CASE UNCHANGED vars
  BY <1>9 DEF vars, Still, memVars
<1> QED
  BY <1>1, <1>3, <1>4, <1>5, <1>6, <1>7, <1>8, <1>9 DEF Next, Leave, RemoveMembers

-----------------------------------------------------------------------------
(* Blocked reads.                                                          *)

\* The readers that a delivery wakes are in their select, with an empty slot,
\* and an entry that stays belongs to another reader.
LEMMA WokenFacts ==
  ASSUME RoomTypes, WaitInv, NEW f \in Agents
  PROVE  /\ \A r \in Woken(f) : r \in Readers /\ phase[r] \in {"wait", "waitAny"}
         /\ \A a \in Agents \ ToRead(f) : waiter[a] # NoReader => waiter[a] \notin Woken(f)
         /\ \A a \in Agents \ ToAny(f) : anyWaiter[a] # NoReader => anyWaiter[a] \notin Woken(f)
<1> USE DEF WaitInv, WaitTypes, OwnEntries, SendNeverBlocks
<1>1. /\ \A a \in ToRead(f) : a \in Agents /\ waiter[a] \in Readers
                              /\ phase[waiter[a]] = "wait" /\ Owner[waiter[a]] = a
      /\ \A a \in ToAny(f) : a \in Agents /\ anyWaiter[a] \in Readers
                             /\ phase[anyWaiter[a]] = "waitAny" /\ Owner[anyWaiter[a]] = a
  BY DEF RoomTypes, ToRead, ToAny, To
<1>2. ASSUME NEW r \in Woken(f)
      PROVE  /\ r \in Readers /\ phase[r] \in {"wait", "waitAny"}
             /\ phase[r] = "wait" => Owner[r] \in ToRead(f)
             /\ phase[r] = "waitAny" => Owner[r] \in ToAny(f)
  BY <1>1, <1>2 DEF Woken
<1>3. ASSUME NEW a \in Agents \ ToRead(f), waiter[a] # NoReader
      PROVE  waiter[a] \notin Woken(f)
  <2>1. phase[waiter[a]] = "wait" /\ Owner[waiter[a]] = a
    BY <1>3
  <2> QED BY <1>2, <2>1
<1>4. ASSUME NEW a \in Agents \ ToAny(f), anyWaiter[a] # NoReader
      PROVE  anyWaiter[a] \notin Woken(f)
  <2>1. phase[anyWaiter[a]] = "waitAny" /\ Owner[anyWaiter[a]] = a
    BY <1>4
  <2> QED BY <1>2, <2>1
<1> QED BY <1>2, <1>3, <1>4

\* A delivery wakes those that it has on record.
LEMMA DeliverWaits ==
  ASSUME RoomTypes, WaitInv, NEW f \in Agents, NEW m \in Msg, Deliver(f, m)
  PROVE  WaitInv'
<1>1. WaitTypes'
  BY DEF WaitInv, WaitTypes, Deliver
<1>2. ASSUME NEW a \in Agents, waiter'[a] # NoReader
      PROVE  /\ waiter'[a] = waiter[a] /\ waiter[a] \in Readers
             /\ slot'[waiter[a]] = slot[waiter[a]] /\ phase' = phase
  BY <1>2, WokenFacts DEF WaitInv, WaitTypes, Deliver
<1>3. ASSUME NEW a \in Agents, anyWaiter'[a] # NoReader
      PROVE  /\ anyWaiter'[a] = anyWaiter[a] /\ anyWaiter[a] \in Readers
             /\ slot'[anyWaiter[a]] = slot[anyWaiter[a]] /\ phase' = phase
  BY <1>3, WokenFacts DEF WaitInv, WaitTypes, Deliver
<1>4. \A r \in Readers : phase'[r] = "idle" => slot'[r] = slot[r]
  BY WokenFacts DEF WaitInv, WaitTypes, Deliver
<1>5. OwnEntries'
  <2>1. OwnEntries
    BY DEF WaitInv
  <2>2. \A a \in Agents : waiter'[a] # NoReader => Owner[waiter'[a]] = a
    BY <1>2, <2>1 DEF OwnEntries
  <2>3. \A a \in Agents : anyWaiter'[a] # NoReader => Owner[anyWaiter'[a]] = a
    BY <1>3, <2>1 DEF OwnEntries
  <2>4. \A r \in Readers : phase'[r] = "idle" => slot'[r] = Nothing
    <3>1. phase' = phase
      BY DEF Deliver
    <3> QED BY <1>4, <2>1, <3>1 DEF OwnEntries
  <2> QED BY <2>2, <2>3, <2>4 DEF OwnEntries
<1>6. SendNeverBlocks'
  <2>1. ASSUME NEW a \in Agents, waiter'[a] # NoReader
        PROVE  slot'[waiter'[a]] = Nothing /\ phase'[waiter'[a]] = "wait"
    <3>1. slot[waiter[a]] = Nothing /\ phase[waiter[a]] = "wait"
      BY <1>2, <2>1 DEF WaitInv, SendNeverBlocks
    <3> QED BY <1>2, <2>1, <3>1
  <2>2. ASSUME NEW a \in Agents, anyWaiter'[a] # NoReader
        PROVE  slot'[anyWaiter'[a]] = Nothing /\ phase'[anyWaiter'[a]] = "waitAny"
    <3>1. slot[anyWaiter[a]] = Nothing /\ phase[anyWaiter[a]] = "waitAny"
      BY <1>3, <2>2 DEF WaitInv, SendNeverBlocks
    <3> QED BY <1>3, <2>2, <3>1
  <2> QED BY <2>1, <2>2 DEF SendNeverBlocks
<1> QED BY <1>1, <1>5, <1>6, Zenon DEF WaitInv

\* Entries and slots fit together after every step.
LEMMA WaitStep ==
  ASSUME IInv, [Next]_vars
  PROVE  WaitInv'
<1> USE DEF IInv, WaitInv, WaitTypes, OwnEntries, SendNeverBlocks
<1>1. CASE Still
  BY <1>1 DEF Still, waitVars
<1>2. ASSUME NEW a \in Agents, Remove(a) PROVE WaitInv'
  BY <1>2 DEF Remove
<1>3. ASSUME NEW f \in Agents, Deliver(f, NextMsg(f)) PROVE WaitInv'
  <2> HIDE DEF WaitInv
  <2> QED BY <1>3, DeliverWaits, NextMsgFacts
<1>4. ASSUME NEW r \in Readers, RoomRead(r) PROVE WaitInv'
  BY <1>4, OwnerAssumption, RoomNullAssumption DEF RoomRead, waitVars, Free
<1>5. ASSUME NEW r \in Readers, ReadAny(r) PROVE WaitInv'
  BY <1>5, OwnerAssumption, RoomNullAssumption DEF ReadAny, waitVars
<1>6. ASSUME NEW r \in Readers, Wake(r) PROVE WaitInv'
  BY <1>6 DEF Wake
<1>7. ASSUME NEW r \in Readers, Timeout(r) PROVE WaitInv'
  BY <1>7, OwnerAssumption DEF Timeout, DeleteEntry
<1>8. CASE Restart
  BY <1>8 DEF Restart
<1>9. Founder \in Agents
  BY LeaverAssumption
<1> QED
  BY <1>1, <1>2, <1>3, <1>4, <1>5, <1>6, <1>7, <1>8, <1>9, Kinds DEF Post, Bundle

-----------------------------------------------------------------------------
(* Mailboxes, rows and what was given out.                                 *)

BoxesOk == BoxTypeOK /\ BoxInv /\ NumInv

\* What was posted, and how it reached `a'.
Posted(f) == Post(f) \/ (f = Founder /\ Bundle)

\* A message goes into the mailbox of an agent, is given to it, or does not
\* concern it; a post has its row where it is unread.
LEMMA PostedEffects ==
  ASSUME IInv, NEW f \in Agents, Posted(f), NEW a \in Agents
  PROVE  /\ sent' = sent + 1 /\ seq' = seq + 1 /\ orphans' = orphans
         /\ bundles \subseteq bundles'
         /\ a \in ToBox(f) /\ Full(a) =>
              /\ mailbox[a] # << >>
              /\ mailbox'[a] = Append(Tail(mailbox[a]), NextMsg(f))
              /\ handed'[a] = handed[a]
              /\ \/ Tasks /\ NextMsg(f) \in bundles' /\ table'[a] = table[a]
                 \/ table'[a] = RowsWithout(table[a], Head(mailbox[a]).seq) \union {NextMsg(f)}
         /\ a \in ToBox(f) /\ ~Full(a) =>
              /\ mailbox'[a] = Append(mailbox[a], NextMsg(f))
              /\ handed'[a] = handed[a]
              /\ \/ Tasks /\ NextMsg(f) \in bundles' /\ table'[a] = table[a]
                 \/ table'[a] = table[a] \union {NextMsg(f)}
         /\ a \in ToRead(f) \union ToAny(f) =>
              /\ a \notin ToBox(f)
              /\ mailbox'[a] = mailbox[a] /\ table'[a] = table[a]
              /\ handed'[a] = handed[a] \union {NextMsg(f)}
         /\ a \notin ToBox(f) \union ToRead(f) \union ToAny(f) =>
              /\ mailbox'[a] = mailbox[a] /\ table'[a] = table[a]
              /\ handed'[a] = handed[a]
<1>1. Deliver(f, NextMsg(f))
  BY DEF Posted, Post, Bundle
<1>2. sent' = sent + 1 /\ seq' = seq + 1 /\ orphans' = orphans
  BY <1>1 DEF Deliver
<1>3. a \in ToRead(f) \union ToAny(f) => a \notin ToBox(f)
  BY DEF ToBox
<1>4. Full(a) => mailbox[a] # << >>
  BY LimitAssumption DEF Full
<1>5. /\ a \in ToBox(f) /\ Full(a) => mailbox'[a] = Append(Tail(mailbox[a]), NextMsg(f))
      /\ a \in ToBox(f) /\ ~Full(a) => mailbox'[a] = Append(mailbox[a], NextMsg(f))
      /\ a \notin ToBox(f) => mailbox'[a] = mailbox[a]
  BY <1>1 DEF Deliver, Pushed
<1>6. /\ a \in ToRead(f) \union ToAny(f) => handed'[a] = handed[a] \union {NextMsg(f)}
      /\ a \notin ToRead(f) \union ToAny(f) => handed'[a] = handed[a]
  BY <1>1 DEF Deliver
<1>7. CASE Post(f)
  BY <1>2, <1>3, <1>4, <1>5, <1>6, <1>7 DEF Post, WithoutOldest, DeleteOne, RowsWithout
<1>8. CASE f = Founder /\ Bundle
  BY <1>2, <1>3, <1>4, <1>5, <1>6, <1>8 DEF Bundle
<1> QED BY <1>7, <1>8 DEF Posted

\* A delivery keeps every mailbox in order.
LEMMA PostedBoxes ==
  ASSUME IInv, NEW f \in Agents, Posted(f)
  PROVE  BoxesOk'
<1> DEFINE m == NextMsg(f)
<1>1. m \in Msg /\ m.seq = seq + 1 /\ m.body = sent + 1 /\ m.seq <= m.body /\ m.from = f
  BY NextMsgFacts DEF IInv
<1>2. /\ seq \in Nat /\ sent \in Nat /\ sent' = sent + 1 /\ seq' = seq + 1
      /\ orphans' = orphans /\ bundles \subseteq bundles'
  BY PostedEffects DEF IInv, RoomTypes
<1> HIDE DEF m
<1>3. ASSUME NEW a \in Agents
      PROVE  /\ Box(mailbox'[a], table'[a], handed'[a], sent + 1)
             /\ a \notin orphans => Numbered(mailbox'[a], table'[a], bundles', seq + 1)
  <2> DEFINE q == mailbox[a]
             R == table[a]
             G == handed[a]
             T == RowsWithout(R, Head(q).seq)
  <2>1. Box(q, R, G, sent) /\ (a \notin orphans => Numbered(q, R, bundles, seq))
    BY DEF IInv, BoxInv, NumInv
  <2>2. CASE a \in ToBox(f) /\ Full(a)
    <3>1. q # << >> /\ mailbox'[a] = Append(Tail(q), m) /\ handed'[a] = G
          /\ ((m \in bundles' /\ table'[a] = R) \/ table'[a] = T \union {m})
      BY <2>2, PostedEffects DEF m
    <3> HIDE DEF q, R, G, T
    <3>2. Box(Tail(q), T, G, sent) /\ Box(Tail(q), R, G, sent)
      BY <1>2, <2>1, <3>1, BoxTail DEF T
    <3>3. Box(Append(Tail(q), m), T \union {m}, G, sent + 1)
          /\ Box(Append(Tail(q), m), R, G, sent + 1)
      BY <1>1, <1>2, <3>2, BoxPush
    <3>4. a \notin orphans => Numbered(Tail(q), T, bundles, seq) /\ Numbered(Tail(q), R, bundles, seq)
      BY <1>2, <2>1, <3>1, NumberedTail DEF T
    <3>5. a \notin orphans => Numbered(Append(Tail(q), m), T \union {m}, bundles', seq + 1)
      BY <1>1, <1>2, <3>2, <3>4, NumberedPush
    <3>6. a \notin orphans /\ m \in bundles' => Numbered(Append(Tail(q), m), R, bundles', seq + 1)
      BY <1>1, <1>2, <3>2, <3>4, NumberedPush
    <3> QED BY <3>1, <3>3, <3>5, <3>6
  <2>3. CASE a \in ToBox(f) /\ ~Full(a)
    <3>1. mailbox'[a] = Append(q, m) /\ handed'[a] = G
          /\ ((m \in bundles' /\ table'[a] = R) \/ table'[a] = R \union {m})
      BY <2>3, PostedEffects DEF m
    <3> HIDE DEF q, R, G, T
    <3>2. Box(Append(q, m), R \union {m}, G, sent + 1) /\ Box(Append(q, m), R, G, sent + 1)
      BY <1>1, <1>2, <2>1, BoxPush
    <3>3. a \notin orphans => Numbered(Append(q, m), R \union {m}, bundles', seq + 1)
      BY <1>1, <1>2, <2>1, NumberedPush
    <3>4. a \notin orphans /\ m \in bundles' => Numbered(Append(q, m), R, bundles', seq + 1)
      BY <1>1, <1>2, <2>1, NumberedPush
    <3> QED BY <3>1, <3>2, <3>3, <3>4
  <2>4. a \notin orphans => Numbered(q, R, bundles', seq + 1)
    BY <1>2, <2>1, NumberedLater
  <2>5. CASE a \in ToRead(f) \union ToAny(f)
    <3>1. mailbox'[a] = q /\ table'[a] = R /\ handed'[a] = G \union {m}
      BY <2>5, PostedEffects DEF m
    <3> HIDE DEF q, R, G, T
    <3>2. Box(q, R, G \union {m}, sent + 1)
      BY <1>1, <1>2, <2>1, BoxHand
    <3> QED BY <2>4, <3>1, <3>2
  <2>6. CASE a \notin ToBox(f) \union ToRead(f) \union ToAny(f)
    <3>1. mailbox'[a] = q /\ table'[a] = R /\ handed'[a] = G
      BY <2>6, PostedEffects
    <3> HIDE DEF q, R, G, T
    <3>2. Box(q, R, G, sent + 1)
      BY <1>2, <2>1, BoxLater
    <3> QED BY <2>4, <3>1, <3>2
  <2> QED BY <2>2, <2>3, <2>5, <2>6
<1>4. BoxInv' /\ NumInv'
  BY <1>2, <1>3 DEF BoxInv, NumInv
<1>5. BoxTypeOK'
  <2>1. /\ mailbox' = [a \in Agents |-> mailbox'[a]]
        /\ table' = [a \in Agents |-> table'[a]]
        /\ handed' = [a \in Agents |-> handed'[a]]
    BY DEF Posted, Post, Bundle, Deliver, IInv, BoxTypeOK
  <2>2. \A a \in Agents : /\ mailbox'[a] \in Seq(Msg) /\ table'[a] \in SUBSET Msg
                          /\ handed'[a] \in SUBSET Msg
    BY <1>3 DEF Box
  <2> QED BY <2>1, <2>2 DEF BoxTypeOK
<1> QED BY <1>4, <1>5 DEF BoxesOk

\* A drain keeps the boxes of the agent in order, and does not touch the others'.
LEMMA DrainBoxes ==
  ASSUME IInv, NEW a \in Agents, Drain(a), UNCHANGED <<sent, seq, bundles, orphans>>
  PROVE  BoxesOk'
<1>1. BoxTypeOK'
  <2>1. Range(mailbox[a]) \subseteq Msg
    BY RangeEntries DEF IInv, BoxTypeOK
  <2> QED BY <2>1 DEF Drain, IInv, BoxTypeOK
<1>2. /\ mailbox'[a] = << >> /\ table'[a] = {}
      /\ handed'[a] = handed[a] \union Range(mailbox[a])
      /\ \A b \in Agents : b # a => /\ mailbox'[b] = mailbox[b] /\ table'[b] = table[b]
                                    /\ handed'[b] = handed[b]
  BY DEF Drain, IInv, BoxTypeOK
<1>3. Box(mailbox'[a], table'[a], handed'[a], sent')
  <2>1. Box(mailbox[a], table[a], handed[a], sent) /\ sent \in Nat
    BY DEF IInv, BoxInv, RoomTypes
  <2>2. Box(<< >>, {}, handed[a] \union Range(mailbox[a]), sent)
    BY <2>1, BoxDrain
  <2> QED BY <1>2, <2>2
<1>4. a \notin orphans => Numbered(mailbox'[a], table'[a], bundles', seq')
  BY <1>2, NumberedEmptied DEF IInv, NumInv
<1>5. BoxInv' /\ NumInv'
  BY <1>2, <1>3, <1>4 DEF IInv, BoxInv, NumInv
<1> QED BY <1>1, <1>5 DEF BoxesOk

\* So does a read-any that takes the oldest message.
LEMMA ReadAnyBoxes ==
  ASSUME IInv, NEW r \in Readers, ReadAny(r)
  PROVE  BoxesOk'
<1> DEFINE me == Owner[r]
<1>1. me \in Agents /\ UNCHANGED <<sent, seq, bundles, orphans>>
  BY OwnerAssumption DEF ReadAny, memVars
<1>2. CASE UNCHANGED <<mailbox, table, handed>>
  BY <1>1, <1>2 DEF BoxesOk, IInv, BoxTypeOK, BoxInv, NumInv
<1>3. CASE /\ mailbox[me] # << >>
           /\ mailbox' = [mailbox EXCEPT ![me] = Tail(@)]
           /\ table' = [table EXCEPT ![me] = DeleteOne(me, Head(mailbox[me]).seq)]
           /\ handed' = [handed EXCEPT ![me] = @ \union {Head(mailbox[me])}]
  <2>1. /\ mailbox'[me] = Tail(mailbox[me])
        /\ table'[me] = RowsWithout(table[me], Head(mailbox[me]).seq)
        /\ handed'[me] = handed[me] \union {Head(mailbox[me])}
        /\ \A b \in Agents : b # me => /\ mailbox'[b] = mailbox[b] /\ table'[b] = table[b]
                                       /\ handed'[b] = handed[b]
    BY <1>1, <1>3 DEF IInv, BoxTypeOK, DeleteOne, RowsWithout
  <2>2. Box(mailbox[me], table[me], handed[me], sent) /\ sent \in Nat /\ seq \in Nat
    BY <1>1 DEF IInv, BoxInv, RoomTypes
  <2>3. Box(mailbox'[me], table'[me], handed'[me], sent')
    <3>1. Box(Tail(mailbox[me]), RowsWithout(table[me], Head(mailbox[me]).seq),
              handed[me] \union {Head(mailbox[me])}, sent)
      BY <1>3, <2>2, BoxTail
    <3> QED BY <1>1, <2>1, <3>1
  <2>4. me \notin orphans => Numbered(mailbox'[me], table'[me], bundles', seq')
    <3> SUFFICES ASSUME me \notin orphans
                 PROVE  Numbered(Tail(mailbox[me]),
                                 RowsWithout(table[me], Head(mailbox[me]).seq), bundles, seq)
      BY <1>1, <2>1
    <3>1. Numbered(mailbox[me], table[me], bundles, seq)
      BY <1>1 DEF IInv, NumInv
    <3> QED BY <1>3, <2>2, <3>1, NumberedTail
  <2>5. BoxInv' /\ NumInv'
    BY <1>1, <2>1, <2>3, <2>4 DEF IInv, BoxInv, NumInv
  <2>6. BoxTypeOK'
    <3>1. /\ mailbox'[me] \in Seq(Msg) /\ table'[me] \in SUBSET Msg
          /\ handed'[me] \in SUBSET Msg
      BY <2>3 DEF Box
    <3> QED BY <1>1, <1>3, <2>1, <3>1 DEF IInv, BoxTypeOK
  <2> QED BY <2>5, <2>6 DEF BoxesOk
<1> QED BY <1>2, <1>3 DEF ReadAny, boxVars

\* A restart lists the rows; without a row of the room, it has none to list for
\* those that it does not make orphans.
LEMMA RestartBoxes ==
  ASSUME IInv, Restart
  PROVE  BoxesOk'
<1>1. /\ UNCHANGED <<table, handed, sent, bundles>>
      /\ orphans' = orphans \union {a \in Agents : ~row /\ table[a] # {}}
      /\ seq' = IF row THEN StoredSeq ELSE 0
      /\ mailbox' = [a \in Agents |-> Listing({m \in table[a] : row})]
  BY DEF Restart
<1>2. seq' \in Nat /\ (row => \A a \in Agents : \A m \in table[a] : m.seq <= seq')
  BY <1>1, StoredSeqFacts DEF IInv
<1>3. ASSUME NEW a \in Agents
      PROVE  /\ Box(mailbox'[a], table[a], handed[a], sent)
             /\ a \notin orphans' => Numbered(mailbox'[a], table[a], bundles, seq')
  <2>1. Box(mailbox[a], table[a], handed[a], sent) /\ sent \in Nat
    BY DEF IInv, BoxInv, RoomTypes
  <2>2. a \notin orphans' => Numbered(mailbox[a], table[a], bundles, seq)
    BY <1>1 DEF IInv, NumInv
  <2>3. CASE row
    <3>1. {m \in table[a] : row} = table[a]
      BY <2>3, <2>1 DEF Box
    <3>2. mailbox'[a] = Listing(table[a])
      BY <1>1, <3>1
    <3>3. Box(Listing(table[a]), table[a], handed[a], sent)
      BY <2>1, BoxListing
    <3>4. a \notin orphans' => Numbered(Listing(table[a]), table[a], bundles, seq')
      BY <1>2, <2>1, <2>2, <2>3, NumberedListing
    <3> QED BY <3>2, <3>3, <3>4
  <2>4. CASE ~row
    <3>1. {m \in table[a] : row} = {} /\ mailbox'[a] = Listing({})
      BY <1>1, <2>4
    <3>2. {} \in SUBSET Msg /\ IsFiniteSet({}) /\ Distinct({})
      BY FS_EmptySet DEF Distinct
    <3>3. Listing({}) \in Seq(Msg) /\ Range(Listing({})) = {}
      BY <3>2, ListingFacts
    <3>4. mailbox'[a] = << >>
      BY <3>1, <3>3, RangeEntries
    <3>5. Box(<< >>, table[a], handed[a], sent)
      BY <2>1, BoxEmptied
    <3>6. a \notin orphans' => table[a] = {}
      BY <1>1, <2>4
    <3>7. Numbered(<< >>, {}, bundles, seq')
      BY <3>2 DEF Numbered, Range
    <3> QED BY <3>4, <3>5, <3>6, <3>7
  <2> QED BY <2>3, <2>4
<1>4. BoxInv' /\ NumInv'
  BY <1>1, <1>3 DEF BoxInv, NumInv
<1>5. BoxTypeOK'
  <2>1. \A a \in Agents : mailbox'[a] \in Seq(Msg)
    BY <1>3 DEF Box
  <2> QED BY <1>1, <2>1 DEF IInv, BoxTypeOK
<1> QED BY <1>4, <1>5 DEF BoxesOk

\* Mailboxes, rows and what was given out, after every step.
LEMMA BoxStep ==
  ASSUME IInv, [Next]_vars
  PROVE  BoxesOk'
<1>1. CASE UNCHANGED <<mailbox, table, handed, sent, seq, bundles, orphans>>
  BY <1>1 DEF BoxesOk, IInv, BoxTypeOK, BoxInv, NumInv
<1>2. ASSUME NEW a \in Agents, Remove(a) PROVE BoxesOk'
  <2>1. /\ UNCHANGED <<table, handed, sent, seq, bundles, orphans>>
        /\ mailbox' \in [Agents -> Seq(Msg)]
        /\ mailbox'[a] = << >>
        /\ \A b \in Agents : b # a => mailbox'[b] = mailbox[b]
    BY <1>2 DEF Remove, logVars, IInv, BoxTypeOK
  <2>2. BoxTypeOK'
    BY <2>1 DEF IInv, BoxTypeOK
  <2>3. Box(<< >>, table[a], handed[a], sent)
    BY BoxEmptied DEF IInv, BoxInv, RoomTypes
  <2>4. a \notin orphans => Numbered(<< >>, table[a], bundles, seq)
    BY NumberedEmptied DEF IInv, NumInv
  <2>5. BoxInv' /\ NumInv'
    BY <2>1, <2>3, <2>4 DEF IInv, BoxInv, NumInv
  <2> QED BY <2>2, <2>5 DEF BoxesOk
<1>3. ASSUME NEW f \in Agents, Posted(f) PROVE BoxesOk'
  BY <1>3, PostedBoxes
<1>4. ASSUME NEW r \in Readers, RoomRead(r) PROVE BoxesOk'
  BY <1>1, <1>4, DrainBoxes, OwnerAssumption DEF RoomRead, memVars, boxVars
<1>5. ASSUME NEW r \in Readers, ReadAny(r) PROVE BoxesOk'
  BY <1>5, ReadAnyBoxes
<1>6. ASSUME NEW r \in Readers, Wake(r) PROVE BoxesOk'
  BY <1>1, <1>6, DrainBoxes, OwnerAssumption DEF Wake, memVars, boxVars
<1>7. ASSUME NEW r \in Readers, Timeout(r) PROVE BoxesOk'
  BY <1>1, <1>7 DEF Timeout, memVars, boxVars, logVars
<1>8. CASE Restart
  BY <1>8, RestartBoxes
<1>9. CASE Still
  BY <1>1, <1>9 DEF Still, boxVars, logVars
<1>10. Founder \in Agents
  BY LeaverAssumption
<1> QED
  BY <1>2, <1>3, <1>4, <1>5, <1>6, <1>7, <1>8, <1>9, <1>10, Kinds DEF Posted

\* Whoever is on record as blocked in a read has no mail, after every step.
LEMMA SleepStep ==
  ASSUME IInv, [Next]_vars
  PROVE  NoSleepOnMail'
<1> USE DEF IInv, NoSleepOnMail, BoxTypeOK, WaitInv, WaitTypes
<1>1. CASE Still
  BY <1>1 DEF Still, waitVars, boxVars
<1>2. ASSUME NEW a \in Agents, Remove(a) PROVE NoSleepOnMail'
  BY <1>2 DEF Remove
<1>3. ASSUME NEW f \in Agents, Deliver(f, NextMsg(f)) PROVE NoSleepOnMail'
  BY <1>3 DEF Deliver, ToBox, ToRead, To
<1>4. ASSUME NEW r \in Readers, RoomRead(r) PROVE NoSleepOnMail'
  BY <1>4, OwnerAssumption DEF RoomRead, Drain, boxVars, waitVars
<1>5. ASSUME NEW r \in Readers, ReadAny(r) PROVE NoSleepOnMail'
  BY <1>5, OwnerAssumption DEF ReadAny, boxVars, waitVars
<1>6. ASSUME NEW r \in Readers, Wake(r) PROVE NoSleepOnMail'
  BY <1>6, OwnerAssumption DEF Wake, Drain, boxVars
<1>7. ASSUME NEW r \in Readers, Timeout(r) PROVE NoSleepOnMail'
  BY <1>7, OwnerAssumption DEF Timeout, DeleteEntry, boxVars
<1>8. CASE Restart
  BY <1>8 DEF Restart
<1>9. Founder \in Agents
  BY LeaverAssumption
<1> QED
  BY <1>1, <1>2, <1>3, <1>4, <1>5, <1>6, <1>7, <1>8, <1>9, Kinds DEF Post, Bundle

\* The invariant is inductive.
LEMMA NextInv == IInv /\ [Next]_vars => IInv'
  BY JobStep, WaitStep, BoxStep, SleepStep DEF IInv, BoxesOk

-----------------------------------------------------------------------------
(* The theorems.                                                           *)

\* The inductive invariant holds always, for all agents, readers and limits.
THEOREM RoomInvariant == Spec => []IInv
  BY InitInv, NextInv, PTL DEF Spec

\* post (room.go:283) never blocks under r.mu on the channel of a read, and
\* whoever it finds in a waiter map is still in its select.
THEOREM RoomSendNeverBlocks == Spec => []SendNeverBlocks
<1>1. IInv => SendNeverBlocks
  BY DEF IInv, WaitInv
<1> QED BY <1>1, RoomInvariant, PTL

\* No read sleeps on mail: a post finds the blocked read first (room.go:283).
THEOREM RoomNoSleepOnMail == Spec => []NoSleepOnMail
<1>1. IInv => NoSleepOnMail
  BY DEF IInv
<1> QED BY <1>1, RoomInvariant, PTL

\* What a read, a read-any or a post to a blocked read has given out is neither
\* unread nor a row (room.go:353, state.go:755), through restarts.
THEOREM RoomAtMostOnce == Spec => []AtMostOnce
<1>1. IInv => AtMostOnce
  BY DEF IInv, BoxInv, Box, AtMostOnce, Unread
<1> QED BY <1>1, RoomInvariant, PTL

\* Mailboxes list their mail in the order of the posts (room.go:290,
\* registry.go:136), also the mail of agents that left and came back.
THEOREM RoomInPostOrder == Spec => []InPostOrder
<1>1. IInv => InPostOrder
  <2> SUFFICES ASSUME IInv, NEW a \in Agents \ orphans
               PROVE  Increasing(mailbox[a])
    BY DEF InPostOrder
  <2>1. Box(mailbox[a], table[a], handed[a], sent)
        /\ Numbered(mailbox[a], table[a], bundles, seq)
    BY DEF IInv, BoxInv, NumInv
  <2> QED BY <2>1 DEF Box, ByBody, Numbered, Increasing
<1> QED BY <1>1, RoomInvariant, PTL

\* Unread posts, of the supervisor too, have their rows (room.go:300), through
\* overflows, bundles, departures and restarts; only bundles have none.
THEOREM RoomPostsAreDurable == Spec => []PostsAreDurable
<1>1. IInv => PostsAreDurable
  BY DEF IInv, NumInv, Numbered, PostsAreDurable, Unread
<1> QED BY <1>1, RoomInvariant, PTL

-----------------------------------------------------------------------------
(* A room that nobody leaves.                                              *)

\* The account of one agent: rows and mailbox agree, both dropped counters (d
\* and e) agree, and the u messages due are unread, given out, or drops that it
\* was told of (t) or will be.
Ledger(q, R, G, d, e, t, u) ==
  /\ d \in Nat /\ t \in Nat
  /\ R = Range(q)
  /\ e = d
  /\ u = Len(q) + Cardinality(G) + t + d

\* A message is put into the mailbox.
LEMMA LedgerPush ==
  ASSUME NEW q \in Seq(Msg), NEW R, NEW G, NEW d, NEW e, NEW t, NEW u,
         IsFiniteSet(G), Ledger(q, R, G, d, e, t, u), NEW m \in Msg
  PROVE  Ledger(Append(q, m), R \union {m}, G, d, e, t, u + 1)
<1>1. Range(Append(q, m)) = Range(q) \union {m} /\ Len(Append(q, m)) = Len(q) + 1
  BY RangeAppend
<1>2. Cardinality(G) \in Nat
  BY FS_CardinalityType
<1> QED BY <1>1, <1>2 DEF Ledger

\* The oldest makes way: one drop more, one row less.
LEMMA LedgerDrop ==
  ASSUME NEW q, NEW R, NEW G, NEW n \in Nat, NEW s \in Nat,
         Box(q, R, G, n), NEW B, Numbered(q, R, B, s), q # << >>,
         NEW d, NEW e, NEW t, NEW u, Ledger(q, R, G, d, e, t, u)
  PROVE  /\ Ledger(Tail(q), RowsWithout(R, Head(q).seq), G, d + 1, e + 1, t, u)
         /\ Ledger(Tail(q), RowsWithout(R, Head(q).seq), G \union {Head(q)}, d, e, t, u)
<1>1. /\ Head(q) \in Range(q) /\ Head(q) \in Msg
      /\ Range(Tail(q)) = Range(q) \ {Head(q)}
      /\ Len(Tail(q)) = Len(q) - 1 /\ Len(q) \in Nat \ {0}
  BY RangeTail, ByBodyTail DEF Box
<1>2. \A m \in Range(Tail(q)) : m.seq # Head(q).seq
  <2>1. \A m \in Range(Tail(q)) : Head(q).seq < m.seq
    BY NumberedTail
  <2>2. \A m \in Range(q) : m.seq \in Nat
    BY BoxTypes
  <2> QED BY <1>1, <2>1, <2>2
<1>3. RowsWithout(R, Head(q).seq) = Range(Tail(q))
  BY <1>1, <1>2 DEF RowsWithout, Ledger
<1>4. Head(q) \notin G /\ IsFiniteSet(G)
  BY <1>1 DEF Box
<1>5. Cardinality(G) \in Nat /\ Cardinality(G \union {Head(q)}) = Cardinality(G) + 1
  BY <1>4, FS_AddElement, FS_CardinalityType
<1>6. /\ d \in Nat /\ t \in Nat /\ e = d
      /\ u = Len(q) + Cardinality(G) + t + d
  BY DEF Ledger
<1>7. PICK k \in Nat, g \in Nat : k = Len(Tail(q)) /\ g = Cardinality(G)
  <2>1. Len(Tail(q)) \in Nat
    BY <1>1
  <2> QED BY <1>5, <2>1
<1>8. u = (k + 1) + g + t + d
  BY <1>1, <1>6, <1>7
<1>9. u = k + g + t + (d + 1) /\ u = k + (g + 1) + t + d
  BY <1>6, <1>8
<1>10. /\ u = Len(Tail(q)) + Cardinality(G) + t + (d + 1)
       /\ u = Len(Tail(q)) + Cardinality(G \union {Head(q)}) + t + d
  BY <1>5, <1>7, <1>9
<1> QED BY <1>3, <1>6, <1>10 DEF Ledger

\* A message is given to a blocked read.
LEMMA LedgerHand ==
  ASSUME NEW q \in Seq(Msg), NEW R, NEW G, NEW d, NEW e, NEW t, NEW u,
         IsFiniteSet(G), Ledger(q, R, G, d, e, t, u), NEW m, m \notin G
  PROVE  Ledger(q, R, G \union {m}, d, e, t, u + 1)
<1>1. Cardinality(G) \in Nat /\ Cardinality(G \union {m}) = Cardinality(G) + 1
  BY FS_AddElement, FS_CardinalityType
<1> QED BY <1>1 DEF Ledger

\* All of the mailbox is given out, and the drops are reported.
LEMMA LedgerDrain ==
  ASSUME NEW q, NEW R, NEW G, NEW n \in Nat, Box(q, R, G, n),
         NEW d, NEW e, NEW t, NEW u, Ledger(q, R, G, d, e, t, u)
  PROVE  Ledger(<< >>, {}, G \union Range(q), 0, 0, t + d, u)
<1>1. q \in Seq(Msg) /\ Range(<< >>) = {} /\ Len(<< >>) = 0
  BY DEF Box, Range
<1>2. IsFiniteSet(Range(q)) /\ Cardinality(Range(q)) = Len(q)
  BY ByBodyCount DEF Box
<1>3. G \intersect Range(q) = {} /\ IsFiniteSet(G)
  BY DEF Box
<1>4. Cardinality(G) \in Nat /\ Cardinality(G \intersect Range(q)) = 0
  BY <1>3, FS_CardinalityType, FS_EmptySet
<1>5. Cardinality(G \union Range(q)) =
        Cardinality(G) + Cardinality(Range(q)) - Cardinality(G \intersect Range(q))
  BY <1>2, <1>3, FS_Union
<1> QED BY <1>1, <1>2, <1>4, <1>5 DEF Ledger

\* The rows are listed into the mailbox.
LEMMA LedgerListing ==
  ASSUME NEW q, NEW R, NEW G, NEW n \in Nat, Box(q, R, G, n),
         NEW d, NEW e, NEW t, NEW u, Ledger(q, R, G, d, e, t, u)
  PROVE  /\ Ledger(Listing(R), R, G, e, e, t, u)
         /\ Range(Listing(R)) = Range(q)
         /\ R = {} => Listing(R) = << >>
<1>1. /\ Listing(R) \in Seq(Msg)
      /\ Len(Listing(R)) = Cardinality(R) /\ Range(Listing(R)) = R
  BY ListingFacts DEF Box
<1>2. Cardinality(Range(q)) = Len(q)
  BY ByBodyCount DEF Box
<1>3. R = {} => Listing(R) = << >>
  BY <1>1, RangeEntries
<1> QED BY <1>1, <1>2, <1>3 DEF Ledger

LedgerInv ==
  \A a \in Agents : Ledger(mailbox[a], table[a], handed[a], dropped[a], dropRows[a],
                           told[a], due[a])

\* The account stands for the two properties.
LEMMA LedgerMeans ==
  ASSUME CountTypes
  PROVE  LedgerInv <=> MirrorIsExact /\ DropsAccounted
<1>1. \A a \in Agents : dropped[a] \in Nat /\ told[a] \in Nat
  BY DEF CountTypes
<1> QED BY <1>1 DEF LedgerInv, Ledger, MirrorIsExact, DropsAccounted, Unread

\* The room stays, with its row, and its members but for a restart.
LEMMA QuietMembers ==
  ASSUME Quiet, IInv, QuietInv, [Next]_vars
  PROVE  /\ row' /\ exists' /\ orphans' = {}
         /\ members \subseteq members' \/ Restart
<1> USE DEF Quiet, QuietInv
<1>1. ASSUME NEW a \in Agents, RoomCreate(a) PROVE FALSE
  BY <1>1 DEF RoomCreate, NewRoom
<1>2. ASSUME NEW a \in Agents, Leave(a) \/ RemoveMembers(a) PROVE FALSE
  BY <1>2 DEF Leave, RemoveMembers, Remove
<1>3. ASSUME NEW old \in Agents, NEW new \in Agents,
             TaskReassign(old, new) \/ TaskHandoff(old, new) \/ TaskClaim(new)
      PROVE  FALSE
  BY <1>3 DEF TaskReassign, TaskHandoff, TaskClaim, EnsureRoomWithMembers
<1>4. CASE TaskPublish \/ ArchiveRoom
  BY <1>4 DEF TaskPublish, ArchiveRoom, EnsureRoomWithMembers
<1>5. ASSUME NEW job \in jobs, DropMember(job) \/ UnarchiveRoom(job) \/ InternalPost(job)
      PROVE  FALSE
  BY <1>5, JobHead, StepFacts DEF DropMember, UnarchiveRoom, InternalPost, IInv
<1>6. ASSUME NEW a \in Agents, Join(a)
      PROVE  row' /\ exists' /\ orphans' = {} /\ members \subseteq members'
  BY <1>6 DEF Join, Admit, dbVars, logVars
<1>7. ASSUME NEW a \in Agents, Post(a)
      PROVE  row' /\ exists' /\ orphans' = {} /\ members \subseteq members'
  BY <1>7 DEF Post, Deliver, dbVars
<1>8. ASSUME NEW job \in jobs, Store(job) \/ EnqueueWrite(job)
      PROVE  row' /\ exists' /\ orphans' = {} /\ members \subseteq members'
  BY <1>8 DEF Store, StoreMembers, EnqueueWrite, memVars, dbVars, logVars
<1>9. ASSUME NEW r \in Readers, RoomRead(r) \/ ReadAny(r) \/ Wake(r) \/ Timeout(r)
      PROVE  row' /\ exists' /\ orphans' = {} /\ members \subseteq members'
  BY <1>9 DEF RoomRead, ReadAny, Wake, Timeout, memVars, dbVars, logVars
<1>10. CASE Restart
  BY <1>10 DEF Restart, dbVars
<1>11. CASE UNCHANGED vars
  BY <1>11 DEF vars, memVars, dbVars, logVars
<1> QED
  BY <1>1, <1>2, <1>3, <1>4, <1>5, <1>6, <1>7, <1>8, <1>9, <1>10, <1>11 DEF Next

\* What a quiet room keeps.
AccountOk == CountTypes /\ LedgerInv

\* A post puts one message on the account of those it goes to.
LEMMA PostedAccount ==
  ASSUME Quiet, IInv, QuietInv, NEW f \in Agents, Post(f)
  PROVE  AccountOk'
<1> DEFINE m == NextMsg(f)
<1>1. m \in Msg /\ m.body = sent + 1
  BY NextMsgFacts DEF IInv
<1>2. seq \in Nat /\ sent \in Nat
  BY DEF IInv, RoomTypes
<1>3. LedgerInv
  BY LedgerMeans DEF QuietInv
<1>4. Posted(f) /\ Deliver(f, NextMsg(f)) /\ told' = told
  BY DEF Posted, Post, Deliver
<1>5. \A a \in Agents :
        /\ due'[a] = IF a \in To(f) THEN due[a] + 1 ELSE due[a]
        /\ dropped'[a] = IF a \in ToBox(f) /\ Full(a) THEN dropped[a] + 1 ELSE dropped[a]
        /\ dropRows'[a] = IF a \in ToBox(f) /\ Full(a) THEN dropRows[a] + 1 ELSE dropRows[a]
  BY DEF Post, Deliver
<1>6. CountTypes'
  BY <1>4 DEF Post, Deliver, QuietInv, CountTypes
<1> HIDE DEF m
<1>7. ASSUME NEW a \in Agents
      PROVE  Ledger(mailbox'[a], table'[a], handed'[a], dropped'[a], dropRows'[a],
                    told'[a], due'[a])
  <2> DEFINE q == mailbox[a]
             R == table[a]
             G == handed[a]
             d == dropped[a]
             e == dropRows[a]
             t == told[a]
             u == due[a]
             T == RowsWithout(R, Head(q).seq)
  <2>1. Box(q, R, G, sent) /\ Numbered(q, R, bundles, seq) /\ Ledger(q, R, G, d, e, t, u)
    BY <1>3 DEF IInv, BoxInv, NumInv, QuietInv, LedgerInv
  <2>2. a \in To(f) <=> a \in ToBox(f) \union ToRead(f) \union ToAny(f)
    BY DEF ToBox, ToRead, ToAny
  <2>3. CASE a \in ToBox(f) /\ Full(a)
    <3>1. /\ q # << >> /\ mailbox'[a] = Append(Tail(q), m) /\ handed'[a] = G
          /\ table'[a] = T \union {m}
          /\ dropped'[a] = d + 1 /\ dropRows'[a] = e + 1 /\ told'[a] = t /\ due'[a] = u + 1
      BY <1>4, <1>5, <2>2, <2>3, PostedEffects DEF m, Quiet
    <3> HIDE DEF q, R, G, T, d, e, t, u
    <3>2. Ledger(Tail(q), T, G, d + 1, e + 1, t, u) /\ Tail(q) \in Seq(Msg) /\ IsFiniteSet(G)
      BY <1>2, <2>1, <3>1, LedgerDrop, RangeTail DEF T, Box
    <3>3. Ledger(Append(Tail(q), m), T \union {m}, G, d + 1, e + 1, t, u + 1)
      BY <1>1, <3>2, LedgerPush
    <3> QED BY <3>1, <3>3
  <2>4. CASE a \in ToBox(f) /\ ~Full(a)
    <3>1. /\ mailbox'[a] = Append(q, m) /\ handed'[a] = G
          /\ table'[a] = R \union {m}
          /\ dropped'[a] = d /\ dropRows'[a] = e /\ told'[a] = t /\ due'[a] = u + 1
      BY <1>4, <1>5, <2>2, <2>4, PostedEffects DEF m, Quiet
    <3> HIDE DEF q, R, G, T, d, e, t, u
    <3>2. q \in Seq(Msg) /\ IsFiniteSet(G)
      BY <2>1 DEF Box
    <3>3. Ledger(Append(q, m), R \union {m}, G, d, e, t, u + 1)
      BY <1>1, <2>1, <3>2, LedgerPush
    <3> QED BY <3>1, <3>3
  <2>5. CASE a \in ToRead(f) \union ToAny(f)
    <3>1. /\ mailbox'[a] = q /\ table'[a] = R /\ handed'[a] = G \union {m}
          /\ dropped'[a] = d /\ dropRows'[a] = e /\ told'[a] = t /\ due'[a] = u + 1
      BY <1>4, <1>5, <2>2, <2>5, PostedEffects DEF m, ToBox
    <3> HIDE DEF q, R, G, T, d, e, t, u
    <3>2. q \in Seq(Msg) /\ IsFiniteSet(G) /\ m \notin G
      BY <1>1, <1>2, <2>1, BoxTypes DEF Box
    <3>3. Ledger(q, R, G \union {m}, d, e, t, u + 1)
      BY <2>1, <3>2, LedgerHand
    <3> QED BY <3>1, <3>3
  <2>6. CASE a \notin ToBox(f) \union ToRead(f) \union ToAny(f)
    BY <1>4, <1>5, <2>1, <2>2, <2>6, PostedEffects
  <2> QED BY <2>3, <2>4, <2>5, <2>6
<1> QED BY <1>6, <1>7 DEF AccountOk, LedgerInv

\* A drain settles the account of the agent.
LEMMA DrainAccount ==
  ASSUME IInv, QuietInv, NEW a \in Agents, Drain(a), UNCHANGED due
  PROVE  AccountOk'
<1>1. LedgerInv
  BY LedgerMeans DEF QuietInv
<1>2. /\ mailbox'[a] = << >> /\ table'[a] = {} /\ dropped'[a] = 0 /\ dropRows'[a] = 0
      /\ handed'[a] = handed[a] \union Range(mailbox[a]) /\ told'[a] = told[a] + dropped[a]
  BY DEF Drain, IInv, BoxTypeOK, QuietInv, CountTypes
<1>3. \A b \in Agents : b # a =>
        /\ mailbox'[b] = mailbox[b] /\ table'[b] = table[b] /\ dropped'[b] = dropped[b]
        /\ dropRows'[b] = dropRows[b] /\ handed'[b] = handed[b] /\ told'[b] = told[b]
  BY DEF Drain, IInv, BoxTypeOK, QuietInv, CountTypes
<1>4. Ledger(<< >>, {}, handed[a] \union Range(mailbox[a]), 0, 0, told[a] + dropped[a], due[a])
  BY <1>1, LedgerDrain DEF LedgerInv, IInv, BoxInv, RoomTypes
<1>5. CountTypes'
  BY DEF Drain, QuietInv, CountTypes
<1>6. LedgerInv'
  BY <1>1, <1>2, <1>3, <1>4 DEF LedgerInv
<1> QED BY <1>5, <1>6 DEF AccountOk

\* The accounts balance after every step.
LEMMA AccountStep ==
  ASSUME Quiet, IInv, QuietInv, [Next]_vars
  PROVE  AccountOk'
<1>1. LedgerInv
  BY LedgerMeans DEF QuietInv
<1>2. CASE UNCHANGED <<boxVars, due, handed, told>>
  BY <1>1, <1>2 DEF AccountOk, QuietInv, CountTypes, LedgerInv, boxVars
<1>3. ASSUME NEW a \in Agents, Remove(a) PROVE AccountOk'
  BY <1>3 DEF Quiet, Remove
<1>4. ASSUME NEW f \in Agents, Post(f) PROVE AccountOk'
  BY <1>4, PostedAccount
<1>5. CASE Bundle
  BY <1>5 DEF Quiet, Bundle
<1>6. ASSUME NEW r \in Readers, RoomRead(r) PROVE AccountOk'
  BY <1>2, <1>6, DrainAccount, OwnerAssumption DEF RoomRead
<1>7. ASSUME NEW r \in Readers, ReadAny(r) PROVE AccountOk'
  <2> DEFINE me == Owner[r]
  <2>1. me \in Agents
    BY OwnerAssumption
  <2>2. CASE UNCHANGED <<boxVars, handed>>
    BY <1>2, <1>7, <2>2 DEF ReadAny
  <2>3. CASE /\ mailbox[me] # << >>
             /\ mailbox' = [mailbox EXCEPT ![me] = Tail(@)]
             /\ table' = [table EXCEPT ![me] = DeleteOne(me, Head(mailbox[me]).seq)]
             /\ handed' = [handed EXCEPT ![me] = @ \union {Head(mailbox[me])}]
             /\ UNCHANGED <<dropped, dropRows, due, told>>
    <3>1. /\ mailbox'[me] = Tail(mailbox[me])
          /\ table'[me] = RowsWithout(table[me], Head(mailbox[me]).seq)
          /\ handed'[me] = handed[me] \union {Head(mailbox[me])}
          /\ \A b \in Agents : b # me => /\ mailbox'[b] = mailbox[b] /\ table'[b] = table[b]
                                         /\ handed'[b] = handed[b]
      BY <2>1, <2>3 DEF IInv, BoxTypeOK, DeleteOne, RowsWithout
    <3>2. /\ Box(mailbox[me], table[me], handed[me], sent)
          /\ Numbered(mailbox[me], table[me], bundles, seq) /\ sent \in Nat /\ seq \in Nat
      BY <2>1 DEF IInv, BoxInv, NumInv, RoomTypes, QuietInv
    <3>3. Ledger(mailbox[me], table[me], handed[me], dropped[me], dropRows[me], told[me], due[me])
      BY <1>1, <2>1 DEF LedgerInv
    <3>4. Ledger(Tail(mailbox[me]), RowsWithout(table[me], Head(mailbox[me]).seq),
                 handed[me] \union {Head(mailbox[me])}, dropped[me], dropRows[me], told[me], due[me])
      BY <2>3, <3>2, <3>3, LedgerDrop
    <3>5. LedgerInv'
      BY <1>1, <2>3, <3>1, <3>4 DEF LedgerInv
    <3>6. CountTypes'
      BY <2>3 DEF QuietInv, CountTypes
    <3> QED BY <3>5, <3>6 DEF AccountOk
  <2> QED BY <1>7, <2>2, <2>3 DEF ReadAny
<1>8. ASSUME NEW r \in Readers, Wake(r) PROVE AccountOk'
  BY <1>2, <1>8, DrainAccount, OwnerAssumption DEF Wake
<1>9. ASSUME NEW r \in Readers, Timeout(r) PROVE AccountOk'
  BY <1>2, <1>9 DEF Timeout, logVars
<1>10. CASE Restart
  <2>1. ASSUME NEW a \in Agents
        PROVE  /\ mailbox'[a] = Listing(table[a]) /\ dropped'[a] = dropRows[a]
    <3>1. {m \in table[a] : row} = table[a]
      BY DEF QuietInv, IInv, BoxInv, Box
    <3> QED BY <1>10, <3>1 DEF Restart, QuietInv
  <2>2. UNCHANGED <<table, handed, dropRows, told, due>>
    BY <1>10 DEF Restart
  <2>3. ASSUME NEW a \in Agents
        PROVE  Ledger(Listing(table[a]), table[a], handed[a], dropRows[a], dropRows[a],
                      told[a], due[a])
    <3>1. /\ Box(mailbox[a], table[a], handed[a], sent) /\ sent \in Nat
          /\ Ledger(mailbox[a], table[a], handed[a], dropped[a], dropRows[a], told[a], due[a])
      BY <1>1 DEF IInv, BoxInv, RoomTypes, LedgerInv
    <3> QED BY <3>1, LedgerListing
  <2>4. LedgerInv'
    BY <2>1, <2>2, <2>3 DEF LedgerInv
  <2>5. CountTypes'
    BY <1>10 DEF Restart, QuietInv, CountTypes
  <2> QED BY <2>4, <2>5 DEF AccountOk
<1>11. CASE Still
  BY <1>2, <1>11 DEF Still, logVars
<1> QED
  BY <1>3, <1>4, <1>5, <1>6, <1>7, <1>8, <1>9, <1>10, <1>11, Kinds

\* No outsider and nobody who is blocked in read-any has mail, after every step.
LEMMA OutsideStep ==
  ASSUME Quiet, IInv, QuietInv, [Next]_vars
  PROVE  NoMailOutside'
<1> USE DEF QuietInv, NoMailOutside, IInv, BoxTypeOK, WaitInv, WaitTypes
<1>0. CASE /\ members \subseteq members' /\ UNCHANGED strays
           /\ \A a \in Agents : mailbox'[a] = mailbox[a] \/ mailbox'[a] = << >>
           /\ \A a \in Agents : anyWaiter'[a] \in {anyWaiter[a], NoReader}
  BY <1>0
<1>1. CASE Still /\ members \subseteq members'
  BY <1>0, <1>1 DEF Still, boxVars, waitVars, logVars
<1>2. ASSUME NEW a \in Agents, Remove(a) PROVE NoMailOutside'
  BY <1>2 DEF Quiet, Remove
<1>3. ASSUME NEW f \in Agents, Post(f) PROVE NoMailOutside'
  <2>1. Deliver(f, NextMsg(f))
    BY <1>3 DEF Post
  <2> SUFFICES ASSUME NEW a \in Agents \ strays, a \notin members \/ anyWaiter'[a] # NoReader
               PROVE  mailbox'[a] = << >>
    BY <2>1 DEF Deliver
  <2>2. a \notin members \/ anyWaiter[a] # NoReader
    BY <2>1 DEF Deliver
  <2>3. a \notin ToBox(f)
    BY <2>1, <2>2 DEF Deliver, ToBox, ToRead, ToAny, To
  <2> QED BY <2>1, <2>2, <2>3 DEF Deliver
<1>4. CASE Bundle
  BY <1>4 DEF Quiet, Bundle
<1>5. ASSUME NEW r \in Readers, RoomRead(r) PROVE NoMailOutside'
  BY <1>0, <1>5, OwnerAssumption DEF RoomRead, memVars, Drain, boxVars, waitVars
<1>6. ASSUME NEW r \in Readers, ReadAny(r) PROVE NoMailOutside'
  BY <1>6, OwnerAssumption DEF ReadAny, memVars, boxVars, waitVars
<1>7. ASSUME NEW r \in Readers, Wake(r) PROVE NoMailOutside'
  BY <1>0, <1>7, OwnerAssumption DEF Wake, memVars, Drain, boxVars
<1>8. ASSUME NEW r \in Readers, Timeout(r) PROVE NoMailOutside'
  BY <1>0, <1>8, OwnerAssumption DEF Timeout, DeleteEntry, memVars, boxVars, logVars
<1>9. CASE Restart
  <2> SUFFICES ASSUME NEW a \in Agents \ strays', a \notin memberRows
               PROVE  mailbox'[a] = << >>
    BY <1>9 DEF Restart
  <2>1. table[a] = {} /\ mailbox'[a] = Listing({})
    BY <1>9 DEF Restart
  <2>2. {} \in SUBSET Msg /\ IsFiniteSet({}) /\ Distinct({})
    BY FS_EmptySet DEF Distinct
  <2>3. Listing({}) \in Seq(Msg) /\ Range(Listing({})) = {}
    BY <2>2, ListingFacts
  <2> QED BY <2>1, <2>3, RangeEntries
<1> QED
  BY <1>1, <1>2, <1>3, <1>4, <1>5, <1>6, <1>7, <1>8, <1>9, Kinds, QuietMembers

\* What is unread stays younger than what was given out.
LEMMA OrderStep ==
  ASSUME Quiet, IInv, QuietInv, [Next]_vars
  PROVE  InOrder'
<1> USE DEF InOrder, Unread
<1>0. InOrder
  BY DEF QuietInv
<1>1. CASE UNCHANGED <<mailbox, handed, strays>>
  BY <1>0, <1>1
<1>2. ASSUME NEW a \in Agents, Remove(a) PROVE InOrder'
  BY <1>2 DEF Quiet, Remove
<1>3. ASSUME NEW f \in Agents, Post(f) PROVE InOrder'
  <2> DEFINE m == NextMsg(f)
  <2>1. m \in Msg /\ m.body = sent + 1 /\ sent \in Nat /\ strays' = strays /\ Posted(f)
    BY <1>3, NextMsgFacts DEF IInv, RoomTypes, Post, Deliver, Posted
  <2> HIDE DEF m
  <2> SUFFICES ASSUME NEW a \in Agents \ strays, NEW y \in Range(mailbox'[a]), NEW x \in handed'[a]
               PROVE  x.body < y.body
    BY <2>1
  <2>2. Box(mailbox[a], table[a], handed[a], sent)
    BY DEF IInv, BoxInv
  <2>3. \A z \in handed[a] : z.body \in Nat /\ z.body <= sent
    BY <2>2, BoxTypes
  <2>4. CASE a \in ToBox(f)
    <3>1. handed'[a] = handed[a]
      BY <2>1, <2>4, PostedEffects
    <3>2. \/ mailbox'[a] = Append(mailbox[a], m)
          \/ mailbox[a] # << >> /\ mailbox'[a] = Append(Tail(mailbox[a]), m)
      BY <2>1, <2>4, PostedEffects DEF m
    <3>3. y \in Range(mailbox[a]) \union {m}
      <4>1. mailbox[a] \in Seq(Msg)
        BY <2>2 DEF Box
      <4>2. Range(Append(mailbox[a], m)) = Range(mailbox[a]) \union {m}
        BY <2>1, <4>1, RangeAppend
      <4>3. mailbox[a] # << >> =>
              Range(Append(Tail(mailbox[a]), m)) \subseteq Range(mailbox[a]) \union {m}
        <5> SUFFICES ASSUME mailbox[a] # << >>
                     PROVE  Range(Append(Tail(mailbox[a]), m)) \subseteq Range(mailbox[a]) \union {m}
          OBVIOUS
        <5>1. Tail(mailbox[a]) \in Seq(Msg) /\ Range(Tail(mailbox[a])) \subseteq Range(mailbox[a])
          BY <4>1, RangeTail
        <5>2. PICK p \in Seq(Msg) : p = Tail(mailbox[a])
          BY <5>1
        <5>3. Range(Append(p, m)) = Range(p) \union {m}
          BY <2>1, RangeAppend
        <5> QED BY <5>1, <5>2, <5>3
      <4> QED BY <3>2, <4>2, <4>3
    <3>4. y = m => x.body < y.body
      BY <2>1, <2>3, <3>1
    <3> QED BY <1>0, <3>1, <3>3, <3>4
  <2>5. CASE a \in ToRead(f) \union ToAny(f)
    <3>1. mailbox[a] = << >>
      BY <2>5 DEF ToRead, ToAny, IInv, NoSleepOnMail, QuietInv, NoMailOutside
    <3>2. mailbox'[a] = << >>
      BY <2>1, <2>5, <3>1, PostedEffects
    <3> QED BY <3>2 DEF Range
  <2>6. CASE a \notin ToBox(f) \union ToRead(f) \union ToAny(f)
    BY <1>0, <2>1, <2>6, PostedEffects
  <2> QED BY <2>4, <2>5, <2>6
<1>4. CASE Bundle
  BY <1>4 DEF Quiet, Bundle
<1>5. ASSUME NEW a \in Agents, Drain(a), UNCHANGED strays PROVE InOrder'
  <2>1. mailbox'[a] = << >> /\ \A b \in Agents : b # a => mailbox'[b] = mailbox[b]
                                                        /\ handed'[b] = handed[b]
    BY <1>5 DEF Drain, IInv, BoxTypeOK
  <2>2. Range(<< >>) = {}
    BY DEF Range
  <2> QED BY <1>0, <1>5, <2>1, <2>2
<1>6. ASSUME NEW r \in Readers, RoomRead(r) PROVE InOrder'
  BY <1>1, <1>5, <1>6, OwnerAssumption DEF RoomRead, boxVars
<1>7. ASSUME NEW r \in Readers, ReadAny(r) PROVE InOrder'
  <2> DEFINE me == Owner[r]
  <2>1. me \in Agents /\ strays' = strays
    BY <1>7, OwnerAssumption DEF ReadAny
  <2>2. CASE UNCHANGED <<boxVars, handed>>
    BY <1>1, <2>1, <2>2 DEF boxVars
  <2>3. CASE /\ mailbox[me] # << >>
             /\ mailbox' = [mailbox EXCEPT ![me] = Tail(@)]
             /\ handed' = [handed EXCEPT ![me] = @ \union {Head(mailbox[me])}]
    <3>1. /\ mailbox'[me] = Tail(mailbox[me])
          /\ handed'[me] = handed[me] \union {Head(mailbox[me])}
          /\ \A b \in Agents : b # me => mailbox'[b] = mailbox[b] /\ handed'[b] = handed[b]
      BY <2>1, <2>3 DEF IInv, BoxTypeOK
    <3>2. mailbox[me] \in Seq(Msg) /\ ByBody(mailbox[me])
      BY <2>1 DEF IInv, BoxInv, Box
    <3>3. /\ Range(Tail(mailbox[me])) \subseteq Range(mailbox[me])
          /\ \A y \in Range(Tail(mailbox[me])) : Head(mailbox[me]).body < y.body
      BY <2>3, <3>2, ByBodyTail
    <3>4. me \notin strays => \A y \in Range(mailbox'[me]) : \A x \in handed'[me] : x.body < y.body
      BY <1>0, <2>1, <3>1, <3>3
    <3> QED BY <1>0, <2>1, <3>1, <3>4
  <2> QED BY <1>7, <2>2, <2>3 DEF ReadAny
<1>8. ASSUME NEW r \in Readers, Wake(r) PROVE InOrder'
  BY <1>1, <1>5, <1>8, OwnerAssumption DEF Wake, boxVars
<1>9. ASSUME NEW r \in Readers, Timeout(r) PROVE InOrder'
  BY <1>1, <1>9 DEF Timeout, boxVars, logVars
<1>10. CASE Restart
  <2>1. strays \subseteq strays' /\ handed' = handed
    BY <1>10 DEF Restart
  <2>2. ASSUME NEW a \in Agents PROVE Range(mailbox'[a]) = Range(mailbox[a])
    <3>1. Box(mailbox[a], table[a], handed[a], sent) /\ table[a] = Range(mailbox[a])
      BY DEF IInv, BoxInv, QuietInv, MirrorIsExact, Unread
    <3>2. {m \in table[a] : row} = table[a]
      BY <3>1 DEF QuietInv, Box
    <3>3. mailbox'[a] = Listing(table[a])
      BY <1>10, <3>2 DEF Restart
    <3>4. Range(Listing(table[a])) = table[a]
      BY <3>1, ListingFacts DEF Box
    <3> QED BY <3>1, <3>3, <3>4
  <2> QED BY <1>0, <2>1, <2>2
<1>11. CASE Still
  BY <1>1, <1>11 DEF Still, boxVars, logVars
<1> QED
  BY <1>2, <1>3, <1>4, <1>6, <1>7, <1>8, <1>9, <1>10, <1>11, Kinds

\* A quiet room starts empty, with all accounts at nothing.
LEMMA QuietInit == ASSUME Quiet PROVE Init => QuietInv
<1> SUFFICES ASSUME Init PROVE QuietInv
  OBVIOUS
<1>1. CountTypes
  BY DEF Init, CountTypes
<1>2. Range(<< >>) = {} /\ Len(<< >>) = 0 /\ Cardinality({}) = 0
  BY FS_EmptySet DEF Range
<1>3. MirrorIsExact /\ DropsAccounted /\ NoMailOutside /\ InOrder
  BY <1>2 DEF Init, MirrorIsExact, DropsAccounted, NoMailOutside, InOrder, Unread
<1> QED BY <1>1, <1>3 DEF Quiet, Init, QuietInv

\* Its invariant is inductive with that of every room.
LEMMA QuietNext ==
  ASSUME Quiet
  PROVE  IInv /\ QuietInv /\ [Next]_vars => QuietInv'
<1> SUFFICES ASSUME IInv, QuietInv, [Next]_vars PROVE QuietInv'
  OBVIOUS
<1>1. row' /\ exists' /\ orphans' = {}
  BY QuietMembers
<1>2. CountTypes' /\ LedgerInv'
  BY AccountStep DEF AccountOk
<1>3. \A a \in Agents : dropped'[a] \in Nat /\ told'[a] \in Nat
  BY <1>2 DEF CountTypes
<1>4. MirrorIsExact' /\ DropsAccounted'
  BY <1>2, <1>3 DEF LedgerInv, Ledger, MirrorIsExact, DropsAccounted, Unread
<1> QED BY <1>1, <1>2, <1>4, OutsideStep, OrderStep DEF QuietInv

-----------------------------------------------------------------------------
(* The theorems about a room that nobody leaves.                           *)

\* The invariant of a quiet room holds always.
THEOREM QuietInvariant == ASSUME Quiet PROVE Spec => []QuietInv
  BY RoomInvariant, QuietInit, QuietNext, PTL DEF Spec

\* SQLite and memory agree on unread mail and drops (room.go:291, queue.go:229),
\* at every step and after every restart.
THEOREM RoomMirrorIsExact == ASSUME Quiet PROVE Spec => []MirrorIsExact
<1>1. QuietInv => MirrorIsExact
  BY DEF QuietInv
<1> QED BY <1>1, QuietInvariant, PTL

\* No message is lost without account: it is unread, was given out, or is a drop
\* that a read reports (room.go:298, room.go:353).
THEOREM RoomDropsAccounted == ASSUME Quiet PROVE Spec => []DropsAccounted
<1>1. QuietInv => DropsAccounted
  BY DEF QuietInv
<1> QED BY <1>1, QuietInvariant, PTL

\* Reads and read-any give out mail in the order of the posts (state.go:755),
\* also when a post passes the mailbox by (room.go:283).
THEOREM RoomInOrder == ASSUME Quiet PROVE Spec => []InOrder
<1>1. QuietInv => InOrder
  BY DEF QuietInv
<1> QED BY <1>1, QuietInvariant, PTL
=============================================================================
