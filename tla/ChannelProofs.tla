--------------------------- MODULE ChannelProofs ---------------------------
(***************************************************************************)
(* Proofs about module Channel, for all agents, links and readers.         *)
(***************************************************************************)
EXTENDS Channel, Lemmas, FiniteSetTheorems

\* The entries of a mailbox are messages, with a stamp and a number.
LEMMA MsgAt ==
  ASSUME NEW q \in Seq(Msg), NEW i \in 1..Len(q)
  PROVE  q[i] \in Msg /\ q[i].body \in Nat /\ q[i].seq \in Nat
<1>1. q[i] \in Msg
  OBVIOUS
<1> QED BY <1>1 DEF Msg

\* The rows of a mailbox listed in the order of their stamps number i up to
\* the i-th one.
LEMMA CountPrefix ==
  ASSUME NEW q \in Seq(Msg), NEW n \in 0..Len(q),
         \A i, j \in 1..Len(q) : i < j => q[i].body < q[j].body
  PROVE  Cardinality({q[j] : j \in 1..n}) = n
<1> DEFINE P == {q[j] : j \in 1..n}
           f == [j \in 1..n |-> q[j]]
<1>1. \A i \in 1..Len(q) : q[i] \in Msg /\ q[i].body \in Nat
  BY MsgAt
<1>2. \A i, j \in 1..n : q[i] = q[j] => i = j
  BY <1>1
<1>3. f \in Bijection(1..n, P)
  BY <1>2 DEF Bijection, Injection, Surjection, IsInjective
<1>4. ExistsBijection(1..n, P)
  BY <1>3 DEF ExistsBijection
<1> QED BY <1>4, FS_CountingElements

\* Reading the rows back in the order of their ids gives the mailbox they were
\* written from.
LEMMA ListingOfMailbox ==
  ASSUME NEW q \in Seq(Msg),
         \A i, j \in 1..Len(q) : i < j => q[i].body < q[j].body
  PROVE  Listing(Range(q)) = q
<1> DEFINE S == Range(q)
<1>1. S = {q[j] : j \in 1..Len(q)}
  BY DEF Range
<1>2. Cardinality(S) = Len(q)
  BY <1>1, CountPrefix
<1>3. \A i \in 1..Len(q) : q[i] \in Msg /\ q[i].body \in Nat
  BY MsgAt
<1>4. ASSUME NEW i \in 1..Len(q) PROVE Rank(S, q[i]) = i
  <2>1. \A j \in 1..Len(q) : q[j].body <= q[i].body <=> j <= i
    BY <1>3
  <2>2. {x \in S : x.body <= q[i].body} = {q[j] : j \in 1..i}
    BY <2>1, <1>1, <1>3
  <2> QED BY <2>2, CountPrefix DEF Rank
<1>5. ASSUME NEW i \in 1..Len(q)
      PROVE  (CHOOSE m \in S : Rank(S, m) = i) = q[i]
  <2>1. q[i] \in S /\ Rank(S, q[i]) = i
    BY <1>1, <1>4
  <2>2. ASSUME NEW m \in S, Rank(S, m) = i PROVE m = q[i]
    <3>1. PICK j \in 1..Len(q) : m = q[j]
      BY <1>1
    <3> QED BY <3>1, <1>4, <2>2
  <2> HIDE DEF S
  <2> QED BY <2>1, <2>2
<1>6. Listing(S) = [i \in 1..Len(q) |-> q[i]]
  BY <1>2, <1>5 DEF Listing
<1>7. q = [i \in 1..Len(q) |-> q[i]]
  OBVIOUS
<1> QED BY <1>6, <1>7

-----------------------------------------------------------------------------
(* Mailboxes.                                                              *)

\* A message younger than all of a mailbox keeps it in order at its end.
LEMMA IncreasingAppend ==
  ASSUME NEW q \in Seq(Msg), Increasing(q), NEW m \in Msg,
         \A x \in Range(q) : x.seq < m.seq /\ x.body < m.body
  PROVE  Increasing(Append(q, m))
<1> SUFFICES ASSUME NEW i \in 1..Len(Append(q, m)),
                    NEW j \in 1..Len(Append(q, m)), i < j
             PROVE  /\ Append(q, m)[i].seq < Append(q, m)[j].seq
                    /\ Append(q, m)[i].body < Append(q, m)[j].body
  BY DEF Increasing
<1>1. Len(q) \in Nat /\ Len(Append(q, m)) = Len(q) + 1
  OBVIOUS
<1>2. i \in 1..Len(q) /\ Append(q, m)[i] = q[i] /\ q[i] \in Range(q)
  BY <1>1, RangeEntries
<1>3. CASE j \in 1..Len(q)
  BY <1>2, <1>3 DEF Increasing
<1>4. CASE j = Len(q) + 1
  BY <1>2, <1>4
<1> QED BY <1>1, <1>3, <1>4

\* Deleting the rows with the number of the oldest message deletes its row and
\* no other, and all that is left is younger.
LEMMA IncreasingTail ==
  ASSUME NEW q \in Seq(Msg), Increasing(q), q # << >>
  PROVE  /\ Increasing(Tail(q))
         /\ Range(Tail(q)) = {m \in Range(q) : m.seq # Head(q).seq}
         /\ Range(Tail(q)) = Range(q) \ {Head(q)}
         /\ \A m \in Range(Tail(q)) : Head(q).body < m.body
<1>1. /\ Len(q) \in Nat \ {0}
      /\ Head(q) = q[1]
      /\ Tail(q) \in Seq(Msg)
      /\ Len(Tail(q)) = Len(q) - 1
      /\ \A i \in 1..(Len(q) - 1) : Tail(q)[i] = q[i + 1]
      /\ Range(q) = {Head(q)} \union Range(Tail(q))
  BY RangeTail
<1>2. \A i \in 1..(Len(q) - 1) : i + 1 \in 1..Len(q)
  BY <1>1
<1>3. Increasing(Tail(q))
  BY <1>1, <1>2 DEF Increasing
<1>4. \A i \in 1..(Len(q) - 1) :
        Head(q).seq < Tail(q)[i].seq /\ Head(q).body < Tail(q)[i].body
  BY <1>1, <1>2 DEF Increasing
<1>5. \A m \in Range(Tail(q)) : Head(q).seq < m.seq /\ Head(q).body < m.body
  <2>1. \A m \in Range(Tail(q)) : \E i \in 1..Len(Tail(q)) : m = Tail(q)[i]
    BY <1>1, RangeEntries
  <2> QED BY <1>1, <1>4, <2>1
<1>6. Head(q).seq \in Nat /\ \A m \in Range(Tail(q)) : m.seq \in Nat
  <2>1. Head(q) \in Msg /\ Range(Tail(q)) \subseteq Msg
    BY <1>1, RangeEntries
  <2> QED BY <2>1 DEF Msg
<1>7. Range(Tail(q)) = {m \in Range(q) : m.seq # Head(q).seq}
  BY <1>1, <1>5, <1>6
<1>8. Range(Tail(q)) = Range(q) \ {Head(q)}
  BY <1>1, <1>5, <1>6
<1> QED BY <1>3, <1>5, <1>7, <1>8

\* A mailbox with nothing in it is in order.
LEMMA IncreasingEmpty == Increasing(<< >>) /\ Range(<< >>) = {}
  BY DEF Increasing, Range

-----------------------------------------------------------------------------
(* Slots.                                                                  *)

\* The messages in the slots c.
HeldIn(c) == {c[r] : r \in Readers} \ {Nothing, Closed}

\* No two slots hold the same message.
Apart(c) == \A r, q \in Readers : c[r] \in Msg /\ c[r] = c[q] => r = q

Slot == Msg \union {Nothing, Closed}

\* Slots e are slots c but for v in the slot of r.
Fill(c, r, v, e) ==
  /\ e \in [Readers -> Slot]
  /\ e[r] = v
  /\ \A q \in Readers : q # r => e[q] = c[q]

\* Putting v into the slot of r takes out what was there.
LEMMA SetSlot ==
  ASSUME NEW c \in [Readers -> Slot], Apart(c), NEW r \in Readers,
         NEW v \in Slot, v \notin HeldIn(c),
         NEW e, Fill(c, r, v, e)
  PROVE  /\ HeldIn(e) = (HeldIn(c) \ {c[r]}) \union ({v} \ {Nothing, Closed})
         /\ Apart(e)
<1>1. e \in [Readers -> Slot] /\ e[r] = v /\ \A q \in Readers \ {r} : e[q] = c[q]
  BY DEF Fill
<1>2. \A q \in Readers : c[q] \in Slot
  OBVIOUS
<1>3. \A q \in Readers \ {r} : c[q] \in Msg => c[q] # c[r]
  BY DEF Apart
<1>4. \A q \in Readers : c[q] \in Msg => c[q] \in HeldIn(c)
  BY NullAssumption DEF HeldIn
<1>5. Apart(e)
  BY <1>1, <1>4 DEF Apart
<1>6. \A x : x \in HeldIn(c) <=> x \in Msg /\ \E q \in Readers : x = c[q]
  BY <1>2, NullAssumption DEF HeldIn, Slot
<1>7. \A x : x \in HeldIn(e) <=> x \in Msg /\ \E q \in Readers : x = e[q]
  BY <1>1, NullAssumption DEF HeldIn, Slot
<1>8. ASSUME NEW x \in HeldIn(e)
      PROVE  x \in (HeldIn(c) \ {c[r]}) \union ({v} \ {Nothing, Closed})
  <2>1. x \in Msg
    BY <1>8, <1>7
  <2>2. PICK q \in Readers : x = e[q]
    BY <1>8, <1>7
  <2>3. CASE q = r
    BY <2>1, <2>2, <2>3, <1>1, NullAssumption
  <2>4. CASE q # r
    BY <2>1, <2>2, <2>4, <1>1, <1>3, <1>4
  <2> QED BY <2>3, <2>4
<1>9. ASSUME NEW x \in (HeldIn(c) \ {c[r]}) \union ({v} \ {Nothing, Closed})
      PROVE  x \in HeldIn(e)
  <2>1. CASE x \in HeldIn(c) \ {c[r]}
    BY <2>1, <1>6, <1>7, <1>1
  <2>2. CASE x \in {v} \ {Nothing, Closed}
    BY <2>2, <1>1 DEF HeldIn
  <2> QED BY <1>9, <2>1, <2>2
<1>10. HeldIn(e) = (HeldIn(c) \ {c[r]}) \union ({v} \ {Nothing, Closed})
  BY <1>8, <1>9
<1> QED BY <1>5, <1>10

-----------------------------------------------------------------------------
(* The invariant.                                                          *)

\* The part of the invariant that is about messages and not about readers'
\* phases.
MailInv == Counters /\ UnreadIsDurable /\ AtMostOnce /\ InOrder

LEMMA InitInv == Init => IInv
<1> SUFFICES ASSUME Init PROVE IInv
  OBVIOUS
<1>1. TypeOK
  BY DEF Init, TypeOK, Phases
<1>2. Held = {} /\ \A d \in Links : Unread(d) = {} /\ Increasing(mailbox[d])
  BY IncreasingEmpty DEF Init, Held, Unread
<1>3. HandedOut = {}
  BY <1>2 DEF Init, HandedOut
<1>4. Slots /\ Waiters /\ SendNeverBlocks /\ NoSleepOnAnyMail
  BY DEF Init, Slots, Waiters, SendNeverBlocks, NoSleepOnAnyMail
<1>5. Counters
  BY <1>2, <1>3, BoundAssumption DEF Init, Counters
<1>6. UnreadIsDurable /\ InOrder
  BY <1>2 DEF Init, UnreadIsDurable, InOrder
<1>7. AtMostOnce
  BY <1>2, <1>3, NullAssumption DEF Init, AtMostOnce
<1> QED BY <1>1, <1>4, <1>5, <1>6, <1>7 DEF IInv

\* Steps that leave the messages where they are.
LEMMA MailSame ==
  ASSUME MailInv, channels \subseteq channels',
         UNCHANGED <<seq, sent, mailbox, table, returned, lost>>,
         Held' = Held, Apart(chan')
  PROVE  MailInv'
<1>1. HandedOut' = HandedOut
  BY DEF HandedOut
<1>2. \A d \in Links : Unread(d)' = Unread(d)
  BY DEF Unread
<1>3. Counters'
  BY <1>1, <1>2 DEF MailInv, Counters
<1>4. UnreadIsDurable'
  BY <1>2 DEF MailInv, UnreadIsDurable
<1>5. AtMostOnce'
  BY <1>1, <1>2 DEF MailInv, AtMostOnce, Apart
<1>6. InOrder'
  BY <1>1, <1>2 DEF MailInv, InOrder
<1> QED BY <1>3, <1>4, <1>5, <1>6 DEF MailInv

\* Steps that move a message from a reader's hands to a client or to nowhere.
LEMMA MailLeaves ==
  ASSUME TypeOK, MailInv, NEW r \in Readers, chan[r] \in Msg,
         Fill(chan, r, Nothing, chan'),
         UNCHANGED <<channels, seq, sent, mailbox, table>>,
         \/ returned' = returned \union {chan[r]} /\ lost' = lost
         \/ lost' = lost \union {chan[r]} /\ returned' = returned
  PROVE  MailInv'
<1>1. chan \in [Readers -> Slot] /\ Apart(chan) /\ Held = HeldIn(chan)
      /\ Nothing \in Slot /\ Nothing \notin HeldIn(chan)
  BY DEF TypeOK, MailInv, AtMostOnce, Apart, Held, HeldIn, Slot
<1>2. Held' = Held \ {chan[r]} /\ Apart(chan')
  <2>2. /\ HeldIn(chan') = (HeldIn(chan) \ {chan[r]}) \union ({Nothing} \ {Nothing, Closed})
        /\ Apart(chan')
    BY <1>1, SetSlot
  <2>3. Held' = HeldIn(chan')
    BY DEF Held, HeldIn
  <2> QED BY <1>1, <2>2, <2>3
<1>3. chan[r] \in Held
  BY NullAssumption DEF Held
<1>4. HandedOut' = HandedOut
  BY <1>2, <1>3 DEF HandedOut
<1>5. \A d \in Links : Unread(d)' = Unread(d)
  BY DEF Unread
<1>6. Counters' /\ UnreadIsDurable' /\ InOrder'
  BY <1>4, <1>5 DEF MailInv, Counters, UnreadIsDurable, InOrder
<1>7. AtMostOnce'
  BY <1>2, <1>3, <1>4, <1>5 DEF MailInv, AtMostOnce, Apart
<1> QED BY <1>6, <1>7 DEF MailInv

\* The slots of a state that satisfies the invariant.
LEMMA SlotFacts ==
  ASSUME IInv
  PROVE  /\ chan \in [Readers -> Slot]
         /\ Apart(chan)
         /\ Held = HeldIn(chan)
         /\ Held \subseteq Msg
         /\ Nothing \notin Held /\ Closed \notin Held
         /\ HandedOut \subseteq Msg
<1>1. chan \in [Readers -> Slot] /\ Apart(chan)
  BY DEF IInv, TypeOK, AtMostOnce, Apart, Slot
<1>2. Held = HeldIn(chan) /\ Nothing \notin Held /\ Closed \notin Held
  BY DEF Held, HeldIn
<1>3. Held \subseteq Msg
  BY <1>1 DEF Held, Slot
<1> QED BY <1>1, <1>2, <1>3 DEF HandedOut, IInv, TypeOK

\* The mailbox of a link, its table and the stamps in it.
LEMMA MailFacts ==
  ASSUME IInv, NEW d \in Links
  PROVE  /\ mailbox[d] \in Seq(Msg)
         /\ table[d] = Range(mailbox[d])
         /\ Increasing(mailbox[d])
         /\ Range(mailbox[d]) \subseteq Msg
         /\ Key(d) \in Keys
         /\ seq[Key(d)] \in Nat
         /\ d[1] \in Agents
<1>1. mailbox[d] \in Seq(Msg)
  BY DEF IInv, TypeOK
<1>2. table[d] = Range(mailbox[d]) /\ Increasing(mailbox[d])
  BY DEF IInv, UnreadIsDurable, Unread
<1>3. Key(d) \in Keys /\ seq[Key(d)] \in Nat
  BY DEF Keys, IInv, TypeOK
<1>4. d[1] \in Agents
  BY LinksAssumption
<1> QED BY <1>1, <1>2, <1>3, <1>4, RangeEntries

\* Names coming and going, and requests passing their checks.
LEMMA QuietInv ==
  ASSUME IInv,
         \/ \E a \in Agents : Register(a) \/ Unregister(a)
         \/ \E expired \in SUBSET Agents : Sweep(expired)
         \/ RequestStop
         \/ CloseWrites
         \/ \E d \in Links : TellAdmit(d)
         \/ \E r \in Readers : \E d \in Links : ReadAdmit(r, d)
         \/ \E r \in Readers : ReadAnyAdmit(r)
         \/ UNCHANGED vars
  PROVE  IInv'
<1> USE DEF IInv
<1>1. UNCHANGED <<channels, seq, sent, mailbox, table, waiter, chan, returned, lost>>
  BY DEF Register, Unregister, Sweep, RequestStop, CloseWrites, TellAdmit,
         ReadAdmit, ReadAnyAdmit, vars, mailVars, agentVars
<1>2. MailInv'
  <2>1. Held' = Held /\ Apart(chan')
    BY <1>1, SlotFacts DEF Held
  <2> QED BY <1>1, <2>1, MailSame DEF MailInv
<1>3. \A a \in Agents : anyWaiter'[a] \in {anyWaiter[a], NoReader}
  BY DEF Register, Unregister, Sweep, RequestStop, CloseWrites, TellAdmit,
         ReadAdmit, ReadAnyAdmit, vars, mailVars, agentVars, TypeOK
<1>4. anyWaiter' \in [Agents -> Readers \union {NoReader}]
  BY DEF Register, Unregister, Sweep, RequestStop, CloseWrites, TellAdmit,
         ReadAdmit, ReadAnyAdmit, vars, mailVars, agentVars, TypeOK
<1>5. \A r \in Readers :
        \/ phase'[r] = phase[r] /\ on'[r] = on[r]
        \/ phase[r] = "idle" /\ phase'[r] \in {"read", "readAny"}
  BY DEF Register, Unregister, Sweep, RequestStop, CloseWrites, TellAdmit,
         ReadAdmit, ReadAnyAdmit, vars, mailVars, agentVars, TypeOK
<1>6. phase' \in [Readers -> Phases] /\ on' \in [Readers -> Links]
  <2>1. CASE \E r \in Readers : \E d \in Links : ReadAdmit(r, d)
    BY <2>1 DEF ReadAdmit, TypeOK, Phases
  <2>2. CASE \E r \in Readers : ReadAnyAdmit(r)
    BY <2>2 DEF ReadAnyAdmit, TypeOK, Phases
  <2>3. CASE UNCHANGED <<phase, on>>
    BY <2>3 DEF TypeOK
  <2> QED BY <2>1, <2>2, <2>3
     DEF Register, Unregister, Sweep, RequestStop, CloseWrites, TellAdmit, vars
<1>7. reg' \subseteq Agents /\ stop' \in {"run", "stopping", "closed"}
      /\ admitted' \subseteq Links /\ toRelease' \subseteq Links
  BY DEF Register, Unregister, Sweep, RequestStop, CloseWrites, TellAdmit,
         ReadAdmit, ReadAnyAdmit, vars, mailVars, agentVars, TypeOK, Inbox
<1>8. TypeOK'
  BY <1>1, <1>4, <1>6, <1>7 DEF TypeOK
<1>9. Slots'
  BY <1>1, <1>5 DEF Slots
<1>10. Waiters' /\ SendNeverBlocks' /\ NoSleepOnAnyMail'
  BY <1>1, <1>3, <1>5
     DEF TypeOK, Waiters, SendNeverBlocks, NoSleepOnAnyMail
<1> QED BY <1>2, <1>8, <1>9, <1>10 DEF MailInv

\* releaseWaiter fills an empty slot with peer_closed.
LEMMA ReleaseInv ==
  ASSUME IInv, NEW d \in Links, ReleaseWaiter(d)
  PROVE  IInv'
<1> USE DEF IInv
<1>1. UNCHANGED <<reg, stop, channels, seq, sent, admitted, mailbox, table,
                  anyWaiter, phase, on, returned, lost>>
  BY DEF ReleaseWaiter, mailVars
<1>2. waiter' = [waiter EXCEPT ![d] = NoReader] /\ toRelease' = toRelease \ {d}
  BY DEF ReleaseWaiter
<1>3. CASE waiter[d] = NoReader
  <2>1. chan' = chan
    BY <1>3, NullAssumption DEF ReleaseWaiter, TypeOK
  <2>2. Held' = Held /\ Apart(chan')
    BY <2>1, SlotFacts DEF Held
  <2>3. MailInv'
    BY <1>1, <2>2, MailSame DEF MailInv
  <2>4. TypeOK' /\ Slots' /\ Waiters' /\ SendNeverBlocks' /\ NoSleepOnAnyMail'
    BY <1>1, <1>2, <2>1
       DEF TypeOK, Slots, Waiters, SendNeverBlocks, NoSleepOnAnyMail
  <2> QED BY <2>3, <2>4 DEF MailInv
<1>4. CASE waiter[d] # NoReader
  <2>0. PICK r \in Readers : waiter[d] = r
    BY <1>4 DEF TypeOK
  <2>1. chan[r] = Nothing /\ phase[r] = "wait" /\ on[r] = d
    BY <1>4, <2>0 DEF SendNeverBlocks, Waiters
  <2>2. chan' = [chan EXCEPT ![r] = Closed]
    BY <2>0, <2>1 DEF ReleaseWaiter, TypeOK
  <2>3. Held' = Held /\ Apart(chan')
    <3>1. Closed \in Slot /\ Closed \notin HeldIn(chan)
      BY SlotFacts DEF Slot
    <3>2. chan \in [Readers -> Slot] /\ Apart(chan)
      BY SlotFacts
    <3>5. Fill(chan, r, Closed, chan')
      BY <2>2, <3>1, <3>2 DEF Fill
    <3>3. /\ HeldIn(chan') =
               (HeldIn(chan) \ {chan[r]}) \union ({Closed} \ {Nothing, Closed})
          /\ Apart(chan')
      BY <3>1, <3>2, <3>5, SetSlot
    <3>4. Held' = HeldIn(chan') /\ Held = HeldIn(chan) /\ Nothing \notin Held
      BY DEF Held, HeldIn
    <3> QED BY <2>1, <3>3, <3>4
  <2>4. MailInv'
    BY <1>1, <2>3, MailSame DEF MailInv
  <2>5. TypeOK'
    BY <1>1, <1>2, <2>2 DEF TypeOK
  <2>6. Slots'
    BY <1>1, <2>1, <2>2 DEF Slots, TypeOK
  <2>7. Waiters' /\ NoSleepOnAnyMail'
    BY <1>1, <1>2 DEF Waiters, NoSleepOnAnyMail, TypeOK
  <2>8. SendNeverBlocks'
    <3>1. \A e \in Links : waiter'[e] # NoReader =>
            waiter'[e] = waiter[e] /\ waiter[e] # r
      BY <1>2, <2>0, <2>1 DEF Waiters, TypeOK
    <3>2. \A a \in Agents : anyWaiter[a] # r
      BY <2>1, NullAssumption DEF SendNeverBlocks
    <3> QED BY <1>1, <2>1, <2>2, <3>1, <3>2 DEF SendNeverBlocks, TypeOK
  <2> QED BY <2>4, <2>5, <2>6, <2>7, <2>8 DEF MailInv
<1> QED BY <1>3, <1>4

-----------------------------------------------------------------------------
(* tell.                                                                   *)

\* The new message of a tell is younger than every other.
LEMMA NextMsgFacts ==
  ASSUME IInv, NEW d \in Links
  PROVE  /\ NextMsg(d) \in Msg
         /\ NextMsg(d).link = d
         /\ NextMsg(d).seq = seq[Key(d)] + 1
         /\ NextMsg(d).body = sent + 1
         /\ NextMsg(d) \notin HandedOut
         /\ \A e \in Links : NextMsg(d) \notin Range(mailbox[e])
         /\ \A x \in Range(mailbox[d]) :
              x.seq < NextMsg(d).seq /\ x.body < NextMsg(d).body
         /\ \A x \in HandedOut : x.body < NextMsg(d).body
<1>1. sent \in Nat /\ seq[Key(d)] \in Nat
  BY MailFacts DEF IInv, TypeOK
<1>2. /\ NextMsg(d) \in Msg
      /\ NextMsg(d).link = d
      /\ NextMsg(d).seq = seq[Key(d)] + 1
      /\ NextMsg(d).body = sent + 1
  BY <1>1 DEF NextMsg, Msg
<1>3. \A x \in HandedOut : x.body \in Nat /\ x.body <= sent
  <2>1. HandedOut \subseteq Msg
    BY SlotFacts
  <2> QED BY <2>1 DEF IInv, Counters, Msg
<1>4. \A e \in Links : \A x \in Range(mailbox[e]) :
        /\ x.body \in Nat /\ x.body <= sent
        /\ x.seq \in Nat /\ x.seq <= seq[Key(e)]
  <2>1. \A e \in Links : Range(mailbox[e]) \subseteq Msg
    BY MailFacts
  <2> QED BY <2>1 DEF IInv, Counters, Msg, Unread
<1> QED BY <1>1, <1>2, <1>3, <1>4

\* What a tell does to the counters.
LEMMA TellCounters ==
  ASSUME IInv, NEW d \in Links, Tell(d)
  PROVE  /\ sent' = sent + 1 /\ sent \in Nat /\ sent' <= MaxMsgs
         /\ seq' \in [Keys -> Nat]
         /\ seq'[Key(d)] = seq[Key(d)] + 1
         /\ \A k \in Keys : seq[k] <= seq'[k] /\ seq'[k] <= sent'
         /\ channels' = channels \union {Key(d)}
         /\ channels' \subseteq Keys
         /\ admitted' \subseteq Links
         /\ UNCHANGED <<reg, stop, toRelease, phase, on, returned, lost>>
<1>1. sent \in Nat /\ sent' = sent + 1 /\ sent < MaxMsgs
  BY DEF Tell, IInv, TypeOK
<1>2. Key(d) \in Keys /\ seq \in [Keys -> Nat]
      /\ seq' = [seq EXCEPT ![Key(d)] = @ + 1]
  BY MailFacts DEF Tell, IInv, TypeOK
<1>3. \A k \in Keys : seq[k] \in Nat /\ seq[k] <= sent
  BY <1>2 DEF IInv, Counters
<1>4. seq' \in [Keys -> Nat] /\ seq'[Key(d)] = seq[Key(d)] + 1
      /\ \A k \in Keys : k # Key(d) => seq'[k] = seq[k]
  BY <1>2, <1>3
<1>5. \A k \in Keys : seq[k] <= seq'[k] /\ seq'[k] <= sent'
  BY <1>1, <1>2, <1>3, <1>4
<1>6. /\ channels' = channels \union {Key(d)}
      /\ channels' \subseteq Keys
      /\ admitted' \subseteq Links
      /\ UNCHANGED <<reg, stop, toRelease, phase, on, returned, lost>>
  BY <1>2 DEF Tell, IInv, TypeOK, agentVars
<1> QED BY <1>1, <1>4, <1>5, <1>6, BoundAssumption

\* A message that goes straight into an empty slot finds its mailbox empty.
LEMMA TellHandsOver ==
  ASSUME IInv, NEW d \in Links, Tell(d), NEW r \in Readers,
         chan[r] = Nothing, mailbox[d] = << >>,
         Fill(chan, r, NextMsg(d), chan'),
         UNCHANGED <<mailbox, table>>
  PROVE  MailInv' /\ chan' \in [Readers -> Slot]
<1>0. PICK m \in Msg : m = NextMsg(d)
  BY NextMsgFacts
<1>1. m \in Slot /\ m \in Msg /\ m \notin HeldIn(chan)
  BY <1>0, NextMsgFacts, SlotFacts DEF Slot, HandedOut
<1>2. m \notin {Nothing, Closed}
  BY <1>1, NullAssumption
<1>3. HeldIn(chan') = HeldIn(chan) \union {m} /\ Apart(chan')
      /\ chan' \in [Readers -> Slot]
  <2>1. Fill(chan, r, m, chan')
    BY <1>0
  <2>2. /\ HeldIn(chan') = (HeldIn(chan) \ {chan[r]}) \union ({m} \ {Nothing, Closed})
        /\ Apart(chan') /\ chan' \in [Readers -> Slot]
    <3>1. chan \in [Readers -> Slot] /\ Apart(chan)
      BY SlotFacts
    <3>2. /\ HeldIn(chan') = (HeldIn(chan) \ {chan[r]}) \union ({m} \ {Nothing, Closed})
          /\ Apart(chan')
      BY <1>1, <2>1, <3>1, SetSlot
    <3> QED BY <2>1, <3>2 DEF Fill
  <2>3. chan[r] \notin HeldIn(chan)
    BY SlotFacts
  <2> QED BY <1>2, <2>2, <2>3
<1>4. Held' = Held \union {m}
  <2>1. Held' = HeldIn(chan')
    BY DEF Held, HeldIn
  <2> QED BY <1>3, <2>1, SlotFacts
<1>5. HandedOut' = HandedOut \union {m}
  BY <1>4, TellCounters DEF HandedOut
<1>6. \A e \in Links : Unread(e)' = Unread(e)
  BY DEF Unread
<1>7. m \notin HandedOut /\ m.link = d /\ m.body = sent + 1
      /\ \A e \in Links : m \notin Unread(e)
  BY <1>0, NextMsgFacts DEF Unread
<1>8. Counters'
  <2>1. \A e \in Links : Key(e) \in Keys /\ seq[Key(e)] \in Nat /\ seq'[Key(e)] \in Nat
    BY MailFacts, TellCounters
  <2>2. \A e \in Links : \A x \in Unread(e) : x.seq \in Nat /\ x.body \in Nat
    <3>1. \A e \in Links : Unread(e) \subseteq Msg
      BY MailFacts DEF Unread
    <3> QED BY <3>1 DEF Msg
  <2>3. \A e \in Links : \A x \in Unread(e)' :
          /\ x.link = e /\ x.seq <= seq'[Key(e)] /\ x.body <= sent'
          /\ Key(e) \in channels'
    BY <1>6, <2>1, <2>2, TellCounters DEF IInv, Counters
  <2>4. \A x \in HandedOut' : x.body <= sent'
    <3>1. \A x \in HandedOut : x.body \in Nat /\ x.body <= sent
      BY SlotFacts DEF IInv, Counters, Msg
    <3> QED BY <1>5, <1>7, <3>1, TellCounters
  <2> QED BY <2>3, <2>4, TellCounters DEF Counters
<1>9. UnreadIsDurable'
  BY <1>6 DEF IInv, UnreadIsDurable
<1>10. InOrder'
  <2>1. Unread(d) = {}
    BY IncreasingEmpty DEF Unread
  <2> QED BY <1>5, <1>6, <1>7, <2>1 DEF IInv, InOrder
<1>11. AtMostOnce'
  <2>1. returned' = returned /\ lost' = lost
    BY TellCounters
  <2>2. m \notin Held /\ m \notin returned /\ m \notin lost
    BY <1>7 DEF HandedOut
  <2>3. \A e \in Links : Unread(e) = table[e] /\ table'[e] = table[e]
    BY DEF IInv, UnreadIsDurable
  <2> QED BY <1>3, <1>4, <1>5, <1>6, <1>7, <2>1, <2>2, <2>3
       DEF IInv, AtMostOnce, Apart
<1> QED BY <1>3, <1>8, <1>9, <1>10, <1>11 DEF MailInv

\* A message that joins its mailbox is the youngest of all.
LEMMA TellStores ==
  ASSUME IInv, NEW d \in Links, Tell(d), Store(d, NextMsg(d))
  PROVE  /\ MailInv'
         /\ mailbox' \in [Links -> Seq(Msg)]
         /\ table' \in [Links -> SUBSET Msg]
<1>0. PICK m \in Msg : m = NextMsg(d)
  BY NextMsgFacts
<1>1. /\ m.link = d /\ m.seq = seq[Key(d)] + 1 /\ m.body = sent + 1
      /\ m \notin HandedOut
      /\ \A e \in Links : m \notin Range(mailbox[e])
      /\ \A x \in Range(mailbox[d]) : x.seq < m.seq /\ x.body < m.body
      /\ \A x \in HandedOut : x.body < m.body
  BY <1>0, NextMsgFacts
<1>2. /\ mailbox' = [mailbox EXCEPT ![d] = Append(@, m)]
      /\ table' = [table EXCEPT ![d] = @ \union {m}]
      /\ chan' = chan
      /\ mailbox \in [Links -> Seq(Msg)] /\ table \in [Links -> SUBSET Msg]
  BY <1>0 DEF Store, IInv, TypeOK
<1>3. /\ mailbox'[d] = Append(mailbox[d], m) /\ table'[d] = table[d] \union {m}
      /\ \A e \in Links : e # d => mailbox'[e] = mailbox[e] /\ table'[e] = table[e]
  BY <1>2
<1>4. /\ Append(mailbox[d], m) \in Seq(Msg)
      /\ Range(Append(mailbox[d], m)) = Range(mailbox[d]) \union {m}
      /\ Increasing(Append(mailbox[d], m))
  BY <1>1, MailFacts, RangeAppend, IncreasingAppend
<1>5. mailbox' \in [Links -> Seq(Msg)] /\ table' \in [Links -> SUBSET Msg]
  BY <1>2, <1>4
<1>6. Unread(d)' = Unread(d) \union {m}
      /\ \A e \in Links : e # d => Unread(e)' = Unread(e)
  BY <1>3, <1>4 DEF Unread
<1>7. Held' = Held /\ HandedOut' = HandedOut /\ returned' = returned /\ lost' = lost
  BY <1>2, TellCounters DEF Held, HandedOut
<1>8. UnreadIsDurable'
  <2>1. \A e \in Links : table'[e] = Unread(e)'
    BY <1>3, <1>6 DEF IInv, UnreadIsDurable
  <2>2. \A e \in Links : Increasing(mailbox'[e])
    BY <1>3, <1>4 DEF IInv, UnreadIsDurable
  <2> QED BY <2>1, <2>2 DEF UnreadIsDurable, Increasing
<1>9. Counters'
  <2>1. \A e \in Links : Key(e) \in Keys /\ seq[Key(e)] \in Nat /\ seq'[Key(e)] \in Nat
    BY MailFacts, TellCounters
  <2>2. \A e \in Links : \A x \in Unread(e) : x.seq \in Nat /\ x.body \in Nat
    <3>1. \A e \in Links : Unread(e) \subseteq Msg
      BY MailFacts DEF Unread
    <3> QED BY <3>1 DEF Msg
  <2>3. \A e \in Links : \A x \in Unread(e) :
          /\ x.link = e /\ x.seq <= seq'[Key(e)] /\ x.body <= sent'
          /\ Key(e) \in channels'
    BY <2>1, <2>2, TellCounters DEF IInv, Counters
  <2>4. m.link = d /\ m.seq <= seq'[Key(d)] /\ m.body <= sent' /\ Key(d) \in channels'
    BY <1>1, <2>1, TellCounters
  <2>5. \A e \in Links : \A x \in Unread(e)' :
          /\ x.link = e /\ x.seq <= seq'[Key(e)] /\ x.body <= sent'
          /\ Key(e) \in channels'
    BY <1>6, <2>3, <2>4
  <2>6. \A x \in HandedOut' : x.body <= sent'
    <3>1. \A x \in HandedOut : x.body \in Nat /\ x.body <= sent
      BY SlotFacts DEF IInv, Counters, Msg
    <3> QED BY <1>7, <3>1, TellCounters
  <2> QED BY <2>5, <2>6, TellCounters DEF Counters
<1>10. InOrder'
  BY <1>1, <1>6, <1>7 DEF IInv, InOrder
<1>11. AtMostOnce'
  <2>1. \A e \in Links : Unread(e)' \intersect HandedOut' = {} /\ table'[e] = Unread(e)'
    BY <1>1, <1>6, <1>7, <1>8 DEF IInv, AtMostOnce, UnreadIsDurable
  <2> QED BY <1>2, <1>7, <2>1 DEF IInv, AtMostOnce
<1> QED BY <1>5, <1>8, <1>9, <1>10, <1>11 DEF MailInv

LEMMA TellInv ==
  ASSUME IInv, NEW d \in Links, Tell(d)
  PROVE  IInv'
<1>1. CASE HandToRead(d, NextMsg(d))
  <2>1. PICK r \in Readers : waiter[d] = r
    BY <1>1 DEF HandToRead, IInv, TypeOK
  <2>2. /\ r # NoReader /\ chan[r] = Nothing /\ phase[r] = "wait" /\ on[r] = d
        /\ mailbox[d] = << >>
    BY <2>1, NullAssumption DEF IInv, SendNeverBlocks, Waiters
  <2>3. /\ waiter' = [waiter EXCEPT ![d] = NoReader]
        /\ UNCHANGED <<anyWaiter, mailbox, table>>
        /\ chan' = [chan EXCEPT ![r] = NextMsg(d)]
    BY <1>1, <2>1 DEF HandToRead
  <2>4. Fill(chan, r, NextMsg(d), chan')
    BY <2>3, SlotFacts, NextMsgFacts DEF Fill, Slot
  <2>5. MailInv' /\ chan' \in [Readers -> Slot]
    BY <2>2, <2>3, <2>4, TellHandsOver
  <2>6. TypeOK'
    BY <2>3, <2>5, TellCounters DEF IInv, TypeOK, Slot
  <2>7. Slots' /\ Waiters' /\ NoSleepOnAnyMail'
    BY <2>2, <2>3, <2>4, TellCounters
       DEF IInv, TypeOK, Slots, Waiters, NoSleepOnAnyMail, Fill
  <2>8. SendNeverBlocks'
    <3>1. \A e \in Links : waiter'[e] # NoReader =>
            waiter'[e] = waiter[e] /\ waiter[e] # r
      BY <2>2, <2>3 DEF IInv, Waiters, TypeOK
    <3>2. \A a \in Agents : anyWaiter[a] # r
      BY <2>2 DEF IInv, SendNeverBlocks
    <3> QED BY <2>3, <2>4, <3>1, <3>2, TellCounters
         DEF IInv, SendNeverBlocks, TypeOK, Fill
  <2> QED BY <2>5, <2>6, <2>7, <2>8 DEF IInv, MailInv
<1>2. CASE HandToReadAny(d, NextMsg(d))
  <2>0. d[1] \in Agents
    BY MailFacts
  <2>1. PICK r \in Readers : anyWaiter[d[1]] = r
    BY <1>2, <2>0 DEF HandToReadAny, IInv, TypeOK
  <2>2. /\ r # NoReader /\ chan[r] = Nothing /\ phase[r] = "waitAny"
        /\ Owner[r] = d[1] /\ mailbox[d] = << >>
    BY <2>0, <2>1, NullAssumption DEF IInv, SendNeverBlocks, Waiters, NoSleepOnAnyMail
  <2>3. /\ anyWaiter' = [anyWaiter EXCEPT ![d[1]] = NoReader]
        /\ UNCHANGED <<waiter, mailbox, table>>
        /\ chan' = [chan EXCEPT ![r] = NextMsg(d)]
    BY <1>2, <2>1 DEF HandToReadAny
  <2>4. Fill(chan, r, NextMsg(d), chan')
    BY <2>3, SlotFacts, NextMsgFacts DEF Fill, Slot
  <2>5. MailInv' /\ chan' \in [Readers -> Slot]
    BY <2>2, <2>3, <2>4, TellHandsOver
  <2>6. TypeOK'
    <3>1. anyWaiter' \in [Agents -> Readers \union {NoReader}]
      BY <2>3 DEF IInv, TypeOK
    <3> QED BY <2>3, <2>5, <3>1, TellCounters DEF IInv, TypeOK, Slot
  <2>7. Slots' /\ Waiters' /\ NoSleepOnAnyMail'
    BY <2>2, <2>3, <2>4, TellCounters
       DEF IInv, TypeOK, Slots, Waiters, NoSleepOnAnyMail, Fill
  <2>8. SendNeverBlocks'
    <3>1. \A a \in Agents : anyWaiter'[a] # NoReader =>
            anyWaiter'[a] = anyWaiter[a] /\ anyWaiter[a] # r
      BY <2>2, <2>3 DEF IInv, Waiters, TypeOK
    <3>2. \A e \in Links : waiter[e] # r
      BY <2>2 DEF IInv, SendNeverBlocks
    <3> QED BY <2>3, <2>4, <3>1, <3>2, TellCounters
         DEF IInv, SendNeverBlocks, TypeOK, Fill
  <2> QED BY <2>5, <2>6, <2>7, <2>8 DEF IInv, MailInv
<1>3. CASE Store(d, NextMsg(d))
  <2>1. UNCHANGED <<waiter, anyWaiter, chan>> /\ waiter[d] = NoReader
        /\ anyWaiter[d[1]] = NoReader
        /\ mailbox' = [mailbox EXCEPT ![d] = Append(@, NextMsg(d))]
    BY <1>3 DEF Store
  <2>2. /\ MailInv' /\ mailbox' \in [Links -> Seq(Msg)]
        /\ table' \in [Links -> SUBSET Msg]
    BY <1>3, TellStores
  <2>3. TypeOK'
    BY <2>1, <2>2, TellCounters DEF IInv, TypeOK
  <2>4. \A e \in Links : e # d => mailbox'[e] = mailbox[e]
    BY <2>1 DEF IInv, TypeOK
  <2>5. Slots' /\ Waiters' /\ SendNeverBlocks' /\ NoSleepOnAnyMail'
    BY <2>1, <2>4, TellCounters
       DEF IInv, Slots, Waiters, SendNeverBlocks, NoSleepOnAnyMail
  <2> QED BY <2>2, <2>3, <2>5 DEF IInv, MailInv
<1> QED BY <1>1, <1>2, <1>3 DEF Tell

-----------------------------------------------------------------------------
(* read and read-any.                                                      *)

\* Taking the oldest message: its row goes and no other, and it is older than
\* all that is left.
LEMMA PopInv ==
  ASSUME IInv, NEW r \in Readers, NEW d \in Links, Pop(r, d),
         phase[r] \in {"read", "readAny"},
         channels \subseteq channels', channels' \subseteq Keys,
         UNCHANGED <<reg, stop, toRelease, seq, sent, admitted, on, returned, lost>>
  PROVE  IInv'
<1> DEFINE q == mailbox[d]
<1>0. q # << >> /\ q \in Seq(Msg) /\ table[d] = Range(q) /\ Increasing(q)
  BY MailFacts DEF Pop
<1>1. PICK m \in Msg : m = Head(q)
  BY <1>0
<1>2. /\ chan' = [chan EXCEPT ![r] = m]
      /\ table' = [table EXCEPT ![d] = DeleteOne(d, m.seq)]
      /\ mailbox' = [mailbox EXCEPT ![d] = Tail(@)]
      /\ phase' = [phase EXCEPT ![r] = "reply"]
      /\ UNCHANGED <<waiter, anyWaiter>>
  BY <1>1 DEF Pop
<1>3. /\ Increasing(Tail(q))
      /\ Range(Tail(q)) = DeleteOne(d, m.seq)
      /\ Range(Tail(q)) = Range(q) \ {m}
      /\ \A x \in Range(Tail(q)) : m.body < x.body
      /\ m \in Range(q)
      /\ Tail(q) \in Seq(Msg)
  <2>1. Range(Tail(q)) = {x \in Range(q) : x.seq # m.seq}
    BY <1>0, <1>1, IncreasingTail
  <2> QED BY <1>0, <1>1, <2>1, IncreasingTail, RangeTail DEF DeleteOne
<1>4. /\ mailbox'[d] = Tail(q) /\ table'[d] = Range(Tail(q))
      /\ \A e \in Links : e # d => mailbox'[e] = mailbox[e] /\ table'[e] = table[e]
  BY <1>2, <1>3 DEF IInv, TypeOK
<1>5. mailbox' \in [Links -> Seq(Msg)] /\ table' \in [Links -> SUBSET Msg]
  <2>1. Range(Tail(q)) \subseteq Msg
    BY <1>3, RangeEntries
  <2> QED BY <1>2, <1>3, <2>1 DEF IInv, TypeOK
<1>6. chan[r] = Nothing
  BY DEF IInv, Slots
<1>7. m \in Unread(d) /\ m \notin HandedOut /\ m.link = d
  BY <1>3 DEF Unread, IInv, AtMostOnce, Counters
<1>8. Fill(chan, r, m, chan')
  BY <1>2, SlotFacts DEF Fill, Slot
<1>9. Held' = Held \union {m} /\ Apart(chan')
  <2>1. chan \in [Readers -> Slot] /\ Apart(chan) /\ m \in Slot /\ m \notin HeldIn(chan)
        /\ Nothing \notin HeldIn(chan) /\ Held = HeldIn(chan)
    BY <1>7, SlotFacts DEF Slot, HandedOut
  <2>2. /\ HeldIn(chan') = (HeldIn(chan) \ {chan[r]}) \union ({m} \ {Nothing, Closed})
        /\ Apart(chan')
    BY <1>8, <2>1, SetSlot
  <2>3. Held' = HeldIn(chan')
    BY DEF Held, HeldIn
  <2> QED BY <1>6, <2>1, <2>2, <2>3, NullAssumption
<1>10. HandedOut' = HandedOut \union {m}
  BY <1>9 DEF HandedOut
<1>11. /\ Unread(d)' = Unread(d) \ {m}
       /\ \A e \in Links : e # d => Unread(e)' = Unread(e)
       /\ \A e \in Links : Unread(e)' \subseteq Unread(e)
  BY <1>3, <1>4 DEF Unread
<1> HIDE DEF q
<1>12. TypeOK'
  <2>1. chan' \in [Readers -> Msg \union {Nothing, Closed}]
    BY <1>8 DEF Fill, Slot
  <2>2. phase' \in [Readers -> Phases]
    BY <1>2 DEF IInv, TypeOK, Phases
  <2> QED BY <1>2, <1>5, <2>1, <2>2 DEF IInv, TypeOK
<1>13. Slots'
  BY <1>2, <1>8 DEF IInv, TypeOK, Slots, Fill
<1>14. Waiters' /\ NoSleepOnAnyMail'
  <2>1. \A e \in Links : mailbox[e] = << >> => mailbox'[e] = << >>
    BY <1>0, <1>4 DEF q
  <2> QED BY <1>2, <2>1 DEF IInv, Waiters, NoSleepOnAnyMail
<1>15. SendNeverBlocks'
  <2>1. \A e \in Links : waiter[e] # r
    BY NullAssumption DEF IInv, SendNeverBlocks
  <2>2. \A a \in Agents : anyWaiter[a] # r
    BY NullAssumption DEF IInv, SendNeverBlocks
  <2> QED BY <1>2, <1>8, <2>1, <2>2 DEF IInv, TypeOK, SendNeverBlocks, Fill
<1>16. Counters'
  <2>1. \A x \in HandedOut' : x.body <= sent
    BY <1>7, <1>10 DEF IInv, Counters
  <2> QED BY <1>11, <2>1 DEF IInv, Counters
<1>17. UnreadIsDurable'
  <2>1. \A e \in Links : table'[e] = Unread(e)'
    BY <1>4 DEF IInv, UnreadIsDurable, Unread
  <2>2. \A e \in Links : Increasing(mailbox'[e])
    BY <1>3, <1>4 DEF IInv, UnreadIsDurable
  <2> QED BY <2>1, <2>2 DEF UnreadIsDurable, Increasing
<1>18. InOrder'
  <2>1. \A x \in Unread(d)' : m.body < x.body
    BY <1>3, <1>4 DEF Unread
  <2> QED BY <1>7, <1>10, <1>11, <2>1 DEF IInv, InOrder
<1>19. AtMostOnce'
  <2>1. \A e \in Links : e # d => m \notin Unread(e)
    BY <1>7 DEF IInv, Counters
  <2>2. \A e \in Links : Unread(e)' \intersect HandedOut' = {} /\ table'[e] = Unread(e)'
    BY <1>10, <1>11, <1>17, <2>1 DEF IInv, AtMostOnce, UnreadIsDurable
  <2>3. m \notin Held /\ m \notin returned /\ m \notin lost
    BY <1>7 DEF HandedOut
  <2> QED BY <1>9, <2>2, <2>3 DEF IInv, AtMostOnce, Apart
<1> QED BY <1>12, <1>13, <1>14, <1>15, <1>16, <1>17, <1>18, <1>19 DEF IInv

\* The three outcomes of read and read-any that take no message.
EmptyHanded(r) ==
  /\ phase' = [phase EXCEPT ![r] = "idle"]
  /\ UNCHANGED <<waiter, anyWaiter>>

BlockedOnLink(r) ==
  /\ mailbox[on[r]] = << >>
  /\ waiter' = [waiter EXCEPT ![on[r]] = r]
  /\ phase' = [phase EXCEPT ![r] = "wait"]
  /\ UNCHANGED anyWaiter

BlockedOnAll(r) ==
  /\ \A d \in Links : d[1] = Owner[r] => mailbox[d] = << >>
  /\ anyWaiter' = [anyWaiter EXCEPT ![Owner[r]] = r]
  /\ phase' = [phase EXCEPT ![r] = "waitAny"]
  /\ UNCHANGED waiter

LEMMA ReadEmptyInv ==
  ASSUME IInv, NEW r \in Readers, phase[r] \in {"read", "readAny"},
         channels \subseteq channels', channels' \subseteq Keys,
         UNCHANGED <<reg, stop, toRelease, seq, sent, admitted, on, returned,
                     lost, mailbox, table, chan>>,
         EmptyHanded(r) \/ BlockedOnLink(r) \/ BlockedOnAll(r)
  PROVE  IInv'
<1>1. chan[r] = Nothing /\ on[r] \in Links /\ Owner[r] \in Agents
  BY OwnerAssumption DEF IInv, Slots, TypeOK
<1>2. /\ phase' \in [Readers -> Phases]
      /\ phase'[r] \in {"idle", "wait", "waitAny"}
      /\ \A q \in Readers : q # r => phase'[q] = phase[q]
  BY DEF IInv, TypeOK, Phases, EmptyHanded, BlockedOnLink, BlockedOnAll
<1>3. waiter' \in [Links -> Readers \union {NoReader}]
      /\ anyWaiter' \in [Agents -> Readers \union {NoReader}]
  <2>1. CASE EmptyHanded(r)
    BY <2>1 DEF IInv, TypeOK, EmptyHanded
  <2>2. CASE BlockedOnLink(r)
    BY <2>2 DEF IInv, TypeOK, BlockedOnLink
  <2>3. CASE BlockedOnAll(r)
    BY <2>3 DEF IInv, TypeOK, BlockedOnAll
  <2> QED BY <2>1, <2>2, <2>3
<1>4. TypeOK'
  BY <1>2, <1>3 DEF IInv, TypeOK
<1>5. Slots'
  BY <1>1, <1>2 DEF IInv, Slots
<1>6. \A e \in Links : waiter'[e] # NoReader =>
        \/ waiter'[e] = waiter[e] /\ waiter[e] # r
        \/ waiter'[e] = r /\ phase'[r] = "wait" /\ on[r] = e /\ mailbox[e] = << >>
  <2>1. \A e \in Links : waiter[e] # r
    BY NullAssumption DEF IInv, SendNeverBlocks
  <2>2. CASE EmptyHanded(r)
    BY <2>1, <2>2 DEF EmptyHanded
  <2>3. CASE BlockedOnLink(r)
    BY <1>1, <2>1, <2>3 DEF IInv, TypeOK, BlockedOnLink
  <2>4. CASE BlockedOnAll(r)
    BY <1>1, <2>1, <2>4 DEF IInv, TypeOK, BlockedOnAll
  <2> QED BY <2>2, <2>3, <2>4
<1>7. \A a \in Agents : anyWaiter'[a] # NoReader =>
        \/ anyWaiter'[a] = anyWaiter[a] /\ anyWaiter[a] # r
        \/ /\ anyWaiter'[a] = r /\ phase'[r] = "waitAny" /\ Owner[r] = a
           /\ \A d \in Links : d[1] = a => mailbox[d] = << >>
  <2>1. \A a \in Agents : anyWaiter[a] # r
    BY NullAssumption DEF IInv, SendNeverBlocks
  <2>2. CASE EmptyHanded(r)
    BY <2>1, <2>2 DEF EmptyHanded
  <2>3. CASE BlockedOnLink(r)
    BY <1>1, <2>1, <2>3 DEF IInv, TypeOK, BlockedOnLink
  <2>4. CASE BlockedOnAll(r)
    BY <1>1, <2>1, <2>4 DEF IInv, TypeOK, BlockedOnAll
  <2> QED BY <2>2, <2>3, <2>4
<1>8. Waiters' /\ NoSleepOnAnyMail'
  BY <1>6, <1>7 DEF IInv, Waiters, NoSleepOnAnyMail
<1>9. SendNeverBlocks'
  <2>1. ASSUME NEW e \in Links, waiter'[e] # NoReader
        PROVE  chan'[waiter'[e]] = Nothing /\ phase'[waiter'[e]] = "wait"
    <3>1. CASE waiter'[e] = waiter[e] /\ waiter[e] # r
      <4>1. waiter[e] \in Readers /\ chan[waiter[e]] = Nothing /\ phase[waiter[e]] = "wait"
        BY <2>1, <3>1 DEF IInv, TypeOK, SendNeverBlocks
      <4> QED BY <1>2, <3>1, <4>1
    <3>2. CASE waiter'[e] = r /\ phase'[r] = "wait"
      BY <1>1, <3>2
    <3> QED BY <1>6, <2>1, <3>1, <3>2
  <2>2. ASSUME NEW a \in Agents, anyWaiter'[a] # NoReader
        PROVE  chan'[anyWaiter'[a]] = Nothing /\ phase'[anyWaiter'[a]] = "waitAny"
    <3>1. CASE anyWaiter'[a] = anyWaiter[a] /\ anyWaiter[a] # r
      <4>1. /\ anyWaiter[a] \in Readers /\ chan[anyWaiter[a]] = Nothing
            /\ phase[anyWaiter[a]] = "waitAny"
        BY <2>2, <3>1 DEF IInv, TypeOK, SendNeverBlocks
      <4> QED BY <1>2, <3>1, <4>1
    <3>2. CASE anyWaiter'[a] = r /\ phase'[r] = "waitAny"
      BY <1>1, <3>2
    <3> QED BY <1>7, <2>2, <3>1, <3>2
  <2> QED BY <2>1, <2>2 DEF SendNeverBlocks
<1>10. MailInv'
  <2>1. Held' = Held /\ Apart(chan')
    BY SlotFacts DEF Held
  <2> QED BY <2>1, MailSame DEF MailInv, IInv
<1> QED BY <1>4, <1>5, <1>8, <1>9, <1>10 DEF IInv, MailInv

LEMMA ReadInv ==
  ASSUME IInv, NEW r \in Readers, Read(r)
  PROVE  IInv'
<1>1. /\ phase[r] = "read" /\ on[r] \in Links
      /\ channels \subseteq channels' /\ channels' \subseteq Keys
      /\ UNCHANGED <<reg, stop, toRelease, seq, sent, admitted, on, returned, lost>>
  BY DEF Read, agentVars, IInv, TypeOK, Keys
<1>2. CASE Pop(r, on[r])
  BY <1>1, <1>2, PopInv
<1>3. CASE ~ Pop(r, on[r])
  <2>1. UNCHANGED <<mailbox, table, chan, anyWaiter>>
    BY <1>3 DEF Read, Block
  <2>2. EmptyHanded(r) \/ BlockedOnLink(r)
    BY <1>3 DEF Read, Block, EmptyHanded, BlockedOnLink
  <2> QED BY <1>1, <2>1, <2>2, ReadEmptyInv
<1> QED BY <1>2, <1>3

LEMMA ReadAnyInv ==
  ASSUME IInv, NEW r \in Readers, ReadAny(r)
  PROVE  IInv'
<1>1. /\ phase[r] = "readAny"
      /\ channels \subseteq channels' /\ channels' \subseteq Keys
      /\ UNCHANGED <<reg, stop, toRelease, seq, sent, admitted, on, returned, lost>>
  BY DEF ReadAny, agentVars, IInv, TypeOK
<1>2. CASE \E d \in Inbox(Owner[r]) : Pop(r, d)
  <2>1. PICK d \in Links : Pop(r, d)
    BY <1>2 DEF Inbox
  <2> QED BY <1>1, <2>1, PopInv
<1>3. CASE ~ \E d \in Inbox(Owner[r]) : Pop(r, d)
  <2>1. UNCHANGED <<mailbox, table, chan>> /\ InboxEmpty(Owner[r])
    BY <1>3 DEF ReadAny
  <2>2. \A d \in Links : d[1] = Owner[r] => mailbox[d] = << >>
    <3> SUFFICES ASSUME NEW d \in Links, d[1] = Owner[r], mailbox[d] # << >>
                 PROVE  FALSE
      OBVIOUS
    <3>1. Range(mailbox[d]) # {}
      BY MailFacts, RangeEntries
    <3>2. Key(d) \in channels
      BY <3>1 DEF IInv, Counters, Unread
    <3> QED BY <2>1, <3>2 DEF InboxEmpty, Inbox
  <2>3. EmptyHanded(r) \/ BlockedOnAll(r)
    BY <1>3, <2>2 DEF ReadAny, EmptyHanded, BlockedOnAll
  <2> QED BY <1>1, <2>1, <2>3, ReadEmptyInv
<1> QED BY <1>2, <1>3

\* A reader that leaves its select with nothing, or with peer_closed.
LEMMA LeaveInv ==
  ASSUME IInv, NEW r \in Readers, Waiting(r), chan[r] \notin Msg,
         phase' = [phase EXCEPT ![r] = "idle"],
         Fill(chan, r, Nothing, chan'),
         UNCHANGED <<returned, lost, mailVars>>
  PROVE  MailInv'
<1>1. chan \in [Readers -> Slot] /\ Apart(chan) /\ Nothing \in Slot
      /\ Nothing \notin HeldIn(chan) /\ Held = HeldIn(chan)
  BY SlotFacts DEF Slot
<1>2. /\ HeldIn(chan') = (HeldIn(chan) \ {chan[r]}) \union ({Nothing} \ {Nothing, Closed})
      /\ Apart(chan')
  BY <1>1, SetSlot
<1>3. chan[r] \notin HeldIn(chan)
  BY <1>1, SlotFacts
<1>4. Held' = HeldIn(chan')
  BY DEF Held, HeldIn
<1>5. Held' = Held
  BY <1>1, <1>2, <1>3, <1>4
<1> QED BY <1>2, <1>5, MailSame DEF MailInv, mailVars, IInv

\* A reader that ends its request: no map points at it any more.
LEMMA IdleInv ==
  ASSUME IInv, NEW r \in Readers,
         phase' = [phase EXCEPT ![r] = "idle"],
         Fill(chan, r, Nothing, chan'),
         \A d \in Links : waiter'[d] \in {waiter[d], NoReader} /\ waiter'[d] # r,
         \A a \in Agents : anyWaiter'[a] \in {anyWaiter[a], NoReader}
                            /\ anyWaiter'[a] # r,
         waiter' \in [Links -> Readers \union {NoReader}],
         anyWaiter' \in [Agents -> Readers \union {NoReader}],
         UNCHANGED <<agentVars, mailVars, on>>,
         returned' \subseteq Msg, lost' \subseteq Msg,
         MailInv'
  PROVE  IInv'
<1>1. TypeOK'
  BY DEF IInv, TypeOK, Phases, Fill, Slot, agentVars, mailVars
<1>2. Slots'
  BY DEF IInv, TypeOK, Slots, Fill
<1>3. Waiters' /\ NoSleepOnAnyMail'
  BY DEF IInv, Waiters, NoSleepOnAnyMail, mailVars
<1>4. SendNeverBlocks'
  BY DEF IInv, TypeOK, SendNeverBlocks, Fill
<1> QED BY <1>1, <1>2, <1>3, <1>4 DEF IInv, MailInv

LEMMA WakeInv ==
  ASSUME IInv, NEW r \in Readers, Wake(r)
  PROVE  IInv'
<1>1. /\ Waiting(r)
      /\ UNCHANGED <<agentVars, mailVars, waiter, anyWaiter, on, returned, lost>>
  BY DEF Wake
<1>2. CASE chan[r] = Closed
  <2>1. chan[r] \notin Msg /\ phase' = [phase EXCEPT ![r] = "idle"]
        /\ chan' = [chan EXCEPT ![r] = Nothing]
    BY <1>2, NullAssumption DEF Wake
  <2>2. Fill(chan, r, Nothing, chan')
    BY <2>1, SlotFacts DEF Fill, Slot
  <2>3. MailInv'
    BY <1>1, <2>1, <2>2, LeaveInv
  <2>4. /\ \A d \in Links : waiter[d] # r
        /\ \A a \in Agents : anyWaiter[a] # r
    BY <1>2, NullAssumption DEF IInv, SendNeverBlocks
  <2> QED BY <1>1, <2>1, <2>2, <2>3, <2>4, IdleInv DEF IInv, TypeOK
<1>3. CASE chan[r] \in Msg
  <2>1. phase' = [phase EXCEPT ![r] = "reply"] /\ chan' = chan
    BY <1>3, NullAssumption DEF Wake
  <2>2. MailInv'
    <3>1. Held' = Held /\ Apart(chan')
      BY <2>1, SlotFacts DEF Held
    <3> QED BY <1>1, <3>1, MailSame DEF MailInv, IInv, mailVars
  <2>3. /\ \A d \in Links : waiter[d] # r
        /\ \A a \in Agents : anyWaiter[a] # r
    BY <1>3, NullAssumption DEF IInv, SendNeverBlocks
  <2>4. TypeOK'
    BY <1>1, <2>1 DEF IInv, TypeOK, Phases, agentVars, mailVars
  <2>5. Slots' /\ Waiters' /\ NoSleepOnAnyMail'
    BY <1>1, <1>3, <2>1
       DEF IInv, TypeOK, Slots, Waiters, NoSleepOnAnyMail, mailVars
  <2>6. SendNeverBlocks'
    BY <1>1, <2>1, <2>3 DEF IInv, TypeOK, SendNeverBlocks
  <2> QED BY <2>2, <2>4, <2>5, <2>6 DEF IInv, MailInv
<1> QED BY <1>2, <1>3 DEF Wake

LEMMA TimeoutInv ==
  ASSUME IInv, NEW r \in Readers, Timeout(r)
  PROVE  IInv'
<1>1. /\ Waiting(r) /\ phase' = [phase EXCEPT ![r] = "idle"]
      /\ chan' = [chan EXCEPT ![r] = Nothing]
      /\ UNCHANGED <<agentVars, mailVars, on, returned>>
  BY DEF Timeout
<1>2. Fill(chan, r, Nothing, chan')
  BY <1>1, SlotFacts DEF Fill, Slot
<1>3. on[r] \in Links /\ Owner[r] \in Agents
  BY OwnerAssumption DEF IInv, TypeOK
<1>4. /\ waiter' \in [Links -> Readers \union {NoReader}]
      /\ anyWaiter' \in [Agents -> Readers \union {NoReader}]
  BY DEF Timeout, DeleteEntry, IInv, TypeOK
<1>5. \A d \in Links : waiter'[d] \in {waiter[d], NoReader} /\ waiter'[d] # r
  <2>1. CASE phase[r] = "wait"
    <3>1. waiter' = [waiter EXCEPT ![on[r]] = NoReader]
      BY <2>1 DEF Timeout, DeleteEntry
    <3>2. \A d \in Links : waiter[d] = r => on[r] = d
      BY NullAssumption DEF IInv, Waiters
    <3> QED BY <1>3, <3>1, <3>2, NullAssumption DEF IInv, TypeOK
  <2>2. CASE phase[r] = "waitAny"
    <3>1. waiter' = waiter
      BY <2>2 DEF Timeout, DeleteEntry
    <3> QED BY <2>2, <3>1, NullAssumption DEF IInv, SendNeverBlocks
  <2> QED BY <1>1, <2>1, <2>2 DEF Waiting
<1>6. \A a \in Agents : anyWaiter'[a] \in {anyWaiter[a], NoReader} /\ anyWaiter'[a] # r
  <2>1. CASE phase[r] = "waitAny"
    <3>1. anyWaiter' = [anyWaiter EXCEPT ![Owner[r]] = NoReader]
      BY <2>1 DEF Timeout, DeleteEntry
    <3>2. \A a \in Agents : anyWaiter[a] = r => Owner[r] = a
      BY NullAssumption DEF IInv, Waiters
    <3> QED BY <1>3, <3>1, <3>2, NullAssumption DEF IInv, TypeOK
  <2>2. CASE phase[r] = "wait"
    <3>1. anyWaiter' = anyWaiter
      BY <2>2 DEF Timeout, DeleteEntry
    <3> QED BY <2>2, <3>1, NullAssumption DEF IInv, SendNeverBlocks
  <2> QED BY <1>1, <2>1, <2>2 DEF Waiting
<1>7. CASE chan[r] \in Msg
  <2>1. lost' = lost \union {chan[r]}
    BY <1>7, NullAssumption DEF Timeout
  <2>2. MailInv'
    BY <1>1, <1>2, <1>7, <2>1, MailLeaves DEF IInv, MailInv, mailVars
  <2> QED BY <1>1, <1>2, <1>4, <1>5, <1>6, <1>7, <2>1, <2>2, IdleInv DEF IInv, TypeOK
<1>8. CASE chan[r] \notin Msg
  <2>1. lost' = lost
    <3>1. chan[r] \in {Nothing, Closed}
      BY <1>8 DEF IInv, TypeOK
    <3> QED BY <3>1 DEF Timeout
  <2>2. MailInv'
    BY <1>1, <1>2, <1>8, <2>1, LeaveInv
  <2> QED BY <1>1, <1>2, <1>4, <1>5, <1>6, <2>1, <2>2, IdleInv DEF IInv, TypeOK
<1> QED BY <1>7, <1>8

LEMMA AnswerInv ==
  ASSUME IInv, NEW r \in Readers, Reply(r) \/ Hangup(r)
  PROVE  IInv'
<1>1. /\ phase[r] = "reply" /\ phase' = [phase EXCEPT ![r] = "idle"]
      /\ chan' = [chan EXCEPT ![r] = Nothing]
      /\ UNCHANGED <<agentVars, mailVars, waiter, anyWaiter, on>>
  BY DEF Reply, Hangup
<1>2. Fill(chan, r, Nothing, chan')
  BY <1>1, SlotFacts DEF Fill, Slot
<1>3. chan[r] \in Msg
  BY <1>1 DEF IInv, Slots
<1>4. \/ returned' = returned \union {chan[r]} /\ lost' = lost
      \/ lost' = lost \union {chan[r]} /\ returned' = returned
  BY DEF Reply, Hangup
<1>5. MailInv'
  BY <1>1, <1>2, <1>3, <1>4, MailLeaves DEF IInv, MailInv, mailVars
<1>6. /\ \A d \in Links : waiter[d] # r
      /\ \A a \in Agents : anyWaiter[a] # r
  BY <1>1, NullAssumption DEF IInv, SendNeverBlocks
<1> QED BY <1>1, <1>2, <1>3, <1>4, <1>5, <1>6, IdleInv DEF IInv, TypeOK

-----------------------------------------------------------------------------
(* Restart.                                                                *)

\* replayMailbox rebuilds every mailbox as it was.
LEMMA RestartMailbox ==
  ASSUME IInv, Restart
  PROVE  mailbox' = mailbox
<1>1. \A d \in Links : Listing(table[d]) = mailbox[d]
  <2> SUFFICES ASSUME NEW d \in Links PROVE Listing(table[d]) = mailbox[d]
    OBVIOUS
  <2>1. mailbox[d] \in Seq(Msg) /\ table[d] = Range(mailbox[d])
    BY MailFacts
  <2>2. \A i, j \in 1..Len(mailbox[d]) :
          i < j => mailbox[d][i].body < mailbox[d][j].body
    BY MailFacts DEF Increasing
  <2> QED BY <2>1, <2>2, ListingOfMailbox
<1>2. mailbox' = [d \in Links |-> Listing(table[d])]
  BY DEF Restart
<1>3. mailbox \in [Links -> Seq(Msg)]
  BY DEF IInv, TypeOK
<1> QED BY <1>1, <1>2, <1>3

\* The replayed counter is above every unread number of the channel, and not
\* above the old one.
LEMMA ReplayedSeqFacts ==
  ASSUME IInv, NEW k \in Keys
  PROVE  /\ ReplayedSeq(k) \in Nat
         /\ ReplayedSeq(k) <= seq[k]
         /\ \A d \in Links : Key(d) = k =>
              \A m \in table[d] : m.seq <= ReplayedSeq(k)
<1> DEFINE S == {0} \union {m.seq : m \in RowsOf(k)}
<1>1. \A m \in RowsOf(k) : m.seq \in Nat /\ m.seq <= seq[k]
  <2> SUFFICES ASSUME NEW d \in Links, Key(d) = k, NEW m \in table[d]
               PROVE  m.seq \in Nat /\ m.seq <= seq[k]
    BY DEF RowsOf
  <2>1. m \in Msg /\ m \in Unread(d)
    BY MailFacts DEF Unread
  <2> QED BY <2>1 DEF IInv, Counters, Msg
<1>2. seq[k] \in Nat
  BY DEF IInv, TypeOK
<1>3. S \in SUBSET Nat /\ S # {} /\ \A y \in S : y <= seq[k]
  BY <1>1, <1>2
<1> HIDE DEF S
<1>4. Max(S) \in S /\ \A y \in S : y <= Max(S)
  BY <1>2, <1>3, MaxOfBounded
<1>5. ReplayedSeq(k) = Max(S)
  BY DEF ReplayedSeq, S
<1>6. ASSUME NEW d \in Links, Key(d) = k, NEW m \in table[d]
      PROVE  m.seq \in S
  BY <1>6 DEF S, RowsOf
<1> QED BY <1>3, <1>4, <1>5, <1>6

LEMMA RestartInv ==
  ASSUME IInv, Restart
  PROVE  IInv'
<1>1. mailbox' = mailbox /\ UNCHANGED <<sent, table, on, returned>>
  BY RestartMailbox DEF Restart
<1>2. /\ reg' \subseteq Agents /\ stop' = "run" /\ admitted' = {} /\ toRelease' = {}
      /\ channels' = {k \in Keys : RowsOf(k) # {}}
      /\ seq' = [k \in Keys |-> ReplayedSeq(k)]
      /\ waiter' = [d \in Links |-> NoReader]
      /\ anyWaiter' = [a \in Agents |-> NoReader]
      /\ phase' = [r \in Readers |-> "idle"]
      /\ chan' = [r \in Readers |-> Nothing]
      /\ lost' = lost \union Held
  BY DEF Restart
<1>3. Held' = {} /\ HandedOut' = HandedOut /\ \A d \in Links : Unread(d)' = Unread(d)
  <2>1. Held' = {}
    BY <1>2 DEF Held
  <2> QED BY <1>1, <1>2, <2>1 DEF HandedOut, Unread
<1>4. TypeOK'
  <2>1. seq' \in [Keys -> Nat]
    BY <1>2, ReplayedSeqFacts
  <2>2. lost' \subseteq Msg
    BY <1>2, SlotFacts DEF IInv, TypeOK
  <2> QED BY <1>1, <1>2, <2>1, <2>2 DEF IInv, TypeOK, Phases
<1>5. Slots' /\ Waiters' /\ SendNeverBlocks' /\ NoSleepOnAnyMail'
  BY <1>2 DEF Slots, Waiters, SendNeverBlocks, NoSleepOnAnyMail
<1>6. Counters'
  <2>1. \A k \in Keys : seq'[k] <= sent'
    <3>1. \A k \in Keys : ReplayedSeq(k) \in Nat /\ ReplayedSeq(k) <= seq[k]
      BY ReplayedSeqFacts
    <3>2. \A k \in Keys : seq[k] \in Nat /\ seq[k] <= sent
      BY DEF IInv, Counters, TypeOK
    <3> QED BY <1>1, <1>2, <3>1, <3>2 DEF IInv, TypeOK
  <2>2. ASSUME NEW d \in Links, NEW m \in Unread(d)
        PROVE  m.link = d /\ m.seq <= seq'[Key(d)] /\ m.body <= sent
               /\ Key(d) \in channels'
    <3>1. m \in table[d] /\ Key(d) \in Keys
      BY MailFacts DEF Unread
    <3>2. m \in RowsOf(Key(d))
      BY <3>1 DEF RowsOf
    <3>3. m.seq <= ReplayedSeq(Key(d))
      BY <3>1, ReplayedSeqFacts
    <3> QED BY <1>2, <3>1, <3>2, <3>3 DEF IInv, Counters
  <2> QED BY <1>1, <1>3, <2>1, <2>2 DEF IInv, Counters
<1>7. UnreadIsDurable' /\ InOrder'
  BY <1>1, <1>3 DEF IInv, UnreadIsDurable, InOrder
<1>8. AtMostOnce'
  BY <1>1, <1>2, <1>3, NullAssumption DEF IInv, AtMostOnce
<1> QED BY <1>4, <1>5, <1>6, <1>7, <1>8 DEF IInv

-----------------------------------------------------------------------------
(* Theorems.                                                               *)

\* Every step of the daemon preserves the invariant.
LEMMA NextInv == IInv /\ [Next]_vars => IInv'
<1> SUFFICES ASSUME IInv, [Next]_vars PROVE IInv'
  OBVIOUS
<1>1. CASE \/ \E a \in Agents : Register(a) \/ Unregister(a)
           \/ \E expired \in SUBSET Agents : Sweep(expired)
           \/ RequestStop
           \/ CloseWrites
           \/ \E d \in Links : TellAdmit(d)
           \/ \E r \in Readers : \E d \in Links : ReadAdmit(r, d)
           \/ \E r \in Readers : ReadAnyAdmit(r)
           \/ UNCHANGED vars
  BY <1>1, QuietInv
<1>2. CASE \E d \in Links : ReleaseWaiter(d)
  BY <1>2, ReleaseInv
<1>3. CASE \E d \in Links : Tell(d)
  BY <1>3, TellInv
<1>4. CASE \E r \in Readers : Read(r)
  BY <1>4, ReadInv
<1>5. CASE \E r \in Readers : ReadAny(r)
  BY <1>5, ReadAnyInv
<1>6. CASE \E r \in Readers : Wake(r)
  BY <1>6, WakeInv
<1>7. CASE \E r \in Readers : Timeout(r)
  BY <1>7, TimeoutInv
<1>8. CASE \E r \in Readers : Reply(r) \/ Hangup(r)
  BY <1>8, AnswerInv
<1>9. CASE Restart
  BY <1>9, RestartInv
<1> QED BY <1>1, <1>2, <1>3, <1>4, <1>5, <1>6, <1>7, <1>8, <1>9 DEF Next

\* The invariant holds in every reachable state, for any number of agents,
\* links, readers and messages.
THEOREM Invariance == Spec => []IInv
  BY InitInv, NextInv, PTL DEF Spec

\* Type correctness of the daemon's channel state.
THEOREM TypeCorrect == Spec => []TypeOK
<1>1. IInv => TypeOK
  BY DEF IInv
<1> QED BY Invariance, <1>1, PTL

\* The SQLite table is the mailboxes, row for row, in order.
THEOREM Durability == Spec => []UnreadIsDurable
<1>1. IInv => UnreadIsDurable
  BY DEF IInv
<1> QED BY Invariance, <1>1, PTL

\* No message is delivered twice, not even across a restart.
THEOREM DeliveredAtMostOnce == Spec => []AtMostOnce
<1>1. IInv => AtMostOnce
  BY DEF IInv
<1> QED BY Invariance, <1>1, PTL

\* Messages of a link are handed out in the order they were sent.
THEOREM DeliveredInOrder == Spec => []InOrder
<1>1. IInv => InOrder
  BY DEF IInv
<1> QED BY Invariance, <1>1, PTL

\* A send into a waiter's slot, made with the channel's mutex held, finds room.
THEOREM TellNeverBlocks == Spec => []SendNeverBlocks
<1>1. IInv => SendNeverBlocks
  BY DEF IInv
<1> QED BY Invariance, <1>1, PTL

\* A read-any on record as blocked has no mail waiting in any channel.
THEOREM ReadAnyIsServed == Spec => []NoSleepOnAnyMail
<1>1. IInv => NoSleepOnAnyMail
  BY DEF IInv
<1> QED BY Invariance, <1>1, PTL

-----------------------------------------------------------------------------
(* One connection per agent.                                               *)

\* The parts of the state that a blocked read depends on, as functions.
LEMMA ReaderTypes ==
  ASSUME IInv
  PROVE  /\ waiter \in [Links -> Readers \union {NoReader}]
         /\ phase \in [Readers -> Phases]
         /\ on \in [Readers -> Links]
         /\ chan \in [Readers -> Msg \union {Nothing, Closed}]
  BY DEF IInv, TypeOK

\* If an agent has one connection, nobody takes the place of its blocked read,
\* and no timer but its own deletes its entry.
LEMMA BlockedNext ==
  ASSUME OneReaderPerAgent, IInv, BlockedIsWaiter, [Next]_vars
  PROVE  BlockedIsWaiter'
<1> USE ReaderTypes, NullAssumption
<1>1. ASSUME NEW r \in Readers, NEW q \in Readers, on[r] = on[q]
      PROVE  r = q
  BY <1>1 DEF BlockedIsWaiter, OneReaderPerAgent
<1>2. CASE \/ \E a \in Agents : Register(a) \/ Unregister(a)
           \/ \E expired \in SUBSET Agents : Sweep(expired)
           \/ RequestStop
           \/ CloseWrites
           \/ \E d \in Links : TellAdmit(d)
           \/ UNCHANGED vars
  <2>1. UNCHANGED <<waiter, phase, on, chan>>
    BY <1>2 DEF Register, Unregister, Sweep, RequestStop, CloseWrites, TellAdmit, vars
  <2> QED BY <2>1 DEF BlockedIsWaiter
<1>3. CASE \E r \in Readers : \E d \in Links : ReadAdmit(r, d)
  BY <1>3 DEF ReadAdmit, BlockedIsWaiter
<1>4. CASE \E r \in Readers : ReadAnyAdmit(r)
  BY <1>4 DEF ReadAnyAdmit, BlockedIsWaiter
<1>5. CASE \E d \in Links : ReleaseWaiter(d)
  BY <1>5 DEF ReleaseWaiter, BlockedIsWaiter
<1>6. CASE \E d \in Links : Tell(d)
  <2>1. PICK d \in Links : Tell(d)
    BY <1>6
  <2>2. UNCHANGED <<phase, on>>
    BY <2>1 DEF Tell
  <2> DEFINE m == NextMsg(d)
  <2>3. IInv /\ Tell(d)
    BY <2>1
  <2>4. m # Nothing
    BY <2>1, NextMsgFacts
  <2> HIDE DEF m
  <2>5. CASE HandToRead(d, m)
    BY <2>2, <2>4, <2>5 DEF HandToRead, BlockedIsWaiter
  <2>6. CASE HandToReadAny(d, m)
    BY <2>2, <2>4, <2>6 DEF HandToReadAny, BlockedIsWaiter, IInv, SendNeverBlocks
  <2>7. CASE Store(d, m)
    BY <2>2, <2>7 DEF Store, BlockedIsWaiter
  <2> QED BY <2>1, <2>5, <2>6, <2>7 DEF Tell, m
<1>7. CASE \E r \in Readers : Read(r)
  <2>1. PICK r \in Readers : Read(r)
    BY <1>7
  <2>2. on' = on
    BY <2>1 DEF Read
  <2>3. CASE Pop(r, on[r])
    BY <2>2, <2>3 DEF Pop, BlockedIsWaiter
  <2>4. CASE phase' = [phase EXCEPT ![r] = "idle"] /\ UNCHANGED <<waiter, chan>>
    BY <2>2, <2>4 DEF BlockedIsWaiter
  <2>5. CASE Block(r, on[r])
    BY <1>1, <2>2, <2>5 DEF Block, BlockedIsWaiter
  <2> QED BY <2>1, <2>3, <2>4, <2>5 DEF Read
<1>8. CASE \E r \in Readers : ReadAny(r)
  <2>1. PICK r \in Readers : ReadAny(r)
    BY <1>8
  <2>2. on' = on /\ waiter' = waiter
    BY <2>1 DEF ReadAny, Pop
  <2>3. /\ phase'[r] # "wait"
        /\ \A q \in Readers : q # r => phase'[q] = phase[q] /\ chan'[q] = chan[q]
    BY <2>1 DEF ReadAny, Pop
  <2> QED BY <2>2, <2>3 DEF BlockedIsWaiter
<1>9. CASE \E r \in Readers : Wake(r) \/ Reply(r) \/ Hangup(r)
  BY <1>9 DEF Wake, Reply, Hangup, BlockedIsWaiter
<1>10. CASE \E r \in Readers : Timeout(r)
  BY <1>10, <1>1 DEF Timeout, DeleteEntry, BlockedIsWaiter
<1>11. CASE Restart
  BY <1>11 DEF Restart, BlockedIsWaiter
<1> QED BY <1>2, <1>3, <1>4, <1>5, <1>6, <1>7, <1>8, <1>9, <1>10, <1>11 DEF Next

\* An agent that reads on one connection at a time never sleeps on mail.
THEOREM ReadIsServed ==
  ASSUME OneReaderPerAgent
  PROVE  Spec => []NoSleepOnMail
<1>1. Init => BlockedIsWaiter
  BY DEF Init, BlockedIsWaiter
<1>2. IInv /\ BlockedIsWaiter /\ [Next]_vars => BlockedIsWaiter'
  BY BlockedNext
<1>3. IInv /\ BlockedIsWaiter => NoSleepOnMail
  BY ReaderTypes, NullAssumption DEF IInv, Waiters, BlockedIsWaiter, NoSleepOnMail
<1> QED BY Invariance, <1>1, <1>2, <1>3, PTL DEF Spec

(***************************************************************************)
(* Refinement: the channels implement the durable queue of module Courier  *)
(* and lose no message in silence, on top of the invariant above.          *)
(***************************************************************************)

\* What filling a slot does to the messages readers hold.
LEMMA FillHeld ==
  ASSUME IInv, NEW r \in Readers, NEW v \in Slot, v \notin Held,
         Fill(chan, r, v, chan')
  PROVE  Held' = (Held \ {chan[r]}) \union ({v} \ {Nothing, Closed})
<1>1. chan \in [Readers -> Slot] /\ Apart(chan) /\ Held = HeldIn(chan)
  BY SlotFacts
<1>2. HeldIn(chan') = (HeldIn(chan) \ {chan[r]}) \union ({v} \ {Nothing, Closed})
  BY <1>1, SetSlot
<1>3. Held' = HeldIn(chan')
  BY DEF Held, HeldIn
<1> QED BY <1>1, <1>2, <1>3

\* Where messages are after a step, one case per way they move.
Still == UNCHANGED <<mailbox, returned, lost, sent>> /\ Held' = Held

Joins(d) ==
  /\ mailbox' = [mailbox EXCEPT ![d] = Append(@, NextMsg(d))]
  /\ Held' = Held
  /\ UNCHANGED <<returned, lost>>

Overtakes(d) ==
  /\ mailbox[d] = << >>
  /\ Held' = Held \union {NextMsg(d)}
  /\ UNCHANGED <<mailbox, returned, lost>>

Leaves(d) ==
  /\ mailbox[d] # << >>
  /\ mailbox' = [mailbox EXCEPT ![d] = Tail(@)]
  /\ Held' = Held \union {Head(mailbox[d])}
  /\ UNCHANGED <<returned, lost, sent>>

Answered(m) ==
  /\ m \in Held
  /\ Held' = Held \ {m}
  /\ returned' = returned \union {m}
  /\ UNCHANGED <<mailbox, lost, sent>>

Dropped(m) ==
  /\ m \in Held
  /\ Held' = Held \ {m}
  /\ lost' = lost \union {m}
  /\ UNCHANGED <<mailbox, returned, sent>>

Wiped ==
  /\ Held' = {}
  /\ lost' = lost \union Held
  /\ UNCHANGED <<mailbox, returned, sent>>

LEMMA TellFlow ==
  ASSUME IInv, NEW d \in Links, Tell(d)
  PROVE  Joins(d) \/ Overtakes(d)
<1>0. NextMsg(d) \in Slot /\ NextMsg(d) \in Msg /\ NextMsg(d) \notin Held
      /\ Nothing \notin Held /\ UNCHANGED <<returned, lost>>
  BY NextMsgFacts, SlotFacts, TellCounters DEF HandedOut, Slot
<1>1. ASSUME NEW r \in Readers, chan[r] = Nothing,
             chan' = [chan EXCEPT ![r] = NextMsg(d)]
      PROVE  Held' = Held \union {NextMsg(d)}
  <2>1. Fill(chan, r, NextMsg(d), chan')
    BY <1>0, <1>1, SlotFacts DEF Fill
  <2>2. Held' = (Held \ {chan[r]}) \union ({NextMsg(d)} \ {Nothing, Closed})
    BY <1>0, <2>1, FillHeld
  <2> QED BY <1>0, <1>1, <2>2, NullAssumption
<1>2. CASE HandToRead(d, NextMsg(d))
  <2>1. waiter[d] \in Readers /\ chan[waiter[d]] = Nothing /\ mailbox[d] = << >>
    BY <1>2 DEF HandToRead, IInv, TypeOK, Waiters
  <2>2. Held' = Held \union {NextMsg(d)}
    BY <1>1, <1>2, <2>1 DEF HandToRead
  <2> QED BY <1>0, <1>2, <2>1, <2>2 DEF HandToRead, Overtakes
<1>3. CASE HandToReadAny(d, NextMsg(d))
  <2>0. d[1] \in Agents
    BY MailFacts
  <2>1. /\ anyWaiter[d[1]] \in Readers /\ chan[anyWaiter[d[1]]] = Nothing
        /\ mailbox[d] = << >>
    BY <1>3, <2>0 DEF HandToReadAny, IInv, TypeOK, NoSleepOnAnyMail
  <2>2. Held' = Held \union {NextMsg(d)}
    BY <1>1, <1>3, <2>1 DEF HandToReadAny
  <2> QED BY <1>0, <1>3, <2>1, <2>2 DEF HandToReadAny, Overtakes
<1>4. CASE Store(d, NextMsg(d))
  <2>1. Held' = Held
    BY <1>4 DEF Store, Held
  <2> QED BY <1>0, <1>4, <2>1 DEF Store, Joins
<1> QED BY <1>2, <1>3, <1>4 DEF Tell

LEMMA PopFlow ==
  ASSUME IInv, NEW r \in Readers, NEW d \in Links, Pop(r, d),
         phase[r] \in {"read", "readAny"}, UNCHANGED <<sent, returned, lost>>
  PROVE  Leaves(d)
<1>1. mailbox[d] # << >> /\ mailbox[d] \in Seq(Msg)
  BY MailFacts DEF Pop
<1>2. PICK m \in Msg : m = Head(mailbox[d])
  BY <1>1
<1>3. m \in Unread(d)
  BY <1>1, <1>2, RangeTail DEF Unread
<1>4. m \notin Held /\ m \in Slot /\ chan[r] = Nothing /\ Nothing \notin Held
  BY <1>3, SlotFacts DEF IInv, AtMostOnce, HandedOut, Slot, Slots
<1>5. Fill(chan, r, m, chan')
  BY <1>2, <1>4, SlotFacts DEF Pop, Fill
<1>6. Held' = (Held \ {chan[r]}) \union ({m} \ {Nothing, Closed})
  BY <1>4, <1>5, FillHeld
<1>7. Held' = Held \union {Head(mailbox[d])}
  BY <1>2, <1>4, <1>6, NullAssumption
<1> QED BY <1>1, <1>7 DEF Pop, Leaves

LEMMA EndFlow ==
  ASSUME IInv, NEW r \in Readers,
         Wake(r) \/ Timeout(r) \/ Reply(r) \/ Hangup(r)
  PROVE  Still \/ Answered(chan[r]) \/ Dropped(chan[r])
<1>1. Nothing \in Slot /\ Nothing \notin Held /\ chan \in [Readers -> Slot]
      /\ Closed \notin Held
  BY SlotFacts DEF Slot
<1>2. chan[r] \in Msg => chan[r] \in Held
  BY NullAssumption DEF Held
<1>3. ASSUME chan' = [chan EXCEPT ![r] = Nothing]
      PROVE  Held' = Held \ {chan[r]}
  <2>1. Fill(chan, r, Nothing, chan')
    BY <1>1, <1>3 DEF Fill
  <2>2. Held' = (Held \ {chan[r]}) \union ({Nothing} \ {Nothing, Closed})
    BY <1>1, <2>1, FillHeld
  <2> QED BY <2>2
<1>4. CASE Wake(r)
  <2>1. UNCHANGED <<mailbox, returned, lost, sent>>
    BY <1>4 DEF Wake, mailVars
  <2>2. CASE chan' = chan
    BY <2>1, <2>2 DEF Still, Held
  <2>3. CASE chan[r] = Closed /\ chan' = [chan EXCEPT ![r] = Nothing]
    BY <1>1, <1>3, <2>1, <2>3 DEF Still
  <2> QED BY <1>4, <2>2, <2>3 DEF Wake
<1>5. CASE Timeout(r)
  <2>1. Held' = Held \ {chan[r]} /\ UNCHANGED <<mailbox, returned, sent>>
        /\ lost' = lost \union ({chan[r]} \ {Nothing, Closed})
    BY <1>3, <1>5 DEF Timeout, mailVars
  <2>2. CASE chan[r] \in Msg
    BY <1>2, <2>1, <2>2, NullAssumption DEF Dropped
  <2>3. CASE chan[r] \in {Nothing, Closed}
    BY <1>1, <2>1, <2>3 DEF Still
  <2> QED BY <1>1, <2>2, <2>3 DEF Slot
<1>6. CASE Reply(r)
  <2>1. chan[r] \in Msg
    BY <1>6 DEF Reply, IInv, Slots
  <2> QED BY <1>2, <1>3, <1>6, <2>1 DEF Reply, mailVars, Answered
<1>7. CASE Hangup(r)
  <2>1. chan[r] \in Msg
    BY <1>7 DEF Hangup, IInv, Slots
  <2> QED BY <1>2, <1>3, <1>7, <2>1 DEF Hangup, mailVars, Dropped
<1> QED BY <1>4, <1>5, <1>6, <1>7

\* The ways messages move in any step.
LEMMA Flow ==
  ASSUME IInv, [Next]_vars
  PROVE  \/ Still
         \/ \E d \in Links : Tell(d) /\ (Joins(d) \/ Overtakes(d))
         \/ \E d \in Links : Leaves(d)
         \/ \E m \in Held : Answered(m) \/ Dropped(m)
         \/ Wiped
<1>1. CASE \/ \E a \in Agents : Register(a) \/ Unregister(a)
           \/ \E expired \in SUBSET Agents : Sweep(expired)
           \/ RequestStop
           \/ CloseWrites
           \/ \E d \in Links : TellAdmit(d)
           \/ \E r \in Readers : \E d \in Links : ReadAdmit(r, d)
           \/ \E r \in Readers : ReadAnyAdmit(r)
           \/ UNCHANGED vars
  <2>1. UNCHANGED <<mailbox, returned, lost, sent, chan>>
    BY <1>1 DEF Register, Unregister, Sweep, RequestStop, CloseWrites, TellAdmit,
         ReadAdmit, ReadAnyAdmit, vars, mailVars, agentVars
  <2> QED BY <2>1 DEF Still, Held
<1>2. CASE \E d \in Links : ReleaseWaiter(d)
  <2>1. PICK d \in Links : ReleaseWaiter(d)
    BY <1>2
  <2>2. UNCHANGED <<mailbox, returned, lost, sent>>
    BY <2>1 DEF ReleaseWaiter, mailVars
  <2>3. Held' = Held
    <3>1. CASE waiter[d] = NoReader
      <4>1. chan' = chan
        BY <2>1, <3>1, NullAssumption DEF ReleaseWaiter, IInv, TypeOK
      <4> QED BY <4>1 DEF Held
    <3>2. CASE waiter[d] # NoReader
      <4>1. waiter[d] \in Readers /\ chan[waiter[d]] = Nothing
        BY <2>1, <3>2 DEF ReleaseWaiter, IInv, TypeOK
      <4>2. Closed \in Slot /\ Closed \notin Held /\ Nothing \notin Held
        BY SlotFacts DEF Slot
      <4>3. Fill(chan, waiter[d], Closed, chan')
        BY <2>1, <4>1, <4>2, SlotFacts DEF ReleaseWaiter, Fill
      <4>4. Held' = (Held \ {chan[waiter[d]]}) \union ({Closed} \ {Nothing, Closed})
        BY <4>1, <4>2, <4>3, FillHeld
      <4> QED BY <4>1, <4>2, <4>4
    <3> QED BY <3>1, <3>2
  <2> QED BY <2>2, <2>3 DEF Still
<1>3. CASE \E d \in Links : Tell(d)
  BY <1>3, TellFlow
<1>4. CASE \E r \in Readers : Read(r)
  <2>1. PICK r \in Readers : Read(r)
    BY <1>4
  <2>2. phase[r] = "read" /\ on[r] \in Links /\ UNCHANGED <<sent, returned, lost>>
    BY <2>1 DEF Read, IInv, TypeOK
  <2>3. CASE Pop(r, on[r])
    BY <2>2, <2>3, PopFlow
  <2>4. CASE UNCHANGED <<mailbox, chan>>
    BY <2>2, <2>4 DEF Still, Held
  <2> QED BY <2>1, <2>3, <2>4 DEF Read, Block
<1>5. CASE \E r \in Readers : ReadAny(r)
  <2>1. PICK r \in Readers : ReadAny(r)
    BY <1>5
  <2>2. phase[r] = "readAny" /\ UNCHANGED <<sent, returned, lost>>
    BY <2>1 DEF ReadAny
  <2>3. CASE \E d \in Links : Pop(r, d)
    BY <2>2, <2>3, PopFlow
  <2>4. CASE UNCHANGED <<mailbox, chan>>
    BY <2>2, <2>4 DEF Still, Held
  <2> QED BY <2>1, <2>3, <2>4 DEF ReadAny, Inbox
<1>6. CASE \E r \in Readers : Wake(r) \/ Timeout(r) \/ Reply(r) \/ Hangup(r)
  <2>1. PICK r \in Readers : Wake(r) \/ Timeout(r) \/ Reply(r) \/ Hangup(r)
    BY <1>6
  <2>2. Still \/ Answered(chan[r]) \/ Dropped(chan[r])
    BY <2>1, EndFlow
  <2> QED BY <2>2 DEF Answered, Dropped
<1>7. CASE Restart
  <2>1. Held' = {}
    BY <1>7 DEF Restart, Held
  <2> QED BY <1>7, <2>1, RestartMailbox DEF Restart, Wiped
<1> QED BY <1>1, <1>2, <1>3, <1>4, <1>5, <1>6, <1>7 DEF Next

-----------------------------------------------------------------------------
(* The refinement.                                                         *)

\* The next message of a link is one that Courier allows and has not seen.
LEMMA NextMsgIsNew ==
  ASSUME IInv, NEW d \in Links, Tell(d)
  PROVE  NextMsg(d) \in LinkMsgs(d) /\ NextMsg(d) \notin Durable!Used
<1>1. /\ sent \in Nat /\ sent < MaxMsgs /\ seq[Key(d)] \in Nat /\ seq[Key(d)] <= sent
      /\ MaxMsgs \in Nat
  BY MailFacts, BoundAssumption DEF Tell, IInv, TypeOK, Counters
<1>2. NextMsg(d) \in LinkMsgs(d)
  BY <1>1 DEF NextMsg, LinkMsgs
<1>3. NextMsg(d) \notin HandedOut
      /\ \A e \in Links : NextMsg(d) \notin Range(mailbox[e])
  BY NextMsgFacts
<1>4. \A e \in Links : \A i \in 1..Len(mailbox[e]) : mailbox[e][i] \in Range(mailbox[e])
  BY MailFacts, RangeEntries
<1> QED BY <1>2, <1>3, <1>4 DEF Durable!Used, HandedOut

\* Every step is a step of the durable queue, or leaves it alone.
LEMMA StepRefines ==
  ASSUME IInv, [Next]_vars
  PROVE  [Durable!Next]_(Durable!vars)
<1>1. CASE Still
  BY <1>1 DEF Still, Durable!vars
<1>2. CASE \E d \in Links : Tell(d) /\ (Joins(d) \/ Overtakes(d))
  <2>1. PICK d \in Links : Tell(d) /\ (Joins(d) \/ Overtakes(d))
    BY <1>2
  <2>2. NextMsg(d) \in LinkMsgs(d) /\ NextMsg(d) \notin Durable!Used
    BY <2>1, NextMsgIsNew
  <2>3. CASE Joins(d)
    <3>1. Durable!Send(d)
      BY <2>2, <2>3 DEF Joins, Durable!Send
    <3> QED BY <3>1 DEF Durable!Next
  <2>4. CASE Overtakes(d)
    <3>1. Durable!Direct(d)
      BY <2>2, <2>4 DEF Overtakes, Durable!Direct
    <3> QED BY <3>1 DEF Durable!Next
  <2> QED BY <2>1, <2>3, <2>4
<1>3. CASE \E d \in Links : Leaves(d)
  <2>1. \E d \in Links : Durable!HandOut(d)
    BY <1>3 DEF Leaves, Durable!HandOut
  <2> QED BY <2>1 DEF Durable!Next
<1>4. CASE \E m \in Held : Answered(m) \/ Dropped(m)
  <2>1. \E m \in Held : Durable!Answer(m) \/ Durable!Drop(m)
    BY <1>4 DEF Answered, Dropped, Durable!Answer, Durable!Drop
  <2> QED BY <2>1 DEF Durable!Next
<1>5. CASE Wiped
  <2>1. Durable!Crash
    BY <1>5 DEF Wiped, Durable!Crash
  <2> QED BY <2>1 DEF Durable!Next
<1> QED BY <1>1, <1>2, <1>3, <1>4, <1>5, Flow

\* The channels implement the durable queue: nothing unread is lost by a
\* restart, order is kept, and a message is handed out once.
THEOREM Refinement == Spec => ImplementsCourier
<1>1. Init => Durable!Init
  <2> SUFFICES ASSUME Init PROVE Durable!Init
    OBVIOUS
  <2>1. Held = {}
    BY DEF Init, Held
  <2> QED BY <2>1 DEF Init, Durable!Init
<1>2. IInv /\ [Next]_vars => [Durable!Next]_(Durable!vars)
  BY StepRefines
<1> QED BY <1>1, <1>2, Invariance, PTL DEF Spec, ImplementsCourier, Durable!Spec

-----------------------------------------------------------------------------
(* Nothing vanishes.                                                       *)

\* All messages there are.
Everything == HandedOut \union UNION {Unread(d) : d \in Links}

\* A step forgets no message, and a tell adds the one it sends.
LEMMA EverythingGrows ==
  ASSUME IInv, [Next]_vars
  PROVE  /\ Everything \subseteq Everything'
         /\ sent' = sent \/ \E d \in Links : sent' = sent + 1 /\ NextMsg(d) \in Everything'
<1>0. mailbox \in [Links -> Seq(Msg)] /\ \A d \in Links : mailbox[d] \in Seq(Msg)
  BY DEF IInv, TypeOK
<1>1. CASE Still
  BY <1>1 DEF Still, Everything, HandedOut, Unread
<1>2. CASE \E d \in Links : Tell(d) /\ (Joins(d) \/ Overtakes(d))
  <2>1. PICK d \in Links : Tell(d) /\ (Joins(d) \/ Overtakes(d))
    BY <1>2
  <2>2. sent' = sent + 1
    BY <2>1, TellCounters
  <2>3. CASE Joins(d)
    <3>1. /\ HandedOut' = HandedOut
          /\ mailbox' = [mailbox EXCEPT ![d] = Append(@, NextMsg(d))]
      BY <2>3 DEF Joins, HandedOut
    <3>2. NextMsg(d) \in Msg
      BY NextMsgFacts
    <3>3. Range(Append(mailbox[d], NextMsg(d))) = Range(mailbox[d]) \union {NextMsg(d)}
      BY <1>0, <3>2, RangeAppend
    <3>4. /\ Unread(d)' = Unread(d) \union {NextMsg(d)}
          /\ \A e \in Links : e # d => Unread(e)' = Unread(e)
      BY <1>0, <3>1, <3>3 DEF Unread
    <3> QED BY <2>2, <3>1, <3>4 DEF Everything
  <2>4. CASE Overtakes(d)
    BY <2>2, <2>4 DEF Overtakes, Everything, HandedOut, Unread
  <2> QED BY <2>1, <2>3, <2>4
<1>3. CASE \E d \in Links : Leaves(d)
  <2>1. PICK d \in Links : Leaves(d)
    BY <1>3
  <2>2. /\ HandedOut' = HandedOut \union {Head(mailbox[d])}
        /\ mailbox' = [mailbox EXCEPT ![d] = Tail(@)] /\ mailbox[d] # << >>
        /\ sent' = sent
    BY <2>1 DEF Leaves, HandedOut
  <2>3. Range(mailbox[d]) = {Head(mailbox[d])} \union Range(Tail(mailbox[d]))
    BY <1>0, <2>2, RangeTail
  <2>4. /\ Unread(d) = {Head(mailbox[d])} \union Unread(d)'
        /\ \A e \in Links : e # d => Unread(e)' = Unread(e)
    BY <1>0, <2>2, <2>3 DEF Unread
  <2> QED BY <2>2, <2>4 DEF Everything
<1>4. CASE \E m \in Held : Answered(m) \/ Dropped(m)
  BY <1>4 DEF Answered, Dropped, Everything, HandedOut, Unread
<1>5. CASE Wiped
  BY <1>5 DEF Wiped, Everything, HandedOut, Unread
<1> QED BY <1>1, <1>2, <1>3, <1>4, <1>5, Flow

\* Every message ever sent is unread, held, answered, or was lost at a timeout,
\* a hang-up or a restart.
THEOREM NoSilentLoss == Spec => []NothingVanishes
<1>1. Init => NothingVanishes
  BY DEF Init, NothingVanishes
<1>2. ASSUME IInv, NothingVanishes, [Next]_vars PROVE NothingVanishes'
  <2>1. \A b \in 1..sent : \E m \in Everything : m.body = b
    BY <1>2 DEF NothingVanishes, Everything
  <2>2. Everything \subseteq Everything'
    BY <1>2, EverythingGrows
  <2>3. CASE sent' = sent
    BY <2>1, <2>2, <2>3 DEF NothingVanishes, Everything
  <2>4. CASE \E d \in Links : sent' = sent + 1 /\ NextMsg(d) \in Everything'
    <3>1. PICK d \in Links : sent' = sent + 1 /\ NextMsg(d) \in Everything'
      BY <2>4
    <3>2. NextMsg(d).body = sent + 1 /\ sent \in Nat
      BY <1>2, NextMsgFacts DEF IInv, TypeOK
    <3>3. \A b \in 1..sent' : b \in 1..sent \/ b = sent + 1
      BY <3>1, <3>2
    <3>4. \A b \in 1..sent' : \E m \in Everything' : m.body = b
      BY <2>1, <2>2, <3>1, <3>2, <3>3
    <3> QED BY <3>4 DEF NothingVanishes, Everything
  <2> QED BY <1>2, <2>3, <2>4, EverythingGrows
<1>3. IInv /\ NothingVanishes /\ [Next]_vars => NothingVanishes'
  BY <1>2
<1> QED BY <1>1, <1>3, Invariance, PTL DEF Spec
=============================================================================
