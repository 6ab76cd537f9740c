------------------------------ MODULE Channel ------------------------------
(***************************************************************************)
(* The two-party channels of the lalia daemon (channel.go) with the        *)
(* handlers of state.go that drive them: opTell, opRead and opReadAny, the *)
(* release of blocked reads by opUnregister, sweep and requestStop, and    *)
(* the replay of unread mail from SQLite when the daemon starts again.     *)
(*                                                                         *)
(* A link <<to, from>> is one direction of a channel: the mailbox of `to'  *)
(* on the channel with `from', which is also the (recipient, target) key   *)
(* of its rows in the SQLite table.  A reader is the goroutine of one      *)
(* connection that serves read and read-any requests of its owner.         *)
(*                                                                         *)
(* One action is one critical section of c.mu or, for read-any, of s.mu    *)
(* together with the c.mu it takes one by one: a tell that runs during the *)
(* scan is held up in deliverAny until the scan ends.  That nesting is     *)
(* itself a hazard and is the subject of module LockOrder.                 *)
(***************************************************************************)
EXTENDS Integers, Sequences, FiniteSets, Functions, FiniteSetsExt

CONSTANTS
  Agents,    \* registered names
  Links,     \* the directed pairs <<to, from>> that are in use
  Readers,   \* connection goroutines that serve reads
  Owner,     \* the agent each reader serves
  NoReader,  \* no entry in a waiter map
  Nothing,   \* a one-slot Go channel with nothing in it
  Closed,    \* waitResult{err, CodePeerClosed}
  MaxMsgs    \* bound: messages sent in a behaviour

\* A message of one link.  The body is a fresh stamp: it tells messages apart
\* and its order is the order of the row ids SQLite gives to their rows.
Msg == [link : Links, seq : Nat, body : Nat]

ASSUME LinksAssumption ==
  /\ Links \subseteq Agents \X Agents
  /\ \A d \in Links : d[1] # d[2]

ASSUME OwnerAssumption == Owner \in [Readers -> Agents]

ASSUME NullAssumption ==
  /\ NoReader \notin Readers
  /\ Nothing \notin Msg
  /\ Closed \notin Msg
  /\ Nothing # Closed

ASSUME BoundAssumption == MaxMsgs \in Nat

VARIABLES
  reg,        \* names in s.nameIdx
  stop,       \* requestStop: "run", "stopping", then "closed" (s.writes)
  channels,   \* keys of s.channels
  seq,        \* c.seq of each channel
  sent,       \* messages sent so far
  admitted,   \* links with a tell past opTell's checks, before c.tell
  mailbox,    \* c.mailbox[to], per link
  table,      \* the SQLite mailbox rows, per link
  waiter,     \* c.waiter[to], per link
  anyWaiter,  \* s.anyWaiter, per agent
  phase,      \* where each reader is in its request
  on,         \* the link a reader's request names
  chan,       \* the reader's one-slot Go channel, then the answer it holds
  toRelease,  \* links whose releaseWaiter call is still to come
  returned,   \* messages written to a client
  lost        \* messages handed to a reader that no client ever saw

vars == <<reg, stop, channels, seq, sent, admitted, mailbox, table, waiter,
          anyWaiter, phase, on, chan, toRelease, returned, lost>>

agentVars == <<reg, stop, toRelease>>
mailVars  == <<channels, seq, sent, admitted, mailbox, table>>

\* channelKey: the two directions of a pair share one channel.
Key(d) == {d[1], d[2]}

Keys == {Key(d) : d \in Links}

\* The mailboxes the scan of read-any looks at.
Inbox(a) == {d \in Links : d[1] = a /\ Key(d) \in channels}

-----------------------------------------------------------------------------
Init ==
  /\ reg = {}
  /\ stop = "run"
  /\ channels = {}
  /\ seq = [k \in Keys |-> 0]
  /\ sent = 0
  /\ admitted = {}
  /\ mailbox = [d \in Links |-> << >>]
  /\ table = [d \in Links |-> {}]
  /\ waiter = [d \in Links |-> NoReader]
  /\ anyWaiter = [a \in Agents |-> NoReader]
  /\ phase = [r \in Readers |-> "idle"]
  /\ on \in [Readers -> Links]
  /\ \A r \in Readers : on[r][1] = Owner[r]
  /\ chan = [r \in Readers |-> Nothing]
  /\ toRelease = {}
  /\ returned = {}
  /\ lost = {}

-----------------------------------------------------------------------------
(* Names come and go.                                                      *)

\* opRegister, as far as channels are concerned: the name is indexed.
Register(a) ==
  /\ stop # "closed"
  /\ a \notin reg
  /\ reg' = reg \union {a}
  /\ UNCHANGED <<stop, toRelease, mailVars, waiter, anyWaiter, phase, on,
                 chan, returned, lost>>

\* opUnregister up to the unlock of s.mu: the any-waiter entry is deleted and
\* nothing is sent to it; the channels to release are the ones that exist now.
Unregister(a) ==
  /\ stop # "closed"
  /\ a \in reg
  /\ reg' = reg \ {a}
  /\ anyWaiter' = [anyWaiter EXCEPT ![a] = NoReader]
  /\ toRelease' = toRelease \union Inbox(a)
  /\ UNCHANGED <<stop, mailVars, waiter, phase, on, chan, returned, lost>>

\* sweep up to the unlock of s.mu, for the set of agents whose lease is over.
\* It leaves s.anyWaiter alone.
Sweep(expired) ==
  /\ stop = "run"
  /\ expired # {}
  /\ expired \subseteq reg
  /\ reg' = reg \ expired
  /\ toRelease' = toRelease \union UNION {Inbox(a) : a \in expired}
  /\ UNCHANGED <<stop, mailVars, waiter, anyWaiter, phase, on, chan,
                 returned, lost>>

\* requestStop up to the loop over the channels.
RequestStop ==
  /\ stop = "run"
  /\ stop' = "stopping"
  /\ toRelease' = toRelease \union {d \in Links : Key(d) \in channels}
  /\ UNCHANGED <<reg, mailVars, waiter, anyWaiter, phase, on, chan, returned,
                 lost>>

\* Mutant: the entry goes, nothing is sent.
ReleaseInSilence(d) ==
  /\ d \in toRelease
  /\ waiter' = [waiter EXCEPT ![d] = NoReader]
  /\ toRelease' = toRelease \ {d}
  /\ UNCHANGED <<reg, stop, mailVars, anyWaiter, phase, on, chan, returned,
                 lost>>

\* releaseWaiter, and the body of requestStop's loop: the blocked read, if
\* there is one, is sent peer_closed.  The send waits for room in the slot.
ReleaseWaiter(d) ==
  /\ d \in toRelease
  /\ waiter[d] # NoReader => chan[waiter[d]] = Nothing
  /\ chan' = [r \in Readers |-> IF r = waiter[d] THEN Closed ELSE chan[r]]
  /\ waiter' = [waiter EXCEPT ![d] = NoReader]
  /\ toRelease' = toRelease \ {d}
  /\ UNCHANGED <<reg, stop, mailVars, anyWaiter, phase, on, returned, lost>>

\* The close(s.writes) that ends requestStop.  From here on every request that
\* carries an identity sends on a closed Go channel in renewLease and takes
\* the daemon down: that is a Restart.
CloseWrites ==
  /\ stop = "stopping"
  /\ toRelease = {}
  /\ stop' = "closed"
  /\ UNCHANGED <<reg, toRelease, mailVars, waiter, anyWaiter, phase, on, chan,
                 returned, lost>>

-----------------------------------------------------------------------------
(* tell.                                                                   *)

\* dispatch and opTell: both names are looked up under s.mu, then it is freed.
TellAdmit(d) ==
  /\ stop # "closed"
  /\ d[1] \in reg
  /\ d[2] \in reg
  /\ d \notin admitted
  /\ admitted' = admitted \union {d}
  /\ UNCHANGED <<agentVars, channels, seq, sent, mailbox, table, waiter,
                 anyWaiter, phase, on, chan, returned, lost>>

\* The message c.tell makes out of the next sequence number of the channel.
NextMsg(d) == [link |-> d, seq |-> seq[Key(d)] + 1, body |-> sent + 1]

\* Mutant: the blocked read's entry is dropped before the send.
HandToNobody(d, m) ==
  /\ waiter[d] # NoReader
  /\ waiter' = [waiter EXCEPT ![d] = NoReader]
  /\ UNCHANGED <<anyWaiter, mailbox, table, chan>>

\* The message goes into the slot of the blocked read.
HandToRead(d, m) ==
  /\ waiter[d] # NoReader
  /\ chan[waiter[d]] = Nothing
  /\ chan' = [chan EXCEPT ![waiter[d]] = m]
  /\ waiter' = [waiter EXCEPT ![d] = NoReader]
  /\ UNCHANGED <<anyWaiter, mailbox, table>>

\* deliverAny: it goes into the slot of the blocked read-any.
HandToReadAny(d, m) ==
  /\ waiter[d] = NoReader
  /\ anyWaiter[d[1]] # NoReader
  /\ chan[anyWaiter[d[1]]] = Nothing
  /\ chan' = [chan EXCEPT ![anyWaiter[d[1]]] = m]
  /\ anyWaiter' = [anyWaiter EXCEPT ![d[1]] = NoReader]
  /\ UNCHANGED <<waiter, mailbox, table>>

\* Mutant: the waiter map is not looked at.
StoreFirst(d, m) ==
  /\ anyWaiter[d[1]] = NoReader
  /\ mailbox' = [mailbox EXCEPT ![d] = Append(@, m)]
  /\ table' = [table EXCEPT ![d] = @ \union {m}]
  /\ UNCHANGED <<waiter, anyWaiter, chan>>

\* Mutant: mailboxAppend is left out.
StoreInMemory(d, m) ==
  /\ waiter[d] = NoReader
  /\ anyWaiter[d[1]] = NoReader
  /\ mailbox' = [mailbox EXCEPT ![d] = Append(@, m)]
  /\ UNCHANGED <<waiter, anyWaiter, chan, table>>

\* It joins the mailbox and, as a row, the table.
Store(d, m) ==
  /\ waiter[d] = NoReader
  /\ anyWaiter[d[1]] = NoReader
  /\ mailbox' = [mailbox EXCEPT ![d] = Append(@, m)]
  /\ table' = [table EXCEPT ![d] = @ \union {m}]
  /\ UNCHANGED <<waiter, anyWaiter, chan>>

\* getOrCreateChannel and c.tell.  Another tell admitted on the same link may
\* still be on its way.
Tell(d) ==
  /\ stop # "closed"
  /\ d \in admitted
  /\ sent < MaxMsgs
  /\ channels' = channels \union {Key(d)}
  /\ seq' = [seq EXCEPT ![Key(d)] = @ + 1]
  /\ sent' = sent + 1
  /\ \/ HandToRead(d, NextMsg(d))
     \/ HandToReadAny(d, NextMsg(d))
     \/ Store(d, NextMsg(d))
  /\ admitted' \in {admitted, admitted \ {d}}
  /\ UNCHANGED <<agentVars, phase, on, returned, lost>>

-----------------------------------------------------------------------------
(* read and read-any.                                                      *)

\* dispatch and opRead: caller and peer are looked up under s.mu.
ReadAdmit(r, d) ==
  /\ stop # "closed"
  /\ phase[r] = "idle"
  /\ Owner[r] = d[1]
  /\ d[1] \in reg
  /\ d[2] \in reg
  /\ phase' = [phase EXCEPT ![r] = "read"]
  /\ on' = [on EXCEPT ![r] = d]
  /\ UNCHANGED <<agentVars, mailVars, waiter, anyWaiter, chan, returned, lost>>

\* dispatch for read-any: only the caller is looked up.
ReadAnyAdmit(r) ==
  /\ stop # "closed"
  /\ phase[r] = "idle"
  /\ Owner[r] \in reg
  /\ phase' = [phase EXCEPT ![r] = "readAny"]
  /\ UNCHANGED <<agentVars, mailVars, waiter, anyWaiter, on, chan, returned,
                 lost>>

\* Mutant: the row stays.
DeleteNone(d, n) == table[d]

\* mailboxDeleteOne: every row of the link with this sequence number goes.
DeleteOne(d, n) == {m \in table[d] : m.seq # n}

\* The oldest unread message leaves the mailbox and the table.
Pop(r, d) ==
  /\ mailbox[d] # << >>
  /\ chan' = [chan EXCEPT ![r] = Head(mailbox[d])]
  /\ table' = [table EXCEPT ![d] = DeleteOne(d, Head(mailbox[d]).seq)]
  /\ mailbox' = [mailbox EXCEPT ![d] = Tail(@)]
  /\ phase' = [phase EXCEPT ![r] = "reply"]
  /\ UNCHANGED <<waiter, anyWaiter>>

\* Mutant: the reader blocks without a look at its mailbox.
BlockAtOnce(r, d) ==
  /\ waiter' = [waiter EXCEPT ![d] = r]
  /\ phase' = [phase EXCEPT ![r] = "wait"]
  /\ UNCHANGED <<mailbox, table, anyWaiter, chan>>

\* The reader becomes the waiter of the link, in the place of any other.
Block(r, d) ==
  /\ mailbox[d] = << >>
  /\ waiter' = [waiter EXCEPT ![d] = r]
  /\ phase' = [phase EXCEPT ![r] = "wait"]
  /\ UNCHANGED <<mailbox, table, anyWaiter, chan>>

\* c.read: the oldest message, or nothing when timeout is 0, or it blocks.
Read(r) ==
  /\ phase[r] = "read"
  /\ channels' = channels \union {Key(on[r])}
  /\ \/ Pop(r, on[r])
     \/ /\ mailbox[on[r]] = << >>
        /\ phase' = [phase EXCEPT ![r] = "idle"]
        /\ UNCHANGED <<mailbox, table, waiter, anyWaiter, chan>>
     \/ Block(r, on[r])
  /\ UNCHANGED <<agentVars, seq, sent, admitted, on, returned, lost>>

\* Mutant: the scan ends at the first channel.
AnyMailboxEmpty(a) == \E d \in Inbox(a) : mailbox[d] = << >>

\* The scan of read-any ends with nothing found.
InboxEmpty(a) == \A d \in Inbox(a) : mailbox[d] = << >>

\* opReadAny: the oldest message of some channel (Go visits the map in any
\* order), or read_any_already_pending, or the reader is the any-waiter.
ReadAny(r) ==
  /\ phase[r] = "readAny"
  /\ \/ \E d \in Inbox(Owner[r]) : Pop(r, d)
     \/ /\ InboxEmpty(Owner[r])
        /\ anyWaiter[Owner[r]] # NoReader
        /\ phase' = [phase EXCEPT ![r] = "idle"]
        /\ UNCHANGED <<mailbox, table, waiter, anyWaiter, chan>>
     \/ /\ InboxEmpty(Owner[r])
        /\ anyWaiter[Owner[r]] = NoReader
        /\ anyWaiter' = [anyWaiter EXCEPT ![Owner[r]] = r]
        /\ phase' = [phase EXCEPT ![r] = "waitAny"]
        /\ UNCHANGED <<mailbox, table, waiter, chan>>
  /\ UNCHANGED <<agentVars, channels, seq, sent, admitted, on, returned, lost>>

Waiting(r) == phase[r] \in {"wait", "waitAny"}

\* Mutant: the err field of the result is not looked at.
WakeBlindly(r) ==
  /\ Waiting(r)
  /\ chan[r] # Nothing
  /\ phase' = [phase EXCEPT ![r] = "reply"]
  /\ UNCHANGED <<agentVars, mailVars, waiter, anyWaiter, on, chan, returned,
                 lost>>

\* The receive branch of the select in read and opReadAny.
Wake(r) ==
  /\ Waiting(r)
  /\ \/ /\ chan[r] = Closed
        /\ phase' = [phase EXCEPT ![r] = "idle"]
        /\ chan' = [chan EXCEPT ![r] = Nothing]
     \/ /\ chan[r] \in Msg
        /\ phase' = [phase EXCEPT ![r] = "reply"]
        /\ UNCHANGED chan
  /\ UNCHANGED <<agentVars, mailVars, waiter, anyWaiter, on, returned, lost>>

\* Mutant: the timer branch leaves the waiter maps alone.
LeaveEntry(r) ==
  /\ Waiting(r)
  /\ UNCHANGED <<waiter, anyWaiter>>

\* The entry of the link (of the agent) is deleted, whoever it belongs to.
DeleteEntry(r) ==
  \/ /\ phase[r] = "wait"
     /\ waiter' = [waiter EXCEPT ![on[r]] = NoReader]
     /\ UNCHANGED anyWaiter
  \/ /\ phase[r] = "waitAny"
     /\ anyWaiter' = [anyWaiter EXCEPT ![Owner[r]] = NoReader]
     /\ UNCHANGED waiter

\* The timer branch: Go picks either branch when both are ready, and a send
\* may still come in before the mutex is taken.
Timeout(r) ==
  /\ Waiting(r)
  /\ DeleteEntry(r)
  /\ phase' = [phase EXCEPT ![r] = "idle"]
  /\ chan' = [chan EXCEPT ![r] = Nothing]
  /\ lost' = lost \union ({chan[r]} \ {Nothing, Closed})
  /\ UNCHANGED <<agentVars, mailVars, on, returned>>

\* writeResp: the answer reaches the client.
Reply(r) ==
  /\ phase[r] = "reply"
  /\ phase' = [phase EXCEPT ![r] = "idle"]
  /\ chan' = [chan EXCEPT ![r] = Nothing]
  /\ returned' = returned \union {chan[r]}
  /\ UNCHANGED <<agentVars, mailVars, waiter, anyWaiter, on, lost>>

\* writeResp on a connection the client has left: the error is ignored.
Hangup(r) ==
  /\ phase[r] = "reply"
  /\ phase' = [phase EXCEPT ![r] = "idle"]
  /\ chan' = [chan EXCEPT ![r] = Nothing]
  /\ lost' = lost \union {chan[r]}
  /\ UNCHANGED <<agentVars, mailVars, waiter, anyWaiter, on, returned>>

-----------------------------------------------------------------------------
(* The daemon goes down at any point and is started again.                 *)

\* SELECT ... ORDER BY id: a row's place is the number of rows up to its own.
Rank(rows, m) == Cardinality({x \in rows : x.body <= m.body})

Listing(rows) ==
  [i \in 1..Cardinality(rows) |-> CHOOSE m \in rows : Rank(rows, m) = i]

\* The unread rows of both directions of a channel.
RowsOf(k) == UNION {table[d] : d \in {e \in Links : Key(e) = k}}

\* replayMailbox puts c.seq at the highest sequence number it meets.
ReplayedSeq(k) == Max({0} \union {m.seq : m \in RowsOf(k)})

\* The messages readers hold: in a slot, or as an answer not yet written.
Held == {chan[r] : r \in Readers} \ {Nothing, Closed}

\* Memory is lost and newState runs: replayMailbox fills the mailboxes from
\* the table.  Which names are registered is up to the registry files.
Restart ==
  /\ reg' \in SUBSET Agents
  /\ stop' = "run"
  /\ channels' = {k \in Keys : RowsOf(k) # {}}
  /\ seq' = [k \in Keys |-> ReplayedSeq(k)]
  /\ admitted' = {}
  /\ mailbox' = [d \in Links |-> Listing(table[d])]
  /\ waiter' = [d \in Links |-> NoReader]
  /\ anyWaiter' = [a \in Agents |-> NoReader]
  /\ phase' = [r \in Readers |-> "idle"]
  /\ chan' = [r \in Readers |-> Nothing]
  /\ toRelease' = {}
  /\ lost' = lost \union Held
  /\ UNCHANGED <<sent, table, on, returned>>

-----------------------------------------------------------------------------
Next ==
  \/ \E a \in Agents : Register(a) \/ Unregister(a)
  \/ \E expired \in SUBSET Agents : Sweep(expired)
  \/ RequestStop
  \/ CloseWrites
  \/ \E d \in Links : ReleaseWaiter(d) \/ TellAdmit(d) \/ Tell(d)
  \/ \E r \in Readers : \E d \in Links : ReadAdmit(r, d)
  \/ \E r \in Readers :
       ReadAnyAdmit(r) \/ Read(r) \/ ReadAny(r) \/ Wake(r) \/ Timeout(r)
         \/ Reply(r) \/ Hangup(r)
  \/ Restart

Spec == Init /\ [][Next]_vars

\* A goroutine that can run is run: the loops over releaseWaiter go on and a
\* reader whose slot is filled wakes up and answers.  Nothing is assumed of
\* clients, nor of timers: a read may ask for a timeout of any length.
Fairness ==
  /\ \A d \in Links : WF_vars(ReleaseWaiter(d))
  /\ \A r \in Readers : WF_vars(Wake(r)) /\ WF_vars(Reply(r))

FairSpec == Spec /\ Fairness

-----------------------------------------------------------------------------
(* Properties.                                                             *)

Phases == {"idle", "read", "readAny", "wait", "waitAny", "reply"}

\* Type invariant of the state kept by State, Channel and the mailbox table.
TypeOK ==
  /\ reg \subseteq Agents
  /\ stop \in {"run", "stopping", "closed"}
  /\ channels \subseteq Keys
  /\ seq \in [Keys -> Nat]
  /\ sent \in Nat
  /\ admitted \subseteq Links
  /\ mailbox \in [Links -> Seq(Msg)]
  /\ table \in [Links -> SUBSET Msg]
  /\ waiter \in [Links -> Readers \union {NoReader}]
  /\ anyWaiter \in [Agents -> Readers \union {NoReader}]
  /\ phase \in [Readers -> Phases]
  /\ on \in [Readers -> Links]
  /\ chan \in [Readers -> Msg \union {Nothing, Closed}]
  /\ toRelease \subseteq Links
  /\ returned \subseteq Msg
  /\ lost \subseteq Msg

\* The messages of link d that no reader has been given.
Unread(d) == Range(mailbox[d])

\* Messages that left their mailbox, or never were in one.
HandedOut == Held \union returned \union lost

\* Oldest first, by sequence number and by row.
Increasing(q) ==
  \A i, j \in 1..Len(q) : i < j =>
    q[i].seq < q[j].seq /\ q[i].body < q[j].body

\* The table holds exactly the unread messages, and every mailbox lists its
\* messages in the order of their sequence numbers and of their rows: what
\* tell, read and read-any do to the one they do to the other, whatever a
\* restart made of the sequence numbers in between.
UnreadIsDurable ==
  \A d \in Links : table[d] = Unread(d) /\ Increasing(mailbox[d])

\* A message is in one place: one that was handed out is neither unread in
\* memory nor in the table (replay would deliver it twice), no two readers
\* hold the same message, and an answered one is held by none.
AtMostOnce ==
  /\ \A d \in Links : (Unread(d) \union table[d]) \intersect HandedOut = {}
  /\ Held \intersect (returned \union lost) = {}
  /\ returned \intersect lost = {}
  /\ \A r, q \in Readers : chan[r] \in Msg /\ chan[r] = chan[q] => r = q

\* Every message ever sent is unread, held by a reader, answered, or lost at
\* one of the steps that say so (timeout, hang-up, restart).
NothingVanishes ==
  \A b \in 1..sent :
    \E m \in HandedOut \union UNION {Unread(d) : d \in Links} : m.body = b

\* Messages of a link are handed out in the order they were sent: whatever is
\* unread is younger than all that was handed out, whether by a read, a
\* read-any or a tell that met a blocked reader.
InOrder ==
  \A d \in Links : \A m \in Unread(d) : \A x \in HandedOut :
    x.link = d => x.body < m.body

\* "Returns immediately; never blocks": the slot tell or releaseWaiter is
\* about to fill (with the channel's mutex held) is empty, and is that of a
\* reader that is still in its select.
SendNeverBlocks ==
  /\ \A d \in Links : waiter[d] # NoReader =>
       chan[waiter[d]] = Nothing /\ phase[waiter[d]] = "wait"
  /\ \A a \in Agents : anyWaiter[a] # NoReader =>
       chan[anyWaiter[a]] = Nothing /\ phase[anyWaiter[a]] = "waitAny"

\* A read that is blocked on a link, with no result on its way, has no mail to
\* wait for.
NoSleepOnMail ==
  \A r \in Readers : phase[r] = "wait" /\ chan[r] = Nothing =>
    mailbox[on[r]] = << >>

\* A read-any that is on record as blocked has no mail in any channel of its
\* agent.
NoSleepOnAnyMail ==
  \A a \in Agents : anyWaiter[a] # NoReader =>
    \A d \in Links : d[1] = a => mailbox[d] = << >>

\* A blocked read whose release is due comes back without its timer: this is
\* what unregister, lease expiry and a stop promise to the agent's own reads.
ReleaseEndsRead ==
  \A d \in Links : \A r \in Readers :
    (d \in toRelease /\ waiter[d] = r) ~> phase[r] = "idle"

\* The channels implement the durable queue of module Courier: a mailbox is
\* the queue, a restart leaves all queues as they are.
LinkMsgs(d) == [link : {d}, seq : 1..MaxMsgs, body : 1..MaxMsgs]

Durable == INSTANCE Courier WITH
  Links <- Links, Items <- LinkMsgs, queue <- mailbox, hand <- Held,
  done <- returned, gone <- lost

ImplementsCourier == Durable!Spec

-----------------------------------------------------------------------------
(* What makes the safety properties inductive.                             *)

\* A slot is empty outside the select, and an answer is a message.
Slots ==
  \A r \in Readers :
    /\ phase[r] \in {"idle", "read", "readAny"} => chan[r] = Nothing
    /\ phase[r] = "reply" => chan[r] \in Msg

\* Stamps and numbers of the past are not above the counters that give out the
\* next ones; the rows of a channel that has mail belong to a channel that
\* exists.
Counters ==
  /\ sent <= MaxMsgs
  /\ \A k \in Keys : seq[k] <= sent
  /\ \A d \in Links : \A m \in Unread(d) :
       /\ m.link = d
       /\ m.seq <= seq[Key(d)]
       /\ m.body <= sent
       /\ Key(d) \in channels
  /\ \A x \in HandedOut : x.body <= sent

\* An entry of a waiter map is a reader that is blocked where the map says,
\* on a mailbox with nothing in it.
Waiters ==
  /\ \A d \in Links : waiter[d] # NoReader =>
       on[waiter[d]] = d /\ mailbox[d] = << >>
  /\ \A a \in Agents : anyWaiter[a] # NoReader => Owner[anyWaiter[a]] = a

IInv ==
  /\ TypeOK
  /\ Slots
  /\ Counters
  /\ Waiters
  /\ SendNeverBlocks
  /\ NoSleepOnAnyMail
  /\ UnreadIsDurable
  /\ AtMostOnce
  /\ InOrder

\* With one reader per agent, a blocked read is the waiter of its link.
OneReaderPerAgent == \A r, q \in Readers : Owner[r] = Owner[q] => r = q

BlockedIsWaiter ==
  \A r \in Readers :
    /\ on[r][1] = Owner[r]
    /\ phase[r] = "wait" /\ chan[r] = Nothing => waiter[on[r]] = r
=============================================================================
