-------------------------------- MODULE Room --------------------------------
(***************************************************************************)
(* One room of the lalia daemon (room.go), in memory and in SQLite: post,  *)
(* read and read-any, join and leave, the eviction of members by           *)
(* unregister and sweep, and what the task handlers of task.go do to their *)
(* rooms (ensureRoomWithMembers, internalPost, archiveRoom, reassign and   *)
(* handoff).  loadRooms and replayMailbox rebuild the room at a restart.   *)
(*                                                                         *)
(* One action is one critical section of r.mu, or of s.mu for read-any.    *)
(* What a handler still does after it unlocked r.mu (its SQLite statements *)
(* about members, its enqueueWrite) is a job: a sequence of steps that are *)
(* taken one by one, between those of other handlers, or never if the      *)
(* daemon goes down.                                                       *)
(***************************************************************************)
EXTENDS Integers, Sequences, FiniteSets, Functions, FiniteSetsExt

CONSTANTS
  Agents,        \* names
  Readers,       \* connection goroutines that serve reads
  Owner,         \* the agent each reader serves
  Leavers,       \* agents that may leave, unregister or expire
  Tasks,         \* whether the room belongs to a task as well
  Founded,       \* whether the room is there from the start
  Founder,       \* and who created it then
  NoReader,      \* no entry in a waiter map
  Nothing,       \* a one-slot Go channel with nothing in it
  MaxMembers,    \* roomMaxMembers
  MailboxLimit,  \* roomMailboxLimit
  MaxMsgs,       \* bound: messages sent in a behaviour
  MaxJobs        \* bound: handlers past their critical section

\* A message; the body is a fresh stamp and gives the order of the row ids.
Msg == [seq : Nat, from : Agents, body : Nat]

ASSUME OwnerAssumption == Owner \in [Readers -> Agents]

ASSUME LeaverAssumption ==
  /\ Leavers \subseteq Agents
  /\ Founder \in Agents
  /\ Tasks \in BOOLEAN
  /\ Founded \in BOOLEAN

ASSUME RoomNullAssumption == NoReader \notin Readers /\ Nothing \notin Msg

ASSUME LimitAssumption ==
  /\ MaxMembers \in Nat \ {0}
  /\ MailboxLimit \in Nat \ {0}
  /\ MaxMsgs \in Nat
  /\ MaxJobs \in Nat

VARIABLES
  exists,     \* the room is in s.rooms
  archived,   \* r.Archived
  seq,        \* r.seq
  members,    \* r.members
  mailbox,    \* r.mailbox, per agent
  dropped,    \* r.dropped, per agent
  waiter,     \* r.waiter, per agent
  anyWaiter,  \* s.anyWaiter, per agent
  row,        \* the room's row in mailbox_rooms
  rowArchived,\* its archived column
  memberRows, \* mailbox_room_members
  table,      \* the room's rows in mailbox, per recipient
  dropRows,   \* mailbox_dropped, per recipient
  journal,    \* the room's messages in the order of enqueueWrite
  jobs,       \* what handlers have still to do
  phase,      \* where each reader is
  slot,       \* the reader's one-slot Go channel
  sent,       \* messages sent so far
  due,        \* how many messages were addressed to each agent
  handed,     \* messages taken out of the room for each agent
  told,       \* drops each agent was told of
  bundles,    \* messages of internalPost
  orphans,    \* agents whose mail a restart found without the room's row
  strays      \* agents whose mail a restart found without their membership

memVars  == <<exists, archived, seq, members>>
boxVars  == <<mailbox, dropped, table, dropRows>>
dbVars   == <<row, rowArchived, memberRows>>
waitVars == <<waiter, anyWaiter, phase, slot>>
logVars  == <<sent, due, handed, told, bundles, orphans, strays>>

vars == <<memVars, boxVars, dbVars, waitVars, logVars, journal, jobs>>

-----------------------------------------------------------------------------
Init ==
  /\ exists = Founded
  /\ archived = FALSE
  /\ seq = 0
  /\ members = {a \in {Founder} : Founded}
  /\ mailbox = [a \in Agents |-> << >>]
  /\ dropped = [a \in Agents |-> 0]
  /\ waiter = [a \in Agents |-> NoReader]
  /\ anyWaiter = [a \in Agents |-> NoReader]
  /\ row = Founded
  /\ rowArchived = FALSE
  /\ memberRows = {a \in {Founder} : Founded}
  /\ table = [a \in Agents |-> {}]
  /\ dropRows = [a \in Agents |-> 0]
  /\ journal = << >>
  /\ jobs = {}
  /\ phase = [r \in Readers |-> "idle"]
  /\ slot = [r \in Readers |-> Nothing]
  /\ sent = 0
  /\ due = [a \in Agents |-> 0]
  /\ handed = [a \in Agents |-> {}]
  /\ told = [a \in Agents |-> 0]
  /\ bundles = {}
  /\ orphans = {}
  /\ strays = {}

-----------------------------------------------------------------------------
(* Jobs.                                                                   *)

\* The handler goes on after r.mu.
Later(job) ==
  /\ Cardinality(jobs) < MaxJobs
  /\ jobs' = jobs \union ({job} \ {<< >>})

\* It takes the first step of its job, and rest is left.
GoOn(job, rest) == jobs' = (jobs \ {job}) \union ({rest} \ {<< >>})

\* roomUpsert; roomAddMember, for one name or, when ensureRoomWithMembers made
\* the room, for all that are members by now; roomRemoveMember.
StoreMembers(step) ==
  \/ step[1] = "room" /\ row' = TRUE /\ UNCHANGED memberRows
  \/ step[1] = "add" /\ memberRows' = memberRows \union {step[2]} /\ UNCHANGED row
  \/ step[1] = "addAll" /\ memberRows' = memberRows \union members /\ UNCHANGED row
  \/ step[1] = "remove" /\ memberRows' = memberRows \ {step[2]} /\ UNCHANGED row

\* An SQLite statement about the room.
Store(job) ==
  /\ \/ StoreMembers(Head(job)) /\ UNCHANGED rowArchived
     \/ /\ Head(job)[1] = "archive"
        /\ rowArchived' = (row /\ Head(job)[2])
        /\ UNCHANGED <<row, memberRows>>
  /\ GoOn(job, Tail(job))
  /\ UNCHANGED <<memVars, boxVars, waitVars, logVars, journal>>

\* The enqueueWrite of a message.
EnqueueWrite(job) ==
  /\ Head(job)[1] = "write"
  /\ journal' = Append(journal, Head(job)[2])
  /\ GoOn(job, Tail(job))
  /\ UNCHANGED <<memVars, boxVars, dbVars, waitVars, logVars>>

-----------------------------------------------------------------------------
(* Membership.                                                             *)

\* newRoom in s.rooms, with these members.
NewRoom(who) ==
  /\ ~exists
  /\ exists' = TRUE
  /\ members' = who
  /\ UNCHANGED <<archived, seq, boxVars, dbVars, waitVars, logVars, journal>>

\* opRoomCreate.
RoomCreate(a) ==
  /\ NewRoom({a})
  /\ Later(<< <<"room">>, <<"add", a>> >>)

\* len(r.members) < roomMaxMembers
HasRoom == Cardinality(members) < MaxMembers

\* r.members[...] = true, and what follows.
Admit(who, job) ==
  /\ exists
  /\ members' = members \union who
  /\ Later(job)
  /\ UNCHANGED <<exists, archived, seq, boxVars, dbVars, waitVars, logVars,
                 journal>>

\* opJoin.
Join(a) ==
  /\ a \notin members
  /\ HasRoom
  /\ Admit({a}, << <<"add", a>> >>)

\* delete(r.members, ...), delete(r.mailbox, ...), ...: a blocked read is not
\* told, and the rows stay.
Remove(a) ==
  /\ exists
  /\ a \in Leavers
  /\ a \in members
  /\ members' = members \ {a}
  /\ mailbox' = [mailbox EXCEPT ![a] = << >>]
  /\ dropped' = [dropped EXCEPT ![a] = 0]
  /\ waiter' = [waiter EXCEPT ![a] = NoReader]
  /\ UNCHANGED <<exists, archived, seq, table, dropRows, dbVars, anyWaiter,
                 phase, slot, logVars, journal>>

\* opLeave.
Leave(a) ==
  /\ Remove(a)
  /\ Later(<< <<"remove", a>> >>)

\* removeMembers, as unregister and sweep call it.
RemoveMembers(a) ==
  /\ Remove(a)
  /\ UNCHANGED jobs

-----------------------------------------------------------------------------
(* The room of a task.                                                     *)

\* One roomAddMember per new member.
AddStep(a)  == IF a \in members THEN << >> ELSE << <<"add", a>> >>
AddSteps(a) == AddStep(Founder) \o AddStep(a)

\* ensureRoomWithMembers for the supervisor and `a', then the rest of the task
\* handler: it makes the room if need be, and looks at no limit.
EnsureRoomWithMembers(a, rest) ==
  /\ Tasks
  /\ \/ /\ NewRoom({Founder, a})
        /\ Later(<< <<"room">>, <<"addAll">> >> \o rest)
     \/ Admit({Founder, a}, AddSteps(a) \o rest)

\* opTaskPublish, per slug: the room is opened and the bundle posted.
TaskPublish == EnsureRoomWithMembers(Founder, << <<"open">>, <<"bundle">> >>)

\* opTaskClaim.
TaskClaim(a) == EnsureRoomWithMembers(a, << >>)

\* opTaskReassign: the room loses the old owner in the end.
TaskReassign(old, new) ==
  /\ old # new
  /\ EnsureRoomWithMembers(new, << <<"drop", old>> >>)

DropMember(job) ==
  /\ Head(job)[1] = "drop"
  /\ members' = members \ {Head(job)[2]}
  /\ GoOn(job, Tail(job))
  /\ UNCHANGED <<exists, archived, seq, boxVars, dbVars, waitVars, logVars,
                 journal>>

\* opTaskHandoff: members in memory only.
TaskHandoff(old, new) ==
  /\ Tasks
  /\ exists
  /\ old # new
  /\ members' = (members \union {new}) \ {old}
  /\ UNCHANGED <<exists, archived, seq, boxVars, dbVars, waitVars, logVars,
                 journal, jobs>>

\* archiveRoom, for opRoomsGC and opTaskUnpublish.
ArchiveRoom ==
  /\ Tasks
  /\ exists
  /\ ~archived
  /\ archived' = TRUE
  /\ Later(<< <<"archive", TRUE>> >>)
  /\ UNCHANGED <<exists, seq, members, boxVars, dbVars, waitVars, logVars,
                 journal>>

\* unarchiveRoom.
UnarchiveRoom(job) ==
  /\ Head(job)[1] = "open"
  /\ archived' = FALSE
  /\ GoOn(job, (IF archived THEN << <<"archive", FALSE>> >> ELSE << >>) \o Tail(job))
  /\ UNCHANGED <<exists, seq, members, boxVars, dbVars, waitVars, logVars,
                 journal>>

-----------------------------------------------------------------------------
(* post.                                                                   *)

\* Mutant: the post forgets the blocked reads.
ToNoRead(f) == {}

\* Members the message goes to, and those of them it reaches by way of a
\* blocked read, a blocked read-any, or their mailbox.
To(f)      == members \ {f}
ToRead(f)  == {a \in To(f) : waiter[a] # NoReader}
ToAny(f)   == {a \in To(f) : waiter[a] = NoReader /\ anyWaiter[a] # NoReader}
ToBox(f)   == To(f) \ (ToRead(f) \union ToAny(f))

NextMsg(f) == [seq |-> seq + 1, from |-> f, body |-> sent + 1]

\* len(q) >= roomMailboxLimit
Full(a) == Len(mailbox[a]) >= MailboxLimit

\* Mutant: the oldest stays.
PushedOnTop(a, m) == Append(mailbox[a], m)

\* The mailbox after the message: the oldest makes way if it is full.
Pushed(a, m) == Append(IF Full(a) THEN Tail(mailbox[a]) ELSE mailbox[a], m)

\* The blocked readers, whose slots are filled and whose entries go.
Woken(f) == {waiter[a] : a \in ToRead(f)} \union {anyWaiter[a] : a \in ToAny(f)}

\* What opPost and internalPost have in common.
Deliver(f, m) ==
  /\ exists
  /\ sent < MaxMsgs
  /\ \A r \in Woken(f) : slot[r] = Nothing
  /\ sent' = sent + 1
  /\ seq' = seq + 1
  /\ slot' = [r \in Readers |-> IF r \in Woken(f) THEN m ELSE slot[r]]
  /\ waiter' = [a \in Agents |-> IF a \in ToRead(f) THEN NoReader ELSE waiter[a]]
  /\ anyWaiter' =
       [a \in Agents |-> IF a \in ToAny(f) THEN NoReader ELSE anyWaiter[a]]
  /\ mailbox' = [a \in Agents |-> IF a \in ToBox(f) THEN Pushed(a, m) ELSE mailbox[a]]
  /\ dropped' = [a \in Agents |->
       IF a \in ToBox(f) /\ Full(a) THEN dropped[a] + 1 ELSE dropped[a]]
  /\ due' = [a \in Agents |-> IF a \in To(f) THEN due[a] + 1 ELSE due[a]]
  /\ handed' = [a \in Agents |->
       IF a \in ToRead(f) \union ToAny(f) THEN handed[a] \union {m} ELSE handed[a]]
  /\ UNCHANGED <<exists, archived, members, dbVars, phase, told, orphans, strays,
                 journal>>

\* Mutant: the row stays.
DeleteNone(a, n) == table[a]

\* mailboxDeleteOne, and the DELETE of mailboxDropOldest.
DeleteOne(a, n) == {m \in table[a] : m.seq # n}

\* Mutant: mailboxDropOldest is left out.
KeepOldest(a) == table[a]

\* mailboxDropOldest, if the mailbox is full.
WithoutOldest(a) ==
  IF Full(a) THEN DeleteOne(a, Head(mailbox[a]).seq) ELSE table[a]

\* opPost: rows follow the mailboxes.
Post(f) ==
  /\ ~archived
  /\ f \in members
  /\ Deliver(f, NextMsg(f))
  /\ table' = [a \in Agents |->
       IF a \in ToBox(f) THEN WithoutOldest(a) \union {NextMsg(f)} ELSE table[a]]
  /\ dropRows' = [a \in Agents |->
       IF a \in ToBox(f) /\ Full(a) THEN dropRows[a] + 1 ELSE dropRows[a]]
  /\ UNCHANGED bundles
  /\ Later(<< <<"write", NextMsg(f)>> >>)

\* internalPost of the bundle: in memory only.  A publish of a slug that was
\* published before may skip it.
InternalPost(job) ==
  /\ Head(job)[1] = "bundle"
  /\ \/ /\ Deliver(Founder, NextMsg(Founder))
        /\ bundles' = bundles \union {NextMsg(Founder)}
        /\ GoOn(job, << <<"write", NextMsg(Founder)>> >> \o Tail(job))
        /\ UNCHANGED <<table, dropRows>>
     \/ /\ seq > 0
        /\ GoOn(job, Tail(job))
        /\ UNCHANGED <<memVars, boxVars, dbVars, waitVars, logVars, journal>>

-----------------------------------------------------------------------------
(* read and read-any.                                                      *)

\* Mutant: mailboxConsumeAll forgets the dropped counter.
DrainMailOnly(a) ==
  /\ mailbox' = [mailbox EXCEPT ![a] = << >>]
  /\ dropped' = [dropped EXCEPT ![a] = 0]
  /\ table' = [table EXCEPT ![a] = {}]
  /\ handed' = [handed EXCEPT ![a] = @ \union Range(mailbox[a])]
  /\ told' = [told EXCEPT ![a] = @ + dropped[a]]
  /\ UNCHANGED dropRows

\* All unread mail leaves the room, with its rows and the dropped counter.
Drain(a) ==
  /\ mailbox' = [mailbox EXCEPT ![a] = << >>]
  /\ dropped' = [dropped EXCEPT ![a] = 0]
  /\ table' = [table EXCEPT ![a] = {}]
  /\ dropRows' = [dropRows EXCEPT ![a] = 0]
  /\ handed' = [handed EXCEPT ![a] = @ \union Range(mailbox[a])]
  /\ told' = [told EXCEPT ![a] = @ + dropped[a]]

\* No other read is pending.
Free(a) == waiter[a] = NoReader

\* roomRead: it drains, or blocks; otherwise (timeout 0, not a member, another
\* read pending) nothing changes.
RoomRead(r) ==
  LET me == Owner[r] IN
  /\ exists
  /\ phase[r] = "idle"
  /\ me \in members
  /\ \/ /\ mailbox[me] # << >>
        /\ Drain(me)
        /\ UNCHANGED waitVars
     \/ /\ mailbox[me] = << >>
        /\ Free(me)
        /\ waiter' = [waiter EXCEPT ![me] = r]
        /\ phase' = [phase EXCEPT ![r] = "wait"]
        /\ UNCHANGED <<anyWaiter, slot, boxVars, handed, told>>
  /\ UNCHANGED <<memVars, dbVars, sent, due, bundles, orphans, strays, journal,
                 jobs>>

\* opReadAny, as far as this room goes: the oldest message, or it blocks.
ReadAny(r) ==
  LET me == Owner[r] IN
  /\ phase[r] = "idle"
  /\ \/ /\ me \in members
        /\ mailbox[me] # << >>
        /\ mailbox' = [mailbox EXCEPT ![me] = Tail(@)]
        /\ table' = [table EXCEPT ![me] = DeleteOne(me, Head(mailbox[me]).seq)]
        /\ handed' = [handed EXCEPT ![me] = @ \union {Head(mailbox[me])}]
        /\ UNCHANGED <<dropped, dropRows, waitVars>>
     \/ /\ me \notin members \/ mailbox[me] = << >>
        /\ anyWaiter[me] = NoReader
        /\ anyWaiter' = [anyWaiter EXCEPT ![me] = r]
        /\ phase' = [phase EXCEPT ![r] = "waitAny"]
        /\ UNCHANGED <<waiter, slot, boxVars, handed>>
  /\ UNCHANGED <<memVars, dbVars, sent, due, told, bundles, orphans, strays,
                 journal, jobs>>

\* The receive branches: a read drains what came in since, whether or not its
\* agent is still a member.
Wake(r) ==
  /\ slot[r] # Nothing
  /\ \/ phase[r] = "wait" /\ Drain(Owner[r])
     \/ phase[r] = "waitAny" /\ UNCHANGED <<boxVars, handed, told>>
  /\ slot' = [slot EXCEPT ![r] = Nothing]
  /\ phase' = [phase EXCEPT ![r] = "idle"]
  /\ UNCHANGED <<memVars, dbVars, waiter, anyWaiter, sent, due, bundles, orphans,
                 strays, journal, jobs>>

\* Mutant: the timer branch leaves the maps alone.
LeaveEntry(r) == UNCHANGED <<waiter, anyWaiter>>

\* The entry of the agent goes, whoever it belongs to.
DeleteEntry(r) ==
  \/ /\ phase[r] = "wait"
     /\ waiter' = [waiter EXCEPT ![Owner[r]] = NoReader]
     /\ UNCHANGED anyWaiter
  \/ /\ phase[r] = "waitAny"
     /\ anyWaiter' = [anyWaiter EXCEPT ![Owner[r]] = NoReader]
     /\ UNCHANGED waiter

\* The timer branches; what is in the slot by then is lost.
Timeout(r) ==
  /\ phase[r] \in {"wait", "waitAny"}
  /\ DeleteEntry(r)
  /\ slot' = [slot EXCEPT ![r] = Nothing]
  /\ phase' = [phase EXCEPT ![r] = "idle"]
  /\ UNCHANGED <<memVars, boxVars, dbVars, logVars, journal, jobs>>

-----------------------------------------------------------------------------
(* A restart.                                                              *)

\* SELECT ... ORDER BY id.
Listing(rows) ==
  [i \in 1..Cardinality(rows) |->
     CHOOSE m \in rows : Cardinality({x \in rows : x.body <= m.body}) = i]

\* Mutant: the counter starts over.
SeqFromZero == 0

\* loadRooms takes r.seq from the transcript, which flushPendingWrites has
\* completed, replayMailbox from unread rows.
StoredSeq ==
  Max({0} \union {m.seq : m \in Range(journal)}
          \union UNION {{m.seq : m \in table[a]} : a \in Agents})

\* newState: a room without a row is not there, and its mail is passed over.
Restart ==
  /\ exists' = row
  /\ archived' = (row /\ rowArchived)
  /\ seq' = IF row THEN StoredSeq ELSE 0
  /\ members' = {a \in memberRows : row}
  /\ mailbox' = [a \in Agents |-> Listing({m \in table[a] : row})]
  /\ dropped' = [a \in Agents |-> IF row THEN dropRows[a] ELSE 0]
  /\ waiter' = [a \in Agents |-> NoReader]
  /\ anyWaiter' = [a \in Agents |-> NoReader]
  /\ phase' = [r \in Readers |-> "idle"]
  /\ slot' = [r \in Readers |-> Nothing]
  /\ jobs' = {}
  /\ orphans' = orphans \union {a \in Agents : ~row /\ table[a] # {}}
  /\ strays' = strays \union {a \in Agents \ memberRows : table[a] # {}}
  /\ UNCHANGED <<dbVars, table, dropRows, journal, sent, due, handed, told, bundles>>

-----------------------------------------------------------------------------
Next ==
  \/ \E a \in Agents :
       RoomCreate(a) \/ Join(a) \/ Leave(a) \/ RemoveMembers(a) \/ Post(a)
         \/ TaskClaim(a)
  \/ \E old, new \in Agents : TaskReassign(old, new) \/ TaskHandoff(old, new)
  \/ TaskPublish
  \/ ArchiveRoom
  \/ \E job \in jobs :
       Store(job) \/ EnqueueWrite(job) \/ DropMember(job) \/ UnarchiveRoom(job)
         \/ InternalPost(job)
  \/ \E r \in Readers : RoomRead(r) \/ ReadAny(r) \/ Wake(r) \/ Timeout(r)
  \/ Restart

Spec == Init /\ [][Next]_vars

-----------------------------------------------------------------------------
(* Properties.                                                             *)

Unread(a) == Range(mailbox[a])

\* Oldest first.
Increasing(q) ==
  \A i, j \in 1..Len(q) : i < j => q[i].seq < q[j].seq /\ q[i].body < q[j].body

\* Mailboxes list their mail in the order of the posts, through overflow,
\* departures, bundles and restarts.  (Not of an agent whose rows outlived the
\* room, because the row of the room was not stored yet when the daemon went
\* down: the room that is made again numbers its posts from 1.)
InPostOrder == \A a \in Agents \ orphans : Increasing(mailbox[a])

\* No agent is given a message twice: what was taken out of the room for it is
\* neither unread nor a row that a restart would bring back.
AtMostOnce ==
  \A a \in Agents : handed[a] \intersect (Unread(a) \union table[a]) = {}

\* Unread posts, the supervisor's own too, are rows of the table; only the
\* bundles of publish, which internalPost keeps in memory, never are.  (So long
\* as numbers tell the rows of an agent apart: see InPostOrder.)
PostsAreDurable ==
  \A a \in Agents \ orphans : Unread(a) \ bundles \subseteq table[a]

\* Nobody leaves, no tasks: memory and table agree on unread mail and drops.
MirrorIsExact ==
  \A a \in Agents : table[a] = Unread(a) /\ dropRows[a] = dropped[a]

\* Every message addressed to an agent is unread, was given to it, or is a drop
\* it was told of or will be told of: through overflows, drains and restarts.
DropsAccounted ==
  \A a \in Agents :
    due[a] = Len(mailbox[a]) + Cardinality(handed[a]) + told[a] + dropped[a]

\* What is unread is younger than what was given out.  (Not if a restart made a
\* member an outsider with mail, because its membership was not stored yet: such
\* an agent may block in read-any and then join again.)
InOrder ==
  \A a \in Agents \ strays : \A m \in Unread(a) : \A x \in handed[a] : x.body < m.body

\* The slots that a post fills under r.mu are empty, and those of readers that
\* are still in their select.
SendNeverBlocks ==
  \A a \in Agents :
    /\ waiter[a] # NoReader =>
         slot[waiter[a]] = Nothing /\ phase[waiter[a]] = "wait"
    /\ anyWaiter[a] # NoReader =>
         slot[anyWaiter[a]] = Nothing /\ phase[anyWaiter[a]] = "waitAny"

\* A read on record as blocked has no mail to wait for: a post finds it first.
NoSleepOnMail ==
  \A a \in Agents : waiter[a] # NoReader => mailbox[a] = << >>
=============================================================================
