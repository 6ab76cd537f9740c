----------------------------- MODULE WriteQueue -----------------------------
(***************************************************************************)
(* The write queue (queue.go) and the git writer (writer.go): handlers put *)
(* a write into SQLite, then into the Go channel s.writes; one goroutine   *)
(* writes the file, adds and commits it with git, and deletes the row.  A  *)
(* write that fails stays in SQLite until the next start of the daemon,    *)
(* which tries every row once before it serves requests, and is given up   *)
(* into queue_dead after maxAttempts failures.                             *)
(*                                                                         *)
(* Each step of the writer that can fail, and each gap a crash can fall    *)
(* into, is an action of its own.  A file's content is a model value; the  *)
(* git repository is its index and its last commit.                        *)
(***************************************************************************)
EXTENDS Integers, Sequences, FiniteSets, Functions

CONSTANTS
  Producers,    \* goroutines that call enqueueWrite
  Paths,        \* relative paths in the workspace
  Removable,    \* paths that removeAgentFile deletes behind the writer's back
  Contents,     \* what a file may hold
  Absent,       \* no such file
  NoOp,         \* no write in hand
  Faults,       \* the steps that the disk, SQLite or git may fail
  MaxAttempts,  \* maxAttempts
  Cap,          \* capacity of s.writes
  MaxWrites,    \* bound: writes issued in a behaviour
  MaxStarts     \* bound: starts of the daemon

Steps == {"insert", "file", "add", "commit", "bump", "bury", "delete",
          "kill"}

ASSUME PathsAssumption == Removable \subseteq Paths

ASSUME ContentAssumption == Absent \notin Contents

ASSUME FaultAssumption == Faults \subseteq Steps

ASSUME SizeAssumption ==
  /\ MaxAttempts \in Nat \ {0}
  /\ Cap \in Nat \ {0}
  /\ MaxWrites \in Nat
  /\ MaxStarts \in Nat \ {0}

\* A writeOp and its row: id 0 is a write that SQLite did not take.
Op == [id : Nat, path : Paths, body : Contents, attempts : Nat]

ASSUME NoOpAssumption == NoOp \notin Op

VARIABLES
  starts,    \* how often the daemon was started
  issued,    \* writes issued so far
  lastId,    \* AUTOINCREMENT of the queue table
  rows,      \* the queue table
  dead,      \* the queue_dead table
  sending,   \* per producer: inserted, not yet sent on s.writes
  writes,    \* s.writes
  closed,    \* s.writes was closed
  todo,      \* rows that flushPendingWrites has still to try
  boot,      \* newState is still running
  op,        \* the write in commitWrite
  stage,     \* where commitWrite is
  files,     \* the workspace
  index,     \* what is staged
  head,      \* what the last commit holds
  lock,      \* an index.lock that a killed git left behind
  history,   \* every <<path, body>> that some commit holds
  accepted   \* writes SQLite took, with the start they were issued in

vars == <<starts, issued, lastId, rows, dead, sending, writes, closed, todo,
          boot, op, stage, files, index, head, lock, history, accepted>>

queueVars  == <<starts, issued, lastId, accepted>>
senderVars == <<sending, writes, closed, todo, boot>>
gitVars    == <<files, index, head, lock, history>>

RowOf(id) == {o \in rows : o.id = id}

-----------------------------------------------------------------------------
Init ==
  /\ starts = 1
  /\ issued = 0
  /\ lastId = 0
  /\ rows = {}
  /\ dead = {}
  /\ sending = [p \in Producers |-> NoOp]
  /\ writes = << >>
  /\ closed = FALSE
  /\ todo = << >>
  /\ boot = FALSE
  /\ op = NoOp
  /\ stage = "idle"
  /\ files = [x \in Paths |-> Absent]
  /\ index = [x \in Paths |-> Absent]
  /\ head = [x \in Paths |-> Absent]
  /\ lock = FALSE
  /\ history = {}
  /\ accepted = {}

-----------------------------------------------------------------------------
(* Producers.                                                              *)

\* The row is inserted: from here on the write is durable.
Insert(p, x, b) ==
  LET o == [id |-> lastId + 1, path |-> x, body |-> b, attempts |-> 0] IN
  /\ lastId' = lastId + 1
  /\ rows' = rows \union {o}
  /\ sending' = [sending EXCEPT ![p] = o]
  /\ accepted' = accepted
       \union {[id |-> lastId + 1, path |-> x, body |-> b, start |-> starts]}

\* SQLite refuses: the write is forwarded all the same.
InsertFails(p, x, b) ==
  /\ "insert" \in Faults
  /\ sending' = [sending EXCEPT
       ![p] = [id |-> 0, path |-> x, body |-> b, attempts |-> 0]]
  /\ UNCHANGED <<lastId, rows, accepted>>

\* enqueueWrite up to the send.
EnqueueWrite(p, x, b) ==
  /\ ~boot
  /\ stage # "exited"
  /\ sending[p] = NoOp
  /\ issued < MaxWrites
  /\ issued' = issued + 1
  /\ Insert(p, x, b) \/ InsertFails(p, x, b)
  /\ UNCHANGED <<starts, dead, writes, closed, todo, boot, op, stage, gitVars>>

\* s.writes <- op.  It waits while the Go channel is full, and a send on a
\* closed one is a panic that ends the daemon (a Restart).
Send(p) ==
  /\ sending[p] # NoOp
  /\ ~closed
  /\ Len(writes) < Cap
  /\ writes' = Append(writes, sending[p])
  /\ sending' = [sending EXCEPT ![p] = NoOp]
  /\ UNCHANGED <<queueVars, rows, dead, closed, todo, boot, op, stage, gitVars>>

\* removeAgentFile.
RemoveAgentFile(x) ==
  /\ ~boot
  /\ x \in Removable
  /\ files' = [files EXCEPT ![x] = Absent]
  /\ UNCHANGED <<queueVars, rows, dead, senderVars, op, stage, index, head,
                 lock, history>>

\* The end of requestStop.
CloseWrites ==
  /\ ~boot
  /\ ~closed
  /\ closed' = TRUE
  /\ UNCHANGED <<queueVars, rows, dead, sending, writes, todo, boot, op, stage,
                 gitVars>>

-----------------------------------------------------------------------------
(* The writer.                                                             *)

\* Mutant: a stop ends the loop at once.
TakeUntilStop ==
  /\ stage = "idle"
  /\ stage' = "file"
  /\ ~boot
  /\ ~closed
  /\ writes # << >>
  /\ op' = Head(writes)
  /\ writes' = Tail(writes)
  /\ UNCHANGED <<queueVars, rows, dead, sending, closed, todo, boot, gitVars>>

\* The next write: a row of the flush, or the next one on s.writes.
Take ==
  /\ stage = "idle"
  /\ stage' = "file"
  /\ \/ /\ boot
        /\ todo # << >>
        /\ op' = Head(todo)
        /\ todo' = Tail(todo)
        /\ UNCHANGED writes
     \/ /\ ~boot
        /\ writes # << >>
        /\ op' = Head(writes)
        /\ writes' = Tail(writes)
        /\ UNCHANGED todo
  /\ UNCHANGED <<queueVars, rows, dead, sending, closed, boot, gitVars>>

\* flushPendingWrites is over: the rest of newState, then the daemon serves.
FlushDone ==
  /\ boot
  /\ stage = "idle"
  /\ todo = << >>
  /\ boot' = FALSE
  /\ UNCHANGED <<queueVars, rows, dead, sending, writes, closed, todo, op,
                 stage, gitVars>>

\* Mutant: the loop ends on an empty channel, closed or not.
WriterExitEarly ==
  /\ ~boot
  /\ stage = "idle"
  /\ writes = << >>
  /\ stage' = "exited"
  /\ UNCHANGED <<queueVars, rows, dead, senderVars, op, gitVars>>

\* runWriter has drained the closed channel and closes the database.
WriterExit ==
  /\ ~boot
  /\ closed
  /\ stage = "idle"
  /\ writes = << >>
  /\ stage' = "exited"
  /\ UNCHANGED <<queueVars, rows, dead, senderVars, op, gitVars>>

\* Mutant: the next write finds the last one's state.
KeepOp ==
  /\ stage' = "idle"
  /\ UNCHANGED op

\* commitWrite is done with this write, one way or the other.
Drop ==
  /\ op' = NoOp
  /\ stage' = "idle"

\* Mutant: commitWrite goes on after an error.
FailOnly == stage' = "delete" /\ UNCHANGED op

\* The closure fail: without a row there is nothing to count.
Fail ==
  \/ op.id = 0 /\ Drop
  \/ op.id > 0 /\ stage' = "bump" /\ UNCHANGED op

\* MkdirAll and WriteFile.
WriteFile ==
  /\ stage = "file"
  /\ \/ /\ files' = [files EXCEPT ![op.path] = op.body]
        /\ stage' = "add"
        /\ UNCHANGED op
     \/ "file" \in Faults /\ Fail /\ UNCHANGED files
  /\ UNCHANGED <<queueVars, rows, dead, senderVars, index, head, lock, history>>

\* git add takes a path that is in the workspace or in the index, and no path
\* while an index.lock is there.
Addable(x) == ~lock /\ (files[x] # Absent \/ index[x] # Absent)

\* git add: what the path holds by now is staged.
GitAdd ==
  /\ stage = "add"
  /\ \/ /\ Addable(op.path)
        /\ index' = [index EXCEPT ![op.path] = files[op.path]]
        /\ stage' = "commit"
        /\ UNCHANGED op
     \/ /\ "add" \in Faults \/ ~Addable(op.path)
        /\ Fail
        /\ UNCHANGED index
  /\ UNCHANGED <<queueVars, rows, dead, senderVars, files, head, lock, history>>

\* What a commit of the index puts on record.
Staged == {<<x, index[x]>> : x \in {y \in Paths : index[y] # Absent}}

\* git commit takes all that is staged, of earlier failed writes too, and
\* fails when nothing is.
GitCommit ==
  /\ stage = "commit"
  /\ \/ /\ ~lock
        /\ index # head
        /\ head' = index
        /\ history' = history \union Staged
        /\ stage' = "delete"
        /\ UNCHANGED op
     \/ /\ "commit" \in Faults \/ lock \/ index = head
        /\ Fail
        /\ UNCHANGED <<head, history>>
  /\ UNCHANGED <<queueVars, rows, dead, senderVars, files, index, lock>>

\* The row goes only now that the commit is there.
DeleteRow ==
  /\ stage = "delete"
  /\ \/ rows' = rows \ RowOf(op.id)
     \/ "delete" \in Faults /\ UNCHANGED rows
  /\ Drop
  /\ UNCHANGED <<queueVars, dead, senderVars, gitVars>>

\* The write with one more failure on its account.
Bumped(o) == [o EXCEPT !.attempts = @ + 1]

\* Mutant: off by one.
BuryEarly(n) == n + 1 >= MaxAttempts

\* op.attempts >= maxAttempts.
Exhausted(n) == n >= MaxAttempts

\* bumpAttempts, in the table and in the local copy, and the threshold.
BumpAttempts ==
  /\ stage = "bump"
  /\ \/ /\ rows' = (rows \ RowOf(op.id)) \union {Bumped(o) : o \in RowOf(op.id)}
        /\ \/ /\ Exhausted(op.attempts + 1)
              /\ op' = Bumped(op)
              /\ stage' = "bury"
           \/ /\ ~Exhausted(op.attempts + 1)
              /\ Drop
     \/ "bump" \in Faults /\ Drop /\ UNCHANGED rows
  /\ UNCHANGED <<queueVars, dead, senderVars, gitVars>>

\* deadLetter: one transaction moves the row.
DeadLetter ==
  /\ stage = "bury"
  /\ \/ /\ dead' = dead \union {op}
        /\ rows' = rows \ RowOf(op.id)
     \/ "bury" \in Faults /\ UNCHANGED <<dead, rows>>
  /\ Drop
  /\ UNCHANGED <<queueVars, senderVars, gitVars>>

-----------------------------------------------------------------------------
\* SELECT ... ORDER BY id.
Rank(o) == Cardinality({x \in rows : x.id <= o.id})

\* Mutant: the query lists rows twice.
PendingTwice ==
  LET n == Cardinality(rows) IN
  [i \in 1..(2 * n) |-> CHOOSE o \in rows : Rank(o) = (i + 1) \div 2]

Pending == [i \in 1..Cardinality(rows) |-> CHOOSE o \in rows : Rank(o) = i]

\* The daemon goes down, at any point or at its end, and starts again:
\* flushPendingWrites reads the queue table.  A git that is killed along with
\* the daemon leaves its lock file.
Restart ==
  /\ starts < MaxStarts
  /\ starts' = starts + 1
  /\ sending' = [p \in Producers |-> NoOp]
  /\ writes' = << >>
  /\ closed' = FALSE
  /\ todo' = Pending
  /\ boot' = TRUE
  /\ op' = NoOp
  /\ stage' = "idle"
  /\ lock' \in {lock, lock \/ ("kill" \in Faults /\ stage \in {"add", "commit"})}
  /\ UNCHANGED <<issued, lastId, rows, dead, files, index, head, history,
                 accepted>>

-----------------------------------------------------------------------------
Writer ==
  \/ Take \/ FlushDone \/ WriterExit \/ WriteFile \/ GitAdd \/ GitCommit
  \/ DeleteRow \/ BumpAttempts \/ DeadLetter

Next ==
  \/ \E p \in Producers, x \in Paths, b \in Contents : EnqueueWrite(p, x, b)
  \/ \E p \in Producers : Send(p)
  \/ \E x \in Paths : RemoveAgentFile(x)
  \/ CloseWrites
  \/ Writer
  \/ Restart

Spec == Init /\ [][Next]_vars

\* The writer goroutine runs on, and Go serves the senders that wait on a full
\* channel in turn.  Nothing is assumed of handlers, stops and restarts.
Fairness == WF_vars(Writer) /\ \A p \in Producers : SF_vars(Send(p))

FairSpec == Spec /\ Fairness

-----------------------------------------------------------------------------
(* Properties.                                                             *)

Stages == {"idle", "file", "add", "commit", "delete", "bump", "bury", "exited"}

TableTypes ==
  /\ starts \in 1..MaxStarts
  /\ issued \in 0..MaxWrites
  /\ lastId \in 0..issued
  /\ rows \subseteq Op
  /\ dead \subseteq Op
  /\ accepted \subseteq
       [id : 1..lastId, path : Paths, body : Contents, start : 1..starts]

CarrierTypes ==
  /\ sending \in [Producers -> Op \union {NoOp}]
  /\ writes \in Seq(Op)
  /\ closed \in BOOLEAN
  /\ todo \in Seq(Op)
  /\ boot \in BOOLEAN
  /\ op \in Op \union {NoOp}
  /\ stage \in Stages
  /\ op = NoOp <=> stage \in {"idle", "exited"}

GitTypes ==
  /\ files \in [Paths -> Contents \union {Absent}]
  /\ index \in [Paths -> Contents \union {Absent}]
  /\ head \in [Paths -> Contents \union {Absent}]
  /\ lock \in BOOLEAN
  /\ history \subseteq Paths \X Contents

\* Type invariant of the queue, the writer and the workspace; commitWrite has
\* a write in hand exactly while it is between two stages.
TypeOK == TableTypes /\ CarrierTypes /\ GitTypes

\* A write that SQLite took is never lost: it is still a row, or was given up
\* into queue_dead, or a commit holds it.  (Files that removeAgentFile deletes
\* behind the writer's back are left out.)
NoWriteLost ==
  \A w \in accepted : w.path \notin Removable =>
    \/ \E o \in rows \union dead :
         o.id = w.id /\ o.path = w.path /\ o.body = w.body
    \/ <<w.path, w.body>> \in history

\* A row is tried at most once per start of the daemon, so it is given up only
\* after failures in MaxAttempts different runs, the one it was issued in
\* among them.
BuriedAfterRestarts ==
  \A w \in accepted : \A o \in dead :
    o.id = w.id => starts >= w.start + MaxAttempts - 1

\* The copies of writes that goroutines carry.
Carried == Range(writes) \union Range(todo)
             \union {sending[p] : p \in Producers} \union {op}

CarriedIsRow == \A o \in Carried \ {NoOp} : o.id > 0 => o \in rows

OnceInWrites == \A i, j \in 1..Len(writes) :
  writes[i].id > 0 /\ writes[i].id = writes[j].id => i = j

OnceInTodo == \A i, j \in 1..Len(todo) : todo[i].id = todo[j].id => i = j

OneSender == \A p, q \in Producers :
  sending[p] # NoOp /\ sending[p] = sending[q] /\ sending[p].id > 0 => p = q

SenderAlone == \A p \in Producers : sending[p] # NoOp /\ sending[p].id > 0 =>
  sending[p] \notin Range(writes) \union Range(todo) \union {op}

WriterAlone == op # NoOp /\ op.id > 0 => op \notin Range(writes) \union Range(todo)

\* At any time a row is in the hands of one goroutine, and the copy it carries
\* is the row: no write is committed, counted or given up twice in one run of
\* the daemon.
OneCarrier ==
  /\ CarriedIsRow
  /\ OnceInWrites /\ OnceInTodo
  /\ OneSender /\ SenderAlone /\ WriterAlone

\* A stop drains: once s.writes is closed the writer works off what is in it
\* and ends, unless a crash comes first.
StopDrains == closed ~> (~closed \/ (stage = "exited" /\ writes = << >>))

\* A handler that waits on a full s.writes gets its write in, unless the
\* channel is closed under it or the daemon goes down.
SendersProceed == \A p \in Producers :
  sending[p] # NoOp ~> (sending[p] = NoOp \/ closed)

\* The body of the last write to a path that SQLite took.
Latest(x) ==
  {w \in accepted : w.path = x /\ \A v \in accepted : v.path = x => v.id <= w.id}

\* The queue is FIFO, replay included: with no write on its way and no failure,
\* every file holds what was last written to it.
LatestWriteWins ==
  Faults = {} /\ Carried = {NoOp} =>
    \A x \in Paths \ Removable : \A w \in Latest(x) : files[x] = w.body
=============================================================================
