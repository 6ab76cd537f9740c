# Verification of the lalia daemon

lalia is a local daemon that lets coding agents talk: two-party channels,
rooms with several members, and tasks that come with a room and a git worktree.
Clients send one JSON request per connection over a unix socket; a goroutine
per connection serves it. Messages are kept in memory, mirrored in SQLite
until they are read, and logged as files in a git workspace by a writer
goroutine behind a durable queue.

This directory holds TLA+ models of the daemon's core, the TLC configurations
that check them on small instances, and TLAPS proofs of the main results for
every instance. `PROJECT.json` lists the components, the runs with what each
must show, the source lines behind every definition, the hazards of the code
and which property watches each of them.

## 1. Inventory

| component | state | operations | hard behaviour |
|---|---|---|---|
| peer channels (`channel.go`, `opTell`, `opRead`, `opReadAny`) | `seq`, `mailbox`, `waiter` per channel; `s.anyWaiter`; SQLite `mailbox` | tell, read, read-any, release, replay | a tell races a read that blocks or times out; two connections of one agent; crash between memory, row and answer |
| rooms (`room.go`, `loadRooms`) | `members`, `mailbox`, `dropped`, `waiter`, `seq`, `Archived`; tables `mailbox`, `mailbox_dropped`, `mailbox_rooms`, `mailbox_room_members` | create, join, leave, post, read, eviction, archive | overflow, work left for after `r.mu` is unlocked, rows that outlive members |
| write queue and git writer (`queue.go`, `writer.go`) | tables `queue`, `queue_dead`; `s.writes`; workspace, index, commits | enqueueWrite, commitWrite, replay, dead letters, drain at stop | every step may fail; a crash between any two |
| locks (`s.mu`, `c.mu`, `r.mu`, `repoLock`) | who holds what | all handlers | nesting in different orders, blocking sends under a mutex |
| registry and leases (`opRegister`, `sweep`, `registry.go`) | `agents`, `nameIdx`, agent files, keys | register, renew, unregister, sweep, load | a name changes hands between two critical sections; agent files against queued writes |
| tasks (`task.go`) | task lists per project, worktrees, the tasks' rooms | publish, claim, status, reassign, unassign, handoff, unpublish, rooms-gc | check under one lock, act under the next; failures half way |
| daemon life cycle (`daemon.go`, `client.go`) | socket, pid file, listener | start, spawn by a client, stop, signal | starts that overlap, files without an owner, a stop that leaves the listener |
| request dispatch (`dispatch`, `handleConn`, `request`) | connections | authenticate, renew the lease, run the handler, answer | a key or name that changes between signature and check; a daemon that dies with the request |
| keys (`signing.go`, `keystore*.go`) | one key file per name | load, generate, remove | two registrations of one name; unregister against register |
| addresses, nicknames, command line, harness runner | files of the user | - | text, prompts and child processes |

Handlers meet in four places: the maps of `State` under `s.mu`; a channel or
room under its own mutex; `deliverAny`, which a post or tell calls with that
mutex held and which locks `s.mu`; and `s.writes`, on which they block when it
is full. A blocked read waits on a one-slot Go channel that it entered in a
waiter map; a tell, post or release takes the entry and sends into the slot.

What makes the components correct, in short: unread mail is exactly what
SQLite would replay; nobody gets a message twice or out of order; a message
disappears only where the code gives it up on purpose; a send into a slot never
blocks; a mailbox keeps to its limit and accounts for its drops; an accepted
write reaches a commit or `queue_dead`, the latter only after failures in
several runs of the daemon; handlers never wait for each other in a circle and
every one of them ends; a name leads to the agent that registered it last, across
restarts, and leases run out; a listed task has its worktree, an open room, an
owner who is in that room and a supervisor; at most one daemon serves, and it is
the one that socket and pid file name.

## 2. Modules

| module | models | proved in |
|---|---|---|
| `Channel` | channels, reads, read-any, release, restart | `ChannelProofs` |
| `Courier` | what a channel promises: one durable queue per link | `ChannelProofs` (refinement) |
| `WriteQueue` | queue tables, `s.writes`, the writer step by step, git | `WriteQueueProofs` |
| `Room` | one room, its rows and its task handlers | `RoomProofs` |
| `Registry` | agents, names, leases, keys, agent files | `RegistryProofs` |
| `TaskList` | one project's task list, worktrees and task rooms | `TaskListProofs` |
| `Daemon` | daemon processes, socket and pid file, client calls | `DaemonProofs` |
| `LockOrder`, `Handlers` | mutexes; the lock script of every handler | `LockOrderProofs` |
| `Lemmas` | facts about sequences and finite sets | itself |
| `MC...` | instances for TLC | |

**Channel.** A link `<<to, from>>` is one direction of a channel. An action is
one critical section of `c.mu` (of `s.mu` for read-any); a handler that works in
several sections has an action for each (`TellAdmit` then `Tell`, `ReadAdmit`
then `Read`, `Unregister` then `ReleaseWaiter`), so that other requests come in
between. `Wake`, `Timeout`, `Reply` and `Hangup` are the branches of the select
and the answer to the client. `Restart` may come at any point and rebuilds
memory from the rows as `replayMailbox` does. Names that may unregister, expire
and register again are part of the model. SQLite statements succeed and are
atomic.

**Courier** knows messages only as unread, taken and lost. `Channel` implements
it with the refinement mapping at its end: a tell is a send, a pop or a hand-over
is a take, and timeouts, hang-ups and restarts may lose what was taken and not
answered - and nothing else.

**WriteQueue.** `EnqueueWrite` is the insert, `Send` the blocking send. The
writer's stages `file`, `add`, `commit`, `delete`, `bump`, `bury` are separate
actions, each of which fails if the constant `Faults` allows it; with `kill`
in it a crash during git leaves `index.lock`. git is external: `add` stages
what the file holds by then, `commit` takes the whole index and fails when it
equals the last commit. `RemoveAgentFile` deletes files past the queue.

**Room.** What a handler does after it unlocked `r.mu` is a job, a sequence of
steps taken one by one between those of others, and forgotten by a restart.
`Leavers` may leave or be evicted; with `Tasks` the room belongs to a task too,
and publish, claim, reassign, handoff and archive act on it as `task.go` does. The
history variables `orphans` and `strays` name the agents whose mail a restart found
without the room's row, and without their membership; `bundles` holds the messages
that `internalPost` put into mailboxes without rows. Sections 4 and 5 say what that
does.

**LockOrder / Handlers.** A handler is the sequence of its Lock and Unlock calls
and its sends on `s.writes`; loops go over all channels or rooms, in any order.
`Refuse` is an early return, allowed wherever no mutex is held, which covers all
of the code's. The wait of a read is left out: it holds no mutex and its timer
ends it.

**Registry.** `agents` and `nameIdx` are the two maps under `s.mu`; `files` is
`registry/*.json`; `queue` holds the writes of those files that the durable queue
has accepted (the queue itself is `WriteQueue`'s). A handler's `todo` is what it
has still to do: register is `LoadKey`, `SaveKey`, `IndexAgent`, `PersistAgent`,
a signed request is `Authenticate`, `RenewLease`, `PersistAgent` and then the
handler, and sweep collects under `s.mu` and removes files afterwards. A lease is
not a date but the age of a copy of it: 0 before it expires, 1 at that moment, 2
after it; `Tick` makes all copies older. The code's
tests of a lease, before and after now, differ at age 1, and no clock bounds the
behaviours. Ids are taken to grow, as ULIDs of different milliseconds do.
`removed`, `crossed` and `contended` record when commands on one name, or two
snapshots of one agent, ran against each other; a property that does not hold
then says so.

**TaskList.** One project: the supervisor, the rows and the array behind the
slice (`cells`, `len`), since snapshots of a Go slice share it; `stored` is what
`persistTaskList` gave to the queue; `room` and `db` are the tasks' rooms in
memory and in SQLite; `worktrees`, `dirty` and `repo` stand for git and
`repoLock`. A connection (`Conns`) serves one command after the other for its
`Caller`; an agent may have several, so its commands overlap as `daemon.go:60` and
`dispatch` let them. Again a command is a critical section followed by a `todo`.
The commands that ask for a registered supervisor do so in their first section;
claim, set-status and post do not, so what comes between `dispatch` and their
section is a step of its own (`Ask`). publish locks the repository, makes worktrees,
installs rows, persists, opens and posts slug by slug; unpublish copies the row, passes its gates, wipes, archives and
drops. `Edit` and `Push` are the people in the worktrees. `Restart` loads what was
stored. The history variables are what the properties excuse, each with a reason
in the code: `lost` (what a restart found not stored yet), `out` (agents evicted, or
handed off to themselves), `swept` (agents whose lease ran out), and the three
races of section 5: `stale` (a slug published while a gc was underway that had found
it merged), `crossed` (a task that went to somebody whom a reassign was about to take
out of the room) and `foreign` (a row whose publish was overtaken by another publish
or by its caller's unregister).

**Daemon.** `pc` is where `runDaemon` of each process is; `sock` and `pidFile` say
who made what is at the two paths; `stops` counts goroutines of `opStop` that have
not run yet, `signal` follows the signal handler. A client dials, spawns, redials
and gives up as `dialOrSpawn` does. A send on a closed `s.writes` and a second
close are panics (`Die`). `overlapped` is set when a start passes the singleton
check while another start or an end is half way.

## 3. Runs

| run | instance | shows |
|---|---|---|
| `ChannelTwoReaders` | one link, two connections of the reader | durability, at most once, order, no blocked send, refinement of `Courier` |
| `ChannelFanIn` | two channels into one agent, fairness | neither a read nor a read-any sleeps on mail; a released read returns |
| `RoomMail` | three agents, limit 2, two connections | mirror, drops, order, no blocked send |
| `RoomChurn` | a task's room that everyone may leave, two connections of the reader | order, durability and at most once through departures, task handlers and restarts |
| `QueueDurable` | two producers, every fault, three starts, fairness | no write lost, dead letters only after `MaxAttempts` runs, stop drains, blocked senders proceed |
| `Locks` | two threads, a channel, a room, a repository, fairness | lock order, no circular wait, every handler ends |
| `Tasks` | two supervisors, one with two connections, two workers, one task, a restart | worktree, room, owner and supervisor of a task fit together, but for the races of section 5; a claim holds |
| `Registry` | two processes, two names, a restart, fairness | names lead to the agent that has them, registrations survive, keys fit, leases end |
| `DaemonLife` | two clients, three calls, one fault, fairness | one daemon at a time; a signal ends a daemon; every call ends |
| `QueueStale` | violation | the replay of a row that could not be committed overwrites a newer file |
| `LocksReadAny` | violation | read-any and post (or tell) wait for each other for ever |
| `DaemonStop` | violation | after `lalia stop` the process goes on for ever |

The violations show where the code departs from what its docs or comments say;
the findings in `PROJECT.json` quote them. `LocksReadAny` is the most serious:
read-any locks channels and rooms with `s.mu` held, tell and post lock `s.mu`
with theirs held, and when the two meet the daemon stops answering. `DaemonStop`:
`opStop` closes the write queue and nothing closes the listener, so the loop of
`runDaemon` goes on accepting.

**Bounds.** Messages, writes, starts and pending jobs are bounded by constants
named `Max...`. Limits of the code (mailbox 64, members 8, attempts 3, channel
capacity) are constants and small enough in the runs to be exceeded: a mailbox
overflows more than once, a row is buried and another survives, `s.writes` has
capacity 1 or 2. Three starts let a row fail twice and be buried (`MaxAttempts` 2
in the run). The races need two parties on one container, which every instance
has; two connections of one agent matter because waiter maps are keyed by
agent. In `RoomMail` four posts
go to mailboxes of two and two handlers may have work left. In `RoomChurn` the
supervisor posts and publishes to a member with a mailbox of one; one handler at a
time has work left, for with two TLC does not finish, so that `orphans` stays
empty, and the theorems of `RoomProofs` cover any number. In `Registry` two processes
of different sessions contend for one name and
one of them uses a second name, with three commands, ids and keys; a name is
registered, removed and registered again while a restart comes at any point. `Tasks` starts
from no list, from a list with the task open and from one with the task merged, and
goes on for three commands: enough for two reassigns of one supervisor with a
claim or an unassign between them, for gc against unpublish and publish, for publish
against unregister, and for two claims. The exemptions are needed: without `stale`,
`crossed` or `foreign`, TLC finds the races of section 5 in this instance, as
counterexamples of `OpenWhileActive`, `OwnerInRoom` and `SupervisorGate`.
`DaemonLife` spawns up to three daemons, kills or signals one or lets
its start fail, and mixes stops in. Symmetry is used for connections (in
`ChannelTwoReaders`, `RoomMail`, `RoomChurn` and `Tasks`) and workers (`Tasks`),
never in a run with a liveness property.

**Deadlock** is checked for the locks. Elsewhere the bounds end behaviours, and
a daemon without requests may rest, so `CHECK_DEADLOCK` is off.

**Fairness.** `ChannelFanIn`: the daemon's own goroutines go on (the releasing
handler, a reader whose slot is full, the writer of an answer); timers and
clients owe nothing. `QueueDurable`: the writer goes on, and a sender is served if
the channel has room again and again, as Go's FIFO of waiting senders does.
`Registry`: handlers, the queue and the sweep goroutine go on, and time passes.
`DaemonLife` and `DaemonStop`: some goroutine or client that can take a step takes
one; nobody has to call and nothing has to fail.
`Locks`: strong fairness of a thread, as `sync.Mutex` gives in its starvation
mode, and a writer that goes on. No run assumes that a request is made, that a
handler refuses one, or that a crash happens.

## 4. Proofs

The proofs hold for every value of the constants under the named assumptions of
the modules (links join different agents, null values are no messages, mutexes
of different kinds differ, capacities are positive).

*Channel.* `UnreadIsDurable` (rows = unread mail, in order) is not inductive: a
row is deleted by its sequence number, so the deletion is right only if numbers
are unique in a mailbox and not above `c.seq`, which a restart has to
re-establish from the rows; and the replay lists rows by row id, so ids must
grow along a mailbox. The inductive invariant of `ChannelProofs` adds these,
the agreement of waiter maps with the phases and slots of readers, and that
what was handed out is older than what is unread. `TypeCorrect`, `Durability`,
`DeliveredAtMostOnce`, `DeliveredInOrder`, `TellNeverBlocks` and
`ReadAnyIsServed` follow from it, one lemma per action. `ReadIsServed` needs a
hypothesis, one connection per agent, under which a blocked read is the waiter
of its link (`BlockedIsWaiter`). The last part of the module uses the invariant to show
that every step is a step of `Courier` or a stutter (`Refinement`) and derives
`NoSilentLoss`.

*Write queue.* `NoWriteLost` rests on what `commitWrite` has achieved by the time
it deletes a row (`Progress`: written, then staged, then committed), and on
copies that say what the write said (`Known`). That a write is given up only
after failures in `MaxAttempts` runs (`GivenUpLate`) needs that a row is carried
by one goroutine at a time (`OneCarrier`), that row ids are unique, that
`pending` lists each row once (`PendingLists`), and that a write still carried
in this run has failed at most once in each run before (`FailedOncePerStart`).
The faults are those of `Faults`, whichever they are, and a crash may come
between any two steps.

*Locks.* `NoDeadlock`: threads whose scripts are `Disciplined` (each mutex has a
higher rank than those held; repository, then channel or room, then `s.mu`)
never wait in a circle. The invariant says that a mutex belongs to the thread
whose script, up to its program counter, locked and did not unlock it. Along a
circle the ranks of the mutexes waited for would grow, past the highest. That
the handlers' scripts meet the hypothesis is what `InRankOrder` checks in
`Locks` (every script is run there); read-any does not.

*Room.* Rows of the mailbox are deleted by sequence number, memberships and the
room's own row are stored after `r.mu` is unlocked, and rows outlive members, so
rows and mailbox of an agent differ in many ways and `AtMostOnce` and `InPostOrder`
are not inductive. The invariant of `RoomProofs` says what is true of the two together:
stamps grow along a mailbox, tell rows apart, and none of what was handed out is
unread or a row (`BoxInv`); of an agent that is no orphan, numbers grow with
the stamps in mailbox and rows and do not exceed `r.seq`, so that a deletion hits
one row, and what is unread and no bundle has its row (`NumInv`); jobs write only what was
posted (`JobInv`); and a waiter entry belongs to a blocked read of the same agent
with an empty slot (`WaitInv`, with `SendNeverBlocks`). `AtMostOnce`, `InPostOrder`,
`PostsAreDurable` and `NoSleepOnMail` follow for any members, departures, task
handlers and restarts. `MirrorIsExact`, `DropsAccounted` and `InOrder` are false
once members leave (section 5); they are proved, as `RoomMail` checks them, under
the hypothesis that nobody leaves, the room belongs to no task and its row is
stored (`Quiet`), for any number of agents, connections and posts.

*Registry.* That a name leads to the agent that registered it last is a matter of all
copies of an agent at once: in memory, in the snapshots that handlers are about to
queue, in the queue and in the files. The invariant of `RegistryProofs` says that the copies
of an agent agree on its name, and that `nameIdx` names the youngest agent of it
(`NamesInv`); that what a restart would find is the agent as it is, unless somebody
is about to save it or two snapshots crossed, and that files are deleted only of
agents that are gone (`StoreInv`); and, for the keys, that on a name that is not
contended at most one command is under way, and what each of its steps knows of the
key on disk (`KeyInv`). `NameFindsAgent`, `RegistrationSurvives` and `KeyFits`
follow, the last at every step of every command and not only between commands.

*Tasks.* A handler gives up `s.mu` several times, so none of the five properties is
about the list alone: each needs to know what the handlers under way will still do.
The invariant of `TaskListProofs` therefore begins with the todos. A todo has its first
and last steps where the code has them, and a wipe is followed by the drop of the row
(`TodoInv`); a publish past its lock holds the repository and its rows have worktrees
(`RepoInv`); a task has one row (`ListInv`). On top of these,

- `WorktreeBacks`: a worktree is missing only under a todo that drops the row
  (`WorktreeInv`);
- `SupervisorStays` and `ClaimsHold`: the supervisor of a live row is registered or was
  swept, unless the row is `foreign` (`SupInv`), and who was told that a task is theirs
  owns a row that is not open (`ListInv`);
- `OpenActive`: rooms that are about to be archived are those of merged or `stale`
  slugs, or of a task that the same todo drops (`ArchiveInv`), a room is made before it
  is opened (`EnsureInv`), and the room of a live task is open or some handler is about
  to open it or to drop the task (`OpenInv`);
- `OwnerJoins`: whoever is about to be taken out of a room is a supervisor, or does
  not own the task, or the task is `crossed` (`RewireInv`), so that the owner of any
  other task is in the room or about to be made a member (`OwnerInv`).

None of this assumes that an agent's commands come one after the other. What the
theorems leave out is marked where it happens, at the step that installs the row
(`stale`, `foreign`) or gives the task to its owner (`crossed`), and the mark goes
when the next such step finds no race.

There is one lemma per action, for any number of agents, tasks and rows; what
restarts lose is excused in the theorems as it is in the run (`Kept`).

*Daemon.* `OneDaemonAtATime`: for any number of clients, calls and faults, at most
one daemon serves and both files are its own, unless starts overlapped. The
singleton check asks only whether somebody answers at the path. So the invariant
(`Alone`) is about every process past its check, not only those that serve: there
is one, the pid file is its own from the moment it wrote it, and the socket is its
own as long as it listens. Then whoever passes the check either finds nobody past
it or somebody half way, which is what `overlapped` records (`ActiveAnswers`).
`Lives` adds that signals go to daemons that have come to serve, so that closing a
listener never removes another's socket.

Only model-checked: liveness (`ReleaseEndsRead`, `StopDrains`, `SendersProceed`,
`HandlersFinish`, `LeasesEnd`, `SignalEnds`, `CallsEnd`), which is out of the
prover's reach, and `LatestWriteWins`, which is violated. That an index list exists for
every finite set of rows (`Ascending`) is checked by TLC: it would need induction.
That both directions of a channel share one counter has no run of its own:
`Durability` and `DeliveredInOrder` are proved for any set of links.

## 5. What the models show of the code's limits

Some behaviours are in the models as the code has them, and no property asks
for more than the code gives:

- a message that left its mailbox, or was handed to a blocked read, before the
  answer was written is gone when the daemon dies or the client hangs up
  (`Restart`, `Hangup`; `NothingVanishes` and `Courier` say that nothing else is);
- a name that registers again reads the mail of its former identity
  (`Unregister` keeps channels and rows), and the entry of a blocked read-any is
  deleted without waking it;
- a second blocking read of an agent replaces the first, and the timer of either
  deletes the other's entry, so `NoSleepOnMail` of `Channel` is checked for one
  connection per agent, and that of `Room` speaks of reads on record;
- eviction deletes a room's waiter without waking it, and leave and eviction keep
  the rows of the mailbox, which come back at a restart, on top of the limit:
  `MirrorIsExact` is checked for members that stay;
- a read that times out just when a tell has filled its slot answers "timeout",
  and the message is gone from mailbox and table (`Timeout`; `channel.go:156`,
  `state.go:772`), where docs/CHANNELS.md:212 says that there is "no waiter
  state to lose on timeout";
- a name that was evicted is a member again after a restart (`room.go:481`), where
  README.md:130 says that it comes back with "no prior room memberships";
- the bundle that publish posts has no row and does not survive a restart
  (`bundles`; the supervisor's own posts have rows, `room.go:300`);
- create stores the room's row after the room can be used (`room.go:125`): a restart
  in between finds mail without a room, passes it over, and the room that is then
  created again starts its numbers over, among rows that have them already
  (`orphans`, excused in `InPostOrder` and `PostsAreDurable`);
- a join stores the membership after the mailbox is there (`room.go:163`): a restart in
  between makes a mailbox for an agent that is no member, whose next read-any does
  not look at it (`strays`, excused in `InOrder`);
- task handlers add members past the limit, which only join checks, and reassign
  and handoff change members in memory only;
- join and leave, and archive and unarchive, store their rows after `r.mu`, in
  either order;
- the counter of a channel restarts at the highest unread message, so numbers,
  and with them message files, are used again after everything was read;
- posts are queued for git after `r.mu` is unlocked, in either order;
- no start removes a stale `index.lock`: every write then fails, until it is
  buried. docs/ARCHITECTURE.md:132 ("removed on startup only if no live git pid holds
  it") and docs/ARCHITECTURE.md:329 say that a start does.

Of the registry:

- the file of an agent that was unregistered can be written again by a snapshot
  that was queued before, so that a restart finds the agent, with a lease and
  without a key (`removed` in `NameFindsAgent` and `KeyFits`);
- two commands on one name, a register against an unregister or another register,
  can leave a key on disk that is not the registered one (`contended` in `KeyFits`);
- two renewals of one agent may queue their snapshots in the other order
  (`crossed`);
- ULIDs of the same millisecond are not ordered, and `loadRegistry` resolves two files
  of one name by id; the model takes ids as growing;
- a process whose lease expired and was not swept may take a second name and then
  renew the first (`state.go:421`).

Of the tasks:

- an owner may set a merged task back to working;
- a handoff to oneself removes the supervisor from the rooms (`out`), and two
  handoffs in opposite directions may rewire a room in the other order;
- a room that rooms-gc archived stays archived when its task is unassigned or set to
  open (`Fresh` leaves tasks out that were merged once);
- a crash in the middle of an unpublish leaves one half of it (`task.go:1224`), and
  the wipe discards work begun after the clean check (`task.go:1231`);
- two first publishes of a project put rows on one list (`foreign`);
- a first publish passes its checks and waits for the repository; another request of
  its caller unregisters, which finds no list and so no reason to refuse
  (`state.go:528`); the publish then makes a list with a live row whose supervisor is
  not registered (`task.go:738`), where help.go:280 says that unregister is
  rejected while the supervisor has tasks that are not merged (`foreign`);
- rooms-gc lists the slugs of merged tasks and archives after it freed `s.mu`
  (`task.go:409`): when another request of the supervisor unpublishes and publishes
  such a slug in between, the gc archives the room of the live task, and the
  invariant "archived = done", which the comment at `task.go:791` names, is broken
  (`stale`);
- two overlapping reassigns, or a reassign and a claim after an unassign, may do their
  room work in the other order (`task.go:909`): the one that took the task from an
  agent removes it from the room after the one that gave it back added it, and the
  owner is left outside (`crossed`);
- `loadTaskLists` makes no archived stub for a room that is missing, although
  `task.go:164` says so.

Of the daemon (`SignalEnds` and `CallsEnd` are about daemons whose handlers end: when
read-any and a post or tell wait for each other, as `LocksReadAny` shows, `s.mu` is never
free again, `requestStop` waits for it at `state.go:209` and the process stays, and so do
the calls that came in):

- after `lalia stop` the next request that carries a name, a second stop or a SIGTERM
  panics the process, which leaves socket and pid file behind;
- `lalia stop` spawns a daemon when there is none;
- starts that overlap leave two daemons, one of them out of reach, and a daemon that
  ends removes its successor's socket and pid file (`overlapped`).

Not modelled: the arithmetic of signatures (a signature is valid if it was made with
the key on record) and the key files' format; the resolution of addresses and
nicknames, a pure function on strings of the request; JSON framing; the command line,
prompts and the harness runner, which start child processes and edit files of the
user; failures of SQLite statements on mailboxes, whose errors the code ignores;
history, peek and listings, which change nothing (their locks are in `Handlers`); the
contents of bundles and renderings; the migration of old plan files, a rewrite at
start that a crash can leave half done (`task.go:97`).

## 6. Plan

Done: the channel layer with its abstract specification and proofs, the write queue,
the room, the lock order, the registry with its keys, the tasks and the daemon's life,
each with its proofs.

Next, in this order:

1. That the handlers' scripts are `Disciplined` for any number of channels and rooms.
2. An abstract bounded mailbox that `Room` implements.
3. `Addresses`: the resolution of names, qualified names and ids as operators,
   against a reference definition.
