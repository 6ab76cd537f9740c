------------------------------ MODULE TaskList ------------------------------
(***************************************************************************)
(* The task list of one project (task.go): publish, claim, set-status,     *)
(* unassign, reassign, unpublish, handoff and rooms gc, with the rooms,    *)
(* worktrees and repository lock they work on, the registry as far as they *)
(* look at it, and the restart of the daemon.                              *)
(*                                                                         *)
(* The daemon serves every connection in a goroutine of its own, so an     *)
(* agent may have several commands in progress, as other agents have.  One *)
(* action is one critical section, one SQLite statement or one call of     *)
(* git; what a handler has still to do is its todo.                        *)
(*                                                                         *)
(* A slug has one branch, so a worktree that is there is on it.  "working" *)
(* stands for in-progress, ready and blocked, between which no handler     *)
(* tells a difference.  Roles do not change.  A lease that has run out and *)
(* the sweep that finds it are one step.                                   *)
(***************************************************************************)
EXTENDS Integers, Sequences, FiniteSets, FiniteSetsExt, Functions

CONSTANTS
  Agents,       \* names
  Supervisors,  \* those registered with role supervisor
  Slugs,        \* tasks, and their rooms and worktrees
  Conns,        \* connections; each serves one command after the other
  Caller,       \* the agent whose commands come in on each
  Nobody,       \* the empty name, and no connection
  Sweeper,      \* the sweep goroutine
  MaxStarts,    \* bound: restarts of the daemon
  MaxCommands   \* bound: commands given

ASSUME AgentAssumption ==
  /\ Supervisors \subseteq Agents
  /\ Caller \in [Conns -> Agents]
  /\ Nobody \notin Agents \union Conns
  /\ Sweeper \notin Conns \union {Nobody}
  /\ IsFiniteSet(Slugs)
  /\ MaxStarts \in Nat
  /\ MaxCommands \in Nat

VARIABLES
  registered,  \* names in s.nameIdx
  sup,         \* tl.Supervisor, or Nobody if the project has no list
  cells,       \* the array behind tl.Tasks
  len,         \* len(tl.Tasks)
  stored,      \* the task-list.json that the next start would load
  room,        \* s.rooms, per slug
  db,          \* their rows in SQLite
  worktrees,   \* slugs whose worktree is there
  dirty,       \* those with work that is not committed and pushed
  repo,        \* who holds the lock of the repository
  todo,        \* what each handler has still to do
  starts,      \* restarts so far
  given,       \* commands so far
  swept,       \* names that lost their registration to the sweep
  out,         \* names that were evicted from rooms, or handed off to themselves
  merged,      \* slugs that were set to merged since they were published
  told,        \* per slug: who was told that the task is theirs
  foreign,     \* slugs whose row was not installed by the supervisor on record,
               \* or when that agent had unregistered
  stale,       \* slugs published anew while a gc that found them merged goes on
  crossed,     \* slugs whose owner a handler is about to take out of the room
  lost         \* what restarts lost: see Losses

listVars == <<sup, cells, len>>
gitVars  == <<worktrees, dirty, repo>>
raceVars == <<foreign, stale, crossed>>
pastVars == <<swept, out, merged, told, raceVars, lost>>

vars == <<registered, listVars, stored, room, db, gitVars, todo, pastVars,
          starts, given>>

Procs    == Conns \union {Sweeper}
Statuses == {"open", "assigned", "working", "merged"}
Row      == [slug : Slugs, owner : Agents \union {Nobody}, status : Statuses]

-----------------------------------------------------------------------------
Init ==
  /\ registered = Agents
  /\ sup = Nobody
  /\ cells = << >>
  /\ len = 0
  /\ stored = [sup |-> Nobody, rows |-> << >>]
  /\ room = [s \in Slugs |->
       [exists |-> FALSE, members |-> {}, archived |-> FALSE, msgs |-> 0]]
  /\ db = [s \in Slugs |-> [exists |-> FALSE, members |-> {}, archived |-> FALSE]]
  /\ worktrees = {}
  /\ dirty = {}
  /\ repo = Nobody
  /\ todo = [p \in Procs |-> << >>]
  /\ starts = 0
  /\ given = 0
  /\ swept = {}
  /\ out = {}
  /\ merged = {}
  /\ told = [s \in Slugs |-> {}]
  /\ foreign = {}
  /\ stale = {}
  /\ crossed = {}
  /\ lost = {}

-----------------------------------------------------------------------------
(* Lists.                                                                  *)

\* findTask takes the first row of the slug; Pos, Owner and Status are defined
\* for a slug that is listed.
At(s)     == {i \in 1..len : cells[i].slug = s}
Listed(s) == At(s) # {}
Pos(s)    == Min(At(s))
Owner(s)  == cells[Pos(s)].owner
Status(s) == cells[Pos(s)].status

\* Slugs of rows that are not merged.
Active == {cells[i].slug : i \in {j \in 1..len : cells[j].status # "merged"}}

\* tlCopy := *tl: the copy shares its rows with the list.
Copy == [sup |-> sup, rows |-> SubSeq(cells, 1, len)]

\* What MarshalIndent may find behind a copy after s.mu was unlocked: each row
\* as it was, or as the array has it by now.
Renderings(copy) ==
  {rows \in [DOMAIN copy.rows -> Range(copy.rows) \union Range(cells)] :
     \A i \in DOMAIN rows :
       rows[i] = copy.rows[i] \/ (i \in DOMAIN cells /\ rows[i] = cells[i])}

\* The places of a set, in the order of the list: the loops over tl.Tasks.
Ascending(S) ==
  {q \in [1..Cardinality(S) -> S] :
     Range(q) = S /\ \A i, j \in DOMAIN q : i < j => q[i] < q[j]}

\* The sequences of distinct elements that list a set.
Orders(S) == {q \in [1..Cardinality(S) -> S] : IsInjective(q)}

-----------------------------------------------------------------------------
(* Handlers.                                                               *)

\* A registered agent gives a command on a connection that is free.
Idle(c) == Caller[c] \in registered /\ todo[c] = << >>

Then(p, steps) == todo' = [todo EXCEPT ![p] = steps]

\* The next step of p's handler is of this kind; it is replaced by others.
Step(p)        == Head(todo[p])
Doing(p, kind) == todo[p] # << >> /\ Step(p)[1] = kind
Instead(p, steps) == Then(p, steps \o Tail(todo[p]))

\* requireSupervisor, and the list is there.
RequireSupervisor(c) == Idle(c) /\ Caller[c] \in Supervisors /\ sup = Caller[c]

\* dispatch has found the caller registered; claim, set-status and post do not
\* ask again, so that it may be gone by then.
Ask(c, command) ==
  /\ Idle(c)
  /\ Then(c, <<command>>)
  /\ UNCHANGED <<registered, listVars, stored, room, db, gitVars, pastVars>>

\* What Ask asked for is refused.
Refuse(p) ==
  /\ Then(p, << >>)
  /\ UNCHANGED <<registered, listVars, stored, room, db, gitVars, pastVars>>

\* Somebody who is to leave the room of s gets the task: a reassign that took it
\* from them has not come to the room yet.
Crossing(s, owner) ==
  \E p \in Procs : \E x \in Range(todo[p]) :
    x[1] = "rewire" /\ x[2] = s /\ owner \in x[4]

\* The end of a handler's section under s.mu: the list is copied, the copy is
\* saved later.
SetRow(p, s, owner, status, rest) ==
  /\ cells' = [cells EXCEPT ![Pos(s)].owner = owner, ![Pos(s)].status = status]
  /\ UNCHANGED <<sup, len>>
  /\ Then(p, << <<"persist", Copy'>> >> \o rest)

\* The task goes to another owner.
SetOwner(p, s, owner, status, rest) ==
  /\ SetRow(p, s, owner, status, rest)
  /\ crossed' = IF Crossing(s, owner) THEN crossed \union {s} ELSE crossed \ {s}

\* persistTaskList, up to the durable insert into the write queue.
PersistTaskList(p) ==
  /\ Doing(p, "persist")
  /\ \E rows \in Renderings(Step(p)[2]) :
       stored' = [sup |-> Step(p)[2].sup, rows |-> rows]
  /\ Instead(p, << >>)
  /\ UNCHANGED <<registered, listVars, room, db, gitVars, pastVars>>

-----------------------------------------------------------------------------
(* The registry.                                                           *)

\* opRegister; for a name that is registered it changes nothing here.
Register(c) ==
  /\ Caller[c] \notin registered
  /\ todo[c] = << >>
  /\ registered' = registered \union {Caller[c]}
  /\ swept' = swept \ {Caller[c]}
  /\ UNCHANGED <<listVars, stored, room, db, gitVars, todo, out, merged, told,
                 raceVars, lost>>

\* Mutant: only open tasks count.
BusyIfOpen(a) == sup = a /\ \E i \in 1..len : cells[i].status = "open"

\* supervisor_busy: the agent supervises a task that is not merged.
Busy(a) == sup = a /\ Active # {}

\* opUnregister.
Unregister(c) ==
  /\ Idle(c)
  /\ ~Busy(Caller[c])
  /\ registered' = registered \ {Caller[c]}
  /\ Then(c, << <<"evict", Caller[c]>> >>)
  /\ UNCHANGED <<listVars, stored, room, db, gitVars, pastVars>>

\* sweep, for a lease that has run out, perhaps during a command.
Sweep(a) ==
  /\ a \in registered
  /\ todo[Sweeper] = << >>
  /\ registered' = registered \ {a}
  /\ swept' = swept \union {a}
  /\ Then(Sweeper, << <<"evict", a>> >>)
  /\ UNCHANGED <<listVars, stored, room, db, gitVars, out, merged, told, raceVars,
                 lost>>

\* removeMembers of every room.
Evict(p) ==
  /\ Doing(p, "evict")
  /\ room' = [s \in Slugs |-> [room[s] EXCEPT !.members = @ \ {Step(p)[2]}]]
  /\ out' = out \union {Step(p)[2]}
  /\ Instead(p, << >>)
  /\ UNCHANGED <<registered, listVars, stored, db, gitVars, swept, merged,
                 told, raceVars, lost>>

-----------------------------------------------------------------------------
(* Rooms.                                                                  *)

\* ensureRoomWithMembers; a new room is stored with whoever is in it by then.
EnsureRoom(p) ==
  /\ Doing(p, "ensure")
  /\ LET s == Step(p)[2]  who == Step(p)[3] IN
     /\ room' = [room EXCEPT ![s].exists = TRUE, ![s].members = @ \union who]
     /\ Instead(p, << <<"store", s, who \ room[s].members, ~room[s].exists>> >>)
  /\ UNCHANGED <<registered, listVars, stored, db, gitVars, pastVars>>

\* roomUpsert and roomAddMember (a restart between them is in Room).
StoreRoom(p) ==
  /\ Doing(p, "store")
  /\ LET s == Step(p)[2]  added == Step(p)[3]  new == Step(p)[4] IN
     db' = [db EXCEPT
       ![s].exists = @ \/ new,
       ![s].members = @ \union (IF new THEN room[s].members ELSE added)]
  /\ Instead(p, << >>)
  /\ UNCHANGED <<registered, listVars, stored, room, gitVars, pastVars>>

\* archiveRoom and unarchiveRoom: the flag is stored if it changed.
SetArchived(p, kind, flag) ==
  /\ Doing(p, kind)
  /\ LET s == Step(p)[2]
         flips == room[s].exists /\ room[s].archived # flag
     IN  /\ room' = [room EXCEPT ![s].archived = IF flips THEN flag ELSE @]
         /\ Instead(p, IF flips THEN << <<"flag", s, flag>> >> ELSE << >>)
  /\ UNCHANGED <<registered, listVars, stored, db, gitVars, pastVars>>

\* roomSetArchived, which does nothing for a room without a row.
StoreFlag(p) ==
  /\ Doing(p, "flag")
  /\ LET s == Step(p)[2] IN
     db' = [db EXCEPT ![s].archived = db[s].exists /\ Step(p)[3]]
  /\ Instead(p, << >>)
  /\ UNCHANGED <<registered, listVars, stored, room, gitVars, pastVars>>

\* Messages of a room, as far as unpublish counts them.
OneMore(n) == IF n < 2 THEN n + 1 ELSE 2

\* opPost.
Post(p) ==
  /\ Doing(p, "post")
  /\ LET s == Step(p)[2] IN
     \/ /\ Caller[p] \in room[s].members
        /\ ~room[s].archived
        /\ room' = [room EXCEPT ![s].msgs = OneMore(@)]
        /\ Then(p, << >>)
        /\ UNCHANGED <<registered, listVars, stored, db, gitVars, pastVars>>
     \/ (Caller[p] \notin room[s].members \/ room[s].archived) /\ Refuse(p)

\* Mutant: it does not look at the status.
RoomsGCOfAny(c) ==
  /\ RequireSupervisor(c)
  /\ \E q \in Ascending({i \in 1..len : room[cells[i].slug].exists}) :
       Then(c, [i \in DOMAIN q |-> <<"archive", cells[q[i]].slug>>])
  /\ UNCHANGED <<registered, listVars, stored, room, db, gitVars, pastVars>>

\* opRoomsGC: the rooms of merged tasks, one after the other.  An agent that
\* supervises nothing archives nothing.
RoomsGC(c) ==
  /\ RequireSupervisor(c)
  /\ \E q \in Ascending({i \in 1..len : cells[i].status = "merged"
                                      /\ room[cells[i].slug].exists}) :
       Then(c, [i \in DOMAIN q |-> <<"archive", cells[q[i]].slug>>])
  /\ UNCHANGED <<registered, listVars, stored, room, db, gitVars, pastVars>>

-----------------------------------------------------------------------------
(* publish.                                                                *)

\* opTaskPublish up to its checks, for some slugs in some order.
TaskPublish(c, slugs) ==
  /\ Idle(c)
  /\ Caller[c] \in Supervisors
  /\ sup \in {Nobody, Caller[c]}
  /\ Then(c, << <<"lock">> >>
               \o [i \in DOMAIN slugs |-> <<"worktree", slugs[i]>>]
               \o << <<"unlock">> >>)
  /\ UNCHANGED <<registered, listVars, stored, room, db, gitVars, pastVars>>

LockRepo(p) ==
  /\ Doing(p, "lock")
  /\ repo = Nobody
  /\ repo' = p
  /\ Instead(p, << >>)
  /\ UNCHANGED <<registered, listVars, stored, room, db, worktrees, dirty,
                 pastVars>>

UnlockRepo(p) ==
  /\ Doing(p, "unlock")
  /\ repo' = Nobody
  /\ Instead(p, << >>)
  /\ UNCHANGED <<registered, listVars, stored, room, db, worktrees, dirty,
                 pastVars>>

\* ensureWorktree; a slug whose worktree git refuses is passed over.
EnsureWorktree(p) ==
  /\ Doing(p, "worktree")
  /\ LET s == Step(p)[2] IN
     \/ /\ worktrees' = worktrees \union {s}
        /\ Instead(p, << <<"row", s, s \notin worktrees>> >>)
     \/ /\ s \notin worktrees
        /\ Instead(p, << >>)
        /\ UNCHANGED worktrees
  /\ UNCHANGED <<registered, listVars, stored, room, db, dirty, repo, pastVars>>

\* append(tl.Tasks, ...): in place while the array has room.
AppendRow(row) ==
  /\ len' = len + 1
  /\ cells' = IF len < Len(cells) THEN [cells EXCEPT ![len + 1] = row]
              ELSE Append(cells, row)

\* What publish does for a slug once its row is in the list.
Furnish(p, s, again) ==
  << <<"ensure", s, {Caller[p]}>>, <<"open", s>>, <<"bundle", s, again>> >>

\* A gc that found the task merged has not come to its room yet.
Collected(s) ==
  \E p \in Procs :
    /\ \E x \in Range(todo[p]) : x[1] = "archive" /\ x[2] = s
    /\ <<"drop", s>> \notin Range(todo[p])

\* The row of the slug; one that is there keeps its owner and status.  Whether
\* the caller still supervises the project, or is registered, is not asked again.
InstallRow(p) ==
  /\ Doing(p, "row")
  /\ LET s == Step(p)[2]
         a == Caller[p]
         isNew == ~Listed(s)
         again == ~Step(p)[3] /\ ~isNew /\ Status(s) = "open"
     IN  /\ sup' = IF sup = Nobody THEN a ELSE sup
         /\ \/ /\ isNew
               /\ AppendRow([slug |-> s, owner |-> Nobody, status |-> "open"])
               /\ merged' = merged \ {s}
               /\ told' = [told EXCEPT ![s] = {}]
               /\ foreign' = IF sup' = a /\ a \in registered THEN foreign \ {s}
                             ELSE foreign \union {s}
               /\ stale' = IF Collected(s) THEN stale \union {s} ELSE stale \ {s}
            \/ ~isNew /\ UNCHANGED <<cells, len, merged, told, foreign, stale>>
         /\ Instead(p, << <<"persist", Copy'>> >> \o Furnish(p, s, again))
  /\ UNCHANGED <<registered, stored, room, db, gitVars, swept, out, crossed, lost>>

\* internalPost of the bundle, unless this publish repeated an earlier one.
PostBundle(p) ==
  /\ Doing(p, "bundle")
  /\ LET s == Step(p)[2]  again == Step(p)[3] IN
     room' = [room EXCEPT ![s].msgs = IF again /\ @ > 0 THEN @ ELSE OneMore(@)]
  /\ Instead(p, << >>)
  /\ UNCHANGED <<registered, listVars, stored, db, gitVars, pastVars>>

-----------------------------------------------------------------------------
(* Claims and supervision.                                                 *)

\* The members that a room is to have when a task goes to an agent.
Party(s, a) == {sup, a}

\* Mutant: whatever is not finished may be claimed.
ClaimableUnlessDone(s) == Listed(s) /\ Status(s) # "merged"

Claimable(s) == Listed(s) /\ Status(s) = "open"

\* opTaskClaim.
TaskClaim(p) ==
  /\ Doing(p, "claim")
  /\ LET s == Step(p)[2]  a == Caller[p] IN
     \/ /\ a \notin Supervisors
        /\ Claimable(s)
        /\ SetOwner(p, s, a, "working", << <<"ensure", s, Party(s, a)>> >>)
        /\ told' = [told EXCEPT ![s] = @ \union {a}]
        /\ UNCHANGED <<registered, stored, room, db, gitVars, swept, out, merged,
                       foreign, stale, lost>>
     \/ (a \in Supervisors \/ ~Claimable(s)) /\ Refuse(p)

\* Owners may not set open, assigned or merged.
MaySet(a, s, status) ==
  Listed(s) /\ status \in Statuses /\ (sup = a \/ (Owner(s) = a /\ status = "working"))

\* opTaskStatus.
TaskStatus(p) ==
  /\ Doing(p, "status")
  /\ LET s == Step(p)[2]  status == Step(p)[3] IN
     \/ /\ MaySet(Caller[p], s, status)
        /\ SetRow(p, s, Owner(s), status, << >>)
        /\ merged' = IF status = "merged" THEN merged \union {s} ELSE merged
        /\ told' = IF status = "open" THEN [told EXCEPT ![s] = {}] ELSE told
        /\ UNCHANGED <<registered, stored, room, db, gitVars, swept, out, raceVars,
                       lost>>
     \/ ~MaySet(Caller[p], s, status) /\ Refuse(p)

\* opTaskUnassign.
TaskUnassign(c, s) ==
  /\ RequireSupervisor(c)
  /\ Listed(s)
  /\ SetOwner(c, s, Nobody, "open", << >>)
  /\ told' = [told EXCEPT ![s] = {}]
  /\ UNCHANGED <<registered, stored, room, db, gitVars, swept, out, merged,
                 foreign, stale, lost>>

\* Mutant: whoever owned the task leaves.
LeaveAlways(s, new) == {Owner(s)}

\* The old owner leaves the room, unless the task is theirs again.
Leave(s, new) == {Owner(s)} \ {new, Nobody}

\* opTaskReassign: the old owner leaves the room, in memory.
TaskReassign(c, s, new) ==
  /\ RequireSupervisor(c)
  /\ Listed(s)
  /\ new \in registered
  /\ SetOwner(c, s, new, "assigned",
              << <<"ensure", s, Party(s, new)>>, <<"rewire", s, {}, Leave(s, new)>> >>)
  /\ told' = [told EXCEPT ![s] = {new}]
  /\ UNCHANGED <<registered, stored, room, db, gitVars, swept, out, merged,
                 foreign, stale, lost>>

\* opTaskHandoff: the rooms of tasks that are not merged follow one by one.
TaskHandoff(c, new) ==
  /\ RequireSupervisor(c)
  /\ new \in registered \intersect Supervisors
  /\ sup' = new
  /\ UNCHANGED <<cells, len>>
  /\ \E q \in Ascending({i \in 1..len : cells[i].status # "merged"}) :
       Then(c, << <<"persist", Copy'>> >>
                 \o [i \in DOMAIN q |->
                       <<"rewire", cells[q[i]].slug, {new}, {Caller[c]}>>])
  /\ UNCHANGED <<registered, stored, room, db, gitVars, pastVars>>

\* Members come and go in memory; first they come.
RewireRoom(p) ==
  /\ Doing(p, "rewire")
  /\ LET s == Step(p)[2]  come == Step(p)[3]  go == Step(p)[4] IN
     /\ room' = [room EXCEPT
          ![s].members = IF room[s].exists THEN (@ \union come) \ go ELSE @]
     /\ out' = out \union (come \intersect go)
  /\ Instead(p, << >>)
  /\ UNCHANGED <<registered, listVars, stored, db, gitVars, swept, merged,
                 told, raceVars, lost>>

-----------------------------------------------------------------------------
(* unpublish.                                                              *)

\* opTaskUnpublish copies the row; its gates come later.
TaskUnpublish(c, s, force, wipe, evictOwner) ==
  /\ RequireSupervisor(c)
  /\ Listed(s)
  /\ Then(c, << <<"rowGate", s, Owner(s), force, wipe, evictOwner>> >>)
  /\ UNCHANGED <<registered, listVars, stored, room, db, gitVars, pastVars>>

\* What is left once the gates are passed.
Removal(s, hasRoom, wipe) ==
  (IF wipe THEN << <<"wipe", s>> >> ELSE << >>)
    \o (IF hasRoom THEN << <<"archive", s>> >> ELSE << >>)
    \o << <<"drop", s>> >>

\* An owner, or messages besides the bundle, need --force.
RowGate(p) ==
  /\ Doing(p, "rowGate")
  /\ LET s == Step(p)[2]  owner == Step(p)[3]  wipe == Step(p)[5] IN
     \/ /\ Step(p)[4] \/ (owner = Nobody /\ room[s].msgs <= 1)
        /\ Then(p, IF wipe THEN << <<"wipeGate", s, owner, Step(p)[6], room[s].exists>> >>
                           ELSE Removal(s, room[s].exists, FALSE))
     \/ ~Step(p)[4] /\ (owner # Nobody \/ room[s].msgs > 1) /\ Then(p, << >>)
  /\ UNCHANGED <<registered, listVars, stored, room, db, gitVars, pastVars>>

\* worktreeIsClean, and a live owner needs --evict-owner.
WipeGate(p) ==
  /\ Doing(p, "wipeGate")
  /\ LET s == Step(p)[2]
         refused == s \in dirty \/ (Step(p)[3] \in registered /\ ~Step(p)[4])
     IN  Then(p, IF refused THEN << >> ELSE Removal(s, Step(p)[5], TRUE))
  /\ UNCHANGED <<registered, listVars, stored, room, db, gitVars, pastVars>>

\* Mutant: the lock of the repository is not taken.
RemoveWorktreeUnlocked(p) ==
  /\ Doing(p, "wipe")
  /\ worktrees' = worktrees \ {Step(p)[2]}
  /\ dirty' = dirty \ {Step(p)[2]}
  /\ Instead(p, << >>)
  /\ UNCHANGED <<registered, listVars, stored, room, db, repo, pastVars>>

\* removeWorktree under the lock of the repository; it may fail.
RemoveWorktree(p) ==
  /\ Doing(p, "wipe")
  /\ repo = Nobody
  /\ \/ /\ worktrees' = worktrees \ {Step(p)[2]}
        /\ dirty' = dirty \ {Step(p)[2]}
     \/ UNCHANGED <<worktrees, dirty>>
  /\ Instead(p, << >>)
  /\ UNCHANGED <<registered, listVars, stored, room, db, repo, pastVars>>

\* The rows of other slugs move up, in place.
DropRow(p) ==
  /\ Doing(p, "drop")
  /\ LET s == Step(p)[2] IN
     /\ \E q \in Ascending((1..len) \ At(s)) :
          /\ cells' = [i \in DOMAIN cells |->
                         IF i \in DOMAIN q THEN cells[q[i]] ELSE cells[i]]
          /\ len' = Len(q)
     /\ told' = [told EXCEPT ![s] = {}]
  /\ UNCHANGED sup
  /\ Instead(p, << <<"persist", Copy'>> >>)
  /\ UNCHANGED <<registered, stored, room, db, gitVars, swept, out, merged,
                 raceVars, lost>>

-----------------------------------------------------------------------------
\* Somebody works in a worktree, commits and pushes.
Edit(s) ==
  /\ s \in worktrees \ dirty
  /\ dirty' = dirty \union {s}
  /\ UNCHANGED <<registered, listVars, stored, room, db, worktrees, repo, todo,
                 pastVars>>

Push(s) ==
  /\ s \in dirty
  /\ dirty' = dirty \ {s}
  /\ UNCHANGED <<registered, listVars, stored, room, db, worktrees, repo, todo,
                 pastVars>>

-----------------------------------------------------------------------------
(* A restart.                                                              *)

\* The rooms that loadRooms makes of their rows and transcripts.
Loaded(s) ==
  [exists   |-> db[s].exists,
   members  |-> {a \in db[s].members : db[s].exists},
   archived |-> db[s].exists /\ db[s].archived,
   msgs     |-> IF db[s].exists THEN room[s].msgs ELSE 0]

\* An unpublish is past its gates.
Removing(s) == \E p \in Procs : \E i \in DOMAIN todo[p] : todo[p][i] = <<"drop", s>>

Quiet == \A p \in Procs : todo[p] = << >>

\* What a restart now would lose: changes of the list or of the rooms that are
\* not stored, the rest of an unpublish, the rest of any handler.
Losses ==
  {x \in {"list", "rooms", "unpublish", "handler"} :
     \/ x = "list" /\ stored # Copy
     \/ x = "rooms" /\ \E s \in Slugs : Loaded(s) # room[s]
     \/ x = "unpublish" /\ \E s \in Slugs : Removing(s)
     \/ x = "handler" /\ ~Quiet}

\* newState: loadTaskLists and loadRooms.
Restart ==
  /\ starts < MaxStarts
  /\ starts' = starts + 1
  /\ sup' = stored.sup
  /\ cells' = stored.rows
  /\ len' = Len(stored.rows)
  /\ room' = [s \in Slugs |-> Loaded(s)]
  /\ repo' = Nobody
  /\ todo' = [p \in Procs |-> << >>]
  /\ lost' = lost \union Losses
  /\ UNCHANGED <<registered, stored, db, worktrees, dirty, swept, out, merged,
                 told, raceVars, given>>

-----------------------------------------------------------------------------
\* What a connection may ask of a handler that does not look the caller up.
Requests ==
  {<<kind, s>> : kind \in {"claim", "post"}, s \in Slugs}
    \union {<<"status", s, status>> : s \in Slugs, status \in Statuses}

Commands(c) ==
  \/ Register(c) \/ Unregister(c) \/ RoomsGC(c)
  \/ \E command \in Requests : Ask(c, command)
  \/ \E S \in SUBSET Slugs \ {{}} : \E q \in Orders(S) : TaskPublish(c, q)
  \/ \E s \in Slugs :
       \/ TaskUnassign(c, s)
       \/ \E new \in Agents : TaskReassign(c, s, new)
       \/ \E force, wipe, evictOwner \in BOOLEAN :
            TaskUnpublish(c, s, force, wipe, evictOwner)
  \/ \E new \in Agents : TaskHandoff(c, new)

Handler(p) ==
  \/ Post(p) \/ TaskClaim(p) \/ TaskStatus(p)
  \/ PersistTaskList(p) \/ Evict(p) \/ EnsureRoom(p) \/ StoreRoom(p)
  \/ SetArchived(p, "archive", TRUE) \/ SetArchived(p, "open", FALSE) \/ StoreFlag(p)
  \/ LockRepo(p) \/ EnsureWorktree(p) \/ InstallRow(p) \/ PostBundle(p)
  \/ UnlockRepo(p) \/ RewireRoom(p) \/ RowGate(p) \/ WipeGate(p)
  \/ RemoveWorktree(p) \/ DropRow(p)

Next ==
  \/ /\ given < MaxCommands
     /\ given' = given + 1
     /\ (\E c \in Conns : Commands(c)) \/ (\E a \in Agents : Sweep(a))
     /\ UNCHANGED starts
  \/ /\ (\E c \in Conns : Handler(c)) \/ Evict(Sweeper)
     /\ UNCHANGED <<starts, given>>
  \/ /\ \E s \in Slugs : Edit(s) \/ Push(s)
     /\ UNCHANGED <<starts, given>>
  \/ Restart

Spec == Init /\ [][Next]_vars

-----------------------------------------------------------------------------
(* Properties.                                                             *)
(*                                                                         *)
(* What a restart loses is a matter of the write queue and of the rooms'   *)
(* tables; the properties below say what holds as long as none of the      *)
(* restarts so far lost what they are about.                               *)

Kept(what) == lost \intersect what = {}

\* A listed task that was never set to merged since it was published.
Fresh(s) == Listed(s) /\ s \notin merged

\* A task on the list has its worktree, unless an unpublish is about to drop
\* the row: publish and unpublish --wipe-worktree of different supervisors keep
\* out of each other's way through the lock of the repository, although the
\* worktree goes before the row does and comes before it.
WorktreeBacksRow ==
  Kept({"list", "unpublish"}) =>
    \A s \in Slugs : Listed(s) => s \in worktrees \/ Removing(s)

\* While no handler runs, the room of a task that was never merged is there and
\* takes posts, whichever publish, unpublish and rooms gc ran against each
\* other, on whichever connections.  The one way to lock up a live room is a gc
\* that found the task merged and archives the room of the next task of that
\* slug: stale has these.
OpenWhileActive ==
  (Kept({"list", "rooms", "unpublish", "handler"}) /\ Quiet) =>
    \A s \in Slugs \ stale : Fresh(s) => room[s].exists /\ ~room[s].archived

\* While no handler runs, a worker that owns a task is a member of its room,
\* after every mixture of claim, reassign, handoff and unassign, unless the
\* worker was evicted, or got the task back before the reassign that took it
\* away had come to the room: crossed has these.  (The supervisor need not be:
\* two handoffs in opposite directions may rewire a room in the other order.)
OwnerInRoom ==
  (Kept({"list", "rooms", "handler"}) /\ Quiet) =>
    \A s \in Slugs \ crossed :
      Fresh(s) /\ Owner(s) \notin Supervisors \union out \union {Nobody}
        => Owner(s) \in room[s].members

\* A project with a task that is not merged keeps its supervisor until the
\* lease runs out: unregister refuses, and a handoff goes to a registered
\* agent.  (Not so for a row of a publish that waited for the repository while
\* another publish made the list, or its own caller unregistered: foreign.)
SupervisorGate ==
  Kept({"list"}) =>
    ((\E s \in Slugs \ foreign : Fresh(s) /\ Status(s) # "merged")
       => sup \in registered \union swept)

\* Whoever was told that a task is theirs, by claim or reassign, owns it alone
\* until a supervisor takes it back.
ClaimHolds ==
  Kept({"list"}) =>
    \A s \in Slugs : told[s] # {} => Listed(s) /\ told[s] = {Owner(s)}
=============================================================================
