------------------------------ MODULE Handlers ------------------------------
(***************************************************************************)
(* The scripts of the request handlers: the mutexes each takes and its     *)
(* sends on s.writes, in the order of the code.  A loop over channels,     *)
(* rooms or slugs goes through them in any order (Go's maps have none).    *)
(* A read waits for its message with no mutex held, so the wait is no      *)
(* step.                                                                   *)
(***************************************************************************)
EXTENDS LockOrder, SequencesExt

\* The body runs with the mutex held; or there is no body.
Within(l, body) == <<Lock(l)>> \o body \o <<Unlock(l)>>
Visit(l) == Within(l, << >>)

\* The body once for every element of the sequence.
Each(seq, Body(_)) == FlattenSeq([i \in DOMAIN seq |-> Body(seq[i])])

\* enqueueWrite.
EnqueueWrite == <<Send>>

-----------------------------------------------------------------------------
(* What handlers share.                                                    *)

\* dispatch: the caller is looked up, and its lease renewed and saved.
Dispatch == Visit(Mu) \o Visit(Mu) \o EnqueueWrite

\* deliverAny.
DeliverAny == Visit(Mu)

PersistRoomDefinition(r) == Visit(r) \o EnqueueWrite

PersistRoomMembers(r) == Visit(r) \o EnqueueWrite

\* ensureRoomWithMembers of a new room; of an old one it is two steps shorter.
EnsureRoom(r) == Visit(Mu) \o Visit(r) \o Visit(r)

\* Mutant: archiveRoom is called with s.mu held.
SetArchivedUnderMu(r) == Within(Mu, Visit(r))

\* archiveRoom and unarchiveRoom.
SetArchived(r) == Visit(Mu) \o Visit(r)

\* The message goes to two members, from opPost or internalPost.
Deliver(r) == Within(r, DeliverAny \o DeliverAny) \o EnqueueWrite

-----------------------------------------------------------------------------
(* Agents, channels and rooms.                                             *)

\* opRegister; opRenew is the same.
Register == Visit(Mu) \o EnqueueWrite

\* opTaskShow; opTaskList, opAgents and opResolve look only once.
LookUp == Visit(Mu) \o Visit(Mu)

\* opUnregister, and sweep for those whose lease expired.
Unregister(cs, rs) ==
  Visit(Mu) \o Each(cs, Visit)
    \o Each(rs, LAMBDA r : Visit(r) \o PersistRoomMembers(r))

\* Mutant: tell forgets an unlock.
TellAndKeep(c) ==
  Visit(Mu) \o Visit(Mu) \o <<Lock(c)>> \o EnqueueWrite \o DeliverAny

\* opTell: the message is queued for git, and delivered, with c.mu held.
Tell(c) == Visit(Mu) \o Visit(Mu) \o Within(c, EnqueueWrite \o DeliverAny)

\* opRead and opPeek of a peer; the timer branch locks again.
PeerRead(c) == Visit(Mu) \o Visit(Mu) \o Visit(c) \o Visit(c)

\* opChannels.
ListChannels(cs) == Visit(Mu) \o Visit(Mu) \o Each(cs, Visit)

\* opReadAny: every channel and room is locked with s.mu held.
ReadAny(cs, rs) == Within(Mu, Each(cs, Visit) \o Each(rs, Visit)) \o Visit(Mu)

\* opHistory of a channel or room, and opParticipants.
History(l) == Visit(Mu) \o Visit(l)

\* opRooms.
ListRooms(rs) == Visit(Mu) \o Each(rs, Visit)

RoomCreate(r) == Visit(Mu) \o PersistRoomDefinition(r) \o PersistRoomMembers(r)

\* Mutant: the members are saved before r.mu is unlocked.
JoinAndSave(r) == Visit(Mu) \o Within(r, PersistRoomMembers(r))

\* opJoin and opLeave.
JoinOrLeave(r) == Visit(Mu) \o Visit(r) \o PersistRoomMembers(r)

Post(r) == Visit(Mu) \o Deliver(r)

\* roomRead and roomPeek.
RoomRead(r) == Visit(Mu) \o Visit(r) \o Visit(r)

\* requestStop.
RequestStop(cs) == Visit(Mu) \o Each(cs, Visit)

-----------------------------------------------------------------------------
(* Tasks.                                                                  *)

\* opTaskPublish: the repository stays locked over all slugs.
TaskPublish(repo, rs) ==
  Visit(Mu) \o Visit(RepoLocksMu)
    \o Within(repo, Each(rs, LAMBDA r :
         Visit(Mu) \o EnqueueWrite \o EnsureRoom(r) \o SetArchived(r)
           \o PersistRoomDefinition(r) \o PersistRoomMembers(r)
           \o Visit(r) \o Deliver(r)))

\* opTaskUnassign and opTaskStatus.
TaskEdit == Visit(Mu) \o EnqueueWrite

TaskReassign(r) ==
  TaskEdit \o EnsureRoom(r) \o Visit(r) \o PersistRoomMembers(r)

TaskClaim(r) ==
  TaskEdit \o EnsureRoom(r) \o PersistRoomMembers(r) \o Visit(r)

\* opTaskBulletin.
TaskBulletin(rs) == Visit(Mu) \o Each(rs, LAMBDA r : Visit(Mu) \o Visit(r))

\* opRoomsGC.
RoomsGC(rs) == Visit(Mu) \o Each(rs, SetArchived)

\* opTaskUnpublish.
TaskUnpublish(repo, r) ==
  Visit(Mu) \o Visit(Mu) \o Visit(Mu) \o Visit(r) \o Visit(Mu)
    \o Visit(RepoLocksMu) \o Visit(repo) \o SetArchived(r)
    \o Visit(Mu) \o EnqueueWrite

\* opTaskHandoff.
TaskHandoff(rs) ==
  TaskEdit \o Each(rs, LAMBDA r : Visit(Mu) \o Visit(r) \o PersistRoomMembers(r))

-----------------------------------------------------------------------------
\* All orders of a loop over these.
Orders(S) == SetToSeqs(S)

\* The requests that come with a sender, without read-any.
Requests ==
  {TaskEdit, LookUp}
    \union {Tell(c) : c \in Channels} \union {PeerRead(c) : c \in Channels}
    \union {History(l) : l \in Channels \union Rooms}
    \union {ListChannels(cs) : cs \in Orders(Channels)}
    \union {Unregister(cs, rs) : cs \in Orders(Channels), rs \in Orders(Rooms)}
    \union {ListRooms(rs) : rs \in Orders(Rooms)}
    \union UNION {{RoomCreate(r), JoinOrLeave(r), Post(r), RoomRead(r)} : r \in Rooms}
    \union UNION {{TaskReassign(r), TaskClaim(r)} : r \in Rooms}
    \union UNION {{TaskBulletin(rs), RoomsGC(rs), TaskHandoff(rs)} : rs \in Orders(Rooms)}
    \union {TaskPublish(p, rs) : p \in Repos, rs \in Orders(Rooms)}
    \union {TaskUnpublish(p, r) : p \in Repos, r \in Rooms}

\* What runs without dispatch's look-up: register, agents and resolve, the
\* sweeper, a stop.
Others ==
  {Register, LookUp}
    \union {Unregister(cs, rs) : cs \in Orders(Channels), rs \in Orders(Rooms)}
    \union {RequestStop(cs) : cs \in Orders(Channels)}

\* The daemon without read-any, and with it.
ServerScripts == Others \union {Dispatch \o sc : sc \in Requests}

ReadAnyScripts ==
  {Dispatch \o ReadAny(cs, rs) : cs \in Orders(Channels), rs \in Orders(Rooms)}

AllScripts == ServerScripts \union ReadAnyScripts
=============================================================================
