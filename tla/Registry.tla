------------------------------ MODULE Registry ------------------------------
(***************************************************************************)
(* The agent registry of the lalia daemon (registry.go, and in state.go    *)
(* dispatch, renewLease, sweep, opRegister, opUnregister and opRenew) with *)
(* the keys of signing.go: who is known under which name, until when, and  *)
(* what of it is still known after a restart.                              *)
(*                                                                         *)
(* One action is one critical section of s.mu, one access to a file or one *)
(* insert into the write queue; what a handler has still to do is its      *)
(* todo.  A client is an OS process: it registers and signs requests under *)
(* any name, one at a time.                                                *)
(*                                                                         *)
(* Time is relative.  Every copy of a lease, in memory, in a handler, in   *)
(* the write queue and in a file, has an age: 0 before it expires, 1 at    *)
(* that very moment, 2 after it.  Tick makes all of them older.            *)
(***************************************************************************)
EXTENDS Integers, Sequences, FiniteSets, FiniteSetsExt

CONSTANTS
  Names,        \* display names
  Clients,      \* processes, which stand for their PIDs
  Session,      \* the harness and working directory of each
  Uses,         \* the names each of them uses
  Sweeper,      \* the sweep goroutine
  Requests,     \* kinds of signed requests: renew, unregister and other
  MaxIds,       \* bound: agent ids given out
  MaxKeys,      \* bound: keys generated
  MaxCommands,  \* bound: commands given
  MaxStarts     \* bound: restarts

ASSUME RegistryAssumption ==
  /\ Sweeper \notin Clients
  /\ Requests \subseteq {"renew", "unregister", "other"}
  /\ DOMAIN Session = Clients
  /\ Uses \in [Clients -> SUBSET Names]
  /\ MaxIds \in Nat
  /\ MaxKeys \in Nat
  /\ MaxCommands \in Nat
  /\ MaxStarts \in Nat

\* An Agent, as far as the registry looks at it.
Agent == [name : Names, pid : Clients, session : {Session[c] : c \in Clients},
          pub : 1..MaxKeys, age : 0..2]

VARIABLES
  agents,     \* s.agents: a function from ids to Agent
  nameIdx,    \* s.nameIdx, 0 for a name that is not there
  keys,       \* the key store, 0 for a name without a key
  files,      \* registry/<agent_id>.json: a function from ids to Agent
  queue,      \* queued writes of those files, oldest first
  todo,       \* what each handler has still to do
  lastId,     \* ids given out: a ULID is larger than earlier ones
  lastKey,    \* keys generated
  given,      \* commands so far
  starts,     \* restarts so far
  removed,    \* ids that unregister or sweep removed, until they are in use again
  crossed,    \* ids of which two snapshots were on their way at once
  contended   \* names on which two commands ran at once

memVars  == <<agents, nameIdx>>
diskVars == <<keys, files, queue>>
pastVars == <<removed, crossed, contended>>

vars == <<memVars, diskVars, todo, lastId, lastKey, given, starts, pastVars>>

Procs == Clients \union {Sweeper}
Ids   == 1..MaxIds

Init ==
  /\ agents = << >>
  /\ nameIdx = [n \in Names |-> 0]
  /\ keys = [n \in Names |-> 0]
  /\ files = << >>
  /\ queue = << >>
  /\ todo = [p \in Procs |-> << >>]
  /\ lastId = 0
  /\ lastKey = 0
  /\ given = 0
  /\ starts = 0
  /\ removed = {}
  /\ crossed = {}
  /\ contended = {}

-----------------------------------------------------------------------------
(* Handlers.                                                               *)

Idle(p) == todo[p] = << >>

Then(p, steps)    == todo' = [todo EXCEPT ![p] = steps]
Step(p)           == Head(todo[p])
Doing(p, kind)    == ~Idle(p) /\ Step(p)[1] = kind
Instead(p, steps) == Then(p, steps \o Tail(todo[p]))

\* A snapshot of the agent is about to be queued.
Saving(p, id) == \E i \in DOMAIN todo[p] :
  todo[p][i][1] = "persist" /\ todo[p][i][2] = id

\* A handler works on the name.
About(p, n) == \E i \in DOMAIN todo[p] :
  \/ todo[p][i][1] \in {"load", "save", "index", "auth", "renew", "unindex", "removeKey"}
     /\ todo[p][i][2] = n
  \/ todo[p][i][1] = "persist" /\ todo[p][i][3].name = n

\* A client gives a command about a name.
Command(c, n, steps) ==
  /\ Idle(c)
  /\ given < MaxCommands
  /\ given' = given + 1
  /\ Then(c, steps)
  /\ contended' = contended \union {x \in {n} : \E p \in Clients : About(p, n)}
  /\ UNCHANGED <<memVars, diskVars, lastId, lastKey, starts, removed, crossed>>

-----------------------------------------------------------------------------
(* The indexes.                                                            *)

With(f, id, a)  == [i \in DOMAIN f \union {id} |-> IF i = id THEN a ELSE f[i]]
Without(f, ids) == [i \in DOMAIN f \ ids |-> f[i]]

\* indexAgent.
Index(id, a) ==
  /\ agents' = With(agents, id, a)
  /\ nameIdx' = [nameIdx EXCEPT ![a.name] = id]

\* Mutant: the name goes, whoever has it by now.
UnindexName(ids) ==
  /\ agents' = Without(agents, ids)
  /\ nameIdx' = [n \in Names |->
       IF \E id \in ids : agents[id].name = n THEN 0 ELSE nameIdx[n]]

\* unindexAgent of some agents.
Unindex(ids) ==
  /\ agents' = Without(agents, ids)
  /\ nameIdx' = [n \in Names |-> IF nameIdx[n] \in ids THEN 0 ELSE nameIdx[n]]

-----------------------------------------------------------------------------
(* register.                                                               *)

Register(c, n) == Command(c, n, << <<"load", n>> >>)

\* ensureKey finds the key, or goes on to make one.
LoadKey(c) ==
  /\ Doing(c, "load")
  /\ LET n == Step(c)[2] IN
     Instead(c, IF keys[n] # 0 THEN << <<"index", n, keys[n]>> >>
                               ELSE << <<"save", n>> >>)
  /\ UNCHANGED <<memVars, diskVars, lastId, lastKey, given, starts, pastVars>>

\* Mutant: the key is used and not saved.
SaveKeyNowhere(c) ==
  /\ Doing(c, "save")
  /\ lastKey < MaxKeys
  /\ lastKey' = lastKey + 1
  /\ Instead(c, << <<"index", Step(c)[2], lastKey'>> >>)
  /\ UNCHANGED <<memVars, diskVars, lastId, given, starts, pastVars>>

\* GenerateKey and Save; the handler gives up if the key store does.
SaveKey(c) ==
  /\ Doing(c, "save")
  /\ LET n == Step(c)[2] IN
     \/ /\ lastKey < MaxKeys
        /\ lastKey' = lastKey + 1
        /\ keys' = [keys EXCEPT ![n] = lastKey']
        /\ Instead(c, << <<"index", n, lastKey'>> >>)
     \/ /\ Then(c, << >>)
        /\ UNCHANGED <<keys, lastKey>>
  /\ UNCHANGED <<memVars, files, queue, lastId, given, starts, pastVars>>

\* The process is bound to another name, or the name to another session.
PidInUse(c, n) == \E id \in DOMAIN agents :
  agents[id].pid = c /\ agents[id].name # n /\ agents[id].age = 0

SessionConflict(c, n) ==
  /\ nameIdx[n] # 0
  /\ agents[nameIdx[n]].age = 0
  /\ agents[nameIdx[n]].session # Session[c]

\* A name that is known keeps its id.
IdFor(n) == IF nameIdx[n] # 0 THEN nameIdx[n] ELSE lastId + 1

\* opRegister with s.mu held.
IndexAgent(c) ==
  /\ Doing(c, "index")
  /\ LET n == Step(c)[2]
         id == IdFor(n)
         a == [name |-> n, pid |-> c, session |-> Session[c],
               pub |-> Step(c)[3], age |-> 0]
     IN  \/ /\ PidInUse(c, n) \/ SessionConflict(c, n)
            /\ Then(c, << >>)
            /\ UNCHANGED <<memVars, lastId>>
         \/ /\ ~PidInUse(c, n) /\ ~SessionConflict(c, n)
            /\ id \in Ids
            /\ Index(id, a)
            /\ lastId' = Max({lastId, id})
            /\ Instead(c, << <<"persist", id, a>> >>)
  /\ UNCHANGED <<diskVars, lastKey, given, starts, pastVars>>

\* Mutant: the insert is left out.
PersistNothing(c) ==
  /\ Doing(c, "persist")
  /\ Instead(c, << >>)
  /\ UNCHANGED <<memVars, diskVars, lastId, lastKey, given, starts, pastVars>>

\* persistAgent, up to the durable insert.
PersistAgent(c) ==
  /\ Doing(c, "persist")
  /\ LET id == Step(c)[2] IN
     /\ queue' = Append(queue, <<id, Step(c)[3]>>)
     /\ removed' = IF id \in DOMAIN agents THEN removed \ {id} ELSE removed
     /\ crossed' = crossed \union {x \in {id} : \E p \in Clients \ {c} : Saving(p, id)}
  /\ Instead(c, << >>)
  /\ UNCHANGED <<memVars, keys, files, lastId, lastKey, given, starts, contended>>

-----------------------------------------------------------------------------
(* Signed requests.                                                        *)

\* The client signs with the key on disk.  dispatch checks the signature and
\* renews the lease before the handler of the request runs; for renew that is
\* a second renewal, and other handlers leave the registry alone.
Request(c, n, op) ==
  /\ keys[n] # 0
  /\ Command(c, n,
       << <<"auth", n, keys[n]>>, <<"renew", n>> >>
         \o (CASE op = "unregister" -> << <<"unindex", n>> >>
               [] op = "renew"      -> << <<"renew", n>> >>
               [] op = "other"      -> << >>))

\* dispatch, up to verifyRequest.
Authenticate(c) ==
  /\ Doing(c, "auth")
  /\ LET n == Step(c)[2]
         known == nameIdx[n] # 0 /\ agents[nameIdx[n]].pub = Step(c)[3]
     IN  IF known THEN Instead(c, << >>) ELSE Then(c, << >>)
  /\ UNCHANGED <<memVars, diskVars, lastId, lastKey, given, starts, pastVars>>

\* renewLease, and opRenew.
RenewLease(c) ==
  /\ Doing(c, "renew")
  /\ LET id == nameIdx[Step(c)[2]] IN
     \/ /\ id # 0
        /\ agents' = [agents EXCEPT ![id].age = 0]
        /\ Instead(c, << <<"persist", id, agents'[id]>> >>)
     \/ /\ id = 0
        /\ Instead(c, << >>)
        /\ UNCHANGED agents
  /\ UNCHANGED <<nameIdx, diskVars, lastId, lastKey, given, starts, pastVars>>

\* opUnregister with s.mu held, for an agent that supervises nothing.
UnindexAgent(c) ==
  /\ Doing(c, "unindex")
  /\ LET n == Step(c)[2]  id == nameIdx[n] IN
     \/ /\ id # 0
        /\ Unindex({id})
        /\ removed' = removed \union {id}
        /\ Instead(c, << <<"removeFile", {id}>>, <<"removeKey", n>> >>)
     \/ /\ id = 0
        /\ Instead(c, << >>)
        /\ UNCHANGED <<memVars, removed>>
  /\ UNCHANGED <<diskVars, lastId, lastKey, given, starts, crossed, contended>>

\* removeAgentFile of one agent after the other.
RemoveAgentFile(p) ==
  /\ Doing(p, "removeFile")
  /\ \E id \in Step(p)[2] :
       /\ files' = Without(files, {id})
       /\ Instead(p, IF Step(p)[2] = {id} THEN << >>
                     ELSE << <<"removeFile", Step(p)[2] \ {id}>> >>)
  /\ UNCHANGED <<memVars, keys, queue, lastId, lastKey, given, starts, pastVars>>

RemoveKey(c) ==
  /\ Doing(c, "removeKey")
  /\ keys' = [keys EXCEPT ![Step(c)[2]] = 0]
  /\ Instead(c, << >>)
  /\ UNCHANGED <<memVars, files, queue, lastId, lastKey, given, starts, pastVars>>

-----------------------------------------------------------------------------
(* Time.                                                                   *)

Older(a) == [a EXCEPT !.age = IF @ < 2 THEN @ + 1 ELSE 2]

Tick ==
  /\ agents' = [id \in DOMAIN agents |-> Older(agents[id])]
  /\ files' = [id \in DOMAIN files |-> Older(files[id])]
  /\ queue' = [i \in DOMAIN queue |-> <<queue[i][1], Older(queue[i][2])>>]
  /\ todo' = [p \in Procs |-> [i \in DOMAIN todo[p] |->
       IF todo[p][i][1] = "persist"
       THEN <<"persist", todo[p][i][2], Older(todo[p][i][3])>> ELSE todo[p][i]]]
  /\ UNCHANGED <<nameIdx, keys, lastId, lastKey, given, starts, pastVars>>

\* Mutant: by name, so that an agent whose name was taken over is passed over.
ExpiredByName ==
  {nameIdx[n] : n \in {m \in Names : nameIdx[m] # 0 /\ agents[nameIdx[m]].age = 2}}

\* The agents that sweep finds expired.
Expired == {id \in DOMAIN agents : agents[id].age = 2}

\* sweep, up to the removal of files.
Sweep ==
  /\ Idle(Sweeper)
  /\ Expired # {}
  /\ Unindex(Expired)
  /\ removed' = removed \union Expired
  /\ Then(Sweeper, << <<"removeFile", Expired>> >>)
  /\ UNCHANGED <<diskVars, lastId, lastKey, given, starts, crossed, contended>>

-----------------------------------------------------------------------------
(* The writer and a restart.                                               *)

WriteFile ==
  /\ queue # << >>
  /\ files' = With(files, Head(queue)[1], Head(queue)[2])
  /\ queue' = Tail(queue)
  /\ UNCHANGED <<memVars, keys, todo, lastId, lastKey, given, starts, pastVars>>

\* flushPendingWrites: what is queued last for an agent is its file.
Queued(id)  == {i \in DOMAIN queue : queue[i][1] = id}
Flushed     == [id \in DOMAIN files \union {queue[i][1] : i \in DOMAIN queue} |->
                  IF Queued(id) # {} THEN queue[Max(Queued(id))][2] ELSE files[id]]

\* loadRegistry: expired records are left out; of two agents of one name, the
\* one with the larger id is indexed last.
Reloaded    == Without(Flushed, {id \in DOMAIN Flushed : Flushed[id].age = 2})
ReloadedIdx == [n \in Names |->
                  Max({0} \union {id \in DOMAIN Reloaded : Reloaded[id].name = n})]

\* newState.
Restart ==
  /\ starts < MaxStarts
  /\ starts' = starts + 1
  /\ agents' = Reloaded
  /\ nameIdx' = ReloadedIdx
  /\ files' = Reloaded
  /\ queue' = << >>
  /\ todo' = [p \in Procs |-> << >>]
  /\ UNCHANGED <<keys, lastId, lastKey, given, pastVars>>

-----------------------------------------------------------------------------
Handler(c) ==
  \/ LoadKey(c) \/ SaveKey(c) \/ IndexAgent(c) \/ PersistAgent(c)
  \/ Authenticate(c) \/ RenewLease(c) \/ UnindexAgent(c) \/ RemoveAgentFile(c)
  \/ RemoveKey(c)

Next ==
  \/ \E c \in Clients : \E n \in Uses[c] :
       \/ Register(c, n)
       \/ \E op \in Requests : Request(c, n, op)
  \/ \E c \in Clients : Handler(c)
  \/ Tick
  \/ Sweep
  \/ RemoveAgentFile(Sweeper)
  \/ WriteFile
  \/ Restart

Spec == Init /\ [][Next]_vars

\* The goroutines of the daemon go on while one of them can (the sweeper's
\* ticker fires), and time passes.
Work ==
  \/ \E c \in Clients : Handler(c)
  \/ Sweep \/ RemoveAgentFile(Sweeper) \/ WriteFile

FairSpec == Spec /\ WF_vars(Work) /\ WF_vars(Tick)

-----------------------------------------------------------------------------
(* Properties.                                                             *)

\* A name leads to an agent of that name, and an agent is found under its name,
\* unless unregister or sweep had removed it before and a restart brought it
\* back: whatever was registered over it, removed beside it or loaded with it.
NameFindsAgent ==
  /\ \A n \in Names : nameIdx[n] # 0 => agents[nameIdx[n]].name = n
  /\ \A id \in DOMAIN agents \ removed : nameIdx[agents[id].name] = id

\* What was registered or renewed is there after a restart at any moment, under
\* its name and with its lease: as soon as the snapshot is queued, if no other
\* snapshot of the agent was on its way then.
RegistrationSurvives ==
  \A id \in DOMAIN agents \ crossed :
    (agents[id].age < 2 /\ ~\E c \in Clients : Saving(c, id)) =>
      /\ id \in DOMAIN Reloaded
      /\ Reloaded[id] = agents[id]
      /\ id \notin removed => ReloadedIdx[agents[id].name] = id

\* An agent can sign, at every step of every command: the key on disk is the one
\* that it is registered with.  Not so for an agent that a restart brought back,
\* nor for a name on which two commands ran at once.
KeyFits ==
  \A n \in Names \ contended :
    nameIdx[n] \notin removed \union {0} => keys[n] = agents[nameIdx[n]].pub

\* Agents that stop renewing are forgotten, those included that a restart
\* brought back behind another agent's name.
LeasesEnd == <>[](DOMAIN agents = {})
=============================================================================
