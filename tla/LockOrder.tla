----------------------------- MODULE LockOrder -----------------------------
(***************************************************************************)
(* Goroutines of the daemon that take mutexes and send to the write queue. *)
(* What a request handler does is a script: the sequence of its Lock and   *)
(* Unlock calls and of its sends on s.writes.  The scripts of the handlers *)
(* are in module Handlers; this module runs any set of them on any number  *)
(* of threads and says when they cannot block each other for ever.         *)
(*                                                                         *)
(* The mutexes are s.mu, s.repoLocksMu, one per channel (c.mu), one per    *)
(* room (r.mu) and one per repository (repoLock).                          *)
(***************************************************************************)
EXTENDS Integers, Sequences

CONSTANTS
  Threads,      \* goroutines: one per connection, the sweeper, a stop
  Channels,     \* channels, for their mutexes
  Rooms,        \* rooms, for their mutexes
  Repos,        \* repositories, for their mutexes
  Mu,           \* s.mu
  RepoLocksMu,  \* s.repoLocksMu
  Free,         \* a mutex nobody holds
  Scripts,      \* what the threads may run
  Cap           \* capacity of s.writes

Locks == {Mu, RepoLocksMu} \union Channels \union Rooms \union Repos

\* The order in which a thread takes mutexes while it holds others.
Rank(l) ==
  IF l \in Repos THEN 1 ELSE IF l \in Channels \union Rooms THEN 2 ELSE 3

\* The steps of a script.
Lock(l)   == [do |-> "lock", on |-> l]
Unlock(l) == [do |-> "unlock", on |-> l]
Send      == [do |-> "send", on |-> Free]

Step == [do : {"lock", "unlock", "send"}, on : Locks \union {Free}]

ASSUME LocksAssumption ==
  /\ Free \notin Threads \union Locks
  /\ Mu \notin Repos /\ RepoLocksMu \notin Repos
  /\ Mu \notin Channels \union Rooms /\ RepoLocksMu \notin Channels \union Rooms
  /\ Repos \intersect (Channels \union Rooms) = {}

ASSUME CapAssumption == Cap \in Nat \ {0}

ASSUME ScriptsAssumption == Scripts \subseteq Seq(Step)

VARIABLES
  script,  \* what each thread runs
  pc,      \* its next step
  owner,   \* who holds each mutex
  queued   \* how much is in s.writes

vars == <<script, pc, owner, queued>>

Init ==
  /\ script = [t \in Threads |-> << >>]
  /\ pc = [t \in Threads |-> 1]
  /\ owner = [l \in Locks |-> Free]
  /\ queued = 0

\* The thread has work to do.
Busy(t) == script[t] # << >>

\* Its next step is this one.
At(t, step) == pc[t] \in 1..Len(script[t]) /\ script[t][pc[t]] = step

HeldBy(t) == {l \in Locks : owner[l] = t}

\* A goroutine starts.
Begin(t, sc) ==
  /\ ~Busy(t)
  /\ script' = [script EXCEPT ![t] = sc]
  /\ pc' = [pc EXCEPT ![t] = 1]
  /\ UNCHANGED <<owner, queued>>

Advance(t) == pc' = [pc EXCEPT ![t] = @ + 1] /\ UNCHANGED script

\* sync.Mutex: Lock waits until the mutex is free, for its own holder too.
Acquire(t) ==
  /\ \E l \in Locks :
       /\ At(t, Lock(l))
       /\ owner[l] = Free
       /\ owner' = [owner EXCEPT ![l] = t]
  /\ Advance(t)
  /\ UNCHANGED queued

Release(t) ==
  /\ \E l \in Locks :
       /\ At(t, Unlock(l))
       /\ owner' = [owner EXCEPT ![l] = Free]
  /\ Advance(t)
  /\ UNCHANGED queued

\* Mutant: the send does not wait.
EnqueueAtOnce(t) ==
  /\ At(t, Send)
  /\ queued' = queued + 1
  /\ Advance(t)
  /\ UNCHANGED owner

\* enqueueWrite waits while s.writes is full.
Enqueue(t) ==
  /\ At(t, Send)
  /\ queued < Cap
  /\ queued' = queued + 1
  /\ Advance(t)
  /\ UNCHANGED owner

Leave(t) ==
  /\ HeldBy(t) = {}
  /\ script' = [script EXCEPT ![t] = << >>]
  /\ pc' = [pc EXCEPT ![t] = 1]
  /\ UNCHANGED <<owner, queued>>

\* A handler is done.
Return(t) == Busy(t) /\ pc[t] > Len(script[t]) /\ Leave(t)

\* A handler turns a request down, or finds nothing more to do: it may at any
\* point at which it holds no mutex.
Refuse(t) == Busy(t) /\ pc[t] > 1 /\ pc[t] <= Len(script[t]) /\ Leave(t)

\* runWriter, which takes no mutex.
Write ==
  /\ queued > 0
  /\ queued' = queued - 1
  /\ UNCHANGED <<script, pc, owner>>

Run(t) == Acquire(t) \/ Release(t) \/ Enqueue(t) \/ Return(t)

Next ==
  \/ \E t \in Threads :
       Run(t) \/ Refuse(t) \/ \E sc \in Scripts : Begin(t, sc)
  \/ Write

Spec == Init /\ [][Next]_vars

\* Go runs every goroutine that can run, and neither a mutex nor a channel
\* passes over a waiter for ever (sync.Mutex has a starvation mode).  That a
\* handler turns a request down is not assumed.
Fairness == WF_vars(Write) /\ \A t \in Threads : SF_vars(Run(t))

FairSpec == Spec /\ Fairness

-----------------------------------------------------------------------------
(* Properties.                                                             *)

\* Type invariant of the threads and the mutexes.
TypeOK ==
  /\ script \in [Threads -> Scripts \union {<< >>}]
  /\ pc \in [Threads -> Nat \ {0}]
  /\ owner \in [Locks -> Threads \union {Free}]
  /\ queued \in 0..Cap

\* A thread that waits for a mutex, or is about to, holds only mutexes of a
\* lower rank: repository, then channel or room, then s.mu.  It unlocks what
\* it holds, and at the end it holds none.
InRankOrder ==
  \A t \in Threads :
    /\ \A l \in Locks : At(t, Lock(l)) => \A h \in HeldBy(t) : Rank(h) < Rank(l)
    /\ \A l \in Locks : At(t, Unlock(l)) => l \in HeldBy(t)
    /\ pc[t] > Len(script[t]) => HeldBy(t) = {}

\* t waits for a mutex that u holds.
WaitsFor(t, u) == \E l \in Locks : At(t, Lock(l)) /\ owner[l] = u

\* No threads wait for each other in a circle (and none for itself).
NoCircularWait ==
  \A W \in (SUBSET Threads) \ {{}} : \E t \in W : \A u \in W : ~WaitsFor(t, u)

\* Every handler ends.
HandlersFinish == \A t \in Threads : Busy(t) ~> ~Busy(t)
=============================================================================
