------------------------------- MODULE Daemon -------------------------------
(***************************************************************************)
(* The life of daemon processes and of the calls that reach them           *)
(* (daemon.go, and dial, dialOrSpawn, spawnDaemon and request in           *)
(* client.go): a client that finds nobody behind the socket spawns a       *)
(* daemon, a daemon starts unless another one answers, and it ends by      *)
(* SIGTERM, by a panic or by a kill.  `lalia stop' is modelled as far as   *)
(* it ends something: it closes the write queue.                           *)
(*                                                                         *)
(* The socket and the pid file are paths that every daemon writes and      *)
(* removes without asking whose they are.                                  *)
(***************************************************************************)
EXTENDS Integers, FiniteSets

CONSTANTS
  Clients,    \* processes that run `lalia' commands, one at a time
  Kinds,      \* what they ask for: see Call
  MaxCalls,   \* bound: calls made, and with them daemons spawned
  MaxFaults   \* bound: signals, kills and starts that fail

ASSUME DaemonAssumption ==
  /\ Kinds \subseteq {"say", "look", "stop"}
  /\ MaxCalls \in Nat
  /\ MaxFaults \in Nat

\* Daemons in the order in which they are spawned; 0 is none.
Daemons == 1..MaxCalls

VARIABLES
  pc,          \* where runDaemon is
  listening,   \* daemons whose listener is open
  sock,        \* who made the socket that is at the path
  pidFile,     \* whose pid is in the pid file
  closed,      \* daemons whose s.writes is closed
  stops,       \* per daemon: goroutines of opStop that are about to stop it
  signal,      \* per daemon: how far the signal handler is
  at,          \* where each client is in its call
  kind,        \* what it asks for
  conn,        \* the daemon it is connected to
  spawned,     \* daemons so far
  calls,       \* calls so far
  faults,      \* faults so far
  overlapped   \* a start came between the steps of another start or end

fileVars   == <<sock, pidFile>>
stopVars   == <<closed, stops, signal>>
callVars   == <<at, kind, conn>>
boundVars  == <<spawned, calls, faults>>

vars == <<pc, listening, fileVars, stopVars, callVars, boundVars, overlapped>>

Init ==
  /\ pc = [d \in Daemons |-> "none"]
  /\ listening = {}
  /\ sock = 0
  /\ pidFile = 0
  /\ closed = {}
  /\ stops = [d \in Daemons |-> 0]
  /\ signal = [d \in Daemons |-> "none"]
  /\ at = [c \in Clients |-> "idle"]
  /\ kind = [c \in Clients |-> "look"]
  /\ conn = [c \in Clients |-> 0]
  /\ spawned = 0
  /\ calls = 0
  /\ faults = 0
  /\ overlapped = FALSE

Goto(d, place) == pc' = [pc EXCEPT ![d] = place]
GoOn(c, place) == at' = [at EXCEPT ![c] = place]

\* The call is over.
Hang(c) ==
  /\ GoOn(c, "idle")
  /\ kind' = [kind EXCEPT ![c] = "look"]
  /\ conn' = [conn EXCEPT ![c] = 0]

Alive(d) == pc[d] \notin {"none", "ended"}

\* The process is gone with its state; the files it made stay.
Die(d) ==
  /\ Goto(d, "ended")
  /\ listening' = listening \ {d}
  /\ closed' = closed \ {d}
  /\ stops' = [stops EXCEPT ![d] = 0]
  /\ signal' = [signal EXCEPT ![d] = "none"]

\* net.Dial: the path is a socket and its listener is open.
Reachable == sock \in listening

-----------------------------------------------------------------------------
(* A start.                                                                *)

\* A start that has not come to listen yet, an end that has not come to remove
\* its files.
Halfway(e) == \/ pc[e] \in {"writePid", "unlink", "listen", "drain", "removeSock", "removePid"}
              \/ pc[e] = "serve" /\ e \notin listening

\* Mutant: nobody is asked.
SingletonUnasked(d) ==
  /\ pc[d] = "check"
  /\ Goto(d, "writePid")
  /\ overlapped' = (overlapped \/ \E e \in Daemons : Halfway(e))
  /\ UNCHANGED <<listening, fileVars, stopVars, callVars, boundVars>>

\* A daemon that answers makes the new one end; it need not be served yet.
Singleton(d) ==
  /\ pc[d] = "check"
  /\ Goto(d, IF Reachable THEN "ended" ELSE "writePid")
  /\ overlapped' = (overlapped \/ (~Reachable /\ \E e \in Daemons : Halfway(e)))
  /\ UNCHANGED <<listening, fileVars, stopVars, callVars, boundVars>>

WritePid(d) ==
  /\ pc[d] = "writePid"
  /\ Goto(d, "unlink")
  /\ pidFile' = d
  /\ UNCHANGED <<listening, sock, stopVars, callVars, boundVars, overlapped>>

RemoveStale(d) ==
  /\ pc[d] = "unlink"
  /\ Goto(d, "listen")
  /\ sock' = 0
  /\ UNCHANGED <<listening, pidFile, stopVars, callVars, boundVars, overlapped>>

\* net.Listen fails if there is a socket again.
Listen(d) ==
  /\ pc[d] = "listen"
  /\ \/ /\ sock = 0
        /\ sock' = d
        /\ listening' = listening \union {d}
        /\ Goto(d, "load")
        /\ UNCHANGED pidFile
     \/ /\ sock # 0
        /\ pidFile' = 0
        /\ Goto(d, "ended")
        /\ UNCHANGED <<sock, listening>>
  /\ UNCHANGED <<stopVars, callVars, boundVars, overlapped>>

\* newState, and the writer, the sweeper and the signal handler are started.
NewState(d) ==
  /\ pc[d] = "load"
  /\ Goto(d, "serve")
  /\ UNCHANGED <<listening, fileVars, stopVars, callVars, boundVars, overlapped>>

\* newState fails: the listener is closed, which removes the socket.
NewStateFails(d) ==
  /\ pc[d] = "load"
  /\ faults < MaxFaults
  /\ faults' = faults + 1
  /\ Goto(d, "removeSock")
  /\ listening' = listening \ {d}
  /\ sock' = 0
  /\ UNCHANGED <<pidFile, stopVars, callVars, spawned, calls, overlapped>>

-----------------------------------------------------------------------------
(* A call.                                                                 *)

\* "say" stands for the requests that carry the name of their caller, so that
\* dispatch renews a lease and queues a write, and for register; "look" for
\* those that do neither.
Call(c, k) ==
  /\ at[c] = "idle"
  /\ calls < MaxCalls
  /\ calls' = calls + 1
  /\ GoOn(c, "dial")
  /\ kind' = [kind EXCEPT ![c] = k]
  /\ UNCHANGED <<pc, listening, fileVars, stopVars, conn, spawned, faults, overlapped>>

Connect(c) ==
  /\ Reachable
  /\ GoOn(c, "sent")
  /\ conn' = [conn EXCEPT ![c] = sock]
  /\ UNCHANGED <<pc, listening, fileVars, stopVars, kind, boundVars, overlapped>>

\* dialOrSpawn: the first dial, and spawnDaemon if nobody answers.
Dial(c) == at[c] = "dial" /\ Connect(c)

SpawnDaemon(c) ==
  /\ at[c] = "dial"
  /\ ~Reachable
  /\ spawned' = spawned + 1
  /\ Goto(spawned', "check")
  /\ GoOn(c, "retry")
  /\ UNCHANGED <<listening, fileVars, stopVars, kind, conn, calls, faults, overlapped>>

\* One of the 50 dials after that.
Redial(c) == at[c] = "retry" /\ Connect(c)

\* Mutant: the client dials for ever.
NeverGiveUp(c) == FALSE /\ UNCHANGED vars

\* The last of them fails.
GiveUp(c) ==
  /\ at[c] = "retry"
  /\ ~Reachable
  /\ Hang(c)
  /\ UNCHANGED <<pc, listening, fileVars, stopVars, boundVars, overlapped>>

\* The connection ends before an answer: with its daemon, or with a listener
\* that had not accepted it.
Hangup(c) ==
  /\ \/ at[c] \in {"sent", "accepted"} /\ ~Alive(conn[c])
     \/ at[c] = "sent" /\ conn[c] \notin listening
  /\ Hang(c)
  /\ UNCHANGED <<pc, listening, fileVars, stopVars, boundVars, overlapped>>

-----------------------------------------------------------------------------
(* Service.                                                                *)

Accept(d) ==
  /\ pc[d] = "serve"
  /\ d \in listening
  /\ \E c \in Clients : at[c] = "sent" /\ conn[c] = d /\ GoOn(c, "accepted")
  /\ UNCHANGED <<pc, listening, fileVars, stopVars, kind, conn, boundVars, overlapped>>

\* handleConn: the answer, or the end of the daemon on a closed s.writes.
HandleConn(c) ==
  LET d == conn[c] IN
  /\ at[c] = "accepted"
  /\ Alive(d)
  /\ \/ /\ kind[c] = "say" /\ d \in closed
        /\ Die(d)
        /\ UNCHANGED callVars
     \/ /\ kind[c] = "say" => d \notin closed
        /\ stops' = [stops EXCEPT ![d] = IF kind[c] = "stop" THEN @ + 1 ELSE @]
        /\ Hang(c)
        /\ UNCHANGED <<pc, listening, closed, signal>>
  /\ UNCHANGED <<fileVars, boundVars, overlapped>>

\* requestStop, by a goroutine that then looks as given: close(s.writes) for a
\* second time is a panic.
RequestStop(d, stopsLeft, signalNext) ==
  \/ /\ d \in closed
     /\ Die(d)
  \/ /\ d \notin closed
     /\ closed' = closed \union {d}
     /\ stops' = [stops EXCEPT ![d] = stopsLeft]
     /\ signal' = [signal EXCEPT ![d] = signalNext]
     /\ UNCHANGED <<pc, listening>>

\* What opStop left to a goroutine.
StopLater(d) ==
  /\ stops[d] > 0
  /\ RequestStop(d, stops[d] - 1, signal[d])
  /\ UNCHANGED <<fileVars, callVars, boundVars, overlapped>>

-----------------------------------------------------------------------------
(* An end.                                                                 *)

\* SIGTERM or SIGINT to a daemon that has its handler; the first one counts.
Signal(d) ==
  /\ pc[d] = "serve"
  /\ signal[d] = "none"
  /\ faults < MaxFaults
  /\ faults' = faults + 1
  /\ signal' = [signal EXCEPT ![d] = "sent"]
  /\ UNCHANGED <<pc, listening, fileVars, closed, stops, callVars, spawned, calls, overlapped>>

HandleSignal(d) ==
  /\ signal[d] = "sent"
  /\ RequestStop(d, stops[d], "stopped")
  /\ UNCHANGED <<fileVars, callVars, boundVars, overlapped>>

\* Mutant: the handler stops the state only.
LeaveOpen(d) ==
  /\ signal[d] = "stopped"
  /\ signal' = [signal EXCEPT ![d] = "done"]
  /\ UNCHANGED <<pc, listening, fileVars, closed, stops, callVars, boundVars, overlapped>>

\* l.Close removes what is at the path.
CloseListener(d) ==
  /\ signal[d] = "stopped"
  /\ signal' = [signal EXCEPT ![d] = "done"]
  /\ listening' = listening \ {d}
  /\ sock' = 0
  /\ UNCHANGED <<pc, pidFile, closed, stops, callVars, boundVars, overlapped>>

\* Accept fails, and the loop is over.
AcceptFails(d) ==
  /\ pc[d] = "serve"
  /\ d \notin listening
  /\ Goto(d, "drain")
  /\ UNCHANGED <<listening, fileVars, stopVars, callVars, boundVars, overlapped>>

\* waitWriterDone: the writer ends once s.writes is closed and empty.
WaitWriterDone(d) ==
  /\ pc[d] = "drain"
  /\ d \in closed
  /\ Goto(d, "removeSock")
  /\ UNCHANGED <<listening, fileVars, stopVars, callVars, boundVars, overlapped>>

RemoveSock(d) ==
  /\ pc[d] = "removeSock"
  /\ Goto(d, "removePid")
  /\ sock' = 0
  /\ UNCHANGED <<listening, pidFile, stopVars, callVars, boundVars, overlapped>>

RemovePid(d) ==
  /\ pc[d] = "removePid"
  /\ Die(d)
  /\ pidFile' = 0
  /\ UNCHANGED <<sock, callVars, boundVars, overlapped>>

\* A kill, at any moment.
Kill(d) ==
  /\ Alive(d)
  /\ faults < MaxFaults
  /\ faults' = faults + 1
  /\ Die(d)
  /\ UNCHANGED <<fileVars, callVars, spawned, calls, overlapped>>

-----------------------------------------------------------------------------
\* What runDaemon and its goroutines do.
Run(d) ==
  \/ Singleton(d) \/ WritePid(d) \/ RemoveStale(d) \/ Listen(d) \/ NewState(d)
  \/ Accept(d) \/ AcceptFails(d) \/ WaitWriterDone(d) \/ RemoveSock(d)
  \/ RemovePid(d) \/ StopLater(d) \/ HandleSignal(d) \/ CloseListener(d)

\* What a client does in a call, and its connection's goroutine for it.
Proceed(c) ==
  \/ Dial(c) \/ SpawnDaemon(c) \/ Redial(c) \/ GiveUp(c) \/ Hangup(c)
  \/ HandleConn(c)

Next ==
  \/ \E d \in Daemons :
       Run(d) \/ NewStateFails(d) \/ Signal(d) \/ Kill(d)
  \/ \E c \in Clients : Proceed(c) \/ \E k \in Kinds : Call(c, k)

Spec == Init /\ [][Next]_vars

\* Goroutines and clients go on while one of them can; nothing has to fail, and
\* nobody has to call.
Work == (\E d \in Daemons : Run(d)) \/ (\E c \in Clients : Proceed(c))

FairSpec == Spec /\ WF_vars(Work)

-----------------------------------------------------------------------------
(* Properties.                                                             *)

Serving == {d \in Daemons : pc[d] \in {"load", "serve"} /\ d \in listening}

\* One daemon at a time, and both files are its own: whatever sockets and pid
\* files killed and panicked daemons left behind, and although a stopped one
\* goes on listening.  It takes a start in the middle of another start or of an
\* end to break this.
OneDaemon ==
  overlapped \/ (\A d \in Serving : Serving = {d} /\ sock = d /\ pidFile = d)

\* SIGTERM ends a daemon, also one that was stopped before, and with calls
\* under way or coming in.  (Handlers come to their end here: if a read-any and
\* a post or tell wait for each other, as LocksReadAny shows, requestStop waits
\* for s.mu at state.go:209 as well, and the daemon does not end.)
SignalEnds == []<>(\A d \in Daemons : signal[d] = "none")

\* No call waits for ever: a client is answered, hung up on or gives up, through
\* spawns that fail, daemons that die with its request, and sockets that lead
\* nowhere.  (Nor here are the calls that a read-any has locked up: LocksReadAny.)
CallsEnd == []<>(\A c \in Clients : at[c] = "idle")

\* "lalia stop: Shut down daemon."
StopEnds == \A d \in Daemons : stops[d] > 0 ~> ~Alive(d)
=============================================================================
