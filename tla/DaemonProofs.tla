---------------------------- MODULE DaemonProofs ----------------------------
(***************************************************************************)
(* One daemon at a time, for any number of clients, calls and faults, as   *)
(* long as no start overlaps another start or an end.                      *)
(***************************************************************************)
EXTENDS Daemon, TLAPS

Places == {"none", "check", "writePid", "unlink", "listen", "load", "serve",
           "drain", "removeSock", "removePid", "ended"}

\* Types, in the parts that different steps need.
ProcessTypes ==
  /\ pc \in [Daemons -> Places]
  /\ listening \subseteq Daemons
  /\ sock \in {0} \union Daemons
  /\ pidFile \in {0} \union Daemons

StopTypes ==
  /\ stops \in [Daemons -> Nat]
  /\ signal \in [Daemons -> {"none", "sent", "stopped", "done"}]
  /\ spawned \in Nat

\* Past the singleton check, and not over.
Active(d) == pc[d] \notin {"none", "check", "ended"}

\* Where a daemon can be whose signal handler is installed.
Ready(d) == pc[d] \in {"serve", "drain", "removeSock", "removePid"}

\* Daemons that are not spawned yet are nowhere, and nobody stops them; signals
\* go to daemons that have come to serve; one that loads listens.
Lives ==
  /\ \A d \in Daemons : d > spawned => pc[d] = "none"
  /\ \A d \in Daemons : stops[d] > 0 => pc[d] # "none"
  /\ \A d \in Daemons : signal[d] # "none" => Ready(d)
  /\ \A d \in Daemons : pc[d] = "load" => d \in listening

\* The daemon past the check is alone, and the files that it has made by then
\* are there.
Alone ==
  \/ overlapped
  \/ /\ \A d, e \in Daemons : Active(d) /\ Active(e) => d = e
     /\ \A d \in Daemons : Active(d) /\ pc[d] # "writePid" => pidFile = d
     /\ \A d \in Daemons : pc[d] \in {"load", "serve"} /\ d \in listening => sock = d

IInv == ProcessTypes /\ StopTypes /\ Lives /\ Alone

\* A machine on which no daemon has run yet.
LEMMA InitInv == Init => IInv
  BY DaemonAssumption DEF Init, IInv, ProcessTypes, StopTypes, Lives, Alone,
     Daemons, Places, Active, Ready

\* The end of a process.
LEMMA DieInv ==
  ASSUME IInv, NEW d, Die(d), pc[d] # "none" \/ d \notin Daemons,
         UNCHANGED <<sock, spawned, overlapped>>,
         pidFile' = pidFile \/ (pidFile' = 0 /\ d \in Daemons /\ Active(d))
  PROVE  IInv'
<1>1. ProcessTypes'
  BY DEF IInv, ProcessTypes, Die, Goto, Places
<1>2. StopTypes'
  BY DEF IInv, StopTypes, Die
<1>3. \A e \in Daemons : e # d => pc'[e] = pc[e] /\ stops'[e] = stops[e] /\ signal'[e] = signal[e]
  BY DEF IInv, ProcessTypes, StopTypes, Die, Goto
<1>4. d \in Daemons => pc'[d] = "ended" /\ stops'[d] = 0 /\ signal'[d] = "none"
  BY DEF IInv, ProcessTypes, StopTypes, Die, Goto
<1>5. listening' = listening \ {d}
  BY DEF Die
<1>6. Lives'
  BY <1>3, <1>4, <1>5 DEF IInv, Lives, Ready
<1>7. Alone'
  BY <1>3, <1>4, <1>5 DEF IInv, Alone, Active
<1> QED BY <1>1, <1>2, <1>6, <1>7 DEF IInv

\* What every action that moves one daemon leaves alone in the others.
LEMMA MoveFacts ==
  ASSUME IInv, NEW d \in Daemons, NEW place \in Places, Goto(d, place)
  PROVE  /\ pc' \in [Daemons -> Places]
         /\ pc'[d] = place
         /\ \A e \in Daemons : e # d => pc'[e] = pc[e]
  BY DEF IInv, ProcessTypes, Goto

\* A daemon past the check that is neither half way through a start nor through
\* an end answers, unless starts overlapped before.
LEMMA ActiveAnswers ==
  ASSUME IInv, ~overlapped, NEW e \in Daemons, Active(e), ~Halfway(e)
  PROVE  Reachable
<1>1. pc[e] \in Places
  BY DEF IInv, ProcessTypes
<1>2. pc[e] \in {"load", "serve"} /\ e \in listening
  BY <1>1 DEF Active, Halfway, Places, IInv, Lives
<1>3. sock = e
  BY <1>2 DEF IInv, Alone
<1> QED BY <1>2, <1>3 DEF Reachable

\* The singleton check keeps the newcomer out, or it is alone.
LEMMA SingletonInv ==
  ASSUME IInv, NEW d \in Daemons, Singleton(d)
  PROVE  IInv'
<1> DEFINE place == IF Reachable THEN "ended" ELSE "writePid"
<1>1. place \in Places /\ Goto(d, place)
  BY DEF Singleton, Places
<1> HIDE DEF place
<1>2. /\ pc' \in [Daemons -> Places]
      /\ pc'[d] = place
      /\ \A e \in Daemons : e # d => pc'[e] = pc[e]
  BY <1>1, MoveFacts
<1>3. UNCHANGED <<listening, sock, pidFile, stops, signal, spawned>>
  BY DEF Singleton, fileVars, stopVars, boundVars
<1>4. ProcessTypes' /\ StopTypes'
  BY <1>2, <1>3 DEF IInv, ProcessTypes, StopTypes
<1>5. Lives'
  BY <1>1, <1>2, <1>3 DEF IInv, Lives, Ready, Singleton, place
<1>6. Alone'
  <2>1. CASE overlapped'
    BY <2>1 DEF Alone
  <2>2. CASE ~overlapped'
    <3>1. ~overlapped /\ (Reachable \/ \A e \in Daemons : ~Halfway(e))
      BY <2>2 DEF Singleton
    <3>2. CASE Reachable
      BY <1>2, <1>3, <3>1, <3>2 DEF IInv, Alone, Active, Singleton, place
    <3>3. CASE ~Reachable
      <4>1. \A e \in Daemons : ~Active(e)
        BY <3>1, <3>3, ActiveAnswers
      <4> QED BY <4>1, <1>2, <1>3, <3>3 DEF Alone, Active, place
    <3> QED BY <3>2, <3>3
  <2> QED BY <2>1, <2>2
<1> QED BY <1>4, <1>5, <1>6 DEF IInv

\* The steps of a start after the check.
LEMMA StartInv ==
  ASSUME IInv, NEW d \in Daemons,
         WritePid(d) \/ RemoveStale(d) \/ Listen(d) \/ NewState(d) \/ NewStateFails(d)
  PROVE  IInv'
<1> DEFINE places == {"unlink", "listen", "load", "ended", "serve", "removeSock"}
<1>1. PICK place \in places : Goto(d, place)
  BY DEF WritePid, RemoveStale, Listen, NewState, NewStateFails
<1>2. /\ pc' \in [Daemons -> Places]
      /\ pc'[d] = place
      /\ \A e \in Daemons : e # d => pc'[e] = pc[e]
  BY <1>1, MoveFacts DEF Places
<1>3. UNCHANGED <<stops, signal, spawned, overlapped>>
  BY DEF WritePid, RemoveStale, Listen, NewState, NewStateFails, stopVars, boundVars
<1>4. ProcessTypes'
  BY <1>2 DEF IInv, ProcessTypes, WritePid, RemoveStale, Listen, NewState, NewStateFails, fileVars
<1>5. StopTypes'
  BY <1>3 DEF IInv, StopTypes
<1>6. Lives'
  <2>1. pc[d] \notin {"none", "serve", "drain", "removeSock", "removePid"}
    BY DEF WritePid, RemoveStale, Listen, NewState, NewStateFails
  <2>2. signal[d] = "none"
    BY <2>1 DEF IInv, Lives, Ready
  <2>3. \A e \in Daemons : e # d /\ e \in listening => e \in listening'
    BY DEF WritePid, RemoveStale, Listen, NewState, NewStateFails
  <2>4. place = "load" => d \in listening'
    BY <1>2 DEF WritePid, RemoveStale, Listen, NewState, NewStateFails, Goto, IInv, ProcessTypes
  <2> QED BY <1>2, <1>3, <2>1, <2>2, <2>3, <2>4 DEF IInv, Lives, Ready
<1>7. Alone'
  <2>1. CASE overlapped
    BY <2>1, <1>3 DEF Alone
  <2>2. CASE ~overlapped
    <3>1. Active(d)
      BY DEF Active, WritePid, RemoveStale, Listen, NewState, NewStateFails
    <3>2. \A e \in Daemons : e # d => ~Active(e)
      BY <2>2, <3>1 DEF IInv, Alone
    <3>3. \A e \in Daemons : e # d => pc'[e] \in {"none", "check", "ended"}
      BY <3>2, <1>2 DEF Active
    <3>4. place \notin {"ended", "writePid"} => pidFile' = d
      BY <1>2, <2>2 DEF IInv, ProcessTypes, Alone, Active, WritePid, RemoveStale, Listen, NewState,
         NewStateFails, Goto, fileVars
    <3>5. place \in {"load", "serve"} => sock' = d
      BY <1>2, <2>2 DEF IInv, ProcessTypes, Alone, Lives, WritePid, RemoveStale, Listen, NewState,
         NewStateFails, Goto, fileVars
    <3> QED BY <1>2, <3>3, <3>4, <3>5 DEF Alone, Active
  <2> QED BY <2>1, <2>2
<1> QED BY <1>4, <1>5, <1>6, <1>7 DEF IInv

\* The steps of an end before the last.
LEMMA EndInv ==
  ASSUME IInv, NEW d \in Daemons,
         AcceptFails(d) \/ WaitWriterDone(d) \/ RemoveSock(d)
  PROVE  IInv'
<1>1. PICK place \in {"drain", "removeSock", "removePid"} : Goto(d, place)
  BY DEF AcceptFails, WaitWriterDone, RemoveSock
<1>2. /\ pc' \in [Daemons -> Places]
      /\ pc'[d] = place
      /\ \A e \in Daemons : e # d => pc'[e] = pc[e]
  BY <1>1, MoveFacts DEF Places
<1>3. UNCHANGED <<listening, pidFile, stops, signal, spawned, overlapped>>
  BY DEF AcceptFails, WaitWriterDone, RemoveSock, stopVars, boundVars, fileVars
<1>4. Ready(d) /\ (sock' = sock \/ sock' = 0)
  BY DEF Ready, AcceptFails, WaitWriterDone, RemoveSock, fileVars
<1>5. ProcessTypes' /\ StopTypes'
  BY <1>2, <1>3, <1>4 DEF IInv, ProcessTypes, StopTypes
<1>6. Lives'
  BY <1>2, <1>3, <1>4 DEF IInv, Lives, Ready
<1>7. Alone'
  BY <1>2, <1>3, <1>4 DEF IInv, Alone, Active, Ready
<1> QED BY <1>5, <1>6, <1>7 DEF IInv

\* The signal handler closes the listener.
LEMMA CloseInv ==
  ASSUME IInv, NEW d \in Daemons, CloseListener(d)
  PROVE  IInv'
<1>1. Ready(d)
  BY DEF IInv, Lives, CloseListener
<1>2. /\ UNCHANGED <<pc, pidFile, stops, spawned, overlapped>>
      /\ sock' = 0
      /\ listening' = listening \ {d}
  BY DEF CloseListener, boundVars
<1>3. ProcessTypes' /\ StopTypes'
  BY <1>2 DEF IInv, ProcessTypes, StopTypes, CloseListener
<1>4. \A e \in Daemons : signal'[e] # "none" => signal[e] # "none"
  BY DEF IInv, StopTypes, CloseListener
<1>5. Lives'
  BY <1>1, <1>2, <1>4 DEF IInv, Lives, Ready
<1>6. Alone'
  BY <1>1, <1>2 DEF IInv, Alone, Active, Ready
<1> QED BY <1>3, <1>5, <1>6 DEF IInv

\* Steps that only count stops and signals of daemons that may have them.
LEMMA FlagsInv ==
  ASSUME IInv, UNCHANGED <<pc, listening, sock, pidFile, spawned, overlapped>>, StopTypes',
         \A d \in Daemons : stops'[d] > 0 => stops[d] > 0 \/ pc[d] # "none",
         \A d \in Daemons : signal'[d] # "none" => signal[d] # "none" \/ Ready(d)
  PROVE  IInv'
<1>1. ProcessTypes'
  BY DEF IInv, ProcessTypes
<1>2. Lives'
  BY DEF IInv, Lives, Ready
<1>3. Alone'
  BY DEF IInv, Alone, Active
<1> QED BY <1>1, <1>2, <1>3 DEF IInv

\* requestStop closes the write queue, or ends the process.
LEMMA RequestStopInv ==
  ASSUME IInv, NEW d \in Daemons, NEW n \in Nat, NEW s \in {"none", "sent", "stopped", "done"},
         RequestStop(d, n, s), pc[d] # "none",
         s # "none" => signal[d] # "none",
         UNCHANGED <<sock, pidFile, spawned, overlapped>>
  PROVE  IInv'
<1>1. CASE Die(d)
  <2>1. pidFile' = pidFile \/ (pidFile' = 0 /\ d \in Daemons /\ Active(d))
    OBVIOUS
  <2> QED BY <1>1, <2>1, DieInv
<1>2. CASE ~Die(d)
  <2>1. /\ stops' = [stops EXCEPT ![d] = n]
        /\ signal' = [signal EXCEPT ![d] = s]
        /\ UNCHANGED <<pc, listening>>
    BY <1>2 DEF RequestStop
  <2>2. StopTypes'
    BY <2>1 DEF IInv, StopTypes
  <2>3. \A e \in Daemons : stops'[e] > 0 => stops[e] > 0 \/ pc[e] # "none"
    BY <2>1 DEF IInv, StopTypes
  <2>4. \A e \in Daemons : signal'[e] # "none" => signal[e] # "none" \/ Ready(e)
    BY <2>1 DEF IInv, StopTypes
  <2> QED BY <2>1, <2>2, <2>3, <2>4, FlagsInv
<1> QED BY <1>1, <1>2

\* What clients do to daemons: they spawn them, and leave them a stop to do.
LEMMA CallInv ==
  ASSUME IInv, NEW c \in Clients, Proceed(c)
  PROVE  IInv'
<1>1. CASE Dial(c) \/ Redial(c) \/ GiveUp(c) \/ Hangup(c)
  <2>1. UNCHANGED <<pc, listening, sock, pidFile, stops, signal, spawned, overlapped>>
    BY <1>1 DEF Dial, Redial, Connect, GiveUp, Hangup, fileVars, stopVars, boundVars
  <2>2. StopTypes'
    BY <2>1 DEF IInv, StopTypes
  <2> QED BY <2>1, <2>2, FlagsInv
<1>2. CASE SpawnDaemon(c)
  <2>1. /\ UNCHANGED <<listening, sock, pidFile, stops, signal, overlapped>>
        /\ spawned' = spawned + 1
        /\ pc' = [pc EXCEPT ![spawned + 1] = "check"]
    BY <1>2 DEF SpawnDaemon, Goto, fileVars, stopVars
  <2>2. spawned \in Nat
    BY DEF IInv, StopTypes
  <2>3. ProcessTypes' /\ StopTypes'
    <3>1. pc' \in [Daemons -> Places]
      BY <2>1 DEF IInv, ProcessTypes, Places
    <3>2. spawned' \in Nat
      BY <2>1, <2>2
    <3> QED BY <2>1, <3>1, <3>2 DEF IInv, ProcessTypes, StopTypes
  <2>4. \A e \in Daemons : pc'[e] = pc[e] \/ (e = spawned + 1 /\ pc'[e] = "check" /\ pc[e] = "none")
    BY <2>1, <2>2 DEF IInv, ProcessTypes, Lives, Daemons
  <2>5. Lives'
    <3>1. \A e \in Daemons : e > spawned' => pc'[e] = "none"
      BY <2>1, <2>2, <2>4 DEF IInv, Lives, Daemons
    <3>2. \A e \in Daemons : stops'[e] > 0 => pc'[e] # "none"
      BY <2>1, <2>4 DEF IInv, Lives
    <3>3. \A e \in Daemons : signal'[e] # "none" => Ready(e)'
      BY <2>1, <2>4 DEF IInv, Lives, Ready
    <3>4. \A e \in Daemons : pc'[e] = "load" => e \in listening'
      BY <2>1, <2>4 DEF IInv, Lives
    <3> QED BY <3>1, <3>2, <3>3, <3>4 DEF Lives
  <2>6. Alone'
    BY <2>1, <2>4 DEF IInv, Alone, Active
  <2> QED BY <2>3, <2>5, <2>6 DEF IInv
<1>3. CASE HandleConn(c)
  <2>0. PICK d : d = conn[c]
    OBVIOUS
  <2>1. Alive(d) /\ UNCHANGED <<sock, pidFile, spawned, overlapped>>
    BY <1>3, <2>0 DEF HandleConn, fileVars, boundVars
  <2>2. CASE Die(d)
    <3>1. pc[d] # "none" \/ d \notin Daemons
      BY <2>1 DEF Alive
    <3>2. pidFile' = pidFile \/ (pidFile' = 0 /\ d \in Daemons /\ Active(d))
      BY <2>1
    <3> QED BY <2>1, <2>2, <3>1, <3>2, DieInv
  <2>3. CASE ~Die(d)
    <3>1. /\ stops' = [stops EXCEPT ![d] = IF kind[c] = "stop" THEN @ + 1 ELSE @]
          /\ UNCHANGED <<pc, listening, signal>>
      BY <1>3, <2>0, <2>3 DEF HandleConn
    <3>2. StopTypes'
      <4>1. stops \in [Daemons -> Nat]
        BY DEF IInv, StopTypes
      <4>2. stops' \in [Daemons -> Nat]
        <5>1. CASE d \in Daemons
          BY <3>1, <4>1, <5>1
        <5>2. CASE d \notin Daemons
          BY <3>1, <4>1, <5>2
        <5> QED BY <5>1, <5>2
      <4> QED BY <2>1, <3>1, <4>2 DEF IInv, StopTypes
    <3>3. \A e \in Daemons : stops'[e] > 0 => stops[e] > 0 \/ pc[e] # "none"
      BY <2>1, <3>1 DEF IInv, StopTypes, Alive
    <3> QED BY <2>1, <3>1, <3>2, <3>3, FlagsInv
  <2> QED BY <2>2, <2>3
<1> QED BY <1>1, <1>2, <1>3 DEF Proceed

\* Every step keeps the invariant.
LEMMA NextInv == IInv /\ [Next]_vars => IInv'
<1> SUFFICES ASSUME IInv, [Next]_vars PROVE IInv'
  OBVIOUS
<1>1. CASE UNCHANGED vars
  <2>1. UNCHANGED <<pc, listening, sock, pidFile, stops, signal, spawned, overlapped>>
    BY <1>1 DEF vars, fileVars, stopVars, boundVars
  <2>2. StopTypes'
    BY <2>1 DEF IInv, StopTypes
  <2> QED BY <2>1, <2>2, FlagsInv
<1>2. ASSUME NEW c \in Clients, NEW k \in Kinds, Call(c, k)
      PROVE  IInv'
  <2>1. UNCHANGED <<pc, listening, sock, pidFile, stops, signal, spawned, overlapped>>
    BY <1>2 DEF Call, fileVars, stopVars
  <2>2. StopTypes'
    BY <2>1 DEF IInv, StopTypes
  <2> QED BY <2>1, <2>2, FlagsInv
<1>3. ASSUME NEW d \in Daemons, Run(d) \/ NewStateFails(d) \/ Signal(d) \/ Kill(d)
      PROVE  IInv'
  <2>1. CASE Singleton(d)
    BY <2>1, SingletonInv
  <2>2. CASE WritePid(d) \/ RemoveStale(d) \/ Listen(d) \/ NewState(d) \/ NewStateFails(d)
    BY <2>2, StartInv
  <2>3. CASE AcceptFails(d) \/ WaitWriterDone(d) \/ RemoveSock(d)
    BY <2>3, EndInv
  <2>4. CASE CloseListener(d)
    BY <2>4, CloseInv
  <2>5. CASE Accept(d)
    <3>1. UNCHANGED <<pc, listening, sock, pidFile, stops, signal, spawned, overlapped>>
      BY <2>5 DEF Accept, fileVars, stopVars, boundVars
    <3>2. StopTypes'
      BY <3>1 DEF IInv, StopTypes
    <3> QED BY <3>1, <3>2, FlagsInv
  <2>6. CASE Signal(d)
    <3>1. pc[d] = "serve" /\ signal' = [signal EXCEPT ![d] = "sent"]
          /\ UNCHANGED <<pc, listening, sock, pidFile, stops, spawned, overlapped>>
      BY <2>6 DEF Signal, fileVars
    <3>2. StopTypes'
      BY <3>1 DEF IInv, StopTypes
    <3>3. \A e \in Daemons : signal'[e] # "none" => signal[e] # "none" \/ Ready(e)
      BY <3>1 DEF IInv, StopTypes, Ready
    <3> QED BY <3>1, <3>2, <3>3, FlagsInv
  <2>7. CASE StopLater(d)
    <3>1. /\ stops[d] > 0 /\ RequestStop(d, stops[d] - 1, signal[d])
          /\ UNCHANGED <<sock, pidFile, spawned, overlapped>>
      BY <2>7 DEF StopLater, fileVars, boundVars
    <3>2. stops[d] - 1 \in Nat /\ signal[d] \in {"none", "sent", "stopped", "done"}
      BY <3>1 DEF IInv, StopTypes
    <3>3. pc[d] # "none"
      BY <3>1 DEF IInv, Lives
    <3> QED BY <3>1, <3>2, <3>3, RequestStopInv
  <2>8. CASE HandleSignal(d)
    <3>1. /\ signal[d] = "sent" /\ RequestStop(d, stops[d], "stopped")
          /\ UNCHANGED <<sock, pidFile, spawned, overlapped>>
      BY <2>8 DEF HandleSignal, fileVars, boundVars
    <3>2. stops[d] \in Nat
      BY DEF IInv, StopTypes
    <3>3. pc[d] # "none"
      BY <3>1 DEF IInv, Lives, Ready
    <3> QED BY <3>1, <3>2, <3>3, RequestStopInv
  <2>9. CASE RemovePid(d)
    <3>1. pc[d] = "removePid" /\ Die(d) /\ pidFile' = 0 /\ UNCHANGED <<sock, spawned, overlapped>>
      BY <2>9 DEF RemovePid, boundVars
    <3>2. Active(d)
      BY <3>1 DEF Active
    <3> QED BY <3>1, <3>2, DieInv
  <2>10. CASE Kill(d)
    <3>1. Die(d) /\ pc[d] # "none" /\ UNCHANGED <<sock, pidFile, spawned, overlapped>>
      BY <2>10 DEF Kill, Alive, fileVars
    <3>2. pidFile' = pidFile \/ (pidFile' = 0 /\ d \in Daemons /\ Active(d))
      BY <3>1
    <3> QED BY <3>1, <3>2, DieInv
  <2> QED BY <1>3, <2>1, <2>2, <2>3, <2>4, <2>5, <2>6, <2>7, <2>8, <2>9, <2>10 DEF Run
<1> QED BY <1>1, <1>2, <1>3, CallInv DEF Next

\* However many daemons are spawned, stopped, signalled and killed, at most one
\* listens past its start, and the socket and the pid file are its own, unless
\* a start came in the middle of another start or of an end (runDaemon's dial,
\* write, remove and listen are not one step).
THEOREM OneDaemonAtATime == Spec => []OneDaemon
<1>1. IInv => OneDaemon
  <2> SUFFICES ASSUME IInv, ~overlapped, NEW d \in Serving
               PROVE  Serving = {d} /\ sock = d /\ pidFile = d
    BY DEF OneDaemon
  <2>1. d \in Daemons /\ pc[d] \in {"load", "serve"} /\ d \in listening
    BY DEF Serving
  <2>2. sock = d /\ pidFile = d
    BY <2>1 DEF IInv, Alone, Active
  <2>3. \A e \in Serving : e = d
    BY <2>1 DEF IInv, Alone, Active, Serving
  <2> QED BY <2>2, <2>3
<1> QED BY <1>1, InitInv, NextInv, PTL DEF Spec
=============================================================================
