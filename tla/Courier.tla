------------------------------ MODULE Courier ------------------------------
(***************************************************************************)
(* What the channels promise to their users: every link is a queue that    *)
(* outlives the daemon, messages are handed out in the order they were     *)
(* sent, each at most once, and a message that was handed out may still be *)
(* lost before its reader sees it.                                         *)
(***************************************************************************)
EXTENDS Naturals, Sequences

CONSTANTS Links, Items(_)   \* Items(d): the messages of link d

VARIABLES
  queue,   \* unread messages of each link, oldest first
  hand,    \* handed out, not yet answered
  done,    \* seen by a client
  gone     \* handed out and never seen

vars == <<queue, hand, done, gone>>

Used == hand \union done \union gone
          \union UNION {{queue[d][i] : i \in 1..Len(queue[d])} : d \in Links}

Init ==
  /\ queue = [d \in Links |-> << >>]
  /\ hand = {}
  /\ done = {}
  /\ gone = {}

\* A new message joins the end of its queue.
Send(d) == \E m \in Items(d) :
  /\ m \notin Used
  /\ queue' = [queue EXCEPT ![d] = Append(@, m)]
  /\ UNCHANGED <<hand, done, gone>>

\* A new message is handed out at once: nothing older may be waiting.
Direct(d) == \E m \in Items(d) :
  /\ queue[d] = << >>
  /\ m \notin Used
  /\ hand' = hand \union {m}
  /\ UNCHANGED <<queue, done, gone>>

HandOut(d) ==
  /\ queue[d] # << >>
  /\ hand' = hand \union {Head(queue[d])}
  /\ queue' = [queue EXCEPT ![d] = Tail(@)]
  /\ UNCHANGED <<done, gone>>

Answer(m) ==
  /\ m \in hand
  /\ hand' = hand \ {m}
  /\ done' = done \union {m}
  /\ UNCHANGED <<queue, gone>>

Drop(m) ==
  /\ m \in hand
  /\ hand' = hand \ {m}
  /\ gone' = gone \union {m}
  /\ UNCHANGED <<queue, done>>

\* The daemon dies: what was handed out is gone, the queues are not.
Crash ==
  /\ hand' = {}
  /\ gone' = gone \union hand
  /\ UNCHANGED <<queue, done>>

Next ==
  \/ \E d \in Links : Send(d) \/ Direct(d) \/ HandOut(d)
  \/ \E m \in hand : Answer(m) \/ Drop(m)
  \/ Crash

Spec == Init /\ [][Next]_vars
=============================================================================
