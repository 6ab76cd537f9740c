----------------------------- MODULE MCTaskList -----------------------------
(***************************************************************************)
(* Two supervisors, one of them with two connections, and two workers.     *)
(***************************************************************************)
EXTENDS TaskList, TLC

CONSTANTS boss1, boss2, hand1, hand2, c1, c2, c3, h1, h2, s1

TwoOfBoss1 ==
  (c1 :> boss1) @@ (c2 :> boss1) @@ (c3 :> boss2) @@ (h1 :> hand1) @@ (h2 :> hand2)

\* The connections of one supervisor may trade places, and the workers.
Swaps ==
  {f @@ g : f \in Permutations({c1, c2}),
            g \in {<< >>, (hand1 :> hand2) @@ (hand2 :> hand1) @@ (h1 :> h2) @@ (h2 :> h1)}}

\* The list after boss1 published the task, and after it was merged: states that
\* Init leads to, from where the commands of the run go on.
Board(status) ==
  /\ registered = Agents
  /\ sup = boss1
  /\ cells = << [slug |-> s1, owner |-> Nobody, status |-> status] >>
  /\ len = 1
  /\ stored = [sup |-> sup, rows |-> cells]
  /\ room = [s \in Slugs |->
       [exists |-> TRUE, members |-> {boss1}, archived |-> FALSE, msgs |-> 1]]
  /\ db = [s \in Slugs |-> [exists |-> TRUE, members |-> {boss1}, archived |-> FALSE]]
  /\ worktrees = {s1}
  /\ merged = IF status = "merged" THEN {s1} ELSE {}
  /\ dirty = {} /\ repo = Nobody /\ todo = [p \in Procs |-> << >>]
  /\ starts = 0 /\ given = 0
  /\ swept = {} /\ out = {} /\ told = [s \in Slugs |-> {}]
  /\ foreign = {} /\ stale = {} /\ crossed = {} /\ lost = {}

SpecFromBoards ==
  (Init \/ \E status \in {"open", "merged"} : Board(status)) /\ [][Next]_vars
=============================================================================
