--------------------------- MODULE TaskListProofs ---------------------------
(***************************************************************************)
(* Proofs about module TaskList, for all agents, tasks, commands and       *)
(* restarts.                                                               *)
(***************************************************************************)
EXTENDS TaskList, Lemmas, FiniteSetTheorems

-----------------------------------------------------------------------------
(* The invariant.  A handler's todo comes first.                           *)

\* Steps that work on a task, that are a handler's only one, that only start a
\* handler, that belong to publish, and that end one.
OfTask  == {"claim", "status", "post", "worktree", "row", "rowGate", "wipeGate",
            "wipe", "drop", "archive", "ensure", "open", "rewire"}
Gates   == {"claim", "status", "post", "rowGate", "wipeGate"}
Firsts  == Gates \union {"lock", "row", "wipe"}
Publish == {"lock", "worktree", "row", "unlock"}
Lasts   == Gates \union {"unlock", "drop"}

\* A worktree is wiped to drop the row of its task in the end.
Ordered(q) ==
  /\ q \in Seq(Range(q))
  /\ \A x \in Range(q) : x[1] \in OfTask => x[2] \in Slugs
  /\ \A i \in 1..Len(q) : q[i][1] \in Firsts => i = 1
  /\ \A i \in 1..Len(q) : q[i][1] \in Lasts => i = Len(q)
  /\ \A x \in Range(q) : x[1] = "wipe" => <<"drop", x[2]>> \in Range(q)

\* What a handler has still to do, and what comes after its next step.
Steps(p) == Range(todo[p])
Later(p) == Range(Tail(todo[p]))

TodoInv ==
  /\ todo = [p \in Procs |-> todo[p]]
  /\ \A p \in Procs : Ordered(todo[p])

\* The registry holds names.
NamesInv == registered \subseteq Agents /\ swept \subseteq Agents

\* A publish that has passed its lock has the repository, so that the worktree
\* of a row that it is about to install stays.
RepoInv ==
  \A p \in Procs : \A x \in Steps(p) : x[1] \in Publish =>
    /\ Step(p)[1] # "lock" => repo = p
    /\ x[1] = "row" => x[2] \in worktrees

\* What the list, its copies and its file hold.
List == [sup : Agents \union {Nobody}, rows : Seq(Row)]

ListTypes ==
  /\ sup \in Agents \union {Nobody}
  /\ cells \in Seq(Row)
  /\ len \in 0..Len(cells)
  /\ stored \in List
  /\ \A p \in Procs : \A x \in Steps(p) : x[1] = "persist" => x[2] \in List
  /\ told \in [Slugs -> SUBSET Agents]

\* The list: every task has one row, whoever was told that a task is theirs owns
\* it, and nobody was told so of an open one.
ListInv ==
  Kept({"list"}) =>
    /\ \A i, j \in 1..len : cells[i].slug = cells[j].slug => i = j
    /\ \A s \in Slugs : told[s] # {} => \E i \in 1..len : cells[i].slug = s
    /\ \A i \in 1..len : told[cells[i].slug] # {} =>
         told[cells[i].slug] = {cells[i].owner} /\ cells[i].status # "open"
    /\ \A i \in 1..len : cells[i].status = "merged" => cells[i].slug \in merged

\* Worktrees back the rows.
WorktreeInv ==
  Kept({"list", "unpublish"}) =>
    \A i \in 1..len : cells[i].slug \in worktrees \/ Removing(cells[i].slug)

\* The supervisor of a live task has not unregistered, if they were there when
\* its row came.
SupInv ==
  Kept({"list"}) =>
    ((\E i \in 1..len : cells[i].slug \notin foreign \union merged)
       => sup \in registered \union swept)

\* The rooms to be archived are those of merged tasks, of tasks that the same
\* handler is about to drop, and of tasks published since a gc started.
ArchiveInv ==
  Kept({"list"}) =>
    \A p \in Procs : \A x \in Steps(p) : x[1] = "archive" =>
      x[2] \in merged \union stale \/ <<"drop", x[2]>> \in Steps(p)

\* In a todo, with rooms E there: a room is made before it is opened.
Furnished(q, E) ==
  \A i \in 1..Len(q) : q[i][1] = "open" =>
    q[i][2] \in E \/ \E j \in 1..(i - 1) : q[j][1] = "ensure" /\ q[j][2] = q[i][2]

There == {s \in Slugs : room[s].exists}

EnsureInv == \A p \in Procs : Furnished(todo[p], There)

Opening(s) == \E p \in Procs : <<"open", s>> \in Steps(p)

\* The room of a live task is open, or about to be, or its task is about to go.
OpenInv ==
  Kept({"list", "rooms", "unpublish", "handler"}) =>
    \A i \in 1..len : cells[i].slug \notin merged \union stale =>
      LET s == cells[i].slug IN
      (room[s].exists /\ ~room[s].archived) \/ Opening(s) \/ Removing(s)

\* Who is about to be taken out of a room is a supervisor or does not own the
\* task, unless they got it in the meantime.
RewireInv ==
  Kept({"list"}) =>
    \A p \in Procs : \A x \in Steps(p) : x[1] = "rewire" =>
      /\ Nobody \notin x[4]
      /\ \/ x[4] \subseteq Supervisors
         \/ x[2] \in crossed
         \/ \A i \in At(x[2]) : cells[i].owner \notin x[4]

\* Somebody is about to make w a member of the room.
Joining(w, s) ==
  \E p \in Procs : \E x \in Steps(p) : x[1] = "ensure" /\ x[2] = s /\ w \in x[3]

\* A worker that owns a task is in its room, or about to be.
OwnerInv ==
  Kept({"list", "rooms", "handler"}) =>
    \A i \in 1..len :
      LET s == cells[i].slug  w == cells[i].owner IN
      s \notin merged \union crossed /\ w \notin Supervisors \union out \union {Nobody}
        => w \in room[s].members \/ Joining(w, s)

\* A room is a record.
IsRoom(R) ==
  R = [exists |-> R.exists, members |-> R.members, archived |-> R.archived, msgs |-> R.msgs]

RoomShape ==
  /\ room = [s \in Slugs |-> room[s]]
  /\ \A s \in Slugs : IsRoom(room[s])

IInv ==
  /\ TodoInv /\ NamesInv /\ RepoInv /\ ListTypes /\ ListInv /\ WorktreeInv /\ SupInv
  /\ ArchiveInv /\ RoomShape /\ EnsureInv /\ OpenInv /\ RewireInv /\ OwnerInv

-----------------------------------------------------------------------------
(* Todos as sequences.                                                     *)

\* A sequence is one of its own entries.
LEMMA SelfTyped ==
  ASSUME NEW S, NEW q \in Seq(S)
  PROVE  q \in Seq(Range(q))
<1>1. DOMAIN q = 1..Len(q) /\ Len(q) \in Nat
  OBVIOUS
<1>2. q \in [1..Len(q) -> Range(q)]
  BY <1>1 DEF Range
<1> QED BY <1>1, <1>2

\* Steps t come before the steps of u.
LEMMA ConcatFacts ==
  ASSUME NEW t, NEW u, t \in Seq(Range(t)), u \in Seq(Range(u))
  PROVE  /\ t \o u \in Seq(Range(t \o u))
         /\ Len(t) \in Nat /\ Len(u) \in Nat /\ Len(t \o u) = Len(t) + Len(u)
         /\ \A i \in 1..Len(t) : (t \o u)[i] = t[i]
         /\ \A i \in 1..Len(u) : (t \o u)[i + Len(t)] = u[i]
         /\ \A i \in 1..Len(t \o u) : i \in 1..Len(t) \/ i - Len(t) \in 1..Len(u)
         /\ Range(t \o u) = Range(t) \union Range(u)
<1>0. PICK r : r = t \o u
  OBVIOUS
<1> DEFINE S == Range(t) \union Range(u)
<1>1. t \in Seq(S) /\ u \in Seq(S)
  <2>1. Range(t) \subseteq S /\ Range(u) \subseteq S
    OBVIOUS
  <2> HIDE DEF S
  <2> QED BY <2>1, SeqSubset
<1> HIDE DEF S
<1>2. /\ r \in Seq(S)
      /\ Len(t) \in Nat /\ Len(u) \in Nat /\ Len(r) = Len(t) + Len(u)
      /\ \A i \in 1..Len(t) : r[i] = t[i]
      /\ \A i \in 1..Len(u) : r[i + Len(t)] = u[i]
  BY <1>0, <1>1
<1>3. \A i \in 1..Len(r) : i \in 1..Len(t) \/ i - Len(t) \in 1..Len(u)
  BY <1>2
<1>4. DOMAIN r = 1..Len(r) /\ DOMAIN t = 1..Len(t) /\ DOMAIN u = 1..Len(u)
  BY <1>1, <1>2
<1>5. Range(t) \subseteq Range(r)
  BY <1>2, <1>4 DEF Range
<1>6. Range(u) \subseteq Range(r)
  <2> SUFFICES ASSUME NEW i \in 1..Len(u) PROVE u[i] \in Range(r)
    BY <1>4 DEF Range
  <2>1. i + Len(t) \in 1..Len(r) /\ r[i + Len(t)] = u[i]
    BY <1>2
  <2> QED BY <1>4, <2>1 DEF Range
<1>7. Range(r) \subseteq Range(t) \union Range(u)
  <2> SUFFICES ASSUME NEW i \in 1..Len(r) PROVE r[i] \in Range(t) \union Range(u)
    BY <1>4 DEF Range
  <2>1. CASE i \in 1..Len(t)
    BY <1>2, <1>4, <2>1 DEF Range
  <2>2. CASE i - Len(t) \in 1..Len(u)
    <3>1. PICK j : j = i - Len(t)
      OBVIOUS
    <3>2. j \in 1..Len(u) /\ i = j + Len(t)
      BY <1>2, <2>2, <3>1
    <3>3. r[i] = u[j]
      BY <1>2, <3>2
    <3> QED BY <1>4, <3>2, <3>3 DEF Range
  <2> QED BY <1>3, <2>1, <2>2
<1>8. r \in Seq(Range(r))
  BY <1>2, SelfTyped
<1> QED BY <1>0, <1>2, <1>3, <1>5, <1>6, <1>7, <1>8

\* One step, or none.
LEMMA SingleFacts ==
  /\ << >> \in Seq(Range(<< >>)) /\ Len(<< >>) = 0 /\ Range(<< >>) = {}
  /\ \A x : <<x>> \in Seq(Range(<<x>>)) /\ Len(<<x>>) = 1 /\ <<x>>[1] = x /\ Range(<<x>>) = {x}
<1>1. << >> \in Seq(Range(<< >>)) /\ Len(<< >>) = 0 /\ Range(<< >>) = {}
  BY DEF Range
<1>2. ASSUME NEW x
      PROVE  <<x>> \in Seq(Range(<<x>>)) /\ Len(<<x>>) = 1 /\ <<x>>[1] = x /\ Range(<<x>>) = {x}
  <2>1. <<x>> \in Seq({x}) /\ Len(<<x>>) = 1 /\ <<x>>[1] = x /\ DOMAIN <<x>> = 1..1
    OBVIOUS
  <2>2. Range(<<x>>) = {x}
    BY <2>1 DEF Range
  <2> QED BY <2>1, <2>2
<1> QED BY <1>1, <1>2

\* A sequence is its first step and the others.
LEMMA TailFacts ==
  ASSUME NEW q, q \in Seq(Range(q)), q # << >>
  PROVE  /\ Tail(q) \in Seq(Range(Tail(q)))
         /\ Len(q) \in Nat \ {0} /\ Len(Tail(q)) = Len(q) - 1
         /\ Head(q) = q[1]
         /\ \A i \in 1..(Len(q) - 1) : Tail(q)[i] = q[i + 1]
         /\ \A x \in Range(Tail(q)) : \E i \in 2..Len(q) : x = q[i]
         /\ Range(q) = {Head(q)} \union Range(Tail(q))
<1>1. /\ Len(q) \in Nat \ {0}
      /\ Head(q) = q[1]
      /\ Tail(q) \in Seq(Range(q))
      /\ Len(Tail(q)) = Len(q) - 1
      /\ \A i \in 1..(Len(q) - 1) : Tail(q)[i] = q[i + 1]
      /\ Range(q) = {Head(q)} \union Range(Tail(q))
  BY RangeTail
<1>2. DOMAIN Tail(q) = 1..Len(Tail(q))
  BY <1>1
<1>3. Tail(q) \in Seq(Range(Tail(q)))
  BY <1>1, SelfTyped
<1>4. ASSUME NEW x \in Range(Tail(q)) PROVE \E i \in 2..Len(q) : x = q[i]
  <2>1. PICK i \in 1..(Len(q) - 1) : x = Tail(q)[i]
    BY <1>1, <1>2 DEF Range
  <2>2. PICK j : j = i + 1
    OBVIOUS
  <2>3. j \in 2..Len(q) /\ x = q[j]
    BY <1>1, <2>1, <2>2
  <2> QED BY <2>3
<1> QED BY <1>1, <1>3, <1>4

-----------------------------------------------------------------------------
(* Todos as handlers leave them.                                           *)

\* What comes after the first step does not start a handler; nothing comes
\* after a last step; after a wipe the row is dropped.
LEMMA RestFacts ==
  ASSUME NEW q, Ordered(q), q # << >>
  PROVE  /\ Tail(q) \in Seq(Range(Tail(q)))
         /\ Head(q) = q[1]
         /\ Range(q) = {Head(q)} \union Range(Tail(q))
         /\ \A x \in Range(Tail(q)) : x[1] \notin Firsts
         /\ Head(q)[1] \in Lasts => Tail(q) = << >> /\ Range(Tail(q)) = {}
         /\ Head(q)[1] = "wipe" => <<"drop", Head(q)[2]>> \in Range(Tail(q))
<1>1. /\ Tail(q) \in Seq(Range(Tail(q)))
      /\ Len(q) \in Nat \ {0} /\ Len(Tail(q)) = Len(q) - 1
      /\ Head(q) = q[1]
      /\ \A x \in Range(Tail(q)) : \E i \in 2..Len(q) : x = q[i]
      /\ Range(q) = {Head(q)} \union Range(Tail(q))
  BY TailFacts DEF Ordered
<1>2. ASSUME NEW x \in Range(Tail(q)) PROVE x[1] \notin Firsts
  <2>1. PICK i \in 2..Len(q) : x = q[i]
    BY <1>1
  <2>2. i \in 1..Len(q) /\ i # 1
    BY <1>1
  <2> QED BY <2>1, <2>2 DEF Ordered
<1>3. ASSUME Head(q)[1] \in Lasts
      PROVE  Tail(q) = << >> /\ Range(Tail(q)) = {}
  <2>1. 1 \in 1..Len(q)
    BY <1>1
  <2>2. Len(q) = 1
    BY <1>1, <1>3, <2>1 DEF Ordered
  <2>3. Len(Tail(q)) = 0
    BY <1>1, <2>2
  <2>4. PICK u : u = Tail(q)
    OBVIOUS
  <2>5. u \in Seq(Range(u)) /\ Len(u) = 0
    BY <1>1, <2>3, <2>4
  <2>6. u = << >>
    BY <2>5
  <2> QED BY <2>4, <2>6, SingleFacts
<1>4. ASSUME Head(q)[1] = "wipe"
      PROVE  <<"drop", Head(q)[2]>> \in Range(Tail(q))
  <2>1. PICK d : d = <<"drop", Head(q)[2]>>
    OBVIOUS
  <2>2. d[1] = "drop"
    BY <2>1
  <2>3. d \in Range(q)
    BY <1>1, <1>4, <2>1 DEF Ordered
  <2> QED BY <1>1, <1>4, <2>1, <2>2, <2>3
<1> QED BY <1>1, <1>2, <1>3, <1>4

\* Steps that a handler may put in front of what comes later.
Fit(t) ==
  /\ t \in Seq(Range(t))
  /\ \A x \in Range(t) : x[1] \notin Lasts \union {"wipe"}
  /\ \A x \in Range(t) : x[1] \in OfTask => x[2] \in Slugs
  /\ \A i \in 1..Len(t) : t[i][1] \in Firsts => i = 1

\* Steps that fit before the rest of a todo give a todo.
LEMMA OrderedContinues ==
  ASSUME NEW q, Ordered(q), q # << >>, NEW t, Fit(t)
  PROVE  /\ Ordered(t \o Tail(q))
         /\ Range(t \o Tail(q)) = Range(t) \union Range(Tail(q))
<1>1. PICK u : u = Tail(q)
  OBVIOUS
<1>2. PICK r : r = t \o u
  OBVIOUS
<1>3. /\ u \in Seq(Range(u))
      /\ Range(q) = {Head(q)} \union Range(u)
      /\ \A x \in Range(u) : x[1] \notin Firsts
  BY <1>1, RestFacts
<1>4. /\ Len(q) \in Nat \ {0} /\ Len(u) = Len(q) - 1
      /\ \A i \in 1..(Len(q) - 1) : u[i] = q[i + 1]
  BY <1>1, TailFacts DEF Ordered
<1>5. /\ r \in Seq(Range(r))
      /\ Len(t) \in Nat /\ Len(u) \in Nat /\ Len(r) = Len(t) + Len(u)
      /\ \A i \in 1..Len(t) : r[i] = t[i]
      /\ \A i \in 1..Len(u) : r[i + Len(t)] = u[i]
      /\ \A i \in 1..Len(r) : i \in 1..Len(t) \/ i - Len(t) \in 1..Len(u)
      /\ Range(r) = Range(t) \union Range(u)
  <2>1. t \in Seq(Range(t)) /\ u \in Seq(Range(u))
    BY <1>3 DEF Fit
  <2>2. /\ t \o u \in Seq(Range(t \o u))
        /\ Len(t) \in Nat /\ Len(u) \in Nat /\ Len(t \o u) = Len(t) + Len(u)
        /\ \A i \in 1..Len(t) : (t \o u)[i] = t[i]
        /\ \A i \in 1..Len(u) : (t \o u)[i + Len(t)] = u[i]
        /\ \A i \in 1..Len(t \o u) : i \in 1..Len(t) \/ i - Len(t) \in 1..Len(u)
        /\ Range(t \o u) = Range(t) \union Range(u)
    BY <2>1, ConcatFacts
  <2> QED BY <1>2, <2>2
<1>6. \A x \in Range(r) : x[1] \in OfTask => x[2] \in Slugs
  BY <1>3, <1>5 DEF Fit, Ordered
<1>7. \A x \in Range(r) : x[1] # "wipe"
  BY <1>3, <1>5 DEF Fit, Firsts, Gates
<1>8. ASSUME NEW i \in 1..Len(r)
      PROVE  (r[i][1] \in Firsts => i = 1) /\ (r[i][1] \in Lasts => i = Len(r))
  <2>1. CASE i \in 1..Len(t)
    <3>1. r[i] = t[i] /\ t[i] \in Range(t)
      BY <1>5, <2>1, RangeEntries DEF Fit
    <3> QED BY <2>1, <3>1 DEF Fit
  <2>2. CASE i - Len(t) \in 1..Len(u)
    <3>1. PICK j : j = i - Len(t)
      OBVIOUS
    <3>2. j \in 1..Len(u) /\ i = j + Len(t)
      BY <1>5, <2>2, <3>1
    <3>3. r[i] = u[j] /\ u[j] \in Range(u)
      BY <1>3, <1>5, <3>2, RangeEntries
    <3>4. u[j] = q[j + 1] /\ j + 1 \in 1..Len(q)
      BY <1>4, <3>2
    <3>5. r[i][1] \in Lasts => j + 1 = Len(q)
      BY <3>3, <3>4 DEF Ordered
    <3>6. j + 1 = Len(q) => i = Len(r)
      <4>1. Len(q) \in Nat /\ Len(t) \in Nat /\ Len(u) = Len(q) - 1 /\ Len(r) = Len(t) + Len(u)
        BY <1>4, <1>5
      <4>2. j \in Nat /\ i = j + Len(t)
        BY <3>2
      <4> QED BY <4>1, <4>2
    <3> QED BY <1>3, <3>3, <3>5, <3>6
  <2> QED BY <1>5, <2>1, <2>2
<1>9. Ordered(r)
  BY <1>5, <1>6, <1>7, <1>8 DEF Ordered
<1> QED BY <1>1, <1>2, <1>5, <1>9

\* A handler does its next step, and has t to do before the others.
LEMMA InsteadFacts ==
  ASSUME TodoInv, NEW p \in Procs, todo[p] # << >>, NEW t, Fit(t), Instead(p, t)
  PROVE  /\ TodoInv'
         /\ todo'[p] = t \o Tail(todo[p])
         /\ Steps(p)' = Range(t) \union Later(p)
         /\ \A r \in Procs : r # p => todo'[r] = todo[r] /\ Steps(r)' = Steps(r)
<1>1. todo'[p] = t \o Tail(todo[p]) /\ \A r \in Procs : r # p => todo'[r] = todo[r]
  BY DEF Instead, Then, TodoInv
<1>2. todo' = [r \in Procs |-> todo'[r]]
  BY DEF Instead, Then, TodoInv
<1>3. Ordered(todo'[p]) /\ Range(todo'[p]) = Range(t) \union Range(Tail(todo[p]))
  BY <1>1, OrderedContinues DEF TodoInv
<1>4. \A r \in Procs : Ordered(todo'[r])
  BY <1>1, <1>3 DEF TodoInv
<1> QED BY <1>1, <1>2, <1>3, <1>4 DEF TodoInv, Steps, Later

\* The next step, and what comes later.
LEMMA DoingFacts ==
  ASSUME TodoInv, NEW p \in Procs, todo[p] # << >>
  PROVE  /\ Steps(p) = {Step(p)} \union Later(p)
         /\ Step(p) \in Steps(p)
         /\ Step(p) = todo[p][1]
         /\ Step(p)[1] \in OfTask => Step(p)[2] \in Slugs
         /\ \A x \in Later(p) : x[1] \notin Firsts
         /\ Step(p)[1] \in Lasts => Tail(todo[p]) = << >> /\ Later(p) = {}
         /\ Step(p)[1] = "wipe" => <<"drop", Step(p)[2]>> \in Later(p)
<1>1. Ordered(todo[p])
  BY DEF TodoInv
<1>2. /\ Head(todo[p]) = todo[p][1]
      /\ Range(todo[p]) = {Head(todo[p])} \union Range(Tail(todo[p]))
      /\ \A x \in Range(Tail(todo[p])) : x[1] \notin Firsts
      /\ Head(todo[p])[1] \in Lasts => Tail(todo[p]) = << >> /\ Range(Tail(todo[p])) = {}
      /\ Head(todo[p])[1] = "wipe" => <<"drop", Head(todo[p])[2]>> \in Range(Tail(todo[p]))
  BY <1>1, RestFacts
<1> QED BY <1>1, <1>2 DEF Steps, Later, Step, Ordered

\* A handler starts, or a gate decides what is to be done.
LEMMA ThenFacts ==
  ASSUME TodoInv, NEW p \in Procs, NEW q, Ordered(q), Then(p, q)
  PROVE  /\ TodoInv'
         /\ todo'[p] = q
         /\ Steps(p)' = Range(q)
         /\ \A r \in Procs : r # p => todo'[r] = todo[r] /\ Steps(r)' = Steps(r)
  BY DEF Then, TodoInv, Steps

\* No steps, one, or one of another kind.
LEMMA FitFacts ==
  /\ Fit(<< >>) /\ Range(<< >>) = {}
  /\ \A x : x[1] \notin Lasts \union Firsts \union OfTask => Fit(<<x>>) /\ Range(<<x>>) = {x}
<1>1. Fit(<< >>)
  BY SingleFacts DEF Fit
<1>2. ASSUME NEW x, x[1] \notin Lasts \union Firsts \union OfTask
      PROVE  Fit(<<x>>) /\ Range(<<x>>) = {x}
  <2>1. <<x>> \in Seq(Range(<<x>>)) /\ Len(<<x>>) = 1 /\ <<x>>[1] = x /\ Range(<<x>>) = {x}
    BY SingleFacts
  <2>2. x[1] # "wipe"
    BY <1>2 DEF Firsts, Gates
  <2>3. \A i \in 1..Len(<<x>>) : <<x>>[i][1] \notin Firsts
    BY <1>2, <2>1
  <2> QED BY <1>2, <2>1, <2>2, <2>3 DEF Fit
<1> QED BY <1>1, <1>2, SingleFacts

-----------------------------------------------------------------------------
(* Todos as commands and gates make them.                                  *)

\* One step is a todo.
LEMMA OneOrdered ==
  ASSUME NEW x, x[1] # "wipe", x[1] \in OfTask => x[2] \in Slugs
  PROVE  Ordered(<<x>>) /\ Range(<<x>>) = {x}
<1>1. <<x>> \in Seq(Range(<<x>>)) /\ Len(<<x>>) = 1 /\ <<x>>[1] = x /\ Range(<<x>>) = {x}
  BY SingleFacts
<1> QED BY <1>1 DEF Ordered

\* Nothing to do is a todo.
LEMMA NoneOrdered == Ordered(<< >>) /\ Range(<< >>) = {}
  BY SingleFacts DEF Ordered

\* Steps of a kind that is neither first nor last.
Plain(t) ==
  /\ t \in Seq(Range(t))
  /\ \A x \in Range(t) : x[1] \notin Lasts \union Firsts
  /\ \A x \in Range(t) : x[1] \in OfTask => x[2] \in Slugs

\* Plain steps are a todo.
LEMMA PlainFacts ==
  ASSUME NEW t, Plain(t)
  PROVE  Fit(t) /\ Ordered(t)
<1>1. \A i \in 1..Len(t) : t[i] \in Range(t)
  BY RangeEntries DEF Plain
<1>2. \A x \in Range(t) : x[1] # "wipe"
  BY DEF Plain, Firsts, Gates
<1>3. Fit(t)
  BY <1>1, <1>2 DEF Plain, Fit
<1>4. Ordered(t)
  BY <1>1, <1>2 DEF Plain, Ordered
<1> QED BY <1>3, <1>4

\* One plain step.
LEMMA PlainOne ==
  ASSUME NEW x, x[1] \notin Lasts \union Firsts, x[1] \in OfTask => x[2] \in Slugs
  PROVE  Plain(<<x>>) /\ Range(<<x>>) = {x}
<1>1. <<x>> \in Seq(Range(<<x>>)) /\ Range(<<x>>) = {x}
  BY SingleFacts
<1> QED BY <1>1 DEF Plain

\* Plain steps after plain steps.
LEMMA PlainConcat ==
  ASSUME NEW t, NEW u, Plain(t), Plain(u)
  PROVE  Plain(t \o u) /\ Range(t \o u) = Range(t) \union Range(u)
<1>1. t \in Seq(Range(t)) /\ u \in Seq(Range(u))
  BY DEF Plain
<1>2. t \o u \in Seq(Range(t \o u)) /\ Range(t \o u) = Range(t) \union Range(u)
  BY <1>1, ConcatFacts
<1>3. PICK r : r = t \o u
  OBVIOUS
<1>4. Plain(r)
  BY <1>2, <1>3 DEF Plain
<1> QED BY <1>2, <1>3, <1>4

\* One step for each of n things.
LEMMA ListedSteps ==
  ASSUME NEW n \in Nat, NEW f, f \in [1..n -> Range(f)]
  PROVE  /\ f \in Seq(Range(f)) /\ DOMAIN f = 1..n /\ Len(f) = n
         /\ \A x \in Range(f) : \E i \in 1..n : x = f[i]
<1>1. f \in Seq(Range(f)) /\ DOMAIN f = 1..n /\ Len(f) = n
  OBVIOUS
<1>2. \A x \in Range(f) : \E i \in 1..n : x = f[i]
  BY <1>1 DEF Range
<1> QED BY <1>1, <1>2

\* The tasks of a publish, in some order.
LEMMA OrderFacts ==
  ASSUME NEW S \in SUBSET Slugs, NEW q \in Orders(S)
  PROVE  Cardinality(S) \in Nat /\ q \in [1..Cardinality(S) -> Slugs]
<1>1. Cardinality(S) \in Nat
  BY AgentAssumption, FS_Subset, FS_CardinalityType
<1> QED BY <1>1 DEF Orders

\* What a publish has to do: lock, worktrees, unlock.
LEMMA PublishTodo ==
  ASSUME NEW S \in SUBSET Slugs, NEW q \in Orders(S),
         NEW r, r = << <<"lock">> >> \o [i \in DOMAIN q |-> <<"worktree", q[i]>>]
                      \o << <<"unlock">> >>
  PROVE  /\ Ordered(r)
         /\ Head(r) = <<"lock">>
         /\ \A x \in Range(r) : x[1] \in {"lock", "worktree", "unlock"}
<1> DEFINE n == Cardinality(S)
<1>1. PICK w : w = [i \in 1..n |-> <<"worktree", q[i]>>]
  OBVIOUS
<1>2. n \in Nat /\ q \in [1..n -> Slugs]
  BY OrderFacts
<1> HIDE DEF n
<1>3. w \in [1..n -> Range(w)] /\ \A i \in 1..n : w[i] = <<"worktree", q[i]>>
  BY <1>1 DEF Range
<1>4. /\ w \in Seq(Range(w))
      /\ \A x \in Range(w) : \E i \in 1..n : x = w[i]
  BY <1>2, <1>3, ListedSteps
<1>5. \A x \in Range(w) : x[1] = "worktree" /\ x[2] \in Slugs
  BY <1>2, <1>3, <1>4
<1>6. PICK first : first = << <<"lock">> >>
  OBVIOUS
<1>7. PICK last : last = << <<"unlock">> >>
  OBVIOUS
<1>8. /\ first \in Seq(Range(first)) /\ Len(first) = 1 /\ first[1] = <<"lock">>
      /\ Range(first) = { <<"lock">> }
      /\ last \in Seq(Range(last)) /\ Len(last) = 1 /\ last[1] = <<"unlock">>
      /\ Range(last) = { <<"unlock">> }
  BY <1>6, <1>7, SingleFacts
<1>9. PICK u : u = first \o w
  OBVIOUS
<1>10. /\ first \o w \in Seq(Range(first \o w))
       /\ Len(w) \in Nat /\ Len(first \o w) = Len(first) + Len(w)
       /\ \A i \in 1..Len(first) : (first \o w)[i] = first[i]
       /\ \A i \in 1..Len(w) : (first \o w)[i + Len(first)] = w[i]
       /\ \A i \in 1..Len(first \o w) : i \in 1..Len(first) \/ i - Len(first) \in 1..Len(w)
       /\ Range(first \o w) = Range(first) \union Range(w)
  <2>1. first \in Seq(Range(first)) /\ w \in Seq(Range(w))
    BY <1>4, <1>8
  <2> QED BY <2>1, ConcatFacts
<1>11. /\ u \o last \in Seq(Range(u \o last))
       /\ Len(u) \in Nat /\ Len(u \o last) = Len(u) + Len(last)
       /\ \A i \in 1..Len(u) : (u \o last)[i] = u[i]
       /\ \A i \in 1..Len(last) : (u \o last)[i + Len(u)] = last[i]
       /\ \A i \in 1..Len(u \o last) : i \in 1..Len(u) \/ i - Len(u) \in 1..Len(last)
       /\ Range(u \o last) = Range(u) \union Range(last)
  <2>1. u \in Seq(Range(u)) /\ last \in Seq(Range(last))
    BY <1>8, <1>9, <1>10
  <2> QED BY <2>1, ConcatFacts
<1>12. r = u \o last
  <2>1. DOMAIN q = 1..n
    BY <1>2
  <2> QED BY <1>1, <1>6, <1>7, <1>9, <2>1
<1>13. /\ r \in Seq(Range(r))
       /\ Len(u) = 1 + Len(w) /\ Len(w) \in Nat /\ Len(r) = Len(u) + 1
       /\ Range(r) = { <<"lock">>, <<"unlock">> } \union Range(w)
  <2>1. Len(u) = Len(first) + Len(w) /\ Range(u) = Range(first) \union Range(w)
    BY <1>9, <1>10
  <2> QED BY <1>8, <1>10, <1>11, <1>12, <2>1
<1>14. r[1] = <<"lock">>
  <2>1. u[1] = <<"lock">>
    BY <1>8, <1>9, <1>10
  <2>2. 1 \in 1..Len(u)
    BY <1>13
  <2> QED BY <1>11, <1>12, <2>1, <2>2
<1>15. ASSUME NEW i \in 1..Len(r)
       PROVE  i = 1 \/ i = Len(r) \/ r[i] \in Range(w)
  <2> SUFFICES ASSUME i # 1, i # Len(r) PROVE r[i] \in Range(w)
    OBVIOUS
  <2>1. PICK j : j = i - 1
    OBVIOUS
  <2>2. j \in 1..Len(w) /\ i = j + 1 /\ i \in 1..Len(u)
    BY <1>13, <2>1
  <2>3. r[i] = u[i]
    BY <1>11, <1>12, <2>2
  <2>4. u[i] = w[j]
    BY <1>8, <1>9, <1>10, <2>2
  <2>5. w[j] \in Range(w)
    BY <1>4, <2>2, RangeEntries
  <2> QED BY <2>3, <2>4, <2>5
<1>16. r[Len(r)] = <<"unlock">>
  <2>1. PICK k : k = 1
    OBVIOUS
  <2>2. k \in 1..Len(last) /\ last[k] = <<"unlock">> /\ Len(r) = k + Len(u)
    BY <1>8, <1>13, <2>1
  <2> QED BY <1>11, <1>12, <2>2
<1>17. \A x \in Range(r) : x[1] \in {"lock", "worktree", "unlock"} /\ (x[1] \in OfTask => x[2] \in Slugs)
  BY <1>5, <1>13 DEF OfTask
<1>18. \A i \in 1..Len(r) : (r[i][1] \in Firsts => i = 1) /\ (r[i][1] \in Lasts => i = Len(r))
  <2> SUFFICES ASSUME NEW i \in 1..Len(r)
               PROVE  (r[i][1] \in Firsts => i = 1) /\ (r[i][1] \in Lasts => i = Len(r))
    OBVIOUS
  <2>1. CASE i = 1
    <3>1. r[i][1] = "lock"
      BY <1>14, <2>1
    <3> QED BY <2>1, <3>1 DEF Lasts, Gates
  <2>2. CASE i = Len(r)
    <3>1. r[i][1] = "unlock"
      BY <1>16, <2>2
    <3> QED BY <2>2, <3>1 DEF Firsts, Gates
  <2>3. CASE r[i] \in Range(w)
    <3>1. r[i][1] = "worktree"
      BY <1>5, <2>3
    <3> QED BY <3>1 DEF Firsts, Lasts, Gates
  <2> QED BY <1>15, <2>1, <2>2, <2>3
<1>19. Ordered(r)
  BY <1>13, <1>17, <1>18 DEF Ordered
<1>20. Head(r) = r[1]
  BY <1>13
<1> QED BY <1>14, <1>17, <1>19, <1>20

-----------------------------------------------------------------------------
(* Places of the list.                                                     *)

\* The places of a set, listed in order.
LEMMA AscendingFacts ==
  ASSUME NEW n \in Nat, NEW S \in SUBSET (1..n), NEW q \in Ascending(S)
  PROVE  /\ Cardinality(S) \in 0..n
         /\ DOMAIN q = 1..Cardinality(S) /\ Len(q) = Cardinality(S)
         /\ \A i \in 1..Cardinality(S) : q[i] \in S
         /\ \A i, j \in 1..Cardinality(S) : i < j => q[i] < q[j]
         /\ \A x \in S : \E i \in 1..Cardinality(S) : q[i] = x
<1>1. Cardinality(S) \in Nat /\ Cardinality(S) <= n
  <2>1. IsFiniteSet(1..n) /\ Cardinality(1..n) = n
    BY FS_Interval
  <2>2. IsFiniteSet(S) /\ Cardinality(S) <= Cardinality(1..n)
    BY <2>1, FS_Subset
  <2> QED BY <2>1, <2>2, FS_CardinalityType
<1>2. /\ q \in [1..Cardinality(S) -> S]
      /\ Range(q) = S
      /\ \A i, j \in DOMAIN q : i < j => q[i] < q[j]
  BY DEF Ascending
<1>3. Len(q) = Cardinality(S)
  BY <1>1, <1>2
<1>4. \A x \in S : \E i \in 1..Cardinality(S) : q[i] = x
  BY <1>2 DEF Range
<1> QED BY <1>1, <1>2, <1>3, <1>4

\* Where a task is on the list.
LEMMA PosFacts ==
  ASSUME ListTypes, NEW s, Listed(s)
  PROVE  /\ Pos(s) \in 1..len
         /\ cells[Pos(s)].slug = s
         /\ \A i \in At(s) : Pos(s) <= i
<1>1. At(s) \in SUBSET Nat /\ At(s) # {}
  BY DEF At, Listed, ListTypes
<1>2. \E x \in At(s) : \A y \in At(s) : x <= y
  BY <1>1, NatMin
<1>3. \E x \in At(s) : \A y \in At(s) : y >= x
  BY <1>1, <1>2
<1>4. Min(At(s)) \in At(s) /\ \A y \in At(s) : y >= Min(At(s))
  BY <1>3 DEF Min
<1> QED BY <1>1, <1>4 DEF Pos, At

\* The rows of a list are rows.
LEMMA RowFacts ==
  ASSUME ListTypes
  PROVE  /\ len \in Nat /\ Len(cells) \in Nat /\ len <= Len(cells)
         /\ \A i \in 1..len : i \in 1..Len(cells) /\ cells[i] \in Row
         /\ \A i \in 1..Len(cells) : cells[i] \in Row
         /\ Range(cells) \subseteq Row
<1>1. len \in Nat /\ Len(cells) \in Nat /\ len <= Len(cells)
  BY DEF ListTypes
<1>2. \A i \in 1..Len(cells) : cells[i] \in Row
  BY DEF ListTypes
<1>3. Range(cells) \subseteq Row
  BY RangeEntries DEF ListTypes
<1> QED BY <1>1, <1>2, <1>3

\* A copy of the list is a list.
LEMMA CopyFacts ==
  ASSUME ListTypes
  PROVE  /\ Copy \in List
         /\ Len(Copy.rows) = len /\ \A i \in 1..len : Copy.rows[i] = cells[i]
<1>1. PICK r : r = SubSeq(cells, 1, len)
  OBVIOUS
<1>2. r \in Seq(Row) /\ Len(r) = len /\ \A i \in 1..len : r[i] = cells[i]
  BY <1>1, RowFacts DEF ListTypes
<1>3. Copy = [sup |-> sup, rows |-> r]
  BY <1>1 DEF Copy
<1> QED BY <1>2, <1>3 DEF List, ListTypes

-----------------------------------------------------------------------------
(* The todos of the supervisor's commands.                                 *)

\* What rooms gc has to do.
LEMMA GCTodo ==
  ASSUME ListTypes, NEW S \in SUBSET (1..len), NEW q \in Ascending(S),
         NEW r, r = [i \in DOMAIN q |-> <<"archive", cells[q[i]].slug>>]
  PROVE  /\ Plain(r)
         /\ \A x \in Range(r) : x[1] = "archive" /\ \E k \in S : x[2] = cells[k].slug
<1> DEFINE n == Cardinality(S)
<1>0. PICK w : w = [i \in DOMAIN q |-> <<"archive", cells[q[i]].slug>>]
  OBVIOUS
<1>1. n \in Nat /\ DOMAIN q = 1..n /\ \A i \in 1..n : q[i] \in S
  <2>1. len \in Nat
    BY RowFacts
  <2>2. /\ Cardinality(S) \in 0..len
        /\ DOMAIN q = 1..Cardinality(S) /\ Len(q) = Cardinality(S)
        /\ \A i \in 1..Cardinality(S) : q[i] \in S
    BY <2>1, AscendingFacts
  <2> QED BY <2>1, <2>2
<1> HIDE DEF n
<1>2. w \in [1..n -> Range(w)] /\ \A i \in 1..n : w[i] = <<"archive", cells[q[i]].slug>>
  BY <1>0, <1>1 DEF Range
<1>3. /\ w \in Seq(Range(w))
      /\ \A x \in Range(w) : \E i \in 1..n : x = w[i]
  BY <1>1, <1>2, ListedSteps
<1>4. \A x \in Range(w) : x[1] = "archive" /\ \E k \in S : x[2] = cells[k].slug
  <2> SUFFICES ASSUME NEW x \in Range(w)
               PROVE  x[1] = "archive" /\ \E k \in S : x[2] = cells[k].slug
    OBVIOUS
  <2>1. PICK i \in 1..n : x = w[i]
    BY <1>3
  <2> QED BY <1>1, <1>2, <2>1
<1>5. \A k \in S : cells[k].slug \in Slugs
  BY RowFacts DEF Row
<1>6. Plain(w)
  BY <1>3, <1>4, <1>5 DEF Plain, OfTask, Lasts, Firsts, Gates
<1> QED BY <1>0, <1>4, <1>6

\* The rewirings of the rows at q; and what a handler has to know of them.
RewireList(w, q, come, go) ==
  /\ w = [i \in DOMAIN q |-> w[i]]
  /\ \A i \in DOMAIN q : w[i] = <<"rewire", cells[q[i]].slug, come, go>>

Rewires(w, go) == \A x \in Range(w) : x[1] = "rewire" /\ x[4] = go

\* What a handoff has to do to the rooms.
LEMMA HandoffTodo ==
  ASSUME ListTypes, NEW S \in SUBSET (1..len), NEW q \in Ascending(S), NEW come, NEW go,
         NEW w, RewireList(w, q, come, go)
  PROVE  Plain(w) /\ Rewires(w, go)
<1> DEFINE n == Cardinality(S)
<1>1. n \in Nat /\ DOMAIN q = 1..n /\ \A i \in 1..n : q[i] \in S
  <2>1. len \in Nat
    BY RowFacts
  <2>2. /\ Cardinality(S) \in 0..len
        /\ DOMAIN q = 1..Cardinality(S) /\ Len(q) = Cardinality(S)
        /\ \A i \in 1..Cardinality(S) : q[i] \in S
    BY <2>1, AscendingFacts
  <2> QED BY <2>1, <2>2
<1> HIDE DEF n
<1>2. w \in [1..n -> Range(w)] /\ \A i \in 1..n : w[i] = <<"rewire", cells[q[i]].slug, come, go>>
  BY <1>1 DEF Range, RewireList
<1>3. /\ w \in Seq(Range(w))
      /\ \A x \in Range(w) : \E i \in 1..n : x = w[i]
  <2>1. n \in Nat /\ w \in [1..n -> Range(w)]
    BY <1>1, <1>2
  <2> QED BY <2>1, ListedSteps
<1>4. \A x \in Range(w) : x[1] = "rewire" /\ x[4] = go /\ x[2] \in Slugs
  <2>1. \A k \in S : cells[k].slug \in Slugs
    BY RowFacts DEF Row
  <2>2. ASSUME NEW x \in Range(w)
        PROVE  x[1] = "rewire" /\ x[4] = go /\ x[2] \in Slugs
    <3>1. PICK i \in 1..n : x = w[i]
      BY <1>3
    <3>2. x = <<"rewire", cells[q[i]].slug, come, go>> /\ q[i] \in S
      BY <1>1, <1>2, <3>1
    <3> QED BY <2>1, <3>2
  <2> QED BY <2>2
<1>5. Plain(w)
  BY <1>3, <1>4 DEF Plain, Lasts, Firsts, Gates
<1> QED BY <1>4, <1>5 DEF Rewires

\* What a command on one row leaves to do.
LEMMA RowTodo ==
  ASSUME NEW c, NEW rest, Plain(rest)
  PROVE  /\ Plain(<< <<"persist", c>> >> \o rest)
         /\ Range(<< <<"persist", c>> >> \o rest) = { <<"persist", c>> } \union Range(rest)
<1>1. PICK x : x = <<"persist", c>>
  OBVIOUS
<1>2. Plain(<<x>>) /\ Range(<<x>>) = {x}
  <2>1. x[1] = "persist"
    BY <1>1
  <2> QED BY <2>1, PlainOne DEF Lasts, Firsts, OfTask, Gates
<1>3. Plain(<<x>> \o rest) /\ Range(<<x>> \o rest) = Range(<<x>>) \union Range(rest)
  BY <1>2, PlainConcat
<1> QED BY <1>1, <1>2, <1>3

-----------------------------------------------------------------------------
(* A handler goes on.                                                      *)

\* The agent, the list and what is remembered of it are left alone.
SameList == UNCHANGED <<registered, sup, cells, len, swept, merged, told, foreign, stale, crossed, lost>>
SameGit  == UNCHANGED <<worktrees, repo>>

\* Handlers that leave the list alone.
LEMMA GoOnList ==
  ASSUME IInv, NEW p \in Procs, todo[p] # << >>, NEW t, Fit(t), Instead(p, t), SameList,
         Step(p)[1] # "drop",
         \A x \in Range(t) : x[1] \notin {"persist", "archive", "rewire"},
         stored' \in List
  PROVE  /\ TodoInv' /\ NamesInv' /\ ListTypes' /\ ListInv' /\ SupInv'
         /\ ArchiveInv' /\ RewireInv'
<1>1. /\ TodoInv'
      /\ Steps(p)' = Range(t) \union Later(p)
      /\ \A r \in Procs : r # p => Steps(r)' = Steps(r)
  <2>1. /\ TodoInv'
        /\ todo'[p] = t \o Tail(todo[p])
        /\ Steps(p)' = Range(t) \union Later(p)
        /\ \A r \in Procs : r # p => todo'[r] = todo[r] /\ Steps(r)' = Steps(r)
    BY InsteadFacts DEF IInv
  <2> QED BY <2>1
<1>2. Steps(p) = {Step(p)} \union Later(p)
  BY DoingFacts DEF IInv
<1>4. \A r \in Procs : \A x \in Steps(r)' :
        x \in Steps(r) \/ x[1] \notin {"persist", "archive", "rewire"}
  BY <1>1, <1>2
<1>5. ListTypes'
  BY <1>4 DEF IInv, ListTypes, SameList
<1>6. ListInv'
  BY DEF IInv, ListInv, SameList, Kept
<1>7. SupInv'
  BY DEF IInv, SupInv, SameList, Kept
<1>8. NamesInv'
  BY DEF IInv, NamesInv, SameList
<1>9. ArchiveInv'
  <2> SUFFICES ASSUME Kept({"list"}), NEW r \in Procs, NEW x \in Steps(r)', x[1] = "archive"
               PROVE  x[2] \in merged \union stale \/ <<"drop", x[2]>> \in Steps(r)'
    BY DEF ArchiveInv, SameList, Kept
  <2>1. x \in Steps(r)
    BY <1>4
  <2>2. x[2] \in merged \union stale \/ <<"drop", x[2]>> \in Steps(r)
    BY <2>1 DEF IInv, ArchiveInv
  <2>3. PICK d : d = <<"drop", x[2]>>
    OBVIOUS
  <2>4. d[1] = "drop"
    BY <2>3
  <2>5. d \in Steps(r) => d \in Steps(r)'
    BY <1>1, <1>2, <2>4
  <2> QED BY <2>2, <2>3, <2>5
<1>10. RewireInv'
  BY <1>4 DEF IInv, RewireInv, SameList, Kept, At
<1> QED BY <1>1, <1>5, <1>6, <1>7, <1>8, <1>9, <1>10

\* What is still to come does not get lost.
LEMMA StepsStay ==
  ASSUME TodoInv, NEW p \in Procs, todo[p] # << >>, NEW t, Fit(t), Instead(p, t),
         NEW r \in Procs, NEW x \in Steps(r), r # p \/ x # Step(p)
  PROVE  x \in Steps(r)'
<1>1. /\ TodoInv'
      /\ todo'[p] = t \o Tail(todo[p])
      /\ Steps(p)' = Range(t) \union Later(p)
      /\ \A q \in Procs : q # p => todo'[q] = todo[q] /\ Steps(q)' = Steps(q)
  BY InsteadFacts
<1>2. Steps(p) = {Step(p)} \union Later(p)
  BY DoingFacts
<1> QED BY <1>1, <1>2

\* Who removes a task has a drop among its steps.
LEMMA RemovingFacts ==
  /\ \A s : Removing(s) <=> \E p \in Procs : <<"drop", s>> \in Steps(p)
  /\ \A s : Removing(s)' <=> \E p \in Procs : <<"drop", s>> \in Steps(p)'
  BY DEF Removing, Steps, Range

\* A removal goes on.
LEMMA RemovingStays ==
  ASSUME TodoInv, NEW p \in Procs, todo[p] # << >>, NEW t, Fit(t), Instead(p, t),
         NEW s, Removing(s), Step(p) # <<"drop", s>>
  PROVE  Removing(s)'
<1>1. PICK d : d = <<"drop", s>>
  OBVIOUS
<1>2. PICK r \in Procs : d \in Steps(r)
  BY <1>1, RemovingFacts
<1>3. d \in Steps(r)'
  BY <1>1, <1>2, StepsStay
<1> QED BY <1>1, <1>3, RemovingFacts

\* Handlers that leave worktrees and the repository's lock alone.
LEMMA GoOnGit ==
  ASSUME IInv, NEW p \in Procs, todo[p] # << >>, NEW t, Fit(t), Instead(p, t), SameList,
         SameGit, Step(p)[1] \notin {"drop", "lock", "unlock", "worktree", "row"},
         \A x \in Range(t) : x[1] \notin Publish
  PROVE  RepoInv' /\ WorktreeInv'
<1>1. /\ TodoInv'
      /\ todo'[p] = t \o Tail(todo[p])
      /\ Steps(p)' = Range(t) \union Later(p)
      /\ \A r \in Procs : r # p => todo'[r] = todo[r] /\ Steps(r)' = Steps(r)
  BY InsteadFacts DEF IInv
<1>2. Steps(p) = {Step(p)} \union Later(p)
  BY DoingFacts DEF IInv
<1>3. RepoInv'
  <2> SUFFICES ASSUME NEW r \in Procs, NEW x \in Steps(r)', x[1] \in Publish
               PROVE  /\ Step(r)'[1] # "lock" => repo = r
                      /\ x[1] = "row" => x[2] \in worktrees
    BY DEF RepoInv, SameGit
  <2>1. CASE r = p
    <3>1. x \in Steps(p)
      BY <1>1, <1>2, <2>1
    <3> QED BY <2>1, <3>1 DEF IInv, RepoInv
  <2>2. CASE r # p
    <3>1. x \in Steps(r) /\ Step(r)' = Step(r)
      BY <1>1, <2>2 DEF Step
    <3> QED BY <3>1 DEF IInv, RepoInv
  <2> QED BY <2>1, <2>2
<1>4. WorktreeInv'
  <2> SUFFICES ASSUME Kept({"list", "unpublish"}), NEW i \in 1..len,
                      NEW s, s = cells[i].slug
               PROVE  s \in worktrees \/ Removing(s)'
    BY DEF WorktreeInv, SameList, SameGit, Kept
  <2>1. s = cells[i].slug
    OBVIOUS
  <2>2. s \in worktrees \/ Removing(s)
    BY <2>1 DEF IInv, WorktreeInv
  <2>3. Step(p) # <<"drop", s>>
    OBVIOUS
  <2>4. Removing(s) => Removing(s)'
    BY <2>3, RemovingStays DEF IInv
  <2> QED BY <2>1, <2>2, <2>4
<1> QED BY <1>3, <1>4

-----------------------------------------------------------------------------
(* Rooms while a handler goes on.                                          *)

\* Steps that open no room need none.
LEMMA FurnishedNone ==
  ASSUME NEW q, q \in Seq(Range(q)), \A x \in Range(q) : x[1] # "open", NEW E
  PROVE  Furnished(q, E)
  BY RangeEntries DEF Furnished

\* Steps that a handler puts before the rest of its todo, with more rooms there.
LEMMA FurnishedGoesOn ==
  ASSUME NEW q, Ordered(q), q # << >>, NEW E, Furnished(q, E),
         NEW F, E \subseteq F, NEW t, Fit(t), Furnished(t, F),
         Head(q)[1] = "ensure" => Head(q)[2] \in F
  PROVE  Furnished(t \o Tail(q), F)
<1>1. PICK u : u = Tail(q)
  OBVIOUS
<1>2. PICK r : r = t \o u
  OBVIOUS
<1>3. u \in Seq(Range(u)) /\ t \in Seq(Range(t)) /\ Head(q) = q[1]
  <2>1. Tail(q) \in Seq(Range(Tail(q))) /\ Head(q) = q[1]
    BY RestFacts
  <2> QED BY <1>1, <2>1 DEF Fit
<1>4. /\ t \o u \in Seq(Range(t \o u))
      /\ Len(t) \in Nat /\ Len(u) \in Nat /\ Len(t \o u) = Len(t) + Len(u)
      /\ \A i \in 1..Len(t) : (t \o u)[i] = t[i]
      /\ \A i \in 1..Len(u) : (t \o u)[i + Len(t)] = u[i]
      /\ \A i \in 1..Len(t \o u) : i \in 1..Len(t) \/ i - Len(t) \in 1..Len(u)
      /\ Range(t \o u) = Range(t) \union Range(u)
  BY <1>3, ConcatFacts
<1>5. /\ Len(t) \in Nat /\ Len(u) \in Nat /\ Len(r) = Len(t) + Len(u)
      /\ \A i \in 1..Len(t) : r[i] = t[i]
      /\ \A i \in 1..Len(u) : r[i + Len(t)] = u[i]
      /\ \A i \in 1..Len(r) : i \in 1..Len(t) \/ i - Len(t) \in 1..Len(u)
  BY <1>2, <1>4
<1>6. /\ Len(q) \in Nat \ {0} /\ Len(u) = Len(q) - 1
      /\ \A i \in 1..(Len(q) - 1) : u[i] = q[i + 1]
  BY <1>1, TailFacts DEF Ordered
<1>7. ASSUME NEW i \in 1..Len(r), r[i][1] = "open", r[i][2] \notin F
      PROVE  \E j \in 1..(i - 1) : r[j][1] = "ensure" /\ r[j][2] = r[i][2]
  <2>1. CASE i \in 1..Len(t)
    <3>1. t[i][1] = "open" /\ t[i][2] \notin F
      BY <1>5, <1>7, <2>1
    <3>2. PICK j \in 1..(i - 1) : t[j][1] = "ensure" /\ t[j][2] = t[i][2]
      BY <2>1, <3>1 DEF Furnished
    <3>3. j \in 1..Len(t)
      BY <1>5, <2>1
    <3> QED BY <1>5, <2>1, <3>2, <3>3
  <2>2. CASE i - Len(t) \in 1..Len(u)
    <3>1. PICK k : k = i - Len(t)
      OBVIOUS
    <3>2. k \in 1..Len(u) /\ i = k + Len(t)
      BY <1>5, <2>2, <3>1
    <3>3. r[i] = q[k + 1] /\ k + 1 \in 1..Len(q)
      BY <1>5, <1>6, <3>2
    <3>4. PICK j \in 1..k : q[j][1] = "ensure" /\ q[j][2] = r[i][2]
      <4>1. PICK m : m = k + 1
        OBVIOUS
      <4>2. m \in 1..Len(q) /\ q[m][1] = "open" /\ q[m][2] \notin E
        BY <1>7, <3>3, <4>1
      <4>3. \E j \in 1..(m - 1) : q[j][1] = "ensure" /\ q[j][2] = q[m][2]
        BY <4>2 DEF Furnished
      <4>4. m - 1 = k
        BY <3>2, <4>1
      <4> QED BY <3>3, <4>1, <4>3, <4>4
    <3>5. j # 1
      BY <1>3, <1>7, <3>4
    <3>6. PICK m : m = j - 1
      OBVIOUS
    <3>7. m \in 1..Len(u) /\ u[m] = q[j] /\ m + Len(t) \in 1..(i - 1)
      BY <1>5, <1>6, <3>2, <3>4, <3>5, <3>6
    <3>8. r[m + Len(t)] = q[j]
      BY <1>5, <3>7
    <3> QED BY <3>4, <3>7, <3>8
  <2> QED BY <1>5, <2>1, <2>2
<1>8. Furnished(r, F)
  BY <1>7 DEF Furnished
<1> QED BY <1>1, <1>2, <1>8

\* The rooms that are there stay.
LEMMA GoOnEnsure ==
  ASSUME IInv, NEW p \in Procs, todo[p] # << >>, NEW t, Fit(t), Instead(p, t),
         There \subseteq There', Furnished(t, There'),
         Step(p)[1] = "ensure" => Step(p)[2] \in There'
  PROVE  EnsureInv'
<1>1. /\ TodoInv'
      /\ todo'[p] = t \o Tail(todo[p])
      /\ Steps(p)' = Range(t) \union Later(p)
      /\ \A r \in Procs : r # p => todo'[r] = todo[r] /\ Steps(r)' = Steps(r)
  BY InsteadFacts DEF IInv
<1>2. PICK F : F = There'
  OBVIOUS
<1>3. \A r \in Procs : Furnished(todo[r], There) /\ Ordered(todo[r])
  BY DEF IInv, EnsureInv, TodoInv
<1>4. Furnished(t \o Tail(todo[p]), F)
  BY <1>2, <1>3, FurnishedGoesOn DEF Step
<1>5. \A r \in Procs : r # p => Furnished(todo[r], F)
  BY <1>2, <1>3 DEF Furnished
<1> QED BY <1>1, <1>2, <1>4, <1>5 DEF EnsureInv

\* Rooms that are open stay open, if nothing excuses it.
LEMMA GoOnOpen ==
  ASSUME IInv, NEW p \in Procs, todo[p] # << >>, NEW t, Fit(t), Instead(p, t), SameList,
         Step(p)[1] # "drop",
         Kept({"list"}) => \A s \in Slugs :
           (room[s].exists /\ ~room[s].archived) \/ Step(p) = <<"open", s>> =>
             \/ room'[s].exists /\ ~room'[s].archived
             \/ s \in merged \union stale
             \/ Removing(s)'
  PROVE  OpenInv'
<1> SUFFICES ASSUME Kept({"list", "rooms", "unpublish", "handler"}), NEW i \in 1..len,
                    NEW s, s = cells[i].slug, s \notin merged \union stale
             PROVE  (room'[s].exists /\ ~room'[s].archived) \/ Opening(s)' \/ Removing(s)'
  BY DEF OpenInv, SameList, Kept
<1>1. s \in Slugs
  BY RowFacts DEF IInv, Row
<1>2. Kept({"list"})
  BY DEF Kept
<1>3. (room[s].exists /\ ~room[s].archived) \/ Opening(s) \/ Removing(s)
  BY DEF IInv, OpenInv
<1>4. CASE Removing(s)
  <2>1. Step(p) # <<"drop", s>>
    OBVIOUS
  <2> QED BY <1>4, <2>1, RemovingStays DEF IInv
<1>5. CASE Opening(s)
  <2>1. PICK x : x = <<"open", s>>
    OBVIOUS
  <2>2. PICK r \in Procs : x \in Steps(r)
    BY <1>5, <2>1 DEF Opening
  <2>3. CASE Step(p) = <<"open", s>>
    BY <1>1, <1>2, <2>3
  <2>4. CASE Step(p) # <<"open", s>>
    <3>1. x \in Steps(r)'
      BY <2>1, <2>2, <2>4, StepsStay DEF IInv
    <3> QED BY <2>1, <3>1 DEF Opening
  <2> QED BY <2>3, <2>4
<1>6. CASE room[s].exists /\ ~room[s].archived
  BY <1>1, <1>2, <1>6
<1> QED BY <1>3, <1>4, <1>5, <1>6

\* Owners stay in their rooms.
LEMMA GoOnOwner ==
  ASSUME IInv, NEW p \in Procs, todo[p] # << >>, NEW t, Fit(t), Instead(p, t), SameList,
         out \subseteq out',
         Kept({"list"}) => \A i \in 1..len : \A s \in Slugs : \A w \in Agents \ (Supervisors \union out') :
           /\ s = cells[i].slug /\ w = cells[i].owner /\ s \notin crossed
           /\ w \in room[s].members
              \/ (Step(p)[1] = "ensure" /\ Step(p)[2] = s /\ w \in Step(p)[3])
           => w \in room'[s].members
  PROVE  OwnerInv'
<1> SUFFICES ASSUME Kept({"list", "rooms", "handler"}), NEW i \in 1..len,
                    NEW s, s = cells[i].slug, NEW w, w = cells[i].owner,
                    s \notin merged \union crossed, w \notin Supervisors \union out' \union {Nobody}
             PROVE  w \in room'[s].members \/ Joining(w, s)'
  BY DEF OwnerInv, SameList, Kept
<1>1. s \in Slugs /\ w \in Agents \ (Supervisors \union out')
  BY RowFacts DEF IInv, Row
<1>2. Kept({"list"})
  BY DEF Kept
<1>3. w \in room[s].members \/ Joining(w, s)
  BY DEF IInv, OwnerInv
<1>4. CASE Joining(w, s)
  <2>0. PICK r \in Procs : \E x \in Steps(r) : x[1] = "ensure" /\ x[2] = s /\ w \in x[3]
    BY <1>4 DEF Joining
  <2>1. PICK x \in Steps(r) : x[1] = "ensure" /\ x[2] = s /\ w \in x[3]
    BY <2>0
  <2>2. CASE x = Step(p)
    BY <1>1, <1>2, <2>1, <2>2
  <2>3. CASE x # Step(p)
    <3>1. x \in Steps(r)'
      BY <2>3, StepsStay DEF IInv
    <3> QED BY <2>1, <3>1 DEF Joining
  <2> QED BY <2>2, <2>3
<1>5. CASE w \in room[s].members
  BY <1>1, <1>2, <1>5
<1> QED BY <1>3, <1>4, <1>5

\* Handlers that leave rooms alone.
LEMMA GoOnRooms ==
  ASSUME IInv, NEW p \in Procs, todo[p] # << >>, NEW t, Fit(t), Instead(p, t), SameList,
         UNCHANGED <<room, out>>, Step(p)[1] \notin {"drop", "ensure", "open"},
         \A x \in Range(t) : x[1] # "open"
  PROVE  RoomShape' /\ EnsureInv' /\ OpenInv' /\ OwnerInv'
<1>1. RoomShape'
  BY DEF IInv, RoomShape
<1>2. EnsureInv'
  <2>1. There' = There
    BY DEF There
  <2>2. Furnished(t, There')
    BY FurnishedNone DEF Fit
  <2> QED BY <2>1, <2>2, GoOnEnsure
<1>3. OpenInv'
  <2>1. \A s \in Slugs : Step(p) # <<"open", s>>
    OBVIOUS
  <2> QED BY <2>1, GoOnOpen
<1>4. OwnerInv'
  BY GoOnOwner
<1> QED BY <1>1, <1>2, <1>3, <1>4

-----------------------------------------------------------------------------
(* The handlers' steps.                                                    *)

\* Steps that touch neither list nor git nor rooms.
LEMMA GoOnAll ==
  ASSUME IInv, NEW p \in Procs, todo[p] # << >>, Instead(p, << >>), SameList, SameGit,
         UNCHANGED <<room, out>>, stored' \in List,
         Step(p)[1] \in {"persist", "store", "flag"}
  PROVE  IInv'
<1>1. Fit(<< >>) /\ Range(<< >>) = {}
  BY FitFacts
<1>2. /\ TodoInv' /\ NamesInv' /\ ListTypes' /\ ListInv' /\ SupInv'
      /\ ArchiveInv' /\ RewireInv'
  BY <1>1, GoOnList
<1>3. RepoInv' /\ WorktreeInv'
  BY <1>1, GoOnGit
<1>4. RoomShape' /\ EnsureInv' /\ OpenInv' /\ OwnerInv'
  BY <1>1, GoOnRooms
<1> QED BY <1>2, <1>3, <1>4 DEF IInv

\* Storing a copy of the list keeps the invariant.
LEMMA PersistStep ==
  ASSUME IInv, NEW p \in Procs, PersistTaskList(p)
  PROVE  IInv'
<1>1. /\ todo[p] # << >> /\ Step(p)[1] = "persist" /\ Instead(p, << >>)
      /\ SameList /\ SameGit /\ UNCHANGED <<room, out>>
  BY DEF PersistTaskList, Doing, SameList, SameGit, listVars, gitVars, pastVars, raceVars
<1>2. stored' \in List
  <2>1. Step(p) \in Steps(p)
    BY <1>1, DoingFacts DEF IInv
  <2>2. PICK c : c = Step(p)[2]
    OBVIOUS
  <2>3. c \in List
    BY <1>1, <2>1, <2>2 DEF IInv, ListTypes
  <2>4. PICK rows \in Renderings(c) : stored' = [sup |-> c.sup, rows |-> rows]
    BY <2>2 DEF PersistTaskList
  <2>5. Range(c.rows) \subseteq Row /\ Range(cells) \subseteq Row
    BY <2>3, RangeEntries, RowFacts DEF List, IInv
  <2>6. rows \in Seq(Row)
    <3>1. DOMAIN c.rows = 1..Len(c.rows) /\ Len(c.rows) \in Nat
      BY <2>3 DEF List
    <3>2. rows \in [1..Len(c.rows) -> Row]
      BY <2>4, <2>5, <3>1 DEF Renderings
    <3> QED BY <3>1, <3>2
  <2> QED BY <2>3, <2>4, <2>6 DEF List
<1> QED BY <1>1, <1>2, GoOnAll

\* Storing rooms keeps the invariant.
LEMMA StoreSteps ==
  ASSUME IInv, NEW p \in Procs, StoreRoom(p) \/ StoreFlag(p)
  PROVE  IInv'
<1>1. /\ todo[p] # << >> /\ Step(p)[1] \in {"store", "flag"} /\ Instead(p, << >>)
      /\ SameList /\ SameGit /\ UNCHANGED <<room, out, stored>>
  BY DEF StoreRoom, StoreFlag, Doing, SameList, SameGit, listVars, gitVars, pastVars, raceVars
<1>2. stored' \in List
  BY <1>1 DEF IInv, ListTypes
<1> QED BY <1>1, <1>2, GoOnAll

\* Rooms are changed field by field.
LEMMA RecordFacts ==
  ASSUME NEW R, IsRoom(R), NEW e, NEW m, NEW a, NEW g
  PROVE  /\ [R EXCEPT !.members = m] =
               [exists |-> R.exists, members |-> m, archived |-> R.archived, msgs |-> R.msgs]
         /\ [R EXCEPT !.exists = e, !.members = m] =
               [exists |-> e, members |-> m, archived |-> R.archived, msgs |-> R.msgs]
         /\ [R EXCEPT !.archived = a] =
               [exists |-> R.exists, members |-> R.members, archived |-> a, msgs |-> R.msgs]
         /\ [R EXCEPT !.msgs = g] =
               [exists |-> R.exists, members |-> R.members, archived |-> R.archived, msgs |-> g]
<1>1. PICK x, y, z, w : x = R.exists /\ y = R.members /\ z = R.archived /\ w = R.msgs
  OBVIOUS
<1>2. R = [exists |-> x, members |-> y, archived |-> z, msgs |-> w]
  BY <1>1 DEF IsRoom
<1>3. [R EXCEPT !.members = m] = [exists |-> x, members |-> m, archived |-> z, msgs |-> w]
  BY <1>2
<1>4. [R EXCEPT !.exists = e, !.members = m] =
        [exists |-> e, members |-> m, archived |-> z, msgs |-> w]
  <2>1. PICK T : T = [R EXCEPT !.exists = e, !.members = m]
    OBVIOUS
  <2>2. T.exists = e /\ T.members = m /\ T.archived = z /\ T.msgs = w
    BY <1>2, <2>1
  <2>3. DOMAIN T = {"exists", "members", "archived", "msgs"} /\ T = [k \in DOMAIN T |-> T[k]]
    BY <1>2, <2>1
  <2> QED BY <2>1, <2>2, <2>3
<1>5. [R EXCEPT !.archived = a] = [exists |-> x, members |-> y, archived |-> a, msgs |-> w]
  BY <1>2
<1>6. [R EXCEPT !.msgs = g] = [exists |-> x, members |-> y, archived |-> z, msgs |-> g]
  BY <1>2
<1> QED BY <1>1, <1>3, <1>4, <1>5, <1>6

\* A room written field by field is a room.
LEMMA RecordIsRoom ==
  ASSUME NEW e, NEW m, NEW a, NEW g,
         NEW R, R = [exists |-> e, members |-> m, archived |-> a, msgs |-> g]
  PROVE  IsRoom(R) /\ R.exists = e /\ R.members = m /\ R.archived = a
  BY DEF IsRoom

\* One room is changed.
LEMMA OneRoom ==
  ASSUME RoomShape, NEW s \in Slugs, NEW R, IsRoom(R), room' = [room EXCEPT ![s] = R]
  PROVE  RoomShape' /\ room'[s] = R /\ \A r \in Slugs : r # s => room'[r] = room[r]
  BY DEF RoomShape

\* Steps on rooms, in as far as they do not depend on what the step does.
LEMMA RoomSteps ==
  ASSUME IInv, NEW p \in Procs, todo[p] # << >>, NEW t, Fit(t), Instead(p, t), SameList,
         SameGit, UNCHANGED stored,
         Step(p)[1] \in {"evict", "ensure", "archive", "open", "bundle", "rewire"},
         \A x \in Range(t) : x[1] \in {"store", "flag"},
         RoomShape', EnsureInv', OpenInv', OwnerInv'
  PROVE  IInv'
<1>1. stored' \in List
  BY DEF IInv, ListTypes
<1>2. /\ TodoInv' /\ NamesInv' /\ ListTypes' /\ ListInv' /\ SupInv'
      /\ ArchiveInv' /\ RewireInv'
  <2>1. \A x \in Range(t) : x[1] \notin {"persist", "archive", "rewire"}
    OBVIOUS
  <2> QED BY <1>1, <2>1, GoOnList
<1>3. RepoInv' /\ WorktreeInv'
  <2>1. \A x \in Range(t) : x[1] \notin Publish
    BY DEF Publish
  <2> QED BY <2>1, GoOnGit
<1> QED BY <1>2, <1>3 DEF IInv

\* An eviction keeps the invariant: who goes is in out.
LEMMA EvictStep ==
  ASSUME IInv, NEW p \in Procs, Evict(p)
  PROVE  IInv'
<1>1. /\ todo[p] # << >> /\ Step(p)[1] = "evict" /\ Instead(p, << >>)
      /\ SameList /\ SameGit /\ UNCHANGED stored
  BY DEF Evict, Doing, SameList, SameGit, listVars, gitVars, raceVars
<1>2. Fit(<< >>) /\ Range(<< >>) = {}
  BY FitFacts
<1>3. PICK a : a = Step(p)[2]
  OBVIOUS
<1>4. /\ out' = out \union {a}
      /\ room' = [s \in Slugs |-> [room[s] EXCEPT !.members = @ \ {a}]]
  BY <1>3 DEF Evict
<1>5. /\ RoomShape'
      /\ \A s \in Slugs : /\ room'[s].exists = room[s].exists
                          /\ room'[s].archived = room[s].archived
                          /\ room'[s].members = room[s].members \ {a}
  <2>1. /\ room' = [s \in Slugs |-> room'[s]]
        /\ \A s \in Slugs : room'[s] = [room[s] EXCEPT !.members = room[s].members \ {a}]
    BY <1>4
  <2>2. ASSUME NEW s \in Slugs
        PROVE  /\ IsRoom(room'[s])
               /\ room'[s].exists = room[s].exists
               /\ room'[s].archived = room[s].archived
               /\ room'[s].members = room[s].members \ {a}
    <3>1. PICK R : R = room[s]
      OBVIOUS
    <3>2. IsRoom(R) /\ room'[s] = [R EXCEPT !.members = R.members \ {a}]
      BY <2>1, <3>1 DEF IInv, RoomShape
    <3>3. room'[s] = [exists |-> R.exists, members |-> R.members \ {a},
                     archived |-> R.archived, msgs |-> R.msgs]
      BY <3>2, RecordFacts
    <3>4. PICK T : T = room'[s]
      OBVIOUS
    <3> QED BY <3>1, <3>3, <3>4, RecordIsRoom
  <2> QED BY <2>1, <2>2 DEF RoomShape
<1>6. EnsureInv'
  <2>1. There \subseteq There'
    BY <1>5 DEF There
  <2>2. Furnished(<< >>, There')
    BY <1>2, FurnishedNone DEF Fit
  <2> QED BY <1>1, <1>2, <2>1, <2>2, GoOnEnsure
<1>7. OpenInv'
  <2>1. \A s \in Slugs : Step(p) # <<"open", s>>
    BY <1>1
  <2>2. \A s \in Slugs : (room[s].exists /\ ~room[s].archived) \/ Step(p) = <<"open", s>> =>
             \/ room'[s].exists /\ ~room'[s].archived
             \/ s \in merged \union stale
             \/ Removing(s)'
    BY <1>5, <2>1
  <2> QED BY <1>1, <1>2, <2>2, GoOnOpen
<1>8. OwnerInv'
  <2>1. \A i \in 1..len : \A s \in Slugs : \A w \in Agents \ (Supervisors \union out') :
           /\ s = cells[i].slug /\ w = cells[i].owner /\ s \notin crossed
           /\ w \in room[s].members
              \/ (Step(p)[1] = "ensure" /\ Step(p)[2] = s /\ w \in Step(p)[3])
           => w \in room'[s].members
    BY <1>1, <1>4, <1>5
  <2>2. out \subseteq out'
    BY <1>4
  <2> QED BY <1>1, <1>2, <2>1, <2>2, GoOnOwner
<1>9. \A x \in Range(<< >>) : x[1] \in {"store", "flag"}
  BY <1>2
<1> QED BY <1>1, <1>2, <1>5, <1>6, <1>7, <1>8, <1>9, RoomSteps

\* ensureRoomWithMembers keeps the invariant: the room is there, the members are in.
LEMMA EnsureStep ==
  ASSUME IInv, NEW p \in Procs, EnsureRoom(p)
  PROVE  IInv'
<1>1. /\ todo[p] # << >> /\ Step(p)[1] = "ensure"
      /\ SameList /\ SameGit /\ UNCHANGED <<stored, out>>
  BY DEF EnsureRoom, Doing, SameList, SameGit, listVars, gitVars, pastVars, raceVars
<1>2. PICK s : s = Step(p)[2]
  OBVIOUS
<1>3. PICK who : who = Step(p)[3]
  OBVIOUS
<1>4. PICK x : x = <<"store", s, who \ room[s].members, ~room[s].exists>>
  OBVIOUS
<1>5. /\ Instead(p, <<x>>)
      /\ room' = [room EXCEPT ![s].exists = TRUE, ![s].members = @ \union who]
  BY <1>2, <1>3, <1>4 DEF EnsureRoom
<1>6. Fit(<<x>>) /\ Range(<<x>>) = {x} /\ x[1] = "store"
  <2>1. x[1] = "store"
    BY <1>4
  <2> QED BY <2>1, FitFacts DEF Lasts, Firsts, OfTask, Gates
<1>7. s \in Slugs
  BY <1>1, <1>2, DoingFacts DEF IInv, OfTask
<1>8. /\ RoomShape'
      /\ \A r \in Slugs : r # s => room'[r] = room[r]
      /\ room'[s].exists /\ room'[s].archived = room[s].archived
      /\ room'[s].members = room[s].members \union who
  <2>1. PICK R : R = room[s]
    OBVIOUS
  <2>2. RoomShape /\ IsRoom(R)
    BY <1>7, <2>1 DEF IInv, RoomShape
  <2>3. room' = [room EXCEPT ![s] = [R EXCEPT !.exists = TRUE, !.members = R.members \union who]]
    BY <1>5, <1>7, <2>1, <2>2 DEF RoomShape, IsRoom
  <2>4. PICK T : T = [exists |-> TRUE, members |-> R.members \union who,
                     archived |-> R.archived, msgs |-> R.msgs]
    OBVIOUS
  <2>5. room' = [room EXCEPT ![s] = T]
    <3>1. [R EXCEPT !.exists = TRUE, !.members = R.members \union who] =
            [exists |-> TRUE, members |-> R.members \union who,
             archived |-> R.archived, msgs |-> R.msgs]
      BY <2>2, RecordFacts
    <3> QED BY <2>3, <2>4, <3>1
  <2>6. IsRoom(T) /\ T.exists = TRUE /\ T.members = R.members \union who /\ T.archived = R.archived
    BY <2>4, RecordIsRoom
  <2>7. RoomShape' /\ room'[s] = T /\ \A r \in Slugs : r # s => room'[r] = room[r]
    BY <1>7, <2>2, <2>5, <2>6, OneRoom
  <2> QED BY <2>1, <2>6, <2>7
<1>9. EnsureInv'
  <2>1. There \subseteq There' /\ s \in There'
    BY <1>7, <1>8 DEF There
  <2>2. Furnished(<<x>>, There')
    <3>1. \A y \in Range(<<x>>) : y[1] # "open"
      BY <1>6
    <3> QED BY <1>6, <3>1, FurnishedNone DEF Fit
  <2> QED BY <1>1, <1>2, <1>5, <1>6, <2>1, <2>2, GoOnEnsure
<1>10. OpenInv'
  <2>1. \A r \in Slugs : (room[r].exists /\ ~room[r].archived) \/ Step(p) = <<"open", r>> =>
             \/ room'[r].exists /\ ~room'[r].archived
             \/ r \in merged \union stale
             \/ Removing(r)'
    <3>1. \A r \in Slugs : Step(p) # <<"open", r>>
      BY <1>1
    <3> QED BY <1>8, <3>1
  <2> QED BY <1>1, <1>5, <1>6, <2>1, GoOnOpen
<1>11. OwnerInv'
  <2>1. \A i \in 1..len : \A r \in Slugs : \A w \in Agents \ (Supervisors \union out') :
           /\ r = cells[i].slug /\ w = cells[i].owner /\ r \notin crossed
           /\ w \in room[r].members
              \/ (Step(p)[1] = "ensure" /\ Step(p)[2] = r /\ w \in Step(p)[3])
           => w \in room'[r].members
    BY <1>2, <1>3, <1>8
  <2> QED BY <1>1, <1>5, <1>6, <2>1, GoOnOwner
<1>12. \A y \in Range(<<x>>) : y[1] \in {"store", "flag"}
  BY <1>6
<1> QED BY <1>1, <1>5, <1>6, <1>8, <1>9, <1>10, <1>11, <1>12, RoomSteps

\* One field of one room is changed.
LEMMA MembersChange ==
  ASSUME RoomShape, NEW s \in Slugs, NEW m, room' = [room EXCEPT ![s].members = m]
  PROVE  /\ RoomShape'
         /\ \A r \in Slugs : r # s => room'[r] = room[r]
         /\ room'[s].exists = room[s].exists
         /\ room'[s].members = m
         /\ room'[s].archived = room[s].archived
<1>1. PICK R : R = room[s]
  OBVIOUS
<1>2. IsRoom(R) /\ room = [r \in Slugs |-> room[r]]
  BY <1>1 DEF RoomShape
<1>3. [R EXCEPT !.members = m] =
        [exists |-> R.exists, members |-> m, archived |-> R.archived, msgs |-> R.msgs]
  BY <1>2, RecordFacts
<1>4. room' = [room EXCEPT ![s] = [R EXCEPT !.members = m]]
  BY <1>1, <1>2
<1>5. PICK T : T = [exists |-> R.exists, members |-> m, archived |-> R.archived, msgs |-> R.msgs]
  OBVIOUS
<1>6. IsRoom(T) /\ T.exists = R.exists /\ T.members = m /\ T.archived = R.archived
  BY <1>5, RecordIsRoom
<1>7. room' = [room EXCEPT ![s] = T]
  BY <1>3, <1>4, <1>5
<1>8. RoomShape' /\ room'[s] = T /\ \A r \in Slugs : r # s => room'[r] = room[r]
  BY <1>6, <1>7, OneRoom
<1> QED BY <1>1, <1>6, <1>8

\* A room that is archived or opened keeps its members.
LEMMA FlagChange ==
  ASSUME RoomShape, NEW s \in Slugs, NEW a, room' = [room EXCEPT ![s].archived = a]
  PROVE  /\ RoomShape'
         /\ \A r \in Slugs : r # s => room'[r] = room[r]
         /\ room'[s].exists = room[s].exists
         /\ room'[s].members = room[s].members
         /\ room'[s].archived = a
<1>1. PICK R : R = room[s]
  OBVIOUS
<1>2. IsRoom(R) /\ room = [r \in Slugs |-> room[r]]
  BY <1>1 DEF RoomShape
<1>3. [R EXCEPT !.archived = a] =
        [exists |-> R.exists, members |-> R.members, archived |-> a, msgs |-> R.msgs]
  BY <1>2, RecordFacts
<1>4. room' = [room EXCEPT ![s] = [R EXCEPT !.archived = a]]
  BY <1>1, <1>2
<1>5. PICK T : T = [exists |-> R.exists, members |-> R.members, archived |-> a, msgs |-> R.msgs]
  OBVIOUS
<1>6. IsRoom(T) /\ T.exists = R.exists /\ T.members = R.members /\ T.archived = a
  BY <1>5, RecordIsRoom
<1>7. room' = [room EXCEPT ![s] = T]
  BY <1>3, <1>4, <1>5
<1>8. RoomShape' /\ room'[s] = T /\ \A r \in Slugs : r # s => room'[r] = room[r]
  BY <1>6, <1>7, OneRoom
<1> QED BY <1>1, <1>6, <1>8

\* A post changes neither members nor flag.
LEMMA MsgsChange ==
  ASSUME RoomShape, NEW s \in Slugs, NEW g, room' = [room EXCEPT ![s].msgs = g]
  PROVE  /\ RoomShape'
         /\ \A r \in Slugs : r # s => room'[r] = room[r]
         /\ room'[s].exists = room[s].exists
         /\ room'[s].members = room[s].members
         /\ room'[s].archived = room[s].archived
<1>1. PICK R : R = room[s]
  OBVIOUS
<1>2. IsRoom(R) /\ room = [r \in Slugs |-> room[r]]
  BY <1>1 DEF RoomShape
<1>3. [R EXCEPT !.msgs = g] =
        [exists |-> R.exists, members |-> R.members, archived |-> R.archived, msgs |-> g]
  BY <1>2, RecordFacts
<1>4. room' = [room EXCEPT ![s] = [R EXCEPT !.msgs = g]]
  BY <1>1, <1>2
<1>5. PICK T : T = [exists |-> R.exists, members |-> R.members, archived |-> R.archived, msgs |-> g]
  OBVIOUS
<1>6. IsRoom(T) /\ T.exists = R.exists /\ T.members = R.members /\ T.archived = R.archived
  BY <1>5, RecordIsRoom
<1>7. room' = [room EXCEPT ![s] = T]
  BY <1>3, <1>4, <1>5
<1>8. RoomShape' /\ room'[s] = T /\ \A r \in Slugs : r # s => room'[r] = room[r]
  BY <1>6, <1>7, OneRoom
<1> QED BY <1>1, <1>6, <1>8

\* The members of the rooms stay, and what was there.
LEMMA SameRooms ==
  ASSUME IInv, NEW p \in Procs, todo[p] # << >>, NEW t, Fit(t), Instead(p, t), SameList,
         UNCHANGED out,
         \A x \in Range(t) : x[1] # "open",
         Step(p)[1] # "ensure",
         \A r \in Slugs : /\ room'[r].exists = room[r].exists
                          /\ room'[r].members = room[r].members
  PROVE  EnsureInv' /\ OwnerInv'
<1>1. EnsureInv'
  <2>1. There \subseteq There'
    BY DEF There
  <2>2. Furnished(t, There')
    BY FurnishedNone DEF Fit
  <2> QED BY <2>1, <2>2, GoOnEnsure
<1>2. OwnerInv'
  BY GoOnOwner
<1> QED BY <1>1, <1>2

\* archiveRoom and unarchiveRoom keep the invariant.
LEMMA ArchivedStep ==
  ASSUME IInv, NEW p \in Procs,
         SetArchived(p, "archive", TRUE) \/ SetArchived(p, "open", FALSE)
  PROVE  IInv'
<1>1. PICK kind, flag : /\ SetArchived(p, kind, flag)
                        /\ (kind = "archive" /\ flag = TRUE) \/ (kind = "open" /\ flag = FALSE)
  OBVIOUS
<1>2. /\ todo[p] # << >> /\ Step(p)[1] = kind
      /\ SameList /\ SameGit /\ UNCHANGED <<stored, out>>
  BY <1>1 DEF SetArchived, Doing, SameList, SameGit, listVars, gitVars, pastVars, raceVars
<1>3. PICK s : s = Step(p)[2]
  OBVIOUS
<1>4. s \in Slugs /\ Step(p) \in Steps(p)
  BY <1>1, <1>2, <1>3, DoingFacts DEF IInv, OfTask
<1>5. PICK a : a = IF room[s].exists /\ room[s].archived # flag THEN flag ELSE room[s].archived
  OBVIOUS
<1>6. PICK t : /\ t = << >> \/ t = << <<"flag", s, flag>> >>
               /\ Instead(p, t)
               /\ room' = [room EXCEPT ![s].archived = a]
  <2>1. PICK t : t = IF room[s].exists /\ room[s].archived # flag
                     THEN << <<"flag", s, flag>> >> ELSE << >>
    OBVIOUS
  <2>2. Instead(p, t)
    BY <1>1, <1>3, <2>1 DEF SetArchived
  <2>3. room' = [room EXCEPT ![s].archived = a]
    BY <1>1, <1>3, <1>4, <1>5 DEF SetArchived, IInv, RoomShape
  <2> QED BY <2>1, <2>2, <2>3
<1>7. Fit(t) /\ \A x \in Range(t) : x[1] = "flag"
  <2>1. PICK x : x = <<"flag", s, flag>>
    OBVIOUS
  <2>2. x[1] = "flag"
    BY <2>1
  <2>3. Fit(<<x>>) /\ Range(<<x>>) = {x}
    BY <2>2, FitFacts DEF Lasts, Firsts, OfTask, Gates
  <2>4. Fit(<< >>) /\ Range(<< >>) = {}
    BY FitFacts
  <2> QED BY <1>6, <2>1, <2>2, <2>3, <2>4
<1>8. /\ RoomShape'
      /\ \A r \in Slugs : r # s => room'[r] = room[r]
      /\ room'[s].exists = room[s].exists
      /\ room'[s].members = room[s].members
      /\ room'[s].archived = a
  BY <1>4, <1>6, FlagChange DEF IInv
<1>9. EnsureInv' /\ OwnerInv'
  <2>1. \A r \in Slugs : /\ room'[r].exists = room[r].exists
                         /\ room'[r].members = room[r].members
    BY <1>8
  <2> QED BY <1>1, <1>2, <1>6, <1>7, <2>1, SameRooms
<1>10. OpenInv'
  <2>1. ASSUME Kept({"list"}), NEW r \in Slugs,
               (room[r].exists /\ ~room[r].archived) \/ Step(p) = <<"open", r>>
        PROVE  \/ room'[r].exists /\ ~room'[r].archived
               \/ r \in merged \union stale
               \/ Removing(r)'
    <3>1. CASE r # s
      <4>1. Step(p) # <<"open", r>>
        BY <1>3, <3>1
      <4> QED BY <1>8, <2>1, <3>1, <4>1
    <3>2. CASE r = s /\ kind = "archive"
      <4>1. PICK d : d = <<"drop", s>>
        OBVIOUS
      <4>2. s \in merged \union stale \/ d \in Steps(p)
        BY <1>2, <1>3, <1>4, <2>1, <3>2, <4>1 DEF IInv, ArchiveInv
      <4>3. d # Step(p)
        BY <1>2, <3>2, <4>1
      <4>4. d \in Steps(p) => d \in Steps(p)'
        BY <1>2, <1>6, <1>7, <4>3, StepsStay DEF IInv
      <4>5. d \in Steps(p) => Removing(s)'
        BY <4>1, <4>4, RemovingFacts
      <4> QED BY <3>2, <4>2, <4>5
    <3>3. CASE r = s /\ kind = "open"
      <4>1. flag = FALSE
        BY <1>1, <3>3
      <4>2. room[s].exists
        <5>1. CASE Step(p) = <<"open", r>>
          <6>1. PICK q : q = todo[p]
            OBVIOUS
          <6>2. Furnished(q, There) /\ q[1] = <<"open", s>> /\ 1 \in 1..Len(q)
            <7>1. Step(p) = todo[p][1]
              BY <1>2, DoingFacts DEF IInv
            <7>2. Len(q) \in Nat \ {0}
              BY <1>2, <6>1, TailFacts DEF IInv, TodoInv, Ordered
            <7> QED BY <3>3, <5>1, <6>1, <7>1, <7>2 DEF IInv, EnsureInv
          <6>3. s \in There
            BY <6>2 DEF Furnished
          <6> QED BY <6>3 DEF There
        <5> QED BY <2>1, <3>3, <5>1
      <4> QED BY <1>5, <1>8, <3>3, <4>1, <4>2
    <3> QED BY <1>1, <3>1, <3>2, <3>3
  <2>2. Step(p)[1] # "drop"
    BY <1>1, <1>2
  <2> QED BY <1>2, <1>6, <1>7, <2>1, <2>2, GoOnOpen
<1>11. Step(p)[1] \in {"evict", "ensure", "archive", "open", "bundle", "rewire"}
  BY <1>1, <1>2
<1> QED BY <1>2, <1>6, <1>7, <1>8, <1>9, <1>10, <1>11, RoomSteps

\* Posting a bundle keeps the invariant.
LEMMA BundleStep ==
  ASSUME IInv, NEW p \in Procs, PostBundle(p)
  PROVE  IInv'
<1>1. /\ todo[p] # << >> /\ Step(p)[1] = "bundle" /\ Instead(p, << >>)
      /\ SameList /\ SameGit /\ UNCHANGED <<stored, out>>
  BY DEF PostBundle, Doing, SameList, SameGit, listVars, gitVars, pastVars, raceVars
<1>2. Fit(<< >>) /\ Range(<< >>) = {}
  BY FitFacts
<1>3. PICK s, g : room' = [room EXCEPT ![s].msgs = g]
  BY DEF PostBundle
<1>4. /\ RoomShape'
      /\ \A r \in Slugs : /\ room'[r].exists = room[r].exists
                          /\ room'[r].members = room[r].members
                          /\ room'[r].archived = room[r].archived
  <2>1. CASE s \in Slugs
    <3>1. /\ RoomShape'
          /\ \A r \in Slugs : r # s => room'[r] = room[r]
          /\ room'[s].exists = room[s].exists
          /\ room'[s].members = room[s].members
          /\ room'[s].archived = room[s].archived
      BY <1>3, <2>1, MsgsChange DEF IInv
    <3> QED BY <3>1
  <2>2. CASE s \notin Slugs
    <3>1. room' = room
      BY <1>3, <2>2 DEF IInv, RoomShape
    <3> QED BY <3>1 DEF IInv, RoomShape
  <2> QED BY <2>1, <2>2
<1>5. EnsureInv' /\ OwnerInv'
  BY <1>1, <1>2, <1>4, SameRooms
<1>6. OpenInv'
  <2>1. \A s_1 \in Slugs : Step(p) # <<"open", s_1>>
    BY <1>1
  <2> QED BY <1>1, <1>2, <1>4, <2>1, GoOnOpen
<1> QED BY <1>1, <1>2, <1>4, <1>5, <1>6, RoomSteps

\* Taking a member out of a room keeps the invariant: no live task is theirs.
LEMMA RewireStep ==
  ASSUME IInv, NEW p \in Procs, RewireRoom(p)
  PROVE  IInv'
<1>1. /\ todo[p] # << >> /\ Step(p)[1] = "rewire" /\ Instead(p, << >>)
      /\ SameList /\ SameGit /\ UNCHANGED stored
  BY DEF RewireRoom, Doing, SameList, SameGit, listVars, gitVars, raceVars
<1>2. Fit(<< >>) /\ Range(<< >>) = {}
  BY FitFacts
<1>3. PICK s : s = Step(p)[2]
  OBVIOUS
<1>4. PICK come, go : come = Step(p)[3] /\ go = Step(p)[4]
  OBVIOUS
<1>5. s \in Slugs /\ Step(p) \in Steps(p)
  BY <1>1, <1>3, DoingFacts DEF IInv, OfTask
<1>6. PICK m : m = IF room[s].exists THEN (room[s].members \union come) \ go
                   ELSE room[s].members
  OBVIOUS
<1>7. /\ room' = [room EXCEPT ![s].members = m]
      /\ out' = out \union (come \intersect go)
  BY <1>3, <1>4, <1>5, <1>6 DEF RewireRoom, IInv, RoomShape
<1>8. /\ RoomShape'
      /\ \A r \in Slugs : r # s => room'[r] = room[r]
      /\ room'[s].exists = room[s].exists
      /\ room'[s].members = m
      /\ room'[s].archived = room[s].archived
  BY <1>5, <1>7, MembersChange DEF IInv
<1>9. EnsureInv'
  <2>1. There \subseteq There'
    BY <1>8 DEF There
  <2>2. Furnished(<< >>, There')
    BY <1>2, FurnishedNone DEF Fit
  <2> QED BY <1>1, <1>2, <2>1, <2>2, GoOnEnsure
<1>10. OpenInv'
  <2>1. \A r \in Slugs : Step(p) # <<"open", r>>
    BY <1>1
  <2>2. \A r \in Slugs : (room[r].exists /\ ~room[r].archived) \/ Step(p) = <<"open", r>> =>
             \/ room'[r].exists /\ ~room'[r].archived
             \/ r \in merged \union stale
             \/ Removing(r)'
    BY <1>8, <2>1
  <2> QED BY <1>1, <1>2, <2>2, GoOnOpen
<1>11. OwnerInv'
  <2>1. ASSUME Kept({"list"}), NEW i \in 1..len, s = cells[i].slug, s \notin crossed,
               NEW w \in Agents \ (Supervisors \union out'), w = cells[i].owner
        PROVE  w \notin go
    <3>1. i \in At(s)
      BY <2>1 DEF At
    <3> QED BY <1>1, <1>3, <1>4, <1>5, <2>1, <3>1 DEF IInv, RewireInv
  <2>2. ASSUME Kept({"list"}), NEW i \in 1..len, NEW r \in Slugs,
               NEW w \in Agents \ (Supervisors \union out'),
               r = cells[i].slug, w = cells[i].owner, r \notin crossed,
               w \in room[r].members
               \/ (Step(p)[1] = "ensure" /\ Step(p)[2] = r /\ w \in Step(p)[3])
        PROVE  w \in room'[r].members
    <3>1. w \in room[r].members
      BY <1>1, <2>2
    <3>2. CASE r # s
      BY <1>8, <3>1, <3>2
    <3>3. CASE r = s
      BY <1>6, <1>8, <2>1, <2>2, <3>1, <3>3
    <3> QED BY <3>2, <3>3
  <2>3. out \subseteq out'
    BY <1>7
  <2> QED BY <1>1, <1>2, <2>2, <2>3, GoOnOwner
<1>12. \A x \in Range(<< >>) : x[1] \in {"store", "flag"}
  BY <1>2
<1> QED BY <1>1, <1>2, <1>8, <1>9, <1>10, <1>11, <1>12, RoomSteps

\* Steps on worktrees and the repository's lock.
LEMMA GitSteps ==
  ASSUME IInv, NEW p \in Procs, todo[p] # << >>, NEW t, Fit(t), Instead(p, t), SameList,
         UNCHANGED <<stored, room, out>>,
         Step(p)[1] \in {"lock", "unlock", "worktree", "wipe"},
         \A x \in Range(t) : x[1] = "row",
         RepoInv', WorktreeInv'
  PROVE  IInv'
<1>1. stored' \in List
  BY DEF IInv, ListTypes
<1>2. /\ TodoInv' /\ NamesInv' /\ ListTypes' /\ ListInv' /\ SupInv'
      /\ ArchiveInv' /\ RewireInv'
  <2>1. \A x \in Range(t) : x[1] \notin {"persist", "archive", "rewire"}
    OBVIOUS
  <2> QED BY <1>1, <2>1, GoOnList
<1>3. RoomShape' /\ EnsureInv' /\ OpenInv' /\ OwnerInv'
  <2>1. \A x \in Range(t) : x[1] # "open"
    OBVIOUS
  <2> QED BY <2>1, GoOnRooms
<1> QED BY <1>2, <1>3 DEF IInv

\* Worktrees that are there stay there.
LEMMA GoOnWorktrees ==
  ASSUME IInv, NEW p \in Procs, todo[p] # << >>, NEW t, Fit(t), Instead(p, t), SameList,
         Step(p)[1] # "drop",
         \A s \in worktrees : s \in worktrees' \/ Removing(s)'
  PROVE  WorktreeInv'
<1> SUFFICES ASSUME Kept({"list", "unpublish"}), NEW i \in 1..len,
                    NEW s, s = cells[i].slug
             PROVE  s \in worktrees' \/ Removing(s)'
  BY DEF WorktreeInv, SameList, Kept
<1>1. s \in worktrees \/ Removing(s)
  BY DEF IInv, WorktreeInv
<1>2. Step(p) # <<"drop", s>>
  OBVIOUS
<1>3. Removing(s) => Removing(s)'
  BY <1>2, RemovingStays DEF IInv
<1> QED BY <1>1, <1>3

\* A publish waits for the lock, has it, or has a row to install.
LEMMA PublishFacts ==
  ASSUME IInv, NEW r \in Procs, NEW x \in Steps(r), x[1] \in Publish
  PROVE  /\ r # Nobody
         /\ Step(r)[1] = "lock" \/ repo = r
         /\ x[1] = "row" => x[2] \in worktrees /\ repo = r
<1>1. /\ Step(r)[1] # "lock" => repo = r
      /\ x[1] = "row" => x[2] \in worktrees
  BY DEF IInv, RepoInv
<1>2. r # Nobody
  BY AgentAssumption DEF Procs
<1>3. x[1] = "row" => repo = r
  <2>1. todo[r] # << >>
    BY DEF Steps, Range
  <2>2. Steps(r) = {Step(r)} \union Later(r) /\ \A y \in Later(r) : y[1] \notin Firsts
    BY <2>1, DoingFacts DEF IInv
  <2>3. x[1] = "row" => x = Step(r)
    BY <2>2 DEF Firsts, Gates
  <2> QED BY <1>1, <2>3
<1> QED BY <1>1, <1>2, <1>3

\* Taking and giving back the repository keeps the invariant.
LEMMA LockStep ==
  ASSUME IInv, NEW p \in Procs, LockRepo(p) \/ UnlockRepo(p)
  PROVE  IInv'
<1>1. /\ todo[p] # << >> /\ Instead(p, << >>) /\ SameList
      /\ UNCHANGED <<stored, room, out, worktrees>>
      /\ \/ Step(p)[1] = "lock" /\ repo = Nobody /\ repo' = p
         \/ Step(p)[1] = "unlock" /\ repo' = Nobody
  BY DEF LockRepo, UnlockRepo, Doing, SameList, listVars, pastVars, raceVars
<1>2. Fit(<< >>) /\ Range(<< >>) = {}
  BY FitFacts
<1>3. /\ TodoInv'
      /\ todo'[p] = << >> \o Tail(todo[p])
      /\ Steps(p)' = Range(<< >>) \union Later(p)
      /\ \A r \in Procs : r # p => todo'[r] = todo[r] /\ Steps(r)' = Steps(r)
  BY <1>1, <1>2, InsteadFacts DEF IInv
<1>4. /\ Steps(p) = {Step(p)} \union Later(p)
      /\ Step(p) \in Steps(p)
      /\ \A x \in Later(p) : x[1] \notin Firsts
      /\ Step(p)[1] \in Lasts => Later(p) = {}
  BY <1>1, DoingFacts DEF IInv
<1>5. RepoInv'
  <2>1. ASSUME NEW r \in Procs, NEW x \in Steps(r)', x[1] \in Publish
        PROVE  /\ Step(r)'[1] # "lock" => repo' = r
               /\ x[1] = "row" => x[2] \in worktrees
    <3>1. CASE r = p
      <4>1. x \in Later(p)
        BY <1>2, <1>3, <2>1, <3>1
      <4>2. Step(p)[1] = "lock"
        BY <1>1, <1>4, <4>1 DEF Lasts, Gates
      <4>3. repo' = p
        BY <1>1, <4>2
      <4> QED BY <1>4, <3>1, <4>1, <4>3 DEF Firsts, Gates
    <3>2. CASE r # p
      <4>1. x \in Steps(r) /\ Step(r)' = Step(r)
        BY <1>3, <2>1, <3>2 DEF Step
      <4>2. /\ r # Nobody
            /\ Step(r)[1] = "lock" \/ repo = r
            /\ x[1] = "row" => x[2] \in worktrees /\ repo = r
        BY <2>1, <4>1, PublishFacts
      <4>3. repo # r
        <5>1. CASE Step(p)[1] = "unlock"
          <6>1. Step(p)[1] \in Publish
            BY <5>1 DEF Publish
          <6>2. Step(p)[1] = "lock" \/ repo = p
            BY <1>4, <6>1, PublishFacts
          <6> QED BY <3>2, <5>1, <6>2
        <5> QED BY <1>1, <4>2, <5>1
      <4> QED BY <4>1, <4>2, <4>3
    <3> QED BY <3>1, <3>2
  <2> QED BY <1>1, <2>1 DEF RepoInv
<1>6. WorktreeInv'
  <2>1. Step(p)[1] # "drop" /\ \A s \in worktrees : s \in worktrees' \/ Removing(s)'
    BY <1>1
  <2> QED BY <1>1, <1>2, <2>1, GoOnWorktrees
<1> QED
  <2>1. \A x \in Range(<< >>) : x[1] = "row"
    BY <1>2
  <2> QED BY <1>1, <1>2, <1>5, <1>6, <2>1, GitSteps

\* Making a worktree keeps the invariant.
LEMMA WorktreeStep ==
  ASSUME IInv, NEW p \in Procs, EnsureWorktree(p)
  PROVE  IInv'
<1>1. /\ todo[p] # << >> /\ Step(p)[1] = "worktree" /\ SameList
      /\ UNCHANGED <<stored, room, out, repo>>
  BY DEF EnsureWorktree, Doing, SameList, listVars, pastVars, raceVars
<1>2. PICK s : s = Step(p)[2]
  OBVIOUS
<1>3. PICK x : x = <<"row", s, s \notin worktrees>>
  OBVIOUS
<1>4. PICK t : /\ t = <<x>> \/ t = << >>
               /\ Instead(p, t)
               /\ worktrees \subseteq worktrees'
               /\ t = <<x>> => s \in worktrees'
  <2>1. CASE worktrees' = worktrees \union {s} /\ Instead(p, <<x>>)
    BY <2>1
  <2>2. CASE worktrees' = worktrees /\ Instead(p, << >>)
    BY <2>2
  <2> QED BY <1>2, <1>3, <2>1, <2>2 DEF EnsureWorktree
<1>5. /\ Steps(p) = {Step(p)} \union Later(p)
      /\ Step(p) \in Steps(p)
      /\ Step(p)[1] \in OfTask => Step(p)[2] \in Slugs
      /\ \A y \in Later(p) : y[1] \notin Firsts
  BY <1>1, DoingFacts DEF IInv
<1>6. Fit(t) /\ \A y \in Range(t) : y[1] = "row" /\ y[2] \in worktrees'
  <2>1. x[1] = "row" /\ x[2] = s /\ s \in Slugs
    BY <1>1, <1>2, <1>3, <1>5 DEF OfTask
  <2>2. <<x>> \in Seq(Range(<<x>>)) /\ Len(<<x>>) = 1 /\ <<x>>[1] = x /\ Range(<<x>>) = {x}
    BY SingleFacts
  <2>3. Fit(<<x>>)
    BY <2>1, <2>2 DEF Fit, Lasts, Gates
  <2>4. Fit(<< >>) /\ Range(<< >>) = {}
    BY FitFacts
  <2> QED BY <1>4, <2>1, <2>2, <2>3, <2>4
<1>7. /\ TodoInv'
      /\ todo'[p] = t \o Tail(todo[p])
      /\ Steps(p)' = Range(t) \union Later(p)
      /\ \A r \in Procs : r # p => todo'[r] = todo[r] /\ Steps(r)' = Steps(r)
  BY <1>1, <1>4, <1>6, InsteadFacts DEF IInv
<1>8. repo = p
  <2>1. Step(p)[1] \in Publish
    BY <1>1 DEF Publish
  <2> QED BY <1>1, <1>5, <2>1, PublishFacts
<1>9. RepoInv'
  <2>1. ASSUME NEW r \in Procs, NEW y \in Steps(r)', y[1] \in Publish
        PROVE  /\ Step(r)'[1] # "lock" => repo = r
               /\ y[1] = "row" => y[2] \in worktrees'
    <3>1. CASE r = p
      <4>1. y \in Range(t) \/ y \in Later(p)
        BY <1>7, <2>1, <3>1
      <4>2. y[1] = "row" => y[2] \in worktrees'
        BY <1>5, <1>6, <4>1 DEF Firsts, Gates
      <4> QED BY <1>8, <3>1, <4>2
    <3>2. CASE r # p
      <4>1. y \in Steps(r) /\ Step(r)' = Step(r)
        BY <1>7, <2>1, <3>2 DEF Step
      <4>2. /\ Step(r)[1] = "lock" \/ repo = r
            /\ y[1] = "row" => y[2] \in worktrees /\ repo = r
        BY <2>1, <4>1, PublishFacts
      <4> QED BY <1>4, <4>1, <4>2
    <3> QED BY <3>1, <3>2
  <2> QED BY <1>1, <2>1 DEF RepoInv
<1>10. WorktreeInv'
  <2>1. Step(p)[1] # "drop" /\ \A z \in worktrees : z \in worktrees' \/ Removing(z)'
    BY <1>1, <1>4
  <2> QED BY <1>1, <1>4, <1>6, <2>1, GoOnWorktrees
<1> QED
  <2>1. \A y \in Range(t) : y[1] = "row"
    BY <1>6
  <2>2. Step(p)[1] \in {"lock", "unlock", "worktree", "wipe"}
    BY <1>1
  <2> QED BY <1>1, <1>4, <1>6, <1>9, <1>10, <2>1, <2>2, GitSteps

\* Removing a worktree keeps the invariant: its row is about to go.
LEMMA WipeStep ==
  ASSUME IInv, NEW p \in Procs, RemoveWorktree(p)
  PROVE  IInv'
<1>1. /\ todo[p] # << >> /\ Step(p)[1] = "wipe" /\ Instead(p, << >>) /\ SameList
      /\ UNCHANGED <<stored, room, out, repo>> /\ repo = Nobody
  BY DEF RemoveWorktree, Doing, SameList, listVars, pastVars, raceVars
<1>2. PICK s : s = Step(p)[2]
  OBVIOUS
<1>3. worktrees \ {s} \subseteq worktrees'
  BY <1>2 DEF RemoveWorktree
<1>4. Fit(<< >>) /\ Range(<< >>) = {}
  BY FitFacts
<1>5. /\ TodoInv'
      /\ todo'[p] = << >> \o Tail(todo[p])
      /\ Steps(p)' = Range(<< >>) \union Later(p)
      /\ \A r \in Procs : r # p => todo'[r] = todo[r] /\ Steps(r)' = Steps(r)
  BY <1>1, <1>4, InsteadFacts DEF IInv
<1>6. /\ Steps(p) = {Step(p)} \union Later(p)
      /\ Step(p)[1] = "wipe" => <<"drop", Step(p)[2]>> \in Later(p)
  BY <1>1, DoingFacts DEF IInv
<1>7. RepoInv'
  <2>1. ASSUME NEW r \in Procs, NEW x \in Steps(r)', x[1] \in Publish
        PROVE  /\ Step(r)'[1] = "lock"
               /\ x[1] # "row"
    <3>1. x \in Steps(r)
      BY <1>4, <1>5, <1>6, <2>1
    <3>2. /\ r # Nobody
          /\ Step(r)[1] = "lock" \/ repo = r
          /\ x[1] = "row" => x[2] \in worktrees /\ repo = r
      BY <2>1, <3>1, PublishFacts
    <3>3. Step(r)[1] = "lock" /\ x[1] # "row"
      BY <1>1, <3>2
    <3>4. r # p
      BY <1>1, <3>3
    <3>5. Step(r)' = Step(r)
      BY <1>5, <3>4 DEF Step
    <3> QED BY <3>2, <3>3, <3>5
  <2> QED BY <1>1, <2>1 DEF RepoInv
<1>8. WorktreeInv'
  <2>1. Removing(s)'
    <3>1. <<"drop", s>> \in Steps(p)'
      BY <1>1, <1>2, <1>5, <1>6
    <3> QED BY <3>1, RemovingFacts
  <2>2. Step(p)[1] # "drop" /\ \A z \in worktrees : z \in worktrees' \/ Removing(z)'
    BY <1>1, <1>3, <2>1
  <2> QED BY <1>1, <1>4, <2>2, GoOnWorktrees
<1> QED
  <2>1. \A x \in Range(<< >>) : x[1] = "row"
    BY <1>4
  <2> QED BY <1>1, <1>4, <1>7, <1>8, <2>1, GitSteps

-----------------------------------------------------------------------------
(* Rows come and go.                                                       *)

\* A step of a handler that is outside of a publish leaves the repository's holder alone.
LEMMA GoOnRepo ==
  ASSUME IInv, NEW p \in Procs, todo[p] # << >>, NEW t, Fit(t), Instead(p, t),
         SameGit, Step(p)[1] \notin {"lock", "unlock"},
         \A x \in Range(t) : x[1] \notin Publish
  PROVE  RepoInv'
<1>1. /\ TodoInv'
      /\ todo'[p] = t \o Tail(todo[p])
      /\ Steps(p)' = Range(t) \union Later(p)
      /\ \A r \in Procs : r # p => todo'[r] = todo[r] /\ Steps(r)' = Steps(r)
  BY InsteadFacts DEF IInv
<1>2. Steps(p) = {Step(p)} \union Later(p)
  BY DoingFacts DEF IInv
<1> SUFFICES ASSUME NEW r \in Procs, NEW x \in Steps(r)', x[1] \in Publish
             PROVE  /\ Step(r)'[1] # "lock" => repo = r
                    /\ x[1] = "row" => x[2] \in worktrees
  BY DEF RepoInv, SameGit
<1>3. CASE r = p
  <2>1. x \in Steps(p)
    BY <1>1, <1>2, <1>3
  <2> QED BY <1>3, <2>1 DEF IInv, RepoInv
<1>4. CASE r # p
  <2>1. x \in Steps(r) /\ Step(r)' = Step(r)
    BY <1>1, <1>4 DEF Step
  <2> QED BY <2>1 DEF IInv, RepoInv
<1> QED BY <1>3, <1>4

\* Another step leaves a room to be opened.
LEMMA OpeningStays ==
  ASSUME TodoInv, NEW p \in Procs, todo[p] # << >>, NEW t, Fit(t), Instead(p, t),
         NEW s, Opening(s), Step(p) # <<"open", s>>
  PROVE  Opening(s)'
<1>1. PICK x : x = <<"open", s>>
  OBVIOUS
<1>2. PICK r \in Procs : x \in Steps(r)
  BY <1>1 DEF Opening
<1>3. x \in Steps(r)'
  BY <1>1, <1>2, StepsStay
<1> QED BY <1>1, <1>3 DEF Opening

\* A step that adds no members leaves who is about to join.
LEMMA JoiningStays ==
  ASSUME TodoInv, NEW p \in Procs, todo[p] # << >>, NEW t, Fit(t), Instead(p, t),
         NEW w, NEW s, Joining(w, s), Step(p)[1] # "ensure"
  PROVE  Joining(w, s)'
<1>1. PICK r \in Procs : \E x \in Steps(r) : x[1] = "ensure" /\ x[2] = s /\ w \in x[3]
  BY DEF Joining
<1>2. PICK x \in Steps(r) : x[1] = "ensure" /\ x[2] = s /\ w \in x[3]
  BY <1>1
<1>3. x \in Steps(r)'
  BY <1>2, StepsStay
<1> QED BY <1>2, <1>3 DEF Joining

\* A handler is not nobody.
LEMMA SomeProc == \A p \in Procs : p # Nobody
  BY AgentAssumption DEF Procs

\* The list as it becomes.
LEMMA NewCopy ==
  ASSUME sup' \in Agents \union {Nobody}, cells' \in Seq(Row), len' \in 0..Len(cells')
  PROVE  Copy' \in List
  BY DEF Copy, List

\* What InstallRow, for agent a, does to the list and to what is remembered of it.
Installed(s, a) ==
  /\ cells' \in Seq(Row) /\ len' \in 0..Len(cells') /\ len <= len'
  /\ sup' \in Agents \union {Nobody} /\ (sup' = sup \/ (sup = Nobody /\ sup' = a))
  /\ told' \in [Slugs -> SUBSET Agents]
  /\ \A i \in 1..len : cells'[i] = cells[i]
  /\ \A i \in 1..len' : i \in 1..len \/
       /\ ~Listed(s) /\ i = len + 1
       /\ cells'[i].slug = s /\ cells'[i].owner = Nobody /\ cells'[i].status = "open"
  /\ \A r \in Slugs : r # s \/ Listed(s) =>
       /\ told'[r] = told[r]
       /\ r \in merged' <=> r \in merged
       /\ r \in foreign' <=> r \in foreign
       /\ r \in stale' <=> r \in stale
  /\ ~Listed(s) => /\ told'[s] = {} /\ s \notin merged'
                   /\ s \in foreign' \/ (sup' = a /\ a \in registered)
                   /\ s \in stale' \/ ~Collected(s)

\* InstallRow leaves the list as Installed says.
LEMMA InstallFacts ==
  ASSUME ListTypes, NEW p \in Procs, NEW a \in Agents, a = Caller[p], InstallRow(p),
         NEW s \in Slugs, s = Step(p)[2]
  PROVE  Installed(s, a)
<1>1. /\ sup' = IF sup = Nobody THEN a ELSE sup
      /\ \/ /\ ~Listed(s)
            /\ AppendRow([slug |-> s, owner |-> Nobody, status |-> "open"])
            /\ merged' = merged \ {s}
            /\ told' = [told EXCEPT ![s] = {}]
            /\ foreign' = IF sup' = a /\ a \in registered THEN foreign \ {s}
                          ELSE foreign \union {s}
            /\ stale' = IF Collected(s) THEN stale \union {s} ELSE stale \ {s}
         \/ Listed(s) /\ UNCHANGED <<cells, len, merged, told, foreign, stale>>
  BY DEF InstallRow
<1>2. /\ sup' \in Agents \union {Nobody} /\ (sup' = sup \/ (sup = Nobody /\ sup' = a))
      /\ told' \in [Slugs -> SUBSET Agents]
      /\ \A r \in Slugs : r # s \/ Listed(s) =>
           /\ told'[r] = told[r]
           /\ r \in merged' <=> r \in merged
           /\ r \in foreign' <=> r \in foreign
           /\ r \in stale' <=> r \in stale
      /\ ~Listed(s) => /\ told'[s] = {} /\ s \notin merged'
                       /\ s \in foreign' \/ (sup' = a /\ a \in registered)
                       /\ s \in stale' \/ ~Collected(s)
  BY <1>1 DEF ListTypes
<1>3. /\ len \in Nat /\ Len(cells) \in Nat /\ len <= Len(cells) /\ cells \in Seq(Row)
  BY RowFacts DEF ListTypes
<1>4. CASE Listed(s)
  <2>1. cells' = cells /\ len' = len
    BY <1>1, <1>4
  <2> QED BY <1>2, <1>3, <1>4, <2>1 DEF Installed
<1>5. CASE ~Listed(s)
  <2>1. PICK row : row = [slug |-> s, owner |-> Nobody, status |-> "open"]
    OBVIOUS
  <2>2. row \in Row /\ row.slug = s /\ row.owner = Nobody /\ row.status = "open"
    BY <2>1 DEF Row, Statuses
  <2>3. /\ len' = len + 1
        /\ cells' = IF len < Len(cells) THEN [cells EXCEPT ![len + 1] = row]
                    ELSE Append(cells, row)
    BY <1>1, <1>5, <2>1 DEF AppendRow
  <2>4. /\ cells' \in Seq(Row) /\ len' \in 0..Len(cells')
        /\ \A i \in 1..len : cells'[i] = cells[i]
        /\ cells'[len + 1] = row
    <3>1. CASE len < Len(cells)
      BY <1>3, <2>2, <2>3, <3>1
    <3>2. CASE ~(len < Len(cells))
      <4>1. len = Len(cells) /\ cells' = Append(cells, row)
        BY <1>3, <2>3, <3>2
      <4>2. /\ Append(cells, row) \in Seq(Row)
            /\ Len(Append(cells, row)) = Len(cells) + 1
            /\ \A i \in 1..Len(cells) : Append(cells, row)[i] = cells[i]
            /\ Append(cells, row)[Len(cells) + 1] = row
        BY <1>3, <2>2, RangeAppend
      <4> QED BY <1>3, <2>3, <4>1, <4>2
    <3> QED BY <3>1, <3>2
  <2>5. \A i \in 1..len' : i \in 1..len \/ i = len + 1
    BY <1>3, <2>3
  <2>6. len <= len'
    BY <1>3, <2>3
  <2> QED BY <1>2, <1>5, <2>2, <2>4, <2>5, <2>6 DEF Installed
<1> QED BY <1>4, <1>5

\* A step in front of others.
LEMMA ConsFacts ==
  ASSUME NEW a, NEW f, f \in Seq(Range(f))
  PROVE  /\ <<a>> \o f \in Seq(Range(<<a>> \o f))
         /\ Len(<<a>> \o f) = Len(f) + 1
         /\ (<<a>> \o f)[1] = a
         /\ \A i \in 1..Len(f) : (<<a>> \o f)[i + 1] = f[i]
         /\ Range(<<a>> \o f) = {a} \union Range(f)
<1>1. PICK one : one = <<a>>
  OBVIOUS
<1>2. one \in Seq(Range(one)) /\ Len(one) = 1 /\ one[1] = a /\ Range(one) = {a}
  BY <1>1, SingleFacts
<1>3. /\ one \o f \in Seq(Range(one \o f))
      /\ Len(one) \in Nat /\ Len(f) \in Nat /\ Len(one \o f) = Len(one) + Len(f)
      /\ \A i \in 1..Len(one) : (one \o f)[i] = one[i]
      /\ \A i \in 1..Len(f) : (one \o f)[i + Len(one)] = f[i]
      /\ \A i \in 1..Len(one \o f) : i \in 1..Len(one) \/ i - Len(one) \in 1..Len(f)
      /\ Range(one \o f) = Range(one) \union Range(f)
  BY <1>2, ConcatFacts
<1>4. PICK t : t = one \o f
  OBVIOUS
<1>5. /\ t \in Seq(Range(t)) /\ Len(t) = Len(f) + 1 /\ t[1] = a
      /\ \A i \in 1..Len(f) : t[i + 1] = f[i]
      /\ Range(t) = {a} \union Range(f)
  BY <1>2, <1>3, <1>4
<1> QED BY <1>1, <1>4, <1>5

\* A list of four steps: its entries and its places.
LEMMA FourFacts ==
  ASSUME NEW a, NEW b, NEW d, NEW e
  PROVE  LET t == <<a>> \o <<b, d, e>> IN
         /\ t \in Seq(Range(t)) /\ Len(t) = 4
         /\ t[1] = a /\ t[2] = b /\ t[3] = d /\ t[4] = e
         /\ Range(t) = {a, b, d, e}
<1>1. PICK f : f = <<b, d, e>>
  OBVIOUS
<1>2. f \in Seq({b, d, e}) /\ Len(f) = 3 /\ f[1] = b /\ f[2] = d /\ f[3] = e
  BY <1>1
<1>3. f \in Seq(Range(f)) /\ Range(f) = {b, d, e}
  <2>1. DOMAIN f = 1..3 /\ \A x \in Range(f) : x \in {b, d, e}
    BY <1>2, RangeEntries
  <2>2. b \in Range(f) /\ d \in Range(f) /\ e \in Range(f)
    BY <1>2, <2>1 DEF Range
  <2> QED BY <1>2, <2>1, <2>2, SelfTyped
<1>4. /\ <<a>> \o f \in Seq(Range(<<a>> \o f))
      /\ Len(<<a>> \o f) = Len(f) + 1
      /\ (<<a>> \o f)[1] = a
      /\ \A i \in 1..Len(f) : (<<a>> \o f)[i + 1] = f[i]
      /\ Range(<<a>> \o f) = {a} \union Range(f)
  BY <1>3, ConsFacts
<1>5. PICK t : t = <<a>> \o f
  OBVIOUS
<1>6. /\ t \in Seq(Range(t)) /\ Len(t) = Len(f) + 1 /\ t[1] = a
      /\ \A i \in 1..Len(f) : t[i + 1] = f[i]
      /\ Range(t) = {a} \union Range(f)
  BY <1>4, <1>5
<1>7. t[1] = a /\ t[1 + 1] = f[1] /\ t[2 + 1] = f[2] /\ t[3 + 1] = f[3]
  BY <1>2, <1>6
<1>8. /\ t \in Seq(Range(t)) /\ Len(t) = 4
      /\ t[1] = a /\ t[2] = b /\ t[3] = d /\ t[4] = e
      /\ Range(t) = {a, b, d, e}
  BY <1>2, <1>3, <1>6, <1>7
<1> QED BY <1>1, <1>5, <1>8

\* What publish does for a row.
LEMMA FurnishTodo ==
  ASSUME NEW c, NEW s \in Slugs, NEW p \in Conns, NEW again
  PROVE  LET t == << <<"persist", c>> >> \o Furnish(p, s, again) IN
         /\ Fit(t)
         /\ \A x \in Range(t) : x = <<"persist", c>> \/ x[1] \in {"ensure", "open", "bundle"}
         /\ <<"open", s>> \in Range(t)
         /\ \A E : Furnished(t, E)
<1>1. PICK a, b, d, e : /\ a = <<"persist", c>> /\ b = <<"ensure", s, {Caller[p]}>>
                        /\ d = <<"open", s>> /\ e = <<"bundle", s, again>>
  OBVIOUS
<1>2. /\ a[1] = "persist" /\ b[1] = "ensure" /\ b[2] = s
      /\ d[1] = "open" /\ d[2] = s /\ e[1] = "bundle"
  BY <1>1
<1>3. LET t == <<a>> \o <<b, d, e>> IN
      /\ t \in Seq(Range(t)) /\ Len(t) = 4
      /\ t[1] = a /\ t[2] = b /\ t[3] = d /\ t[4] = e
      /\ Range(t) = {a, b, d, e}
  BY FourFacts
<1>4. PICK t : t = <<a>> \o <<b, d, e>>
  OBVIOUS
<1>5. /\ t \in Seq(Range(t)) /\ Len(t) = 4
      /\ t[1] = a /\ t[2] = b /\ t[3] = d /\ t[4] = e
      /\ Range(t) = {a, b, d, e}
  BY <1>3, <1>4
<1>6. \A i \in 1..4 : i = 1 \/ i = 2 \/ i = 3 \/ i = 4
  OBVIOUS
<1>7. Fit(t)
  <2>1. \A x \in Range(t) : x[1] \notin Lasts \union {"wipe"} /\ x[1] \notin Firsts
    BY <1>2, <1>5 DEF Lasts, Firsts, Gates
  <2>2. \A x \in Range(t) : x[1] \in OfTask => x[2] \in Slugs
    BY <1>2, <1>5 DEF OfTask
  <2>3. \A i \in 1..Len(t) : t[i] \in Range(t)
    BY <1>5, RangeEntries
  <2> QED BY <1>5, <2>1, <2>2, <2>3 DEF Fit
<1>8. \A E : Furnished(t, E)
  <2> SUFFICES ASSUME NEW E, NEW i \in 1..Len(t), t[i][1] = "open"
               PROVE  \E j \in 1..(i - 1) : t[j][1] = "ensure" /\ t[j][2] = t[i][2]
    BY DEF Furnished
  <2>1. i = 3
    BY <1>2, <1>5, <1>6
  <2>2. 2 \in 1..(i - 1)
    BY <2>1
  <2> QED BY <1>2, <1>5, <2>1, <2>2
<1>9. t = << <<"persist", c>> >> \o Furnish(p, s, again)
  BY <1>1, <1>4 DEF Furnish
<1> QED BY <1>1, <1>2, <1>5, <1>7, <1>8, <1>9

\* Installing a row (opTaskPublish) keeps the invariant.
LEMMA InstallStep ==
  ASSUME IInv, NEW p \in Conns, InstallRow(p)
  PROVE  IInv'
<1>0. p \in Procs /\ Caller[p] \in Agents
  BY AgentAssumption DEF Procs
<1>1. /\ todo[p] # << >> /\ Step(p)[1] = "row" /\ SameGit
      /\ UNCHANGED <<registered, stored, room, out, swept, crossed, lost>>
  BY DEF InstallRow, Doing, SameGit, gitVars
<1>2. PICK s : s = Step(p)[2]
  OBVIOUS
<1>3. /\ Steps(p) = {Step(p)} \union Later(p)
      /\ Step(p) \in Steps(p)
      /\ Step(p)[1] \in OfTask => Step(p)[2] \in Slugs
  BY <1>0, <1>1, DoingFacts DEF IInv
<1>4. s \in Slugs
  BY <1>1, <1>2, <1>3 DEF OfTask
<1>5. s \in worktrees
  <2>1. Step(p)[1] \in Publish
    BY <1>1 DEF Publish
  <2> QED BY <1>0, <1>1, <1>2, <1>3, <2>1, PublishFacts
<1> PICK a \in Agents : a = Caller[p]
  BY <1>0
<1>6. /\ cells' \in Seq(Row) /\ len' \in 0..Len(cells') /\ len <= len'
      /\ sup' \in Agents \union {Nobody} /\ (sup' = sup \/ (sup = Nobody /\ sup' = a))
      /\ told' \in [Slugs -> SUBSET Agents]
      /\ \A i \in 1..len : cells'[i] = cells[i]
      /\ \A i \in 1..len' : i \in 1..len \/
           /\ ~Listed(s) /\ i = len + 1
           /\ cells'[i].slug = s /\ cells'[i].owner = Nobody /\ cells'[i].status = "open"
      /\ \A r \in Slugs : r # s \/ Listed(s) =>
           /\ told'[r] = told[r]
           /\ r \in merged' <=> r \in merged
           /\ r \in foreign' <=> r \in foreign
           /\ r \in stale' <=> r \in stale
      /\ ~Listed(s) => /\ told'[s] = {} /\ s \notin merged'
                       /\ s \in foreign' \/ (sup' = a /\ a \in registered)
                       /\ s \in stale' \/ ~Collected(s)
  <2>1. ListTypes
    BY DEF IInv
  <2>2. Installed(s, a)
    BY <1>0, <1>2, <1>4, <2>1, InstallFacts
  <2> QED BY <2>2 DEF Installed
<1>7. PICK t : /\ Instead(p, t) /\ Fit(t)
               /\ \A x \in Range(t) : x = <<"persist", Copy'>> \/ x[1] \in {"ensure", "open", "bundle"}
               /\ <<"open", s>> \in Range(t)
               /\ \A E : Furnished(t, E)
  <2>1. PICK again : again = (~Step(p)[3] /\ Listed(s) /\ Status(s) = "open")
    OBVIOUS
  <2>2. PICK c : c = Copy'
    OBVIOUS
  <2>3. LET t == << <<"persist", c>> >> \o Furnish(p, s, again) IN
        /\ Fit(t)
        /\ \A x \in Range(t) : x = <<"persist", c>> \/ x[1] \in {"ensure", "open", "bundle"}
        /\ <<"open", s>> \in Range(t)
        /\ \A E : Furnished(t, E)
    BY <1>4, FurnishTodo
  <2>4. Instead(p, << <<"persist", c>> >> \o Furnish(p, s, again))
    BY <1>2, <2>1, <2>2 DEF InstallRow
  <2> QED BY <2>2, <2>3, <2>4
<1>8. /\ TodoInv'
      /\ todo'[p] = t \o Tail(todo[p])
      /\ Steps(p)' = Range(t) \union Later(p)
      /\ \A r \in Procs : r # p => todo'[r] = todo[r] /\ Steps(r)' = Steps(r)
  BY <1>0, <1>1, <1>7, InsteadFacts DEF IInv
<1>9. \A r \in Procs : \A x \in Steps(r)' :
        x \in Steps(r) \/ x = <<"persist", Copy'>> \/ x[1] \in {"ensure", "open", "bundle"}
  BY <1>3, <1>7, <1>8
<1>10. RepoInv'
  <2>1. \A x \in Range(t) : x[1] \notin Publish
    BY <1>7 DEF Publish
  <2>2. Step(p)[1] \notin {"lock", "unlock"}
    BY <1>1
  <2> QED BY <1>0, <1>1, <1>7, <2>1, <2>2, GoOnRepo
<1>11. ListTypes'
  <2>1. Copy' \in List
    BY <1>6, NewCopy
  <2>2. \A r \in Procs : \A x \in Steps(r)' : x[1] = "persist" => x[2] \in List
    BY <1>9, <2>1 DEF IInv, ListTypes
  <2>3. stored' \in List
    BY <1>1 DEF IInv, ListTypes
  <2> QED BY <1>6, <2>2, <2>3 DEF ListTypes
<1>12. \A i \in 1..len : cells[i].slug \in Slugs /\ (cells[i].slug # s \/ Listed(s))
  BY RowFacts DEF IInv, Row, Listed, At
<1>13. Kept({"list"}) => \A i \in 1..len, j \in 1..len : cells[i].slug = cells[j].slug => i = j
  BY DEF IInv, ListInv
<1>14. ListInv'
  <2> SUFFICES ASSUME Kept({"list"})
               PROVE  /\ \A i, j \in 1..len' : cells'[i].slug = cells'[j].slug => i = j
                      /\ \A r \in Slugs : told'[r] # {} => \E i \in 1..len' : cells'[i].slug = r
                      /\ \A i \in 1..len' : told'[cells'[i].slug] # {} =>
                           told'[cells'[i].slug] = {cells'[i].owner} /\ cells'[i].status # "open"
                      /\ \A i \in 1..len' : cells'[i].status = "merged" => cells'[i].slug \in merged'
    BY <1>1 DEF ListInv, Kept
  <2>1. \A i, j \in 1..len' : cells'[i].slug = cells'[j].slug => i = j
    <3> SUFFICES ASSUME NEW i \in 1..len', NEW j \in 1..len', cells'[i].slug = cells'[j].slug
                 PROVE  i = j
      OBVIOUS
    <3>1. CASE i \in 1..len /\ j \in 1..len
      BY <1>6, <1>13, <3>1
    <3>2. CASE i \in 1..len /\ j \notin 1..len
      BY <1>6, <1>12, <3>2
    <3>3. CASE i \notin 1..len /\ j \in 1..len
      BY <1>6, <1>12, <3>3
    <3>4. CASE i \notin 1..len /\ j \notin 1..len
      BY <1>6, <3>4
    <3> QED BY <3>1, <3>2, <3>3, <3>4
  <2>2. ASSUME NEW r \in Slugs, told'[r] # {} PROVE \E i \in 1..len' : cells'[i].slug = r
    <3>1. told[r] # {}
      BY <1>6, <2>2
    <3>2. PICK i \in 1..len : cells[i].slug = r
      BY <3>1 DEF IInv, ListInv
    <3>3. i \in 1..len'
      BY <1>6, RowFacts DEF IInv
    <3> QED BY <1>6, <3>2, <3>3
  <2>3. ASSUME NEW i \in 1..len', told'[cells'[i].slug] # {}
        PROVE  told'[cells'[i].slug] = {cells'[i].owner} /\ cells'[i].status # "open"
    <3>1. i \in 1..len
      BY <1>6, <2>3
    <3>2. PICK r : r = cells[i].slug
      OBVIOUS
    <3>3. cells'[i] = cells[i] /\ told'[r] = told[r]
      BY <1>6, <1>12, <3>1, <3>2
    <3> QED BY <2>3, <3>1, <3>2, <3>3 DEF IInv, ListInv
  <2>4. ASSUME NEW i \in 1..len', cells'[i].status = "merged" PROVE cells'[i].slug \in merged'
    <3>1. i \in 1..len
      BY <1>6, <2>4
    <3>2. cells[i].slug \in merged
      BY <1>6, <2>4, <3>1 DEF IInv, ListInv
    <3> QED BY <1>6, <1>12, <3>1, <3>2
  <2> QED BY <2>1, <2>2, <2>3, <2>4
<1>15. WorktreeInv'
  <2> SUFFICES ASSUME Kept({"list", "unpublish"}), NEW i \in 1..len',
                      NEW r, r = cells'[i].slug
               PROVE  r \in worktrees \/ Removing(r)'
    BY <1>1 DEF WorktreeInv, Kept, SameGit
  <2>1. CASE i \notin 1..len
    BY <1>5, <1>6, <2>1
  <2>2. CASE i \in 1..len
    <3>1. r \in worktrees \/ Removing(r)
      BY <1>6, <2>2 DEF IInv, WorktreeInv
    <3>2. Step(p) # <<"drop", r>>
      BY <1>1
    <3>3. Removing(r) => Removing(r)'
      BY <1>0, <1>1, <1>7, <3>2, RemovingStays DEF IInv
    <3> QED BY <3>1, <3>3
  <2> QED BY <2>1, <2>2
<1>16. SupInv'
  <2> SUFFICES ASSUME Kept({"list"}), NEW i \in 1..len',
                      cells'[i].slug \notin foreign' \union merged'
               PROVE  sup' \in registered \union swept
    BY <1>1 DEF SupInv, Kept
  <2>1. CASE i \notin 1..len
    BY <1>6, <2>1
  <2>2. CASE i \in 1..len
    <3>1. cells[i].slug \notin foreign \union merged
      BY <1>6, <1>12, <2>2
    <3>2. sup \in registered \union swept
      BY <2>2, <3>1 DEF IInv, SupInv
    <3>3. sup # Nobody
      BY <3>2, AgentAssumption DEF IInv, NamesInv
    <3> QED BY <1>6, <3>2, <3>3
  <2> QED BY <2>1, <2>2
<1>17. NamesInv'
  BY <1>1 DEF IInv, NamesInv
<1>19. ASSUME NEW r \in Procs, NEW z, <<"drop", z>> \in Steps(r)
       PROVE  <<"drop", z>> \in Steps(r)'
  <2>1. PICK d : d = <<"drop", z>>
    OBVIOUS
  <2>2. d # Step(p)
    BY <1>1, <2>1
  <2>3. d \in Steps(r)'
    BY <1>0, <1>1, <1>7, <1>19, <2>1, <2>2, StepsStay DEF IInv
  <2> QED BY <2>1, <2>3
<1>20. ArchiveInv'
  <2> SUFFICES ASSUME Kept({"list"}), NEW r \in Procs, NEW x \in Steps(r)', x[1] = "archive"
               PROVE  x[2] \in merged' \union stale' \/ <<"drop", x[2]>> \in Steps(r)'
    BY <1>1 DEF ArchiveInv, Kept
  <2>1. x \in Steps(r)
    BY <1>9
  <2>2. PICK z : z = x[2]
    OBVIOUS
  <2>3. z \in Slugs
    BY <2>1, <2>2 DEF IInv, TodoInv, Ordered, Steps, OfTask
  <2>4. z \in merged \union stale \/ <<"drop", z>> \in Steps(r)
    BY <2>1, <2>2 DEF IInv, ArchiveInv
  <2>5. CASE z = s /\ ~Listed(s)
    <3>1. CASE ~Collected(s)
      <4>1. <<"drop", s>> \in Steps(r)
        BY <2>1, <2>2, <2>5, <3>1 DEF Collected, Steps
      <4> QED BY <1>19, <2>2, <2>5, <4>1
    <3>2. CASE Collected(s)
      BY <1>6, <2>2, <2>5, <3>2
    <3> QED BY <3>1, <3>2
  <2>6. CASE z # s \/ Listed(s)
    <3>1. z \in merged \union stale => z \in merged' \union stale'
      BY <1>6, <2>3, <2>6
    <3> QED BY <1>19, <2>2, <2>4, <3>1
  <2> QED BY <2>5, <2>6
<1>21. RoomShape'
  BY <1>1 DEF IInv, RoomShape
<1>22. EnsureInv'
  <2>1. There' = There
    BY <1>1 DEF There
  <2>2. Furnished(t, There')
    BY <1>7
  <2> QED BY <1>0, <1>1, <1>7, <2>1, <2>2, GoOnEnsure
<1>23. OpenInv'
  <2> SUFFICES ASSUME Kept({"list", "rooms", "unpublish", "handler"}), NEW i \in 1..len',
                      NEW r, r = cells'[i].slug, r \notin merged' \union stale'
               PROVE  (room[r].exists /\ ~room[r].archived) \/ Opening(r)' \/ Removing(r)'
    BY <1>1 DEF OpenInv, Kept
  <2>1. CASE r = s
    <3>1. <<"open", r>> \in Steps(p)'
      BY <1>7, <1>8, <2>1
    <3> QED BY <1>0, <3>1 DEF Opening
  <2>2. CASE r # s
    <3>1. i \in 1..len
      BY <1>6, <2>2
    <3>2. cells[i].slug = r /\ r \notin merged \union stale
      BY <1>6, <1>12, <2>2, <3>1
    <3>3. (room[r].exists /\ ~room[r].archived) \/ Opening(r) \/ Removing(r)
      BY <3>1, <3>2 DEF IInv, OpenInv
    <3>4. Step(p) # <<"drop", r>> /\ Step(p) # <<"open", r>>
      BY <1>1
    <3>5. Removing(r) => Removing(r)'
      BY <1>0, <1>1, <1>7, <3>4, RemovingStays DEF IInv
    <3>6. Opening(r) => Opening(r)'
      BY <1>0, <1>1, <1>7, <3>4, OpeningStays DEF IInv
    <3> QED BY <3>3, <3>5, <3>6
  <2> QED BY <2>1, <2>2
<1>24. RewireInv'
  <2> SUFFICES ASSUME Kept({"list"}), NEW r \in Procs, NEW x \in Steps(r)', x[1] = "rewire"
               PROVE  /\ Nobody \notin x[4]
                      /\ \/ x[4] \subseteq Supervisors
                         \/ x[2] \in crossed
                         \/ \A i \in At(x[2])' : cells'[i].owner \notin x[4]
    BY <1>1 DEF RewireInv, Kept
  <2>1. x \in Steps(r)
    BY <1>9
  <2>2. PICK z : z = x[2]
    OBVIOUS
  <2>3. /\ Nobody \notin x[4]
        /\ \/ x[4] \subseteq Supervisors
           \/ z \in crossed
           \/ \A i \in At(z) : cells[i].owner \notin x[4]
    BY <2>1, <2>2 DEF IInv, RewireInv
  <2>4. ASSUME NEW i \in At(z)' PROVE cells'[i].owner = Nobody \/ (i \in At(z) /\ cells'[i] = cells[i])
    <3>1. i \in 1..len' /\ cells'[i].slug = z
      BY <2>4 DEF At
    <3> QED BY <1>6, <3>1 DEF At
  <2> QED BY <2>2, <2>3, <2>4
<1>25. OwnerInv'
  <2> SUFFICES ASSUME Kept({"list", "rooms", "handler"}), NEW i \in 1..len',
                      NEW r, r = cells'[i].slug, NEW w, w = cells'[i].owner,
                      r \notin merged' \union crossed, w \notin Supervisors \union out \union {Nobody}
               PROVE  w \in room[r].members \/ Joining(w, r)'
    BY <1>1 DEF OwnerInv, Kept
  <2>1. i \in 1..len
    BY <1>6
  <2>2. cells[i].slug = r /\ cells[i].owner = w /\ r \notin merged \union crossed
    BY <1>6, <1>12, <2>1
  <2>3. w \in room[r].members \/ Joining(w, r)
    BY <2>1, <2>2 DEF IInv, OwnerInv
  <2>4. Step(p)[1] # "ensure"
    BY <1>1
  <2>5. Joining(w, r) => Joining(w, r)'
    BY <1>0, <1>1, <1>7, <2>4, JoiningStays DEF IInv
  <2> QED BY <2>3, <2>5
<1> QED BY <1>8, <1>10, <1>11, <1>14, <1>15, <1>16, <1>17, <1>20, <1>21, <1>22, <1>23,
           <1>24, <1>25 DEF IInv

\* What DropRow does to the list: the rows of other tasks stay, each once, and the task's
\* claims are forgotten.
Dropped(s) ==
  /\ cells' \in Seq(Row) /\ len' \in 0..Len(cells')
  /\ told' = [told EXCEPT ![s] = {}]
  /\ \A k \in 1..len' : \E i \in 1..len : cells'[k] = cells[i] /\ cells[i].slug # s
  /\ \A i \in 1..len : cells[i].slug # s => \E k \in 1..len' : cells'[k] = cells[i]
  /\ (\A i, j \in 1..len : cells[i].slug = cells[j].slug => i = j) =>
       \A i, j \in 1..len' : cells'[i].slug = cells'[j].slug => i = j

\* DropRow leaves the list as Dropped says.
LEMMA DropFacts ==
  ASSUME ListTypes, NEW p \in Procs, DropRow(p), NEW s \in Slugs, s = Step(p)[2]
  PROVE  Dropped(s)
<1>1. PICK K : K = (1..len) \ At(s)
  OBVIOUS
<1>2. /\ len \in Nat /\ Len(cells) \in Nat /\ len <= Len(cells) /\ cells \in Seq(Row)
      /\ K \in SUBSET (1..len)
      /\ \A i \in 1..len : i \in K <=> cells[i].slug # s
  BY <1>1, RowFacts DEF ListTypes, At
<1>3. PICK q \in Ascending(K) :
        /\ cells' = [i \in DOMAIN cells |-> IF i \in DOMAIN q THEN cells[q[i]] ELSE cells[i]]
        /\ len' = Len(q)
  BY <1>1 DEF DropRow
<1>4. /\ Cardinality(K) \in 0..len
      /\ DOMAIN q = 1..Cardinality(K) /\ Len(q) = Cardinality(K)
      /\ \A i \in 1..Cardinality(K) : q[i] \in K
      /\ \A i, j \in 1..Cardinality(K) : i < j => q[i] < q[j]
      /\ \A x \in K : \E i \in 1..Cardinality(K) : q[i] = x
  <2>1. PICK m : m = len
    OBVIOUS
  <2>2. m \in Nat /\ K \in SUBSET (1..m) /\ q \in Ascending(K)
    BY <1>2, <2>1
  <2>3. Cardinality(K) \in 0..m /\ DOMAIN q = 1..Cardinality(K) /\ Len(q) = Cardinality(K)
    BY <2>2, AscendingFacts
  <2>4. \A i \in 1..Cardinality(K) : q[i] \in K
    BY <2>2, AscendingFacts
  <2>5. \A i, j \in 1..Cardinality(K) : i < j => q[i] < q[j]
    BY <2>2, AscendingFacts
  <2>6. \A x \in K : \E i \in 1..Cardinality(K) : q[i] = x
    <3>1. Range(q) = K
      BY DEF Ascending
    <3> QED BY <2>3, <3>1 DEF Range
  <2> QED BY <2>1, <2>3, <2>4, <2>5, <2>6
<1>5. PICK n : n = Cardinality(K)
  OBVIOUS
<1>6. /\ n \in 0..len /\ DOMAIN q = 1..n /\ len' = n
      /\ \A i \in 1..n : q[i] \in 1..len /\ cells[q[i]].slug # s
      /\ \A i, j \in 1..n : i < j => q[i] < q[j]
      /\ \A x \in 1..len : cells[x].slug # s => \E i \in 1..n : q[i] = x
  BY <1>2, <1>3, <1>4, <1>5
<1>7. DOMAIN cells = 1..Len(cells) /\ \A i \in 1..Len(cells) : cells[i] \in Row
  BY <1>2
<1>8. \A i \in 1..n : i \in 1..Len(cells) /\ cells'[i] = cells[q[i]]
  BY <1>2, <1>3, <1>6, <1>7
<1>9. cells' \in Seq(Row) /\ Len(cells') = Len(cells)
  <2>1. /\ DOMAIN cells' = 1..Len(cells) /\ cells' = [i \in DOMAIN cells' |-> cells'[i]]
        /\ \A i \in 1..Len(cells) : i \notin 1..n => cells'[i] = cells[i]
    BY <1>3, <1>6, <1>7
  <2>2. \A i \in 1..Len(cells) : cells'[i] \in Row
    <3>1. \A i \in 1..n : q[i] \in 1..Len(cells)
      BY <1>2, <1>6
    <3> QED BY <1>7, <1>8, <2>1, <3>1
  <2>3. cells' \in [1..Len(cells) -> Row]
    BY <2>1, <2>2
  <2> QED BY <1>2, <2>3
<1>10. ASSUME \A i, j \in 1..len : cells[i].slug = cells[j].slug => i = j,
              NEW i \in 1..n, NEW j \in 1..n, cells'[i].slug = cells'[j].slug
       PROVE  i = j
  <2>1. q[i] = q[j] /\ q[i] \in 1..len
    <3>1. q[i] \in 1..len /\ q[j] \in 1..len
      BY <1>6
    <3>2. cells[q[i]].slug = cells[q[j]].slug
      BY <1>8, <1>10
    <3> QED BY <1>10, <3>1, <3>2
  <2> QED BY <1>6, <2>1
<1>11. told' = [told EXCEPT ![s] = {}]
  BY DEF DropRow
<1>12. len' \in 0..Len(cells')
  BY <1>2, <1>6, <1>9
<1>13. \A k \in 1..len' : \E i \in 1..len : cells'[k] = cells[i] /\ cells[i].slug # s
  BY <1>6, <1>8
<1>14. \A i \in 1..len : cells[i].slug # s => \E k \in 1..len' : cells'[k] = cells[i]
  BY <1>6, <1>8
<1>15. (\A i, j \in 1..len : cells[i].slug = cells[j].slug => i = j) =>
          \A i, j \in 1..len' : cells'[i].slug = cells'[j].slug => i = j
  BY <1>6, <1>10
<1> QED BY <1>9, <1>11, <1>12, <1>13, <1>14, <1>15 DEF Dropped

\* Dropping a row (opTaskUnpublish) keeps the invariant.
LEMMA DropStep ==
  ASSUME IInv, NEW p \in Procs, DropRow(p)
  PROVE  IInv'
<1>1. /\ todo[p] # << >> /\ Step(p)[1] = "drop" /\ SameGit
      /\ UNCHANGED <<registered, sup, stored, room, out, swept, merged, foreign, stale, crossed,
                     lost>>
  BY DEF DropRow, Doing, SameGit, gitVars, raceVars
<1>2. PICK s : s = Step(p)[2]
  OBVIOUS
<1>3. /\ Steps(p) = {Step(p)} \union Later(p)
      /\ Step(p) \in Steps(p)
      /\ Step(p)[1] \in OfTask => Step(p)[2] \in Slugs
      /\ Step(p)[1] \in Lasts => Tail(todo[p]) = << >> /\ Later(p) = {}
  BY <1>1, DoingFacts DEF IInv
<1>4. s \in Slugs /\ Later(p) = {}
  BY <1>1, <1>2, <1>3 DEF OfTask, Lasts, Gates
<1>6. /\ cells' \in Seq(Row) /\ len' \in 0..Len(cells')
      /\ told' = [told EXCEPT ![s] = {}]
      /\ \A k \in 1..len' : \E i \in 1..len : cells'[k] = cells[i] /\ cells[i].slug # s
      /\ \A i \in 1..len : cells[i].slug # s => \E k \in 1..len' : cells'[k] = cells[i]
      /\ (\A i, j \in 1..len : cells[i].slug = cells[j].slug => i = j) =>
           \A i, j \in 1..len' : cells'[i].slug = cells'[j].slug => i = j
  <2>1. ListTypes
    BY DEF IInv
  <2>2. Dropped(s)
    BY <1>2, <1>4, <2>1, DropFacts
  <2> QED BY <2>2 DEF Dropped
<1>7. PICK x : x = <<"persist", Copy'>>
  OBVIOUS
<1>8. Instead(p, <<x>>) /\ Fit(<<x>>) /\ Range(<<x>>) = {x} /\ x[1] = "persist" /\ x[2] = Copy'
  <2>1. x[1] = "persist" /\ x[2] = Copy'
    BY <1>7
  <2> QED BY <1>7, <2>1, FitFacts DEF DropRow, Lasts, Firsts, OfTask, Gates
<1>9. /\ TodoInv'
      /\ todo'[p] = <<x>> \o Tail(todo[p])
      /\ Steps(p)' = Range(<<x>>) \union Later(p)
      /\ \A r \in Procs : r # p => todo'[r] = todo[r] /\ Steps(r)' = Steps(r)
  BY <1>1, <1>8, InsteadFacts DEF IInv
<1>10. \A r \in Procs : \A y \in Steps(r)' : y = x \/ (r # p /\ y \in Steps(r))
  BY <1>4, <1>8, <1>9
<1>11. RepoInv'
  <2>1. /\ \A y \in Range(<<x>>) : y[1] \notin Publish
        /\ Step(p)[1] \notin {"lock", "unlock"}
    BY <1>1, <1>8 DEF Publish
  <2> QED BY <1>1, <1>8, <2>1, GoOnRepo
<1>12. ListTypes'
  <2>1. sup' \in Agents \union {Nobody} /\ stored' \in List
    BY <1>1 DEF IInv, ListTypes
  <2>2. Copy' \in List
    BY <1>6, <2>1, NewCopy
  <2>3. \A r \in Procs : \A y \in Steps(r)' : y[1] = "persist" => y[2] \in List
    BY <1>8, <1>10, <2>2 DEF IInv, ListTypes
  <2>4. told' \in [Slugs -> SUBSET Agents]
    BY <1>6 DEF IInv, ListTypes
  <2> QED BY <1>6, <2>1, <2>3, <2>4 DEF ListTypes
<1>13. told \in [Slugs -> SUBSET Agents] /\ \A i \in 1..len : cells[i].slug \in Slugs
  BY RowFacts DEF IInv, ListTypes, Row
<1>14. \A r \in Slugs : told'[r] # {} => r # s /\ told'[r] = told[r]
  BY <1>4, <1>6, <1>13
<1>15. \A r \in Slugs : r # s => told'[r] = told[r]
  BY <1>6, <1>13
<1>16. ListInv'
  <2> SUFFICES ASSUME Kept({"list"})
               PROVE  /\ \A i, j \in 1..len' : cells'[i].slug = cells'[j].slug => i = j
                      /\ \A r \in Slugs : told'[r] # {} => \E i \in 1..len' : cells'[i].slug = r
                      /\ \A i \in 1..len' : told'[cells'[i].slug] # {} =>
                           told'[cells'[i].slug] = {cells'[i].owner} /\ cells'[i].status # "open"
                      /\ \A i \in 1..len' : cells'[i].status = "merged" => cells'[i].slug \in merged
    BY <1>1 DEF ListInv, Kept
  <2>1. \A i, j \in 1..len' : cells'[i].slug = cells'[j].slug => i = j
    <3>1. \A i, j \in 1..len : cells[i].slug = cells[j].slug => i = j
      BY DEF IInv, ListInv
    <3> QED BY <1>6, <3>1
  <2>2. ASSUME NEW r \in Slugs, told'[r] # {} PROVE \E i \in 1..len' : cells'[i].slug = r
    <3>1. told[r] # {} /\ r # s
      BY <1>14, <2>2
    <3>2. PICK i \in 1..len : cells[i].slug = r
      BY <3>1 DEF IInv, ListInv
    <3>3. PICK k \in 1..len' : cells'[k] = cells[i]
      BY <1>6, <3>1, <3>2
    <3> QED BY <3>2, <3>3
  <2>3. ASSUME NEW k \in 1..len'
        PROVE  /\ told'[cells'[k].slug] # {} =>
                    told'[cells'[k].slug] = {cells'[k].owner} /\ cells'[k].status # "open"
               /\ cells'[k].status = "merged" => cells'[k].slug \in merged
    <3>1. PICK i \in 1..len : cells'[k] = cells[i] /\ cells[i].slug # s
      BY <1>6
    <3>2. told'[cells[i].slug] = told[cells[i].slug]
      BY <1>13, <1>15, <3>1
    <3> QED BY <3>1, <3>2 DEF IInv, ListInv
  <2> QED BY <2>1, <2>2, <2>3
<1>17. WorktreeInv'
  <2> SUFFICES ASSUME Kept({"list", "unpublish"}), NEW k \in 1..len',
                      NEW r, r = cells'[k].slug
               PROVE  r \in worktrees \/ Removing(r)'
    BY <1>1 DEF WorktreeInv, Kept, SameGit
  <2>1. PICK i \in 1..len : cells'[k] = cells[i] /\ cells[i].slug # s
    BY <1>6
  <2>2. r \in worktrees \/ Removing(r)
    BY <2>1 DEF IInv, WorktreeInv
  <2>3. Step(p) # <<"drop", r>>
    BY <1>2, <2>1
  <2>4. Removing(r) => Removing(r)'
    BY <1>1, <1>8, <2>3, RemovingStays DEF IInv
  <2> QED BY <2>2, <2>4
<1>18. SupInv'
  <2> SUFFICES ASSUME Kept({"list"}), NEW k \in 1..len', cells'[k].slug \notin foreign \union merged
               PROVE  sup \in registered \union swept
    BY <1>1 DEF SupInv, Kept
  <2>1. PICK i \in 1..len : cells'[k] = cells[i]
    BY <1>6
  <2> QED BY <2>1 DEF IInv, SupInv
<1>19. NamesInv'
  BY <1>1 DEF IInv, NamesInv
<1>20. ArchiveInv'
  <2> SUFFICES ASSUME Kept({"list"}), NEW r \in Procs, NEW y \in Steps(r)', y[1] = "archive"
               PROVE  y[2] \in merged \union stale \/ <<"drop", y[2]>> \in Steps(r)'
    BY <1>1 DEF ArchiveInv, Kept
  <2>1. r # p /\ y \in Steps(r) /\ Steps(r)' = Steps(r)
    BY <1>8, <1>9, <1>10
  <2> QED BY <2>1 DEF IInv, ArchiveInv
<1>21. RoomShape'
  BY <1>1 DEF IInv, RoomShape
<1>22. EnsureInv'
  <2>1. There' = There
    BY <1>1 DEF There
  <2>2. Furnished(<<x>>, There')
    <3>1. \A y \in Range(<<x>>) : y[1] # "open"
      BY <1>8
    <3> QED BY <1>8, <3>1, FurnishedNone DEF Fit
  <2> QED BY <1>1, <1>8, <2>1, <2>2, GoOnEnsure
<1>23. OpenInv'
  <2> SUFFICES ASSUME Kept({"list", "rooms", "unpublish", "handler"}), NEW k \in 1..len',
                      NEW r, r = cells'[k].slug, r \notin merged \union stale
               PROVE  (room[r].exists /\ ~room[r].archived) \/ Opening(r)' \/ Removing(r)'
    BY <1>1 DEF OpenInv, Kept
  <2>1. PICK i \in 1..len : cells'[k] = cells[i] /\ cells[i].slug # s
    BY <1>6
  <2>2. (room[r].exists /\ ~room[r].archived) \/ Opening(r) \/ Removing(r)
    BY <2>1 DEF IInv, OpenInv
  <2>3. Step(p) # <<"drop", r>> /\ Step(p) # <<"open", r>>
    BY <1>2, <2>1, <1>1
  <2>4. Removing(r) => Removing(r)'
    BY <1>1, <1>8, <2>3, RemovingStays DEF IInv
  <2>5. Opening(r) => Opening(r)'
    BY <1>1, <1>8, <2>3, OpeningStays DEF IInv
  <2> QED BY <2>2, <2>4, <2>5
<1>24. RewireInv'
  <2> SUFFICES ASSUME Kept({"list"}), NEW r \in Procs, NEW y \in Steps(r)', y[1] = "rewire"
               PROVE  /\ Nobody \notin y[4]
                      /\ \/ y[4] \subseteq Supervisors
                         \/ y[2] \in crossed
                         \/ \A k \in At(y[2])' : cells'[k].owner \notin y[4]
    BY <1>1 DEF RewireInv, Kept
  <2>1. y \in Steps(r)
    BY <1>8, <1>10
  <2>2. PICK z : z = y[2]
    OBVIOUS
  <2>3. /\ Nobody \notin y[4]
        /\ \/ y[4] \subseteq Supervisors
           \/ z \in crossed
           \/ \A i \in At(z) : cells[i].owner \notin y[4]
    BY <2>1, <2>2 DEF IInv, RewireInv
  <2>4. ASSUME NEW k \in At(z)' PROVE \E i \in At(z) : cells'[k] = cells[i]
    <3>1. k \in 1..len' /\ cells'[k].slug = z
      BY <2>4 DEF At
    <3>2. PICK i \in 1..len : cells'[k] = cells[i]
      BY <1>6, <3>1
    <3> QED BY <3>1, <3>2 DEF At
  <2> QED BY <2>2, <2>3, <2>4
<1>25. OwnerInv'
  <2> SUFFICES ASSUME Kept({"list", "rooms", "handler"}), NEW k \in 1..len',
                      NEW r, r = cells'[k].slug, NEW w, w = cells'[k].owner,
                      r \notin merged \union crossed,
                      w \notin Supervisors \union out \union {Nobody}
               PROVE  w \in room[r].members \/ Joining(w, r)'
    BY <1>1 DEF OwnerInv, Kept
  <2>1. PICK i \in 1..len : cells'[k] = cells[i]
    BY <1>6
  <2>2. w \in room[r].members \/ Joining(w, r)
    BY <2>1 DEF IInv, OwnerInv
  <2>3. Step(p)[1] # "ensure"
    BY <1>1
  <2>4. Joining(w, r) => Joining(w, r)'
    BY <1>1, <1>8, <2>3, JoiningStays DEF IInv
  <2> QED BY <2>2, <2>4
<1> QED BY <1>9, <1>11, <1>12, <1>16, <1>17, <1>18, <1>19, <1>20, <1>21, <1>22, <1>23,
           <1>24, <1>25 DEF IInv

-----------------------------------------------------------------------------
(* Handlers that start, and gates.                                         *)

\* Nothing is underway but what a command begins with, or a gate of unpublish.
Starts(p) == todo[p] = << >> \/ Step(p)[1] \in Gates

\* Whoever begins a command, or the rest of an unpublish, has no other step left to do.
LEMMA StartFacts ==
  ASSUME TodoInv, NEW p \in Procs, Starts(p)
  PROVE  \A x \in Steps(p) : x[1] \in Gates
<1>1. CASE todo[p] = << >>
  BY <1>1, SingleFacts DEF Steps
<1>2. CASE todo[p] # << >>
  <2>1. /\ Steps(p) = {Step(p)} \union Later(p)
        /\ Step(p)[1] \in Lasts => Tail(todo[p]) = << >> /\ Later(p) = {}
    BY <1>2, DoingFacts
  <2> QED BY <1>2, <2>1 DEF Starts, Lasts, Gates
<1> QED BY <1>1, <1>2

\* What others are about to do is not disturbed.
LEMMA ThenStays ==
  ASSUME TodoInv, NEW p \in Procs, NEW q, Ordered(q), Then(p, q), Starts(p)
  PROVE  /\ TodoInv'
         /\ todo'[p] = q
         /\ Steps(p)' = Range(q)
         /\ \A r \in Procs : r # p => todo'[r] = todo[r] /\ Steps(r)' = Steps(r)
         /\ \A s : Removing(s) => Removing(s)'
         /\ \A s : Opening(s) => Opening(s)'
         /\ \A w, s : Joining(w, s) => Joining(w, s)'
<1>1. /\ TodoInv'
      /\ todo'[p] = q
      /\ Steps(p)' = Range(q)
      /\ \A r \in Procs : r # p => todo'[r] = todo[r] /\ Steps(r)' = Steps(r)
  BY ThenFacts
<1>2. \A x \in Steps(p) : x[1] \in Gates
  BY StartFacts
<1>3. ASSUME NEW r \in Procs, NEW x \in Steps(r), x[1] \in {"drop", "open", "ensure"}
      PROVE  x \in Steps(r)'
  BY <1>1, <1>2, <1>3 DEF Gates
<1>4. ASSUME NEW s, Removing(s) PROVE Removing(s)'
  <2>1. PICK d : d = <<"drop", s>>
    OBVIOUS
  <2>2. PICK r \in Procs : d \in Steps(r)
    BY <1>4, <2>1, RemovingFacts
  <2>3. d \in Steps(r)'
    BY <1>3, <2>1, <2>2
  <2> QED BY <2>1, <2>3, RemovingFacts
<1>5. ASSUME NEW s, Opening(s) PROVE Opening(s)'
  <2>1. PICK d : d = <<"open", s>>
    OBVIOUS
  <2>2. PICK r \in Procs : d \in Steps(r)
    BY <1>5, <2>1 DEF Opening
  <2>3. d \in Steps(r)'
    BY <1>3, <2>1, <2>2
  <2> QED BY <2>1, <2>3 DEF Opening
<1>6. ASSUME NEW w, NEW s, Joining(w, s) PROVE Joining(w, s)'
  <2>1. PICK r \in Procs : \E x \in Steps(r) : x[1] = "ensure" /\ x[2] = s /\ w \in x[3]
    BY <1>6 DEF Joining
  <2>2. PICK x \in Steps(r) : x[1] = "ensure" /\ x[2] = s /\ w \in x[3]
    BY <2>1
  <2>3. x \in Steps(r)'
    BY <1>3, <2>2
  <2> QED BY <2>2, <2>3 DEF Joining
<1> QED BY <1>1, <1>4, <1>5, <1>6

\* The repository and the worktrees do not notice.
LEMMA ThenGit ==
  ASSUME IInv, NEW p \in Procs, NEW q, Ordered(q), Then(p, q), Starts(p), SameGit,
         \A x \in Range(q) : x[1] \in Publish => Head(q)[1] = "lock" /\ x[1] # "row",
         len' = len, UNCHANGED lost,
         \A i \in 1..len : cells'[i].slug = cells[i].slug
  PROVE  RepoInv' /\ WorktreeInv'
<1>1. /\ todo'[p] = q
      /\ Steps(p)' = Range(q)
      /\ \A r \in Procs : r # p => todo'[r] = todo[r] /\ Steps(r)' = Steps(r)
      /\ \A s : Removing(s) => Removing(s)'
  BY ThenStays DEF IInv
<1>2. RepoInv'
  <2> SUFFICES ASSUME NEW r \in Procs, NEW x \in Steps(r)', x[1] \in Publish
               PROVE  /\ Step(r)'[1] # "lock" => repo = r
                      /\ x[1] = "row" => x[2] \in worktrees
    BY DEF RepoInv, SameGit
  <2>1. CASE r = p
    BY <1>1, <2>1 DEF Step
  <2>2. CASE r # p
    <3>1. x \in Steps(r) /\ Step(r)' = Step(r) /\ todo[r] # << >>
      BY <1>1, <2>2 DEF Step, Steps, Range
    <3> QED BY <2>2, <3>1 DEF IInv, RepoInv
  <2> QED BY <2>1, <2>2
<1>3. WorktreeInv'
  <2> SUFFICES ASSUME Kept({"list", "unpublish"}), NEW i \in 1..len,
                      NEW s, s = cells[i].slug
               PROVE  s \in worktrees \/ Removing(s)'
    BY DEF WorktreeInv, SameGit, Kept
  <2>1. s \in worktrees \/ Removing(s)
    BY DEF IInv, WorktreeInv
  <2> QED BY <1>1, <2>1
<1> QED BY <1>2, <1>3

\* No room comes, goes or changes its members.
RoomsKept ==
  /\ RoomShape'
  /\ \A s \in Slugs :
       /\ room'[s].exists = room[s].exists
       /\ room'[s].members = room[s].members
       /\ room'[s].archived = room[s].archived

\* No room changes.
LEMMA RoomsStay ==
  ASSUME RoomShape, UNCHANGED room
  PROVE  RoomsKept
<1>1. RoomShape'
  BY DEF RoomShape
<1>2. \A s \in Slugs :
        /\ room'[s].exists = room[s].exists
        /\ room'[s].members = room[s].members
        /\ room'[s].archived = room[s].archived
  OBVIOUS
<1> QED BY <1>1, <1>2 DEF RoomsKept

\* Names, list and rooms do not notice.
LEMMA Calm ==
  ASSUME IInv, UNCHANGED <<registered, swept, sup, cells, len, room, merged, foreign, lost>>
  PROVE  NamesInv' /\ SupInv' /\ RoomsKept
<1>1. NamesInv'
  BY DEF IInv, NamesInv
<1>2. SupInv'
  BY DEF IInv, SupInv, Kept
<1>3. RoomsKept
  BY RoomsStay DEF IInv
<1> QED BY <1>1, <1>2, <1>3

\* No room is to be opened.
LEMMA ThenEnsure ==
  ASSUME IInv, NEW p \in Procs, NEW q, Ordered(q), Then(p, q), RoomsKept,
         \A x \in Range(q) : x[1] # "open"
  PROVE  RoomShape' /\ EnsureInv'
<1>1. /\ todo'[p] = q
      /\ \A r \in Procs : r # p => todo'[r] = todo[r]
  BY ThenFacts DEF IInv
<1>2. PICK E : E = There
  OBVIOUS
<1>3. There' = E
  BY <1>2 DEF There, RoomsKept
<1>4. Furnished(q, E)
  BY FurnishedNone DEF Ordered
<1>5. \A r \in Procs : Furnished(todo[r], E)
  BY <1>2 DEF IInv, EnsureInv
<1>6. \A r \in Procs : Furnished(todo'[r], E)
  BY <1>1, <1>4, <1>5
<1>7. EnsureInv'
  BY <1>3, <1>6 DEF EnsureInv
<1>8. RoomShape'
  BY DEF RoomsKept
<1> QED BY <1>7, <1>8

\* Commands and gates that leave the list alone.
LEMMA ThenOnly ==
  ASSUME IInv, NEW p \in Procs, NEW q, Ordered(q), Then(p, q), Starts(p), SameGit, RoomsKept,
         UNCHANGED <<sup, cells, len, stored, out, merged, told, foreign, stale, crossed, lost>>,
         \A x \in Range(q) : x[1] \in Publish => Head(q)[1] = "lock" /\ x[1] # "row",
         \A x \in Range(q) : x[1] \notin {"persist", "rewire", "open"},
         Kept({"list"}) => \A x \in Range(q) : x[1] = "archive" =>
           x[2] \in merged \union stale \/ <<"drop", x[2]>> \in Range(q),
         NamesInv', SupInv'
  PROVE  IInv'
<1>1. /\ TodoInv'
      /\ todo'[p] = q
      /\ Steps(p)' = Range(q)
      /\ \A r \in Procs : r # p => todo'[r] = todo[r] /\ Steps(r)' = Steps(r)
      /\ \A s : Removing(s) => Removing(s)'
      /\ \A s : Opening(s) => Opening(s)'
      /\ \A w, s : Joining(w, s) => Joining(w, s)'
  BY ThenStays DEF IInv
<1>2. RepoInv' /\ WorktreeInv'
  <2>1. \A i \in 1..len : cells'[i].slug = cells[i].slug
    OBVIOUS
  <2> QED BY <2>1, ThenGit
<1>3. RoomShape' /\ EnsureInv'
  <2>1. \A x \in Range(q) : x[1] # "open"
    OBVIOUS
  <2> QED BY <2>1, ThenEnsure
<1>4. ListTypes'
  <2>1. \A r \in Procs : \A x \in Steps(r)' : x[1] = "persist" => x \in Steps(r)
    BY <1>1
  <2> QED BY <2>1 DEF IInv, ListTypes
<1>5. ListInv'
  BY DEF IInv, ListInv, Kept
<1>7. ArchiveInv'
  <2> SUFFICES ASSUME Kept({"list"}), NEW r \in Procs, NEW x \in Steps(r)', x[1] = "archive"
               PROVE  x[2] \in merged \union stale \/ <<"drop", x[2]>> \in Steps(r)'
    BY DEF ArchiveInv, Kept
  <2>1. CASE r = p
    BY <1>1, <2>1
  <2>2. CASE r # p
    <3>1. x \in Steps(r) /\ Steps(r)' = Steps(r)
      BY <1>1, <2>2
    <3> QED BY <3>1 DEF IInv, ArchiveInv
  <2> QED BY <2>1, <2>2
<1>8. OpenInv'
  <2> SUFFICES ASSUME Kept({"list", "rooms", "unpublish", "handler"}), NEW i \in 1..len,
                      NEW s, s = cells[i].slug, s \notin merged \union stale
               PROVE  (room'[s].exists /\ ~room'[s].archived) \/ Opening(s)' \/ Removing(s)'
    BY DEF OpenInv, Kept
  <2>1. (room[s].exists /\ ~room[s].archived) \/ Opening(s) \/ Removing(s)
    BY DEF IInv, OpenInv
  <2>2. s \in Slugs
    BY RowFacts DEF IInv, Row
  <2> QED BY <1>1, <2>1, <2>2 DEF RoomsKept
<1>9. RewireInv'
  <2>1. \A r \in Procs : \A x \in Steps(r)' : x[1] = "rewire" => x \in Steps(r)
    BY <1>1
  <2> QED BY <2>1 DEF IInv, RewireInv, Kept, At
<1>10. OwnerInv'
  <2> SUFFICES ASSUME Kept({"list", "rooms", "handler"}), NEW i \in 1..len,
                      NEW s, s = cells[i].slug, NEW w, w = cells[i].owner,
                      s \notin merged \union crossed, w \notin Supervisors \union out \union {Nobody}
               PROVE  w \in room'[s].members \/ Joining(w, s)'
    BY DEF OwnerInv, Kept
  <2>1. w \in room[s].members \/ Joining(w, s)
    BY DEF IInv, OwnerInv
  <2>2. s \in Slugs
    BY RowFacts DEF IInv, Row
  <2> QED BY <1>1, <2>1, <2>2 DEF RoomsKept
<1> QED BY <1>1, <1>2, <1>3, <1>4, <1>5, <1>7, <1>8, <1>9, <1>10 DEF IInv

\* What is left of an unpublish once its gates are passed.
LEMMA RemovalTodo ==
  ASSUME NEW s \in Slugs, NEW hasRoom, NEW wipe
  PROVE  /\ Ordered(Removal(s, hasRoom, wipe))
         /\ <<"drop", s>> \in Range(Removal(s, hasRoom, wipe))
         /\ \A x \in Range(Removal(s, hasRoom, wipe)) :
              x[1] \in {"wipe", "archive", "drop"} /\ x[2] = s
<1>1. PICK a, b, d : a = <<"wipe", s>> /\ b = <<"archive", s>> /\ d = <<"drop", s>>
  OBVIOUS
<1>2. /\ a[1] = "wipe" /\ a[2] = s /\ b[1] = "archive" /\ b[2] = s
      /\ d[1] = "drop" /\ d[2] = s
  BY <1>1
<1>3. PICK t : t = IF hasRoom THEN <<b>> \o <<d>> ELSE <<d>>
  OBVIOUS
<1>4. /\ t \in Seq(Range(t)) /\ Len(t) \in 1..2 /\ t[Len(t)] = d
      /\ Len(t) = 2 => t[1] = b
      /\ d \in Range(t) /\ Range(t) \subseteq {b, d}
  <2>1. <<d>> \in Seq(Range(<<d>>)) /\ Len(<<d>>) = 1 /\ <<d>>[1] = d /\ Range(<<d>>) = {d}
    BY SingleFacts
  <2>2. PICK f : f = <<d>>
    OBVIOUS
  <2>3. f \in Seq(Range(f)) /\ Len(f) = 1 /\ f[1] = d /\ Range(f) = {d}
    BY <2>1, <2>2
  <2>4. CASE ~hasRoom
    BY <1>3, <2>2, <2>3, <2>4
  <2>5. CASE hasRoom
    <3>1. /\ <<b>> \o f \in Seq(Range(<<b>> \o f))
          /\ Len(<<b>> \o f) = Len(f) + 1
          /\ (<<b>> \o f)[1] = b
          /\ \A i \in 1..Len(f) : (<<b>> \o f)[i + 1] = f[i]
          /\ Range(<<b>> \o f) = {b} \union Range(f)
      BY <2>3, ConsFacts
    <3>2. t = <<b>> \o f
      BY <1>3, <2>2, <2>5
    <3>3. /\ t \in Seq(Range(t)) /\ Len(t) = 2 /\ t[1] = b /\ t[1 + 1] = d
          /\ Range(t) = {b, d}
      BY <2>3, <3>1, <3>2
    <3> QED BY <3>3
  <2> QED BY <2>4, <2>5
<1>5. PICK r : r = IF wipe THEN <<a>> \o t ELSE t
  OBVIOUS
<1>6. /\ r \in Seq(Range(r)) /\ Len(r) \in 1..3 /\ r[Len(r)] = d
      /\ d \in Range(r) /\ Range(r) \subseteq {a, b, d}
      /\ \A i \in 1..Len(r) : i = 1 \/ r[i] # a
      /\ \A i \in 1..Len(r) : i = Len(r) \/ r[i] # d
  <2>1. CASE ~wipe
    <3>1. \A i \in 1..Len(t) : i = Len(t) \/ (i = 1 /\ t[i] = b)
      BY <1>4
    <3> QED BY <1>2, <1>4, <1>5, <2>1, <3>1
  <2>2. CASE wipe
    <3>1. /\ <<a>> \o t \in Seq(Range(<<a>> \o t))
          /\ Len(<<a>> \o t) = Len(t) + 1
          /\ (<<a>> \o t)[1] = a
          /\ \A i \in 1..Len(t) : (<<a>> \o t)[i + 1] = t[i]
          /\ Range(<<a>> \o t) = {a} \union Range(t)
      BY <1>4, ConsFacts
    <3>2. r = <<a>> \o t
      BY <1>5, <2>2
    <3>3. /\ r \in Seq(Range(r)) /\ Len(r) = Len(t) + 1 /\ r[1] = a
          /\ \A i \in 1..Len(t) : r[i + 1] = t[i]
          /\ Range(r) = {a} \union Range(t)
      BY <3>1, <3>2
    <3>4. \A i \in 1..Len(r) : i = 1 \/ \E k \in 1..Len(t) : k = i - 1 /\ r[i] = t[k]
      BY <1>4, <3>3
    <3>5. \A k \in 1..Len(t) : (k = Len(t) /\ t[k] = d) \/ t[k] = b
      BY <1>4
    <3>6. r[Len(t) + 1] = d
      BY <1>4, <3>3
    <3> QED BY <1>2, <1>4, <3>3, <3>4, <3>5, <3>6
  <2> QED BY <2>1, <2>2
<1>7. Ordered(r)
  <2>1. \A x \in Range(r) : x = a \/ x = b \/ x = d
    BY <1>6
  <2>2. \A i \in 1..Len(r) : r[i] = a \/ r[i] = b \/ r[i] = d
    BY <1>6, <2>1, RangeEntries
  <2>3. \A x \in Range(r) : x[1] \in OfTask => x[2] \in Slugs
    BY <1>2, <2>1
  <2>4. \A i \in 1..Len(r) : r[i][1] \in Firsts => i = 1
    BY <1>2, <1>6, <2>2 DEF Firsts, Gates
  <2>5. \A i \in 1..Len(r) : r[i][1] \in Lasts => i = Len(r)
    BY <1>2, <1>6, <2>2 DEF Lasts, Gates
  <2>6. \A x \in Range(r) : x[1] = "wipe" => <<"drop", x[2]>> \in Range(r)
    BY <1>1, <1>2, <1>6, <2>1
  <2> QED BY <1>6, <2>3, <2>4, <2>5, <2>6 DEF Ordered
<1>8. \A x \in Range(r) : x[1] \in {"wipe", "archive", "drop"} /\ x[2] = s
  BY <1>2, <1>6
<1>9. r = Removal(s, hasRoom, wipe)
  <2>1. \A y : << >> \o <<y>> = <<y>>
    OBVIOUS
  <2>2. CASE wipe /\ hasRoom
    <3>1. Removal(s, hasRoom, wipe) = <<a>> \o <<b>> \o <<d>>
      BY <1>1, <2>2 DEF Removal
    <3>2. r = <<a>> \o (<<b>> \o <<d>>)
      BY <1>3, <1>5, <2>2
    <3> QED BY <3>1, <3>2
  <2>3. CASE wipe /\ ~hasRoom
    <3>1. Removal(s, hasRoom, wipe) = <<a>> \o << >> \o <<d>>
      BY <1>1, <2>3 DEF Removal
    <3>2. r = <<a>> \o <<d>>
      BY <1>3, <1>5, <2>3
    <3> QED BY <3>1, <3>2
  <2>4. CASE ~wipe /\ hasRoom
    <3>1. Removal(s, hasRoom, wipe) = << >> \o <<b>> \o <<d>>
      BY <1>1, <2>4 DEF Removal
    <3>2. r = <<b>> \o <<d>>
      BY <1>3, <1>5, <2>4
    <3> QED BY <2>1, <3>1, <3>2
  <2>5. CASE ~wipe /\ ~hasRoom
    <3>1. Removal(s, hasRoom, wipe) = << >> \o << >> \o <<d>>
      BY <1>1, <2>5 DEF Removal
    <3>2. r = <<d>>
      BY <1>3, <1>5, <2>5
    <3> QED BY <3>1, <3>2
  <2> QED BY <2>2, <2>3, <2>4, <2>5
<1> QED BY <1>1, <1>6, <1>7, <1>8, <1>9

\* A gate refuses, asks the next gate, or lets the removal go on.
LEMMA GateStep ==
  ASSUME IInv, NEW p \in Procs, RowGate(p) \/ WipeGate(p)
  PROVE  IInv'
<1>1. /\ todo[p] # << >> /\ Step(p)[1] \in {"rowGate", "wipeGate"} /\ SameGit
      /\ UNCHANGED <<registered, sup, cells, len, stored, room, swept, out, merged, told,
                     foreign, stale, crossed, lost>>
  BY DEF RowGate, WipeGate, Doing, SameGit, listVars, gitVars, pastVars, raceVars
<1>2. PICK s : s = Step(p)[2]
  OBVIOUS
<1>3. s \in Slugs
  <2>1. Step(p) \in Steps(p) /\ (Step(p)[1] \in OfTask => Step(p)[2] \in Slugs)
    BY <1>1, DoingFacts DEF IInv
  <2> QED BY <1>1, <1>2, <2>1 DEF OfTask
<1>4. PICK q : /\ Then(p, q)
               /\ \/ q = << >>
                  \/ \E owner, evict, has : q = << <<"wipeGate", s, owner, evict, has>> >>
                  \/ \E has, wipe : q = Removal(s, has, wipe)
  <2>1. CASE RowGate(p)
    <3>1. CASE Then(p, << >>)
      BY <3>1
    <3>2. CASE Then(p, << <<"wipeGate", s, Step(p)[3], Step(p)[6], room[s].exists>> >>)
      BY <3>2
    <3>3. CASE Then(p, Removal(s, room[s].exists, FALSE))
      BY <3>3
    <3> QED BY <1>2, <2>1, <3>1, <3>2, <3>3 DEF RowGate
  <2>2. CASE WipeGate(p)
    <3>1. CASE Then(p, << >>)
      BY <3>1
    <3>2. CASE Then(p, Removal(s, Step(p)[5], TRUE))
      BY <3>2
    <3> QED BY <1>2, <2>2, <3>1, <3>2 DEF WipeGate
  <2> QED BY <2>1, <2>2
<1>5. /\ Ordered(q)
      /\ \A x \in Range(q) : x[1] \in {"wipeGate", "wipe", "archive", "drop"}
      /\ \A x \in Range(q) : x[1] = "archive" => <<"drop", x[2]>> \in Range(q)
  <2>1. CASE q = << >>
    BY <2>1, NoneOrdered
  <2>2. CASE \E owner, evict, has : q = << <<"wipeGate", s, owner, evict, has>> >>
    <3>1. PICK x : q = <<x>> /\ x[1] = "wipeGate" /\ x[2] = s
      <4>1. PICK owner, evict, has : q = << <<"wipeGate", s, owner, evict, has>> >>
        BY <2>2
      <4>2. PICK x : x = <<"wipeGate", s, owner, evict, has>>
        OBVIOUS
      <4>3. x[1] = "wipeGate" /\ x[2] = s
        BY <4>2
      <4> QED BY <4>1, <4>2, <4>3
    <3>2. Ordered(<<x>>) /\ Range(<<x>>) = {x}
      BY <1>3, <3>1, OneOrdered
    <3> QED BY <3>1, <3>2
  <2>3. CASE \E has, wipe : q = Removal(s, has, wipe)
    <3>1. PICK has, wipe : q = Removal(s, has, wipe)
      BY <2>3
    <3>2. /\ Ordered(Removal(s, has, wipe))
          /\ <<"drop", s>> \in Range(Removal(s, has, wipe))
          /\ \A x \in Range(Removal(s, has, wipe)) :
               x[1] \in {"wipe", "archive", "drop"} /\ x[2] = s
      BY <1>3, RemovalTodo
    <3> QED BY <3>1, <3>2
  <2> QED BY <1>4, <2>1, <2>2, <2>3
<1>6. Starts(p)
  BY <1>1 DEF Starts, Gates
<1>8. NamesInv' /\ SupInv' /\ RoomsKept
  BY <1>1, Calm
<1>7. /\ \A x \in Range(q) : x[1] \notin Publish
      /\ \A x \in Range(q) : x[1] \notin {"persist", "rewire", "open"}
  BY <1>5 DEF Publish
<1> QED BY <1>1, <1>4, <1>5, <1>6, <1>7, <1>8, ThenOnly

-----------------------------------------------------------------------------
(* Commands that leave the list alone.                                     *)

\* A connection is a handler's, and serves an agent.
LEMMA ConnFacts ==
  ASSUME NEW c \in Conns
  PROVE  c \in Procs /\ Caller[c] \in Agents
  BY AgentAssumption DEF Procs

\* Who unregisters, or loses the lease, is to leave the rooms.
LEMMA LeaveStep ==
  ASSUME IInv, NEW a \in Agents, NEW p \in Procs, todo[p] = << >>,
         Then(p, << <<"evict", a>> >>), SameGit,
         UNCHANGED <<sup, cells, len, stored, room, out, merged, told, foreign, stale, crossed, lost>>,
         NamesInv', SupInv'
  PROVE  IInv'
<1>1. PICK x : x = <<"evict", a>>
  OBVIOUS
<1>2. x[1] = "evict"
  BY <1>1
<1>3. Ordered(<<x>>) /\ Range(<<x>>) = {x}
  BY <1>2, OneOrdered DEF OfTask
<1>4. Starts(p) /\ Then(p, <<x>>)
  BY <1>1 DEF Starts
<1>5. RoomsKept
  BY RoomsStay DEF IInv
<1>6. /\ \A y \in Range(<<x>>) : y[1] \notin Publish
      /\ \A y \in Range(<<x>>) : y[1] \notin {"persist", "rewire", "open", "archive"}
  BY <1>2, <1>3 DEF Publish
<1> QED BY <1>3, <1>4, <1>5, <1>6, ThenOnly

\* A supervisor of a live task does not unregister.
LEMMA UnregisterStep ==
  ASSUME IInv, NEW c \in Conns, Unregister(c)
  PROVE  IInv'
<1>1. c \in Procs /\ Caller[c] \in Agents
  BY ConnFacts
<1> PICK a \in Agents : a = Caller[c]
  BY <1>1
<1>2. /\ todo[c] = << >> /\ Then(c, << <<"evict", a>> >>) /\ SameGit /\ ~Busy(a)
      /\ registered' = registered \ {a}
      /\ UNCHANGED <<sup, cells, len, stored, room, swept, out, merged, told, foreign, stale,
                     crossed, lost>>
  BY DEF Unregister, Idle, SameGit, listVars, gitVars, pastVars, raceVars
<1>3. NamesInv'
  BY <1>2 DEF IInv, NamesInv
<1>4. SupInv'
  <2> SUFFICES ASSUME Kept({"list"}), NEW i \in 1..len, cells[i].slug \notin foreign \union merged
               PROVE  sup \in registered' \union swept
    BY <1>2 DEF SupInv, Kept
  <2>1. sup \in registered \union swept
    BY DEF IInv, SupInv
  <2>2. cells[i].status # "merged"
    BY DEF IInv, ListInv
  <2>3. Active # {}
    BY <2>2 DEF Active
  <2>4. sup # a
    BY <1>2, <2>3 DEF Busy
  <2> QED BY <1>2, <2>1, <2>4
<1> QED BY <1>1, <1>2, <1>3, <1>4, LeaveStep

\* The sweep takes supervisors of live tasks, too.
LEMMA SweepStep ==
  ASSUME IInv, NEW a \in Agents, Sweep(a)
  PROVE  IInv'
<1>1. Sweeper \in Procs
  BY DEF Procs
<1>2. /\ todo[Sweeper] = << >> /\ Then(Sweeper, << <<"evict", a>> >>) /\ SameGit
      /\ registered' = registered \ {a} /\ swept' = swept \union {a}
      /\ UNCHANGED <<sup, cells, len, stored, room, out, merged, told, foreign, stale, crossed,
                     lost>>
  BY DEF Sweep, SameGit, listVars, gitVars, raceVars
<1>3. NamesInv'
  BY <1>2 DEF IInv, NamesInv
<1>4. SupInv'
  BY <1>2 DEF IInv, SupInv, Kept
<1> QED BY <1>1, <1>2, <1>3, <1>4, LeaveStep

\* A request waits for its handler.
LEMMA AskStep ==
  ASSUME IInv, NEW c \in Conns, NEW command \in Requests, Ask(c, command)
  PROVE  IInv'
<1>1. /\ SameGit /\ todo[c] = << >> /\ Then(c, <<command>>)
      /\ UNCHANGED <<registered, sup, cells, len, stored, room, out, swept, merged, told,
                     foreign, stale, crossed, lost>>
  BY DEF Ask, Idle, SameGit, listVars, gitVars, pastVars, raceVars
<1>2. command[1] \in {"claim", "post", "status"} /\ command[2] \in Slugs
  <2>1. CASE \E kind \in {"claim", "post"}, s \in Slugs : command = <<kind, s>>
    <3>1. PICK kind \in {"claim", "post"}, s \in Slugs : command = <<kind, s>>
      BY <2>1
    <3>2. command[1] = kind /\ command[2] = s
      BY <3>1
    <3> QED BY <3>2
  <2>2. CASE \E s \in Slugs, status \in Statuses : command = <<"status", s, status>>
    <3>1. PICK s \in Slugs, status \in Statuses : command = <<"status", s, status>>
      BY <2>2
    <3>2. command[1] = "status" /\ command[2] = s
      BY <3>1
    <3> QED BY <3>2
  <2> QED BY <2>1, <2>2 DEF Requests
<1>3. Ordered(<<command>>) /\ Range(<<command>>) = {command}
  BY <1>2, OneOrdered
<1>4. Starts(c) /\ c \in Procs
  BY <1>1, ConnFacts DEF Starts
<1>20. NamesInv' /\ SupInv' /\ RoomsKept
  BY <1>1, Calm
<1>5. /\ \A y \in Range(<<command>>) : y[1] \notin Publish
      /\ \A y \in Range(<<command>>) : y[1] \notin {"persist", "rewire", "open", "archive"}
  BY <1>2, <1>3 DEF Publish
<1> QED BY <1>1, <1>3, <1>4, <1>5, <1>20, ThenOnly

\* A request that comes to nothing.
LEMMA RefuseStep ==
  ASSUME IInv, NEW p \in Procs, Starts(p), Refuse(p)
  PROVE  IInv'
<1>1. /\ SameGit /\ Then(p, << >>)
      /\ UNCHANGED <<registered, sup, cells, len, stored, room, out, swept, merged, told,
                     foreign, stale, crossed, lost>>
  BY DEF Refuse, SameGit, listVars, gitVars, pastVars, raceVars
<1>2. Ordered(<< >>) /\ Range(<< >>) = {}
  BY NoneOrdered
<1>3. NamesInv' /\ SupInv' /\ RoomsKept
  BY <1>1, Calm
<1> QED BY <1>1, <1>2, <1>3, ThenOnly

\* A post changes neither members nor flags.
LEMMA PostStep ==
  ASSUME IInv, NEW p \in Procs, Post(p)
  PROVE  IInv'
<1>1. todo[p] # << >> /\ Step(p)[1] = "post"
  BY DEF Post, Doing
<1>2. PICK s : s = Step(p)[2]
  OBVIOUS
<1>3. s \in Slugs
  <2>1. Step(p)[1] \in OfTask => Step(p)[2] \in Slugs
    BY <1>1, DoingFacts DEF IInv
  <2> QED BY <1>1, <1>2, <2>1 DEF OfTask
<1>4. Starts(p)
  BY <1>1 DEF Starts, Gates
<1>5. ASSUME NEW g, room' = [room EXCEPT ![s].msgs = g], Then(p, << >>),
             UNCHANGED <<registered, listVars, stored, db, gitVars, pastVars>>
      PROVE  IInv'
  <2>1. /\ SameGit
        /\ UNCHANGED <<registered, sup, cells, len, stored, out, swept, merged, told, foreign,
                       stale, crossed, lost>>
    BY <1>5 DEF SameGit, listVars, gitVars, pastVars, raceVars
  <2>2. /\ RoomShape'
        /\ \A r \in Slugs : r # s => room'[r] = room[r]
        /\ room'[s].exists = room[s].exists
        /\ room'[s].members = room[s].members
        /\ room'[s].archived = room[s].archived
    BY <1>3, <1>5, MsgsChange DEF IInv
  <2>3. RoomsKept
    BY <2>2 DEF RoomsKept
  <2>4. NamesInv' /\ SupInv'
    BY <2>1 DEF IInv, NamesInv, SupInv, Kept
  <2>5. Ordered(<< >>) /\ Range(<< >>) = {}
    BY NoneOrdered
  <2> QED BY <1>4, <1>5, <2>1, <2>3, <2>4, <2>5, ThenOnly
<1>6. CASE Refuse(p)
  BY <1>4, <1>6, RefuseStep
<1>7. CASE ~Refuse(p)
  <2>1. /\ room' = [room EXCEPT ![s].msgs = OneMore(@)]
        /\ Then(p, << >>)
        /\ UNCHANGED <<registered, listVars, stored, db, gitVars, pastVars>>
    BY <1>2, <1>7 DEF Post
  <2>2. PICK g : g = OneMore(room[s].msgs)
    OBVIOUS
  <2>3. room' = [room EXCEPT ![s].msgs = g]
    BY <1>3, <2>1, <2>2 DEF IInv, RoomShape
  <2> QED BY <1>5, <2>1, <2>3
<1> QED BY <1>6, <1>7

\* rooms gc gives itself only rooms of merged tasks to archive.
LEMMA GCStep ==
  ASSUME IInv, NEW c \in Conns, RoomsGC(c)
  PROVE  IInv'
<1>1. /\ SameGit /\ todo[c] = << >>
      /\ UNCHANGED <<registered, sup, cells, len, stored, room, out, swept, merged, told,
                     foreign, stale, crossed, lost>>
  BY DEF RoomsGC, RequireSupervisor, Idle, SameGit, listVars, gitVars, pastVars, raceVars
<1>2. PICK S : S = {i \in 1..len : cells[i].status = "merged" /\ room[cells[i].slug].exists}
  OBVIOUS
<1>3. PICK q \in Ascending(S) : Then(c, [i \in DOMAIN q |-> <<"archive", cells[q[i]].slug>>])
  BY <1>2 DEF RoomsGC
<1>4. PICK r : r = [i \in DOMAIN q |-> <<"archive", cells[q[i]].slug>>]
  OBVIOUS
<1>5. S \in SUBSET (1..len) /\ \A i \in S : i \in 1..len /\ cells[i].status = "merged"
  BY <1>2
<1>6. /\ Plain(r)
      /\ \A x \in Range(r) : x[1] = "archive" /\ \E k \in S : x[2] = cells[k].slug
  BY <1>4, <1>5, GCTodo DEF IInv
<1>7. Ordered(r)
  BY <1>6, PlainFacts
<1>8. ASSUME Kept({"list"}), NEW x \in Range(r)
      PROVE  x[2] \in merged
  <2>1. PICK k \in S : x[2] = cells[k].slug
    BY <1>6
  <2> QED BY <1>5, <1>8, <2>1 DEF IInv, ListInv
<1>9. Starts(c) /\ c \in Procs
  BY <1>1, ConnFacts DEF Starts
<1>20. NamesInv' /\ SupInv' /\ RoomsKept
  BY <1>1, Calm
<1>10. /\ \A y \in Range(r) : y[1] \notin Publish
       /\ \A y \in Range(r) : y[1] \notin {"persist", "rewire", "open"}
  BY <1>6 DEF Publish
<1>11. Then(c, r)
  BY <1>3, <1>4
<1> QED BY <1>1, <1>7, <1>8, <1>9, <1>10, <1>11, <1>20, ThenOnly

\* A publish begins with the lock of the repository.
LEMMA PublishStep ==
  ASSUME IInv, NEW c \in Conns, NEW S \in SUBSET Slugs, NEW q \in Orders(S), TaskPublish(c, q)
  PROVE  IInv'
<1>1. /\ SameGit /\ todo[c] = << >>
      /\ UNCHANGED <<registered, sup, cells, len, stored, room, out, swept, merged, told,
                     foreign, stale, crossed, lost>>
  BY DEF TaskPublish, Idle, SameGit, listVars, gitVars, pastVars, raceVars
<1>2. PICK r : r = << <<"lock">> >> \o [i \in DOMAIN q |-> <<"worktree", q[i]>>]
                   \o << <<"unlock">> >>
  OBVIOUS
<1>3. /\ Ordered(r)
      /\ Head(r) = <<"lock">>
      /\ \A x \in Range(r) : x[1] \in {"lock", "worktree", "unlock"}
  BY <1>2, PublishTodo
<1>4. Then(c, r)
  BY <1>2 DEF TaskPublish
<1>5. Starts(c) /\ c \in Procs
  BY <1>1, ConnFacts DEF Starts
<1>20. NamesInv' /\ SupInv' /\ RoomsKept
  BY <1>1, Calm
<1>6. Head(r)[1] = "lock"
  BY <1>3
<1>7. \A x \in Range(r) : x[1] \notin {"persist", "rewire", "open", "row", "archive"}
  BY <1>3
<1> QED BY <1>1, <1>3, <1>4, <1>5, <1>6, <1>7, <1>20, ThenOnly

\* An unpublish begins with its gates.
LEMMA UnpublishStep ==
  ASSUME IInv, NEW c \in Conns, NEW s \in Slugs, NEW force, NEW wipe, NEW evictOwner,
         TaskUnpublish(c, s, force, wipe, evictOwner)
  PROVE  IInv'
<1>1. /\ SameGit /\ todo[c] = << >>
      /\ UNCHANGED <<registered, sup, cells, len, stored, room, out, swept, merged, told,
                     foreign, stale, crossed, lost>>
  BY DEF TaskUnpublish, RequireSupervisor, Idle, SameGit, listVars, gitVars, pastVars, raceVars
<1>2. PICK x : x = <<"rowGate", s, Owner(s), force, wipe, evictOwner>>
  OBVIOUS
<1>3. x[1] = "rowGate" /\ x[2] = s
  BY <1>2
<1>4. Ordered(<<x>>) /\ Range(<<x>>) = {x}
  BY <1>3, OneOrdered
<1>5. Then(c, <<x>>)
  BY <1>2 DEF TaskUnpublish
<1>6. Starts(c) /\ c \in Procs
  BY <1>1, ConnFacts DEF Starts
<1>20. NamesInv' /\ SupInv' /\ RoomsKept
  BY <1>1, Calm
<1>7. /\ \A y \in Range(<<x>>) : y[1] \notin Publish
      /\ \A y \in Range(<<x>>) : y[1] \notin {"persist", "rewire", "open", "archive"}
  BY <1>3, <1>4 DEF Publish
<1> QED BY <1>1, <1>4, <1>5, <1>6, <1>7, <1>20, ThenOnly

\* Steps that concern neither list, handlers nor rooms.
LEMMA AsideStep ==
  ASSUME IInv,
         UNCHANGED <<sup, cells, len, stored, room, worktrees, repo, todo, out, merged, told,
                     foreign, stale, crossed, lost>>,
         NamesInv',
         registered \union swept \subseteq registered' \union swept'
  PROVE  IInv'
<1>1. TodoInv' /\ RoomShape'
  BY DEF IInv, TodoInv, RoomShape, Steps
<1>2. RepoInv'
  BY DEF IInv, RepoInv, Steps, Step
<1>3. ListTypes' /\ ListInv'
  BY DEF IInv, ListTypes, ListInv, Steps, Kept
<1>4. WorktreeInv'
  BY DEF IInv, WorktreeInv, Kept, Removing
<1>5. SupInv'
  BY DEF IInv, SupInv, Kept
<1>6. ArchiveInv' /\ RewireInv'
  BY DEF IInv, ArchiveInv, RewireInv, Kept, Steps, At
<1>7. EnsureInv'
  BY DEF IInv, EnsureInv, There
<1>8. OpenInv'
  BY DEF IInv, OpenInv, Kept, Opening, Removing, Steps
<1>9. OwnerInv'
  BY DEF IInv, OwnerInv, Kept, Joining, Steps
<1> QED BY <1>1, <1>2, <1>3, <1>4, <1>5, <1>6, <1>7, <1>8, <1>9 DEF IInv

\* A registration touches only the names.
LEMMA RegisterStep ==
  ASSUME IInv, NEW c \in Conns, Register(c)
  PROVE  IInv'
<1>1. PICK a \in Agents : a = Caller[c]
  BY ConnFacts
<1>2. /\ UNCHANGED <<sup, cells, len, stored, room, worktrees, repo, todo, out, merged, told,
                     foreign, stale, crossed, lost>>
      /\ registered' = registered \union {a} /\ swept' = swept \ {a}
  BY <1>1 DEF Register, listVars, gitVars, raceVars
<1>3. NamesInv'
  BY <1>1, <1>2 DEF IInv, NamesInv
<1> QED BY <1>2, <1>3, AsideStep

\* Work in a worktree touches only what is dirty.
LEMMA WorkStep ==
  ASSUME IInv, NEW s \in Slugs, Edit(s) \/ Push(s)
  PROVE  IInv'
<1>1. UNCHANGED <<registered, swept, sup, cells, len, stored, room, worktrees, repo, todo, out,
                  merged, told, foreign, stale, crossed, lost>>
  BY DEF Edit, Push, listVars, pastVars, raceVars
<1>2. NamesInv'
  BY <1>1 DEF IInv, NamesInv
<1> QED BY <1>1, <1>2, AsideStep

-----------------------------------------------------------------------------
(* Commands that change a row.                                             *)

\* What SetRow does to the list: one row changes, and keeps its slug.
LEMMA SetRowFacts ==
  ASSUME ListTypes, NEW a, NEW s \in Slugs, Listed(s), NEW owner \in Agents \union {Nobody},
         NEW status \in Statuses, NEW rest, SetRow(a, s, owner, status, rest)
  PROVE  /\ cells' \in Seq(Row) /\ len' = len /\ len' \in 0..Len(cells') /\ sup' = sup
         /\ Then(a, << <<"persist", Copy'>> >> \o rest)
         /\ \A i \in 1..len : i # Pos(s) => cells'[i] = cells[i]
         /\ \A i \in 1..len : cells'[i].slug = cells[i].slug
         /\ cells'[Pos(s)].owner = owner /\ cells'[Pos(s)].status = status
<1>1. PICK k : k = Pos(s)
  OBVIOUS
<1>2. k \in 1..len /\ len \in Nat /\ k \in 1..Len(cells) /\ cells \in Seq(Row) /\ len \in 0..Len(cells)
  <2>1. Pos(s) \in 1..len
    BY PosFacts
  <2> QED BY <1>1, <2>1, RowFacts DEF ListTypes
<1>3. PICK R : R = cells[k]
  OBVIOUS
<1>4. R \in Row
  BY <1>2, <1>3
<1>5. PICK T : T = [slug |-> R.slug, owner |-> owner, status |-> status]
  OBVIOUS
<1>6. T \in Row /\ T.slug = R.slug /\ T.owner = owner /\ T.status = status
  BY <1>4, <1>5 DEF Row
<1>7. /\ cells' = [cells EXCEPT ![k] = T]
      /\ len' = len /\ sup' = sup
      /\ Then(a, << <<"persist", Copy'>> >> \o rest)
  <2>1. /\ cells' = [cells EXCEPT ![k].owner = owner, ![k].status = status]
        /\ len' = len /\ sup' = sup
        /\ Then(a, << <<"persist", Copy'>> >> \o rest)
    BY <1>1 DEF SetRow
  <2>2. [cells EXCEPT ![k].owner = owner, ![k].status = status] =
          [cells EXCEPT ![k] = [R EXCEPT !.owner = owner, !.status = status]]
    BY <1>2, <1>3
  <2>3. [R EXCEPT !.owner = owner, !.status = status] = T
    <3>1. PICK U : U = [R EXCEPT !.owner = owner, !.status = status]
      OBVIOUS
    <3>2. R = [slug |-> R.slug, owner |-> R.owner, status |-> R.status]
      BY <1>4 DEF Row
    <3>3. U.slug = R.slug /\ U.owner = owner /\ U.status = status
      BY <3>1, <3>2
    <3>4. DOMAIN U = {"slug", "owner", "status"} /\ U = [x \in DOMAIN U |-> U[x]]
      BY <3>1, <3>2
    <3>5. U = [slug |-> R.slug, owner |-> owner, status |-> status]
      BY <3>3, <3>4
    <3> QED BY <1>5, <3>1, <3>5
  <2> QED BY <2>1, <2>2, <2>3
<1>8. cells' \in Seq(Row) /\ Len(cells') = Len(cells)
  BY <1>2, <1>6, <1>7
<1>9. cells'[k] = T /\ \A i \in 1..len : i # k => cells'[i] = cells[i]
  BY <1>2, <1>7
<1>10. \A i \in 1..len : cells'[i].slug = cells[i].slug
  BY <1>3, <1>6, <1>9
<1> QED BY <1>1, <1>2, <1>6, <1>7, <1>8, <1>9, <1>10

\* What claim, set-status, unassign and reassign have in common: T becomes who
\* was told that the task is theirs.
RowChange(p, s, owner, status, rest, T) ==
  /\ Listed(s) /\ Starts(p)
  /\ SetRow(p, s, owner, status, rest)
  /\ Plain(rest) /\ \A x \in Range(rest) : x[1] \in {"ensure", "rewire"}
  /\ UNCHANGED <<registered, stored, room, worktrees, repo, swept, out, foreign, stale, lost>>
  /\ merged \subseteq merged' /\ merged' \subseteq merged \union {s}
  /\ status = "merged" => s \in merged'
  /\ T \in SUBSET Agents /\ told' = [told EXCEPT ![s] = T]
  /\ Kept({"list"}) => (T # {} => T = {owner} /\ status # "open")
  /\ \A x \in Range(rest) : x[1] = "rewire" =>
       Nobody \notin x[4] /\ x[2] = s /\ owner \notin x[4]
  /\ \/ owner = Owner(s) /\ crossed' = crossed
     \/ /\ \/ owner = Nobody
           \/ \E x \in Range(rest) : x[1] = "ensure" /\ x[2] = s /\ owner \in x[3]
        /\ crossed' = IF Crossing(s, owner) THEN crossed \union {s} ELSE crossed \ {s}

\* A command that changes one row, and leaves Plain steps to do, keeps the invariant.
LEMMA RowStep ==
  ASSUME IInv, NEW p \in Procs, NEW s \in Slugs, NEW owner \in Agents \union {Nobody},
         NEW status \in Statuses, NEW rest, NEW T, RowChange(p, s, owner, status, rest, T)
  PROVE  IInv'
<1> USE DEF RowChange
<1>1. PICK k : k = Pos(s)
  OBVIOUS
<1>2. k \in 1..len /\ cells[k].slug = s /\ owner \in Agents \union {Nobody}
  <2>1. Pos(s) \in 1..len /\ cells[Pos(s)].slug = s
    BY PosFacts DEF IInv
  <2> QED BY <1>1, <2>1
<1>3. /\ cells' \in Seq(Row) /\ len' = len /\ len' \in 0..Len(cells') /\ sup' = sup
      /\ Then(p, << <<"persist", Copy'>> >> \o rest)
      /\ \A i \in 1..len : i # k => cells'[i] = cells[i]
      /\ \A i \in 1..len : cells'[i].slug = cells[i].slug
      /\ cells'[k].owner = owner /\ cells'[k].status = status
  <2>1. /\ cells' \in Seq(Row) /\ len' = len /\ len' \in 0..Len(cells') /\ sup' = sup
        /\ Then(p, << <<"persist", Copy'>> >> \o rest)
        /\ \A i \in 1..len : i # Pos(s) => cells'[i] = cells[i]
        /\ \A i \in 1..len : cells'[i].slug = cells[i].slug
        /\ cells'[Pos(s)].owner = owner /\ cells'[Pos(s)].status = status
    BY SetRowFacts DEF IInv
  <2> QED BY <1>1, <2>1
<1>4. PICK c : c = Copy'
  OBVIOUS
<1>5. PICK q : q = << <<"persist", c>> >> \o rest
  OBVIOUS
<1>6. /\ Ordered(q) /\ Then(p, q)
      /\ Range(q) = { <<"persist", c>> } \union Range(rest)
  <2>1. /\ Plain(<< <<"persist", c>> >> \o rest)
        /\ Range(<< <<"persist", c>> >> \o rest) = { <<"persist", c>> } \union Range(rest)
    BY RowTodo
  <2>2. Ordered(q)
    BY <1>5, <2>1, PlainFacts
  <2> QED BY <1>3, <1>4, <1>5, <2>1, <2>2
<1>7. \A x \in Range(q) : x = <<"persist", c>> \/ (x \in Range(rest) /\ x[1] \in {"ensure", "rewire"})
  BY <1>6
<1>8. Starts(p)
  OBVIOUS
<1>9. /\ TodoInv'
      /\ todo'[p] = q
      /\ Steps(p)' = Range(q)
      /\ \A r \in Procs : r # p => todo'[r] = todo[r] /\ Steps(r)' = Steps(r)
      /\ \A r : Removing(r) => Removing(r)'
      /\ \A r : Opening(r) => Opening(r)'
      /\ \A w, r : Joining(w, r) => Joining(w, r)'
  BY <1>6, <1>8, ThenStays DEF IInv
<1>10. RepoInv' /\ WorktreeInv'
  <2>1. /\ SameGit
        /\ \A x \in Range(q) : x[1] \notin Publish
    BY <1>7 DEF SameGit, Publish
  <2> QED BY <1>3, <1>6, <1>8, <2>1, ThenGit
<1>11. RoomShape' /\ EnsureInv'
  <2>1. \A x \in Range(q) : x[1] # "open"
    BY <1>7
  <2>2. RoomsKept
    BY RoomsStay DEF IInv
  <2> QED BY <1>6, <1>8, <2>1, <2>2, ThenEnsure
<1>12. ListTypes'
  <2>1. sup' \in Agents \union {Nobody} /\ stored' \in List /\ told' \in [Slugs -> SUBSET Agents]
    BY <1>3 DEF IInv, ListTypes
  <2>2. c \in List
    BY <1>3, <1>4, <2>1, NewCopy
  <2>3. \A r \in Procs : \A x \in Steps(r)' : x[1] = "persist" => x[2] \in List
    BY <1>7, <1>9, <2>2 DEF IInv, ListTypes
  <2> QED BY <1>3, <2>1, <2>3 DEF ListTypes
<1>13. told \in [Slugs -> SUBSET Agents] /\ \A i \in 1..len : cells[i].slug \in Slugs
  BY RowFacts DEF IInv, ListTypes, Row
<1>14. Kept({"list"}) => \A i \in 1..len : cells[i].slug = s => i = k
  <2> SUFFICES ASSUME Kept({"list"}), NEW i \in 1..len, cells[i].slug = s PROVE i = k
    OBVIOUS
  <2>1. \A m, n \in 1..len : cells[m].slug = cells[n].slug => m = n
    BY DEF IInv, ListInv
  <2> QED BY <1>2, <2>1
<1>15. ListInv'
  <2> SUFFICES ASSUME Kept({"list"})
               PROVE  /\ \A i, j \in 1..len : cells'[i].slug = cells'[j].slug => i = j
                      /\ \A r \in Slugs : told'[r] # {} => \E i \in 1..len : cells'[i].slug = r
                      /\ \A i \in 1..len : told'[cells'[i].slug] # {} =>
                           told'[cells'[i].slug] = {cells'[i].owner} /\ cells'[i].status # "open"
                      /\ \A i \in 1..len : cells'[i].status = "merged" => cells'[i].slug \in merged'
    BY <1>3 DEF ListInv, Kept
  <2>1. \A i, j \in 1..len : cells'[i].slug = cells'[j].slug => i = j
    BY <1>3 DEF IInv, ListInv
  <2>2. ASSUME NEW r \in Slugs, told'[r] # {} PROVE \E i \in 1..len : cells'[i].slug = r
    <3>1. CASE r = s
      BY <1>2, <1>3, <3>1
    <3>2. CASE r # s
      <4>1. told[r] # {}
        BY <1>13, <2>2, <3>2
      <4>2. PICK i \in 1..len : cells[i].slug = r
        BY <4>1 DEF IInv, ListInv
      <4> QED BY <1>3, <4>2
    <3> QED BY <3>1, <3>2
  <2>3. ASSUME NEW i \in 1..len
        PROVE  /\ told'[cells'[i].slug] # {} =>
                    told'[cells'[i].slug] = {cells'[i].owner} /\ cells'[i].status # "open"
               /\ cells'[i].status = "merged" => cells'[i].slug \in merged'
    <3>1. CASE i = k
      <4>1. cells'[i].slug = s /\ told'[s] = T /\ cells'[i].owner = owner /\ cells'[i].status = status
        BY <1>2, <1>3, <1>13, <3>1
      <4> QED BY <4>1
    <3>2. CASE i # k
      <4>1. cells'[i] = cells[i] /\ cells[i].slug # s
        BY <1>3, <1>14, <3>2
      <4>2. told'[cells[i].slug] = told[cells[i].slug]
        BY <1>13, <4>1
      <4> QED BY <4>1, <4>2 DEF IInv, ListInv
    <3> QED BY <3>1, <3>2
  <2> QED BY <2>1, <2>2, <2>3
<1>16. SupInv'
  <2> SUFFICES ASSUME Kept({"list"}), NEW i \in 1..len, cells'[i].slug \notin foreign \union merged'
               PROVE  sup \in registered \union swept
    BY <1>3 DEF SupInv, Kept
  <2>1. cells[i].slug \notin foreign \union merged
    BY <1>3
  <2> QED BY <2>1 DEF IInv, SupInv
<1>17. NamesInv'
  BY DEF IInv, NamesInv
<1>18. \A r : At(r)' = At(r)
  BY <1>3 DEF At
<1>19. ArchiveInv'
  <2> SUFFICES ASSUME Kept({"list"}), NEW r \in Procs, NEW x \in Steps(r)', x[1] = "archive"
               PROVE  x[2] \in merged' \union stale \/ <<"drop", x[2]>> \in Steps(r)'
    BY <1>3 DEF ArchiveInv, Kept
  <2>1. r # p /\ x \in Steps(r) /\ Steps(r)' = Steps(r)
    BY <1>7, <1>9
  <2> QED BY <2>1 DEF IInv, ArchiveInv
<1>20. OpenInv'
  <2> SUFFICES ASSUME Kept({"list", "rooms", "unpublish", "handler"}), NEW i \in 1..len,
                      NEW r, r = cells[i].slug, r \notin merged \union stale
               PROVE  (room[r].exists /\ ~room[r].archived) \/ Opening(r)' \/ Removing(r)'
    BY <1>3 DEF OpenInv, Kept
  <2>1. (room[r].exists /\ ~room[r].archived) \/ Opening(r) \/ Removing(r)
    BY DEF IInv, OpenInv
  <2> QED BY <1>9, <2>1
<1>21. RewireInv'
  <2> SUFFICES ASSUME Kept({"list"}), NEW r \in Procs, NEW x \in Steps(r)', x[1] = "rewire"
               PROVE  /\ Nobody \notin x[4]
                      /\ \/ x[4] \subseteq Supervisors
                         \/ x[2] \in crossed'
                         \/ \A i \in At(x[2]) : cells'[i].owner \notin x[4]
    BY <1>3, <1>18 DEF RewireInv, Kept
  <2>1. \A i \in At(s) : i = k
    BY <1>14 DEF At
  <2>2. CASE r = p
    <3>1. x \in Range(rest)
      BY <1>7, <1>9, <2>2
    <3>2. Nobody \notin x[4] /\ x[2] = s /\ owner \notin x[4]
      BY <3>1
    <3> QED BY <1>3, <2>1, <3>2
  <2>3. CASE r # p
    <3>1. x \in Steps(r)
      BY <1>9, <2>3
    <3>2. PICK z : z = x[2]
      OBVIOUS
    <3>3. /\ Nobody \notin x[4]
          /\ \/ x[4] \subseteq Supervisors
             \/ z \in crossed
             \/ \A i \in At(z) : cells[i].owner \notin x[4]
      BY <3>1, <3>2 DEF IInv, RewireInv
    <3>4. CASE z # s
      <4>1. \A i \in At(z) : i \in 1..len /\ i # k
        BY <1>2, <3>4 DEF At
      <4>2. z \in crossed => z \in crossed'
        BY <3>4
      <4> QED BY <1>3, <3>2, <3>3, <4>1, <4>2
    <3>5. CASE z = s
      <4>1. k \in At(s) /\ Owner(s) = cells[k].owner
        BY <1>1, <1>2 DEF At, Owner
      <4>2. CASE owner = Owner(s) /\ crossed' = crossed
        BY <1>3, <2>1, <3>2, <3>3, <3>5, <4>1, <4>2
      <4>3. CASE crossed' = IF Crossing(s, owner) THEN crossed \union {s} ELSE crossed \ {s}
        <5>1. owner \in x[4] => Crossing(s, owner)
          BY <3>1, <3>2, <3>5 DEF Crossing, Steps
        <5>2. owner \in x[4] => s \in crossed'
          BY <4>3, <5>1
        <5> QED BY <1>3, <2>1, <3>2, <3>3, <3>5, <5>2
      <4> QED BY <4>2, <4>3
    <3> QED BY <3>4, <3>5
  <2> QED BY <2>2, <2>3
<1>22. OwnerInv'
  <2> SUFFICES ASSUME Kept({"list", "rooms", "handler"}), NEW i \in 1..len,
                      NEW r, r = cells'[i].slug, NEW w, w = cells'[i].owner,
                      r \notin merged' \union crossed',
                      w \notin Supervisors \union out \union {Nobody}
               PROVE  w \in room[r].members \/ Joining(w, r)'
    BY <1>3 DEF OwnerInv, Kept
  <2>1. Kept({"list"})
    BY DEF Kept
  <2>2. r = cells[i].slug /\ r \notin merged
    BY <1>3
  <2>3. ASSUME r \notin crossed, cells[i].owner = w
        PROVE  w \in room[r].members \/ Joining(w, r)'
    <3>1. w \in room[r].members \/ Joining(w, r)
      BY <2>2, <2>3 DEF IInv, OwnerInv
    <3> QED BY <1>9, <3>1
  <2>4. CASE r # s
    <3>1. i # k
      BY <1>2, <2>2, <2>4
    <3>2. r \notin crossed
      BY <2>4
    <3> QED BY <1>3, <2>3, <3>1, <3>2
  <2>5. CASE r = s
    <3>1. i = k /\ w = owner
      BY <1>3, <1>14, <2>1, <2>2, <2>5
    <3>2. CASE owner = Owner(s) /\ crossed' = crossed
      <4>1. cells[i].owner = w
        BY <1>1, <3>1, <3>2 DEF Owner
      <4> QED BY <2>3, <3>2, <4>1
    <3>3. CASE \E x \in Range(rest) : x[1] = "ensure" /\ x[2] = s /\ owner \in x[3]
      <4>1. PICK x \in Range(rest) : x[1] = "ensure" /\ x[2] = s /\ owner \in x[3]
        BY <3>3
      <4>2. x \in Steps(p)'
        BY <1>6, <1>9
      <4> QED BY <2>5, <3>1, <4>1, <4>2 DEF Joining
    <3> QED BY <3>1, <3>2, <3>3
  <2> QED BY <2>4, <2>5
<1> QED BY <1>9, <1>10, <1>11, <1>12, <1>15, <1>16, <1>17, <1>19, <1>20, <1>21, <1>22 DEF IInv

\* The owner and the status of a listed task are those of its row.
LEMMA OwnerFacts ==
  ASSUME IInv, NEW s \in Slugs, Listed(s)
  PROVE  /\ Owner(s) \in Agents \union {Nobody} /\ Status(s) \in Statuses
         /\ told \in [Slugs -> SUBSET Agents]
         /\ Kept({"list"}) => (told[s] # {} => told[s] = {Owner(s)} /\ Status(s) # "open")
<1>1. Pos(s) \in 1..len /\ cells[Pos(s)].slug = s
  BY PosFacts DEF IInv
<1>2. cells[Pos(s)] \in Row
  BY <1>1, RowFacts DEF IInv
<1>3. Owner(s) \in Agents \union {Nobody} /\ Status(s) \in Statuses
  BY <1>2 DEF Row, Owner, Status
<1>4. told \in [Slugs -> SUBSET Agents]
  BY DEF IInv, ListTypes
<1>5. Kept({"list"}) => (told[s] # {} => told[s] = {Owner(s)} /\ Status(s) # "open")
  BY <1>1 DEF IInv, ListInv, Owner, Status
<1> QED BY <1>3, <1>4, <1>5

\* Nothing to do is plain.
LEMMA PlainNone == Plain(<< >>) /\ Range(<< >>) = {}
  BY SingleFacts DEF Plain

\* A request about a task is about one that there is.
LEMMA RequestFacts ==
  ASSUME IInv, NEW c \in Conns, Doing(c, "claim") \/ Doing(c, "status")
  PROVE  c \in Procs /\ Caller[c] \in Agents /\ Starts(c) /\ Step(c)[2] \in Slugs
<1>1. c \in Procs /\ Caller[c] \in Agents
  BY ConnFacts
<1>2. todo[c] # << >> /\ Step(c)[1] \in {"claim", "status"}
  BY DEF Doing
<1>3. Step(c)[1] \in OfTask => Step(c)[2] \in Slugs
  BY <1>1, <1>2, DoingFacts DEF IInv
<1> QED BY <1>1, <1>2, <1>3 DEF Starts, Gates, OfTask

\* A claim keeps the invariant: the worker becomes the owner before it is a member.
LEMMA ClaimStep ==
  ASSUME IInv, NEW c \in Conns, TaskClaim(c)
  PROVE  IInv'
<1>1. c \in Procs /\ Caller[c] \in Agents /\ Starts(c) /\ Step(c)[2] \in Slugs
  BY RequestFacts DEF TaskClaim
<1> PICK a \in Agents, s \in Slugs : a = Caller[c] /\ s = Step(c)[2]
  BY <1>1
<1>2. CASE Refuse(c)
  BY <1>1, <1>2, RefuseStep
<1>3. CASE ~Refuse(c)
  <2>1. /\ Listed(s) /\ Status(s) = "open"
        /\ SetOwner(c, s, a, "working", << <<"ensure", s, Party(s, a)>> >>)
        /\ told' = [told EXCEPT ![s] = @ \union {a}]
        /\ UNCHANGED <<registered, stored, room, worktrees, repo, swept, out, merged, foreign,
                       stale, lost>>
    BY <1>3 DEF TaskClaim, Claimable, gitVars
  <2>2. PICK x : x = <<"ensure", s, {sup, a}>>
    OBVIOUS
  <2>3. x[1] = "ensure" /\ x[2] = s /\ a \in x[3]
    BY <2>2
  <2>4. Plain(<<x>>) /\ Range(<<x>>) = {x}
    BY <2>3, PlainOne DEF Lasts, Firsts, Gates
  <2>5. /\ SetRow(c, s, a, "working", <<x>>)
        /\ crossed' = IF Crossing(s, a) THEN crossed \union {s} ELSE crossed \ {s}
    BY <2>1, <2>2 DEF SetOwner, Party
  <2>6. PICK T : T = told[s] \union {a}
    OBVIOUS
  <2>7. /\ told \in [Slugs -> SUBSET Agents]
        /\ Kept({"list"}) => (told[s] # {} => told[s] = {Owner(s)} /\ Status(s) # "open")
    BY <2>1, OwnerFacts
  <2>8. T \in SUBSET Agents /\ told' = [told EXCEPT ![s] = T]
    BY <2>1, <2>6, <2>7
  <2>9. Kept({"list"}) => T = {a}
    BY <2>1, <2>6, <2>7
  <2>10. "working" \in Statuses /\ a \in Agents \union {Nobody}
    BY DEF Statuses
  <2>11. /\ \A y \in Range(<<x>>) : y[1] \in {"ensure", "rewire"} /\ y[1] # "rewire"
         /\ \E y \in Range(<<x>>) : y[1] = "ensure" /\ y[2] = s /\ a \in y[3]
    BY <2>3, <2>4
  <2>12. RowChange(c, s, a, "working", <<x>>, T)
    BY <1>1, <2>1, <2>4, <2>5, <2>8, <2>9, <2>11 DEF RowChange
  <2> QED BY <1>1, <2>10, <2>12, RowStep
<1> QED BY <1>2, <1>3

\* set-status keeps the invariant.
LEMMA StatusStep ==
  ASSUME IInv, NEW c \in Conns, TaskStatus(c)
  PROVE  IInv'
<1>1. c \in Procs /\ Caller[c] \in Agents /\ Starts(c) /\ Step(c)[2] \in Slugs
  BY RequestFacts DEF TaskStatus
<1> PICK s \in Slugs : s = Step(c)[2]
  BY <1>1
<1>2. PICK status : status = Step(c)[3]
  OBVIOUS
<1>3. CASE Refuse(c)
  BY <1>1, <1>3, RefuseStep
<1>4. CASE ~Refuse(c)
  <2>1. /\ Listed(s) /\ status \in Statuses
        /\ UNCHANGED <<registered, stored, room, worktrees, repo, swept, out, foreign, stale,
                       crossed, lost>>
        /\ merged' = IF status = "merged" THEN merged \union {s} ELSE merged
        /\ told' = IF status = "open" THEN [told EXCEPT ![s] = {}] ELSE told
        /\ SetRow(c, s, Owner(s), status, << >>)
    BY <1>2, <1>4 DEF TaskStatus, MaySet, gitVars, raceVars
  <2>2. Plain(<< >>) /\ Range(<< >>) = {}
    BY PlainNone
  <2>3. PICK T : T = IF status = "open" THEN {} ELSE told[s]
    OBVIOUS
  <2>4. /\ Owner(s) \in Agents \union {Nobody}
        /\ told \in [Slugs -> SUBSET Agents]
        /\ Kept({"list"}) => (told[s] # {} => told[s] = {Owner(s)} /\ Status(s) # "open")
    BY <2>1, OwnerFacts
  <2>5. T \in SUBSET Agents /\ told' = [told EXCEPT ![s] = T]
    BY <2>1, <2>3, <2>4
  <2>6. Kept({"list"}) => (T # {} => T = {Owner(s)} /\ status # "open")
    BY <2>3, <2>4
  <2>7. PICK owner \in Agents \union {Nobody} : owner = Owner(s)
    BY <2>4
  <2>8. /\ merged \subseteq merged' /\ merged' \subseteq merged \union {s}
        /\ status = "merged" => s \in merged'
    BY <2>1
  <2>9. SetRow(c, s, owner, status, << >>)
    BY <2>1, <2>7
  <2>10. RowChange(c, s, owner, status, << >>, T)
    BY <1>1, <2>1, <2>2, <2>5, <2>6, <2>7, <2>8, <2>9 DEF RowChange
  <2> QED BY <1>1, <2>1, <2>7, <2>10, RowStep
<1> QED BY <1>3, <1>4

\* unassign keeps the invariant: the row is open again, and nobody is told it is theirs.
LEMMA UnassignStep ==
  ASSUME IInv, NEW c \in Conns, NEW s \in Slugs, TaskUnassign(c, s)
  PROVE  IInv'
<1>1. /\ todo[c] = << >> /\ Listed(s)
      /\ UNCHANGED <<registered, stored, room, worktrees, repo, swept, out, merged, foreign,
                     stale, lost>>
      /\ told' = [told EXCEPT ![s] = {}]
      /\ SetRow(c, s, Nobody, "open", << >>)
      /\ crossed' = IF Crossing(s, Nobody) THEN crossed \union {s} ELSE crossed \ {s}
  BY DEF TaskUnassign, RequireSupervisor, Idle, SetOwner, gitVars
<1>2. Plain(<< >>) /\ Range(<< >>) = {}
  BY PlainNone
<1>3. "open" \in Statuses /\ Nobody \in Agents \union {Nobody} /\ c \in Procs /\ Starts(c)
  BY <1>1, ConnFacts DEF Statuses, Starts
<1>4. RowChange(c, s, Nobody, "open", << >>, {})
  BY <1>1, <1>2, <1>3 DEF RowChange
<1> QED BY <1>3, <1>4, RowStep

\* reassign keeps the invariant: the new owner is to join, the old one is to leave.
LEMMA ReassignStep ==
  ASSUME IInv, NEW c \in Conns, NEW s \in Slugs, NEW new \in Agents, TaskReassign(c, s, new)
  PROVE  IInv'
<1>1. /\ todo[c] = << >> /\ Listed(s)
      /\ UNCHANGED <<registered, stored, room, worktrees, repo, swept, out, merged, foreign,
                     stale, lost>>
      /\ told' = [told EXCEPT ![s] = {new}]
      /\ crossed' = IF Crossing(s, new) THEN crossed \union {s} ELSE crossed \ {s}
  BY DEF TaskReassign, RequireSupervisor, Idle, SetOwner, gitVars
<1>2. PICK x, y : x = <<"ensure", s, {sup, new}>> /\ y = <<"rewire", s, {}, Leave(s, new)>>
  OBVIOUS
<1>3. /\ x[1] = "ensure" /\ x[2] = s /\ new \in x[3]
      /\ y[1] = "rewire" /\ y[2] = s /\ new \notin y[4] /\ Nobody \notin y[4]
  BY <1>2 DEF Leave
<1>4. PICK rest : rest = <<x, y>>
  OBVIOUS
<1>5. Plain(rest) /\ Range(rest) = {x, y}
  <2>1. rest \in Seq({x, y}) /\ Len(rest) = 2 /\ rest[1] = x /\ rest[2] = y
    BY <1>4
  <2>2. Range(rest) = {x, y}
    <3>1. DOMAIN rest = 1..2 /\ \A z \in Range(rest) : z \in {x, y}
      BY <2>1, RangeEntries
    <3>2. x \in Range(rest) /\ y \in Range(rest)
      BY <2>1, <3>1 DEF Range
    <3> QED BY <3>1, <3>2
  <2>3. rest \in Seq(Range(rest))
    BY <2>1, <2>2
  <2> QED BY <1>3, <2>2, <2>3 DEF Plain, Lasts, Firsts, Gates
<1>6. SetRow(c, s, new, "assigned", rest)
  BY <1>2, <1>4 DEF TaskReassign, SetOwner, Party
<1>7. /\ "assigned" \in Statuses /\ new \in Agents \union {Nobody} /\ {new} \in SUBSET Agents
      /\ c \in Procs /\ Starts(c)
  BY <1>1, ConnFacts DEF Statuses, Starts
<1>8. \A z \in Range(rest) : z[1] \in {"ensure", "rewire"}
  BY <1>3, <1>5
<1>9. \A z \in Range(rest) : z[1] = "rewire" =>
        Nobody \notin z[4] /\ z[2] = s /\ new \notin z[4]
  BY <1>3, <1>5
<1>10. \E z \in Range(rest) : z[1] = "ensure" /\ z[2] = s /\ new \in z[3]
  BY <1>3, <1>5
<1>11. RowChange(c, s, new, "assigned", rest, {new})
  BY <1>1, <1>5, <1>6, <1>7, <1>8, <1>9, <1>10 DEF RowChange
<1> QED BY <1>7, <1>11, RowStep

\* The old supervisor leaves the rooms after the list has the new one.
LEMMA HandoffStep ==
  ASSUME IInv, NEW h \in Conns, NEW new \in Agents, TaskHandoff(h, new)
  PROVE  IInv'
<1> PICK a \in Agents : a = Caller[h]
  BY ConnFacts
<1>1. /\ SameGit /\ todo[h] = << >> /\ a \in Supervisors
      /\ new \in registered /\ sup' = new
      /\ UNCHANGED <<registered, cells, len, stored, room, swept, out, merged, told, foreign,
                     stale, crossed, lost>>
  BY DEF TaskHandoff, RequireSupervisor, Idle, SameGit, gitVars, pastVars, raceVars
<1>2. PICK S : S = {i \in 1..len : cells[i].status # "merged"}
  OBVIOUS
<1>3. PICK c : c = Copy'
  OBVIOUS
<1>4. PICK q \in Ascending(S) :
        Then(h, << <<"persist", c>> >>
                  \o [i \in DOMAIN q |-> <<"rewire", cells[q[i]].slug, {new}, {a}>>])
  BY <1>2, <1>3 DEF TaskHandoff
<1>5. PICK v : v = [i \in DOMAIN q |-> <<"rewire", cells[q[i]].slug, {new}, {a}>>]
  OBVIOUS
<1>6. PICK r : /\ r = << <<"persist", c>> >> \o v
               /\ Plain(r)
               /\ \A x \in Range(r) : x = <<"persist", c>> \/ (x[1] = "rewire" /\ x[4] = {a})
  <2>1. S \in SUBSET (1..len) /\ ListTypes
    BY <1>2 DEF IInv
  <2>2. PICK come, go : come = {new} /\ go = {a}
    OBVIOUS
  <2>3. RewireList(v, q, come, go)
    BY <1>5, <2>2 DEF RewireList
  <2>4. Plain(v) /\ Rewires(v, go)
    BY <2>1, <2>3, HandoffTodo
  <2>5. /\ Plain(<< <<"persist", c>> >> \o v)
        /\ Range(<< <<"persist", c>> >> \o v) = { <<"persist", c>> } \union Range(v)
    BY <2>4, RowTodo
  <2> QED BY <2>2, <2>4, <2>5 DEF Rewires
<1>7. /\ Ordered(r) /\ Then(h, r) /\ h \in Procs /\ Starts(h)
  BY <1>1, <1>4, <1>5, <1>6, PlainFacts, ConnFacts DEF Starts
<1>8. /\ TodoInv'
      /\ todo'[h] = r
      /\ Steps(h)' = Range(r)
      /\ \A p \in Procs : p # h => todo'[p] = todo[p] /\ Steps(p)' = Steps(p)
      /\ \A s : Removing(s) => Removing(s)'
      /\ \A s : Opening(s) => Opening(s)'
      /\ \A w, s : Joining(w, s) => Joining(w, s)'
  BY <1>7, ThenStays DEF IInv
<1>9. \A x \in Range(r) : x[1] \in {"persist", "rewire"}
  BY <1>6
<1>10. RepoInv' /\ WorktreeInv'
  <2>1. /\ \A x \in Range(r) : x[1] \notin Publish
        /\ \A i \in 1..len : cells'[i].slug = cells[i].slug
    BY <1>1, <1>9 DEF Publish
  <2> QED BY <1>1, <1>7, <2>1, ThenGit
<1>11. RoomShape' /\ EnsureInv'
  <2>1. \A x \in Range(r) : x[1] # "open"
    BY <1>9
  <2>2. RoomsKept
    BY <1>1, RoomsStay DEF IInv
  <2> QED BY <1>7, <2>1, <2>2, ThenEnsure
<1>12. ListTypes'
  <2>1. /\ sup' \in Agents \union {Nobody} /\ stored' \in List /\ told' \in [Slugs -> SUBSET Agents]
        /\ cells' \in Seq(Row) /\ len' \in 0..Len(cells')
    BY <1>1 DEF IInv, ListTypes
  <2>2. c \in List
    BY <1>3, <2>1, NewCopy
  <2>3. \A x \in Range(r) : x[1] = "persist" => x[2] = c
    BY <1>6
  <2>4. \A p \in Procs : \A x \in Steps(p)' : x[1] = "persist" => x[2] \in List
    BY <1>8, <2>2, <2>3 DEF IInv, ListTypes
  <2> QED BY <2>1, <2>4 DEF ListTypes
<1>13. ListInv'
  BY <1>1 DEF IInv, ListInv, Kept
<1>14. SupInv'
  BY <1>1 DEF SupInv
<1>16. NamesInv'
  BY <1>1 DEF IInv, NamesInv
<1>17. ArchiveInv'
  <2> SUFFICES ASSUME Kept({"list"}), NEW p \in Procs, NEW x \in Steps(p)', x[1] = "archive"
               PROVE  x[2] \in merged \union stale \/ <<"drop", x[2]>> \in Steps(p)'
    BY <1>1 DEF ArchiveInv, Kept
  <2>1. p # h /\ x \in Steps(p) /\ Steps(p)' = Steps(p)
    BY <1>8, <1>9
  <2> QED BY <2>1 DEF IInv, ArchiveInv
<1>18. OpenInv'
  <2> SUFFICES ASSUME Kept({"list", "rooms", "unpublish", "handler"}), NEW i \in 1..len,
                      NEW s, s = cells[i].slug, s \notin merged \union stale
               PROVE  (room[s].exists /\ ~room[s].archived) \/ Opening(s)' \/ Removing(s)'
    BY <1>1 DEF OpenInv, Kept
  <2>1. (room[s].exists /\ ~room[s].archived) \/ Opening(s) \/ Removing(s)
    BY DEF IInv, OpenInv
  <2> QED BY <1>8, <2>1
<1>19. RewireInv'
  <2> SUFFICES ASSUME Kept({"list"}), NEW p \in Procs, NEW x \in Steps(p)', x[1] = "rewire"
               PROVE  /\ Nobody \notin x[4]
                      /\ \/ x[4] \subseteq Supervisors
                         \/ x[2] \in crossed
                         \/ \A i \in At(x[2]) : cells[i].owner \notin x[4]
    BY <1>1 DEF RewireInv, Kept, At
  <2>1. CASE p = h
    <3>1. x[4] = {a}
      <4>1. x \in Range(r)
        BY <1>8, <2>1
      <4>2. x # <<"persist", c>>
        OBVIOUS
      <4> QED BY <1>6, <4>1, <4>2
    <3> QED BY <1>1, <3>1, AgentAssumption
  <2>2. CASE p # h
    <3>1. x \in Steps(p)
      BY <1>8, <2>2
    <3> QED BY <3>1 DEF IInv, RewireInv
  <2> QED BY <2>1, <2>2
<1>20. OwnerInv'
  <2> SUFFICES ASSUME Kept({"list", "rooms", "handler"}), NEW i \in 1..len,
                      NEW s, s = cells[i].slug, NEW w, w = cells[i].owner,
                      s \notin merged \union crossed, w \notin Supervisors \union out \union {Nobody}
               PROVE  w \in room[s].members \/ Joining(w, s)'
    BY <1>1 DEF OwnerInv, Kept
  <2>1. w \in room[s].members \/ Joining(w, s)
    BY DEF IInv, OwnerInv
  <2> QED BY <1>8, <2>1
<1> QED BY <1>8, <1>10, <1>11, <1>12, <1>13, <1>14, <1>16, <1>17, <1>18, <1>19, <1>20 DEF IInv

-----------------------------------------------------------------------------
(* Restarts, and the first state.                                          *)

\* No handler survives a restart, and as long as nothing of the list was lost it
\* is the list of before.
LEMMA RestartStep ==
  ASSUME IInv, Restart
  PROVE  IInv'
<1>1. /\ sup' = stored.sup /\ cells' = stored.rows /\ len' = Len(stored.rows)
      /\ room' = [s \in Slugs |-> Loaded(s)]
      /\ todo' = [p \in Procs |-> << >>]
      /\ lost' = lost \union Losses
      /\ UNCHANGED <<registered, stored, worktrees, swept, out, merged, told, foreign, stale,
                     crossed>>
  BY DEF Restart, raceVars
<1>2. /\ \A p \in Procs : todo'[p] = << >> /\ Steps(p)' = {}
      /\ \A s : ~Removing(s)' /\ ~Opening(s)'
  <2>1. \A p \in Procs : todo'[p] = << >> /\ Steps(p)' = {}
    BY <1>1, SingleFacts DEF Steps
  <2> QED BY <2>1, RemovingFacts DEF Opening
<1>3. ASSUME Kept({"list"})'
      PROVE  /\ Kept({"list"}) /\ sup' = sup /\ len' = len
             /\ \A i \in 1..len : cells'[i] = cells[i]
  <2>1. Kept({"list"}) /\ stored = Copy
    BY <1>1, <1>3 DEF Kept, Losses
  <2>2. Len(Copy.rows) = len /\ \A i \in 1..len : Copy.rows[i] = cells[i]
    BY CopyFacts DEF IInv
  <2> QED BY <1>1, <2>1, <2>2 DEF Copy
<1>4. TodoInv'
  BY <1>1, <1>2, NoneOrdered DEF TodoInv
<1>5. NamesInv' /\ RepoInv' /\ ArchiveInv' /\ RewireInv'
  BY <1>1, <1>2 DEF IInv, NamesInv, RepoInv, ArchiveInv, RewireInv
<1>6. EnsureInv'
  BY <1>2 DEF EnsureInv, Furnished
<1>7. ListTypes'
  <2>1. stored \in List /\ told \in [Slugs -> SUBSET Agents]
    BY DEF IInv, ListTypes
  <2> QED BY <1>1, <1>2, <2>1 DEF ListTypes, List
<1>8. RoomShape'
  BY <1>1 DEF RoomShape, IsRoom, Loaded
<1>9. ListInv'
  <2> SUFFICES ASSUME Kept({"list"})'
               PROVE  /\ \A i, j \in 1..len' : cells'[i].slug = cells'[j].slug => i = j
                      /\ \A s \in Slugs : told[s] # {} => \E i \in 1..len' : cells'[i].slug = s
                      /\ \A i \in 1..len' : told[cells'[i].slug] # {} =>
                           told[cells'[i].slug] = {cells'[i].owner} /\ cells'[i].status # "open"
                      /\ \A i \in 1..len' : cells'[i].status = "merged" => cells'[i].slug \in merged
    BY <1>1 DEF ListInv
  <2> QED BY <1>3 DEF IInv, ListInv
<1>10. WorktreeInv'
  <2> SUFFICES ASSUME Kept({"list", "unpublish"})', NEW i \in 1..len'
               PROVE  cells'[i].slug \in worktrees
    BY <1>1 DEF WorktreeInv
  <2>1. Kept({"list"})' /\ Kept({"list", "unpublish"}) /\ \A s \in Slugs : ~Removing(s)
    BY <1>1 DEF Kept, Losses
  <2>2. i \in 1..len /\ cells'[i] = cells[i]
    BY <1>3, <2>1
  <2>3. cells[i].slug \in Slugs
    BY <2>2, RowFacts DEF IInv, Row
  <2> QED BY <2>1, <2>2, <2>3 DEF IInv, WorktreeInv
<1>11. SupInv'
  <2> SUFFICES ASSUME Kept({"list"})', NEW i \in 1..len', cells'[i].slug \notin foreign \union merged
               PROVE  sup' \in registered \union swept
    BY <1>1 DEF SupInv
  <2> QED BY <1>3 DEF IInv, SupInv
<1>12. ASSUME Kept({"list", "rooms", "handler"})'
       PROVE  /\ Kept({"list"})' /\ Kept({"list", "rooms", "handler"})
              /\ \A s \in Slugs : room'[s] = room[s]
              /\ \A s : ~Removing(s) /\ ~Opening(s)
              /\ \A w, s : ~Joining(w, s)
  <2>1. /\ Kept({"list"})' /\ Kept({"list", "rooms", "handler"})
        /\ \A s \in Slugs : Loaded(s) = room[s]
        /\ Quiet
    BY <1>1, <1>12 DEF Kept, Losses
  <2>2. \A p \in Procs : Steps(p) = {}
    BY <2>1, SingleFacts DEF Quiet, Steps
  <2> QED BY <1>1, <2>1, <2>2, RemovingFacts DEF Opening, Joining
<1>13. OpenInv'
  <2> SUFFICES ASSUME Kept({"list", "rooms", "unpublish", "handler"})', NEW i \in 1..len',
                      NEW s, s = cells'[i].slug, s \notin merged \union stale
               PROVE  room'[s].exists /\ ~room'[s].archived
    BY <1>1 DEF OpenInv
  <2>1. Kept({"list", "rooms", "handler"})' /\ Kept({"list", "rooms", "unpublish", "handler"})
    BY <1>1 DEF Kept
  <2>2. i \in 1..len /\ cells'[i] = cells[i]
    BY <1>3, <1>12, <2>1
  <2>3. s \in Slugs
    BY <2>2, RowFacts DEF IInv, Row
  <2>4. (room[s].exists /\ ~room[s].archived) \/ Opening(s) \/ Removing(s)
    BY <2>1, <2>2 DEF IInv, OpenInv
  <2> QED BY <1>12, <2>1, <2>3, <2>4
<1>14. OwnerInv'
  <2> SUFFICES ASSUME Kept({"list", "rooms", "handler"})', NEW i \in 1..len',
                      NEW s, s = cells'[i].slug, NEW w, w = cells'[i].owner,
                      s \notin merged \union crossed, w \notin Supervisors \union out \union {Nobody}
               PROVE  w \in room'[s].members
    BY <1>1 DEF OwnerInv
  <2>1. i \in 1..len /\ cells'[i] = cells[i]
    BY <1>3, <1>12
  <2>2. s \in Slugs
    BY <2>1, RowFacts DEF IInv, Row
  <2>3. w \in room[s].members \/ Joining(w, s)
    BY <1>12, <2>1 DEF IInv, OwnerInv
  <2> QED BY <1>12, <2>2, <2>3
<1> QED BY <1>4, <1>5, <1>6, <1>7, <1>8, <1>9, <1>10, <1>11, <1>13, <1>14 DEF IInv

\* The invariant holds at first.
LEMMA InitInv ==
  ASSUME Init
  PROVE  IInv
<1>1. \A p \in Procs : todo[p] = << >> /\ Steps(p) = {}
  BY SingleFacts DEF Init, Steps
<1>2. TodoInv
  BY <1>1, NoneOrdered DEF Init, TodoInv
<1>3. NamesInv /\ RepoInv /\ ArchiveInv /\ RewireInv
  BY <1>1 DEF Init, NamesInv, RepoInv, ArchiveInv, RewireInv
<1>4. EnsureInv
  BY <1>1 DEF EnsureInv, Furnished
<1>5. ListTypes
  <2>1. stored \in List
    BY DEF Init, List
  <2> QED BY <1>1, <2>1 DEF Init, ListTypes
<1>6. RoomShape
  BY DEF Init, RoomShape, IsRoom
<1>7. ListInv /\ WorktreeInv /\ SupInv /\ OpenInv /\ OwnerInv
  <2>1. 1..len = {} /\ \A s \in Slugs : told[s] = {}
    BY DEF Init
  <2> QED BY <2>1 DEF ListInv, WorktreeInv, SupInv, OpenInv, OwnerInv
<1> QED BY <1>2, <1>3, <1>4, <1>5, <1>6, <1>7 DEF IInv

\* Every step keeps the invariant.
LEMMA NextInv ==
  ASSUME IInv, [Next]_vars
  PROVE  IInv'
<1>1. ASSUME NEW c \in Conns, Commands(c) PROVE IInv'
  <2>1. CASE Register(c)
    BY <2>1, RegisterStep
  <2>2. CASE Unregister(c)
    BY <2>2, UnregisterStep
  <2>3. CASE RoomsGC(c)
    BY <2>3, GCStep
  <2>4. CASE \E S \in SUBSET Slugs \ {{}} : \E q \in Orders(S) : TaskPublish(c, q)
    BY <2>4, PublishStep
  <2>5. ASSUME NEW s \in Slugs,
               \/ TaskUnassign(c, s)
               \/ \E new \in Agents : TaskReassign(c, s, new)
               \/ \E force, wipe, evictOwner \in BOOLEAN :
                    TaskUnpublish(c, s, force, wipe, evictOwner)
        PROVE  IInv'
    BY <2>5, UnassignStep, ReassignStep, UnpublishStep
  <2>6. CASE \E new \in Agents : TaskHandoff(c, new)
    BY <2>6, HandoffStep
  <2>7. CASE \E command \in Requests : Ask(c, command)
    BY <2>7, AskStep
  <2> QED BY <1>1, <2>1, <2>2, <2>3, <2>4, <2>5, <2>6, <2>7 DEF Commands
<1>2. ASSUME NEW p \in Conns, Handler(p) PROVE IInv'
  <2>0. p \in Procs
    BY ConnFacts
  <2>1. CASE PersistTaskList(p)
    BY <2>0, <2>1, PersistStep
  <2>2. CASE StoreRoom(p) \/ StoreFlag(p)
    BY <2>0, <2>2, StoreSteps
  <2>3. CASE Evict(p) \/ EnsureRoom(p) \/ PostBundle(p) \/ RewireRoom(p)
    BY <2>0, <2>3, EvictStep, EnsureStep, BundleStep, RewireStep
  <2>4. CASE SetArchived(p, "archive", TRUE) \/ SetArchived(p, "open", FALSE)
    BY <2>0, <2>4, ArchivedStep
  <2>5. CASE LockRepo(p) \/ UnlockRepo(p)
    BY <2>0, <2>5, LockStep
  <2>6. CASE EnsureWorktree(p) \/ RemoveWorktree(p)
    BY <2>0, <2>6, WorktreeStep, WipeStep
  <2>7. CASE InstallRow(p) \/ DropRow(p)
    BY <2>0, <2>7, InstallStep, DropStep
  <2>8. CASE RowGate(p) \/ WipeGate(p)
    BY <2>0, <2>8, GateStep
  <2>9. CASE Post(p) \/ TaskClaim(p) \/ TaskStatus(p)
    BY <2>0, <2>9, PostStep, ClaimStep, StatusStep
  <2> QED BY <1>2, <2>1, <2>2, <2>3, <2>4, <2>5, <2>6, <2>7, <2>8, <2>9 DEF Handler
<1>3. ASSUME UNCHANGED vars PROVE IInv'
  <2>1. /\ UNCHANGED <<registered, swept, sup, cells, len, stored, room, worktrees, repo, todo,
                       out, merged, told, foreign, stale, crossed, lost>>
    BY <1>3 DEF vars, listVars, gitVars, pastVars, raceVars
  <2>2. NamesInv'
    BY <2>1 DEF IInv, NamesInv
  <2> QED BY <2>1, <2>2, AsideStep
<1>4. CASE Evict(Sweeper)
  <2>1. Sweeper \in Procs
    BY DEF Procs
  <2> QED BY <1>4, <2>1, EvictStep
<1>5. ASSUME NEW a \in Agents, Sweep(a) PROVE IInv'
  BY <1>5, SweepStep
<1>6. ASSUME NEW s \in Slugs, Edit(s) \/ Push(s) PROVE IInv'
  BY <1>6, WorkStep
<1> QED BY <1>1, <1>2, <1>3, <1>4, <1>5, <1>6, RestartStep DEF Next

-----------------------------------------------------------------------------
(* What the invariant is good for.                                         *)

\* The task list, its handlers, worktrees and rooms fit each other in every
\* state, whatever commands there were on whichever connections, and whatever
\* failures of git, expired leases and restarts.
THEOREM TaskListInvariant == Spec => []IInv
<1>1. Init => IInv
  BY InitInv
<1>2. IInv /\ [Next]_vars => IInv'
  BY NextInv
<1> QED BY <1>1, <1>2, PTL DEF Spec

\* The row of a listed task.
LEMMA ListedRow ==
  ASSUME IInv, NEW s \in Slugs, Listed(s)
  PROVE  /\ Pos(s) \in 1..len /\ cells[Pos(s)].slug = s
         /\ cells[Pos(s)].owner = Owner(s) /\ cells[Pos(s)].status = Status(s)
  BY PosFacts DEF IInv, Owner, Status

\* publish and unpublish --wipe-worktree keep out of each other's way: a task on
\* the list has its worktree, or is about to be dropped.
THEOREM WorktreeBacks == Spec => []WorktreeBacksRow
<1>1. IInv => WorktreeBacksRow
  BY ListedRow DEF IInv, WorktreeInv, WorktreeBacksRow
<1> QED BY <1>1, TaskListInvariant, PTL

\* No archiveRoom is left standing on the room of a live task, but for the
\* tasks that were published while a gc was underway that had found the task of
\* before merged.
THEOREM OpenActive == Spec => []OpenWhileActive
<1>1. ASSUME IInv, Kept({"list", "rooms", "unpublish", "handler"}), Quiet,
             NEW s \in Slugs \ stale, Fresh(s)
      PROVE  room[s].exists /\ ~room[s].archived
  <2>1. (room[s].exists /\ ~room[s].archived) \/ Opening(s) \/ Removing(s)
    BY <1>1, ListedRow DEF IInv, OpenInv, Fresh
  <2>2. \A p \in Procs : Steps(p) = {}
    BY <1>1, SingleFacts DEF Quiet, Steps
  <2> QED BY <2>1, <2>2, RemovingFacts DEF Opening
<1>2. IInv => OpenWhileActive
  BY <1>1 DEF OpenWhileActive
<1> QED BY <1>2, TaskListInvariant, PTL

\* After every mixture of claim, reassign, handoff and unassign a worker that
\* owns a task is in its room, but for those that got the task while a reassign
\* was about to take them out.
THEOREM OwnerJoins == Spec => []OwnerInRoom
<1>1. ASSUME IInv, Kept({"list", "rooms", "handler"}), Quiet,
             NEW s \in Slugs \ crossed, Fresh(s),
             Owner(s) \notin Supervisors \union out \union {Nobody}
      PROVE  Owner(s) \in room[s].members
  <2>1. Owner(s) \in room[s].members \/ Joining(Owner(s), s)
    BY <1>1, ListedRow DEF IInv, OwnerInv, Fresh
  <2>2. \A p \in Procs : Steps(p) = {}
    BY <1>1, SingleFacts DEF Quiet, Steps
  <2> QED BY <2>1, <2>2 DEF Joining
<1>2. IInv => OwnerInRoom
  BY <1>1 DEF OwnerInRoom
<1> QED BY <1>2, TaskListInvariant, PTL

\* A project with a live task keeps its supervisor until the lease runs out, if
\* a registered supervisor on record had it listed.
THEOREM SupervisorStays == Spec => []SupervisorGate
<1>1. IInv => SupervisorGate
  BY ListedRow DEF IInv, SupInv, SupervisorGate, Fresh
<1> QED BY <1>1, TaskListInvariant, PTL

\* A task belongs to whoever was told so last, and to nobody else.
THEOREM ClaimsHold == Spec => []ClaimHolds
<1>1. ASSUME IInv, Kept({"list"}), NEW s \in Slugs, told[s] # {}
      PROVE  Listed(s) /\ told[s] = {Owner(s)}
  <2>1. Listed(s)
    BY <1>1 DEF IInv, ListInv, Listed, At
  <2> QED BY <1>1, <2>1, OwnerFacts
<1>2. IInv => ClaimHolds
  BY <1>1 DEF ClaimHolds
<1> QED BY <1>2, TaskListInvariant, PTL
=============================================================================
