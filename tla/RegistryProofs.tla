--------------------------- MODULE RegistryProofs ---------------------------
(***************************************************************************)
(* Proofs about module Registry, for all names, processes, keys, commands  *)
(* and restarts.                                                           *)
(***************************************************************************)
EXTENDS Registry, Lemmas

-----------------------------------------------------------------------------
(* What a handler can have to do.                                          *)

Keys == 1..MaxKeys

Steps ==
  ({"load", "save", "renew", "unindex", "removeKey"} \X Names)
    \union ({"index", "auth"} \X Names \X Keys)
    \union ({"persist"} \X Ids \X Agent)
    \union ({"removeFile"} \X SUBSET Ids)

\* What may follow a renewal.
Rest(n) == {<< >>, << <<"renew", n>> >>, << <<"unindex", n>> >>}

\* The todo of a command about name n.
Work1(s, n) ==
  s # << >> =>
    \/ /\ Head(s)[1] \in {"load", "save", "index", "unindex", "removeKey"}
       /\ Head(s)[2] = n
       /\ Tail(s) = << >>
    \/ /\ Head(s)[1] = "auth"
       /\ Head(s)[2] = n
       /\ Head(Tail(s)) = <<"renew", n>>
       /\ Tail(s) # << >>
       /\ Tail(Tail(s)) \in Rest(n)
    \/ /\ Head(s)[1] = "renew"
       /\ Head(s)[2] = n
       /\ Tail(s) \in Rest(n)
    \/ /\ Head(s)[1] = "persist"
       /\ Head(s)[3].name = n
       /\ Tail(s) \in Rest(n)
    \/ /\ Head(s)[1] = "removeFile"
       /\ Tail(s) = << <<"removeKey", n>> >>

\* A client is about to save this snapshot of the agent.
Saves(c, id, a) == todo[c] # << >> /\ Head(todo[c]) = <<"persist", id, a>>

-----------------------------------------------------------------------------
(* The inductive invariant, in the parts that different steps need.        *)

RegistryTypes ==
  /\ DOMAIN agents \subseteq Ids /\ \A id \in DOMAIN agents : agents[id] \in Agent
  /\ DOMAIN files \subseteq Ids /\ \A id \in DOMAIN files : files[id] \in Agent
  /\ nameIdx \in [Names -> {0} \union Ids]
  /\ keys \in [Names -> {0} \union Keys]
  /\ queue \in Seq(Ids \X Agent)
  /\ lastId \in {0} \union Ids
  /\ lastKey \in {0} \union Keys
  /\ removed \subseteq Ids

TodoTypes ==
  /\ todo \in [Procs -> Seq(Steps)]
  /\ \A c \in Clients : todo[c] # << >> => \E n \in Names : Work1(todo[c], n)
  /\ todo[Sweeper] # << >> => /\ Head(todo[Sweeper])[1] = "removeFile"
                              /\ Tail(todo[Sweeper]) = << >>

\* A copy of the agent bears this name: in memory, in a file, in the write queue
\* or in a handler.
Named(id, n) ==
  \/ id \in DOMAIN agents /\ agents[id].name = n
  \/ id \in DOMAIN files /\ files[id].name = n
  \/ \E i \in DOMAIN queue : queue[i][1] = id /\ queue[i][2].name = n
  \/ \E c \in Clients, a \in Agent : Saves(c, id, a) /\ a.name = n

\* Copies of an agent agree on its name and bear ids that were given out; a name
\* leads to the youngest agent of that name; the others were removed.
NamesInv ==
  /\ \A id \in Ids, n \in Names : Named(id, n) => id <= lastId
  /\ \A id \in Ids, n, m \in Names : Named(id, n) /\ Named(id, m) => n = m
  /\ \A id \in Ids, n \in Names : nameIdx[n] # 0 /\ Named(id, n) => id <= nameIdx[n]
  /\ \A id \in Ids, n \in Names : Named(id, n) /\ id \notin DOMAIN agents => id \in removed
  /\ \A n \in Names : nameIdx[n] # 0 =>
       nameIdx[n] \in DOMAIN agents /\ agents[nameIdx[n]].name = n
  /\ \A id \in DOMAIN agents \ removed : nameIdx[agents[id].name] = id
  /\ \A c \in Clients, id \in DOMAIN agents, a \in Agent :
       Saves(c, id, a) => nameIdx[a.name] = id

\* What a restart would find of an agent is the agent, if nobody is about to save
\* it; who is alone about to save it has the agent as it is.  Files are deleted
\* only of agents that are gone.
StoreInv ==
  /\ \A id \in DOMAIN agents \ crossed :
       (~\E c \in Clients : Saving(c, id)) =>
         id \in DOMAIN Flushed /\ Flushed[id] = agents[id]
  /\ \A id \in DOMAIN agents \ crossed : \A c \in Clients : \A a \in Agent :
       (Saves(c, id, a) /\ ~\E d \in Clients \ {c} : Saving(d, id)) => a = agents[id]
  /\ \A p \in Procs : (todo[p] # << >> /\ Head(todo[p])[1] = "removeFile") =>
       \A id \in Head(todo[p])[2] : id <= lastId /\ id \notin DOMAIN agents

\* The key of a name fits the agent that it leads to: if that one is not back
\* from a removal, or in any case.
Fits(n)   == nameIdx[n] \notin removed \union {0} => keys[n] = agents[nameIdx[n]].pub
Strong(n) == nameIdx[n] # 0 => keys[n] = agents[nameIdx[n]].pub

\* What a command knows about the key at its stage.
Stage(s, n) ==
  /\ Head(s)[1] = "save" => keys[n] = 0
  /\ Head(s)[1] \in {"index", "auth"} => keys[n] = Head(s)[3]
  /\ Head(s)[1] \in {"renew", "unindex", "persist"} => Strong(n)
  /\ Head(s)[1] = "persist" => Head(s)[3].pub = keys[n]
  /\ Head(s)[1] \in {"removeFile", "removeKey"} => nameIdx[n] = 0

\* So does the key of a name the snapshot that a restart would find.
StoredKeys ==
  \A id \in DOMAIN Flushed \ removed : Flushed[id].name \notin contended =>
    Flushed[id].pub = keys[Flushed[id].name]

KeyInv ==
  /\ \A n \in Names \ contended : Fits(n)
  /\ \A n \in Names \ contended : \A c, d \in Clients : About(c, n) /\ About(d, n) => c = d
  /\ \A n \in Names \ contended : \A c \in Clients : About(c, n) => Stage(todo[c], n)
  /\ StoredKeys

IInv == RegistryTypes /\ TodoTypes /\ NamesInv /\ StoreInv /\ KeyInv

-----------------------------------------------------------------------------
(* What a restart finds.                                                   *)

\* The snapshot of an agent that is written last, for a queue q and files f.
FlushValue(q, f, id) ==
  IF {i \in DOMAIN q : q[i][1] = id} # {}
  THEN q[Max({i \in DOMAIN q : q[i][1] = id})][2] ELSE f[id]

\* The ids that a queue or a set of files knows.
FlushIds(q, f) == DOMAIN f \union {q[i][1] : i \in DOMAIN q}

\* Entry k is the agent's last.
LastEntry(q, id, k) ==
  /\ k \in 1..Len(q)
  /\ q[k][1] = id
  /\ \A i \in 1..Len(q) : q[i][1] = id => i <= k

\* No entry: the file counts.
LEMMA FlushFile ==
  ASSUME NEW S, NEW q \in Seq(S), NEW f, NEW id, \A i \in 1..Len(q) : q[i][1] # id
  PROVE  FlushValue(q, f, id) = f[id]
<1>1. DOMAIN q = 1..Len(q)
  OBVIOUS
<1> QED BY <1>1 DEF FlushValue

\* Some entry: the last one counts.
LEMMA FlushEntry ==
  ASSUME NEW S, NEW q \in Seq(S), NEW f, NEW id, \E i \in 1..Len(q) : q[i][1] = id
  PROVE  \E k \in 1..Len(q) : LastEntry(q, id, k) /\ FlushValue(q, f, id) = q[k][2]
<1> DEFINE I == {i \in DOMAIN q : q[i][1] = id}
<1>1. Len(q) \in Nat /\ DOMAIN q = 1..Len(q)
  OBVIOUS
<1>2. I \in SUBSET Nat /\ I # {} /\ \A i \in I : i <= Len(q)
  BY <1>1
<1>3. FlushValue(q, f, id) = IF I # {} THEN q[Max(I)][2] ELSE f[id]
  BY DEF FlushValue
<1> HIDE DEF I
<1>4. Max(I) \in I /\ \A i \in I : i <= Max(I)
  BY <1>1, <1>2, MaxOfBounded
<1> QED BY <1>1, <1>2, <1>3, <1>4 DEF I, LastEntry

LEMMA FlushLast ==
  ASSUME NEW S, NEW q \in Seq(S), NEW f, NEW id, NEW k, LastEntry(q, id, k)
  PROVE  FlushValue(q, f, id) = q[k][2]
<1>1. \E i \in 1..Len(q) : q[i][1] = id
  BY DEF LastEntry
<1>2. PICK j \in 1..Len(q) : LastEntry(q, id, j) /\ FlushValue(q, f, id) = q[j][2]
  BY <1>1, FlushEntry
<1>3. j = k
  BY <1>2 DEF LastEntry
<1> QED BY <1>2, <1>3

\* An entry is queued.
LEMMA FlushAppend ==
  ASSUME NEW S, NEW q \in Seq(S), NEW f, NEW e \in S
  PROVE  /\ FlushIds(Append(q, e), f) = FlushIds(q, f) \union {e[1]}
         /\ FlushValue(Append(q, e), f, e[1]) = e[2]
         /\ \A id : id # e[1] => FlushValue(Append(q, e), f, id) = FlushValue(q, f, id)
<1> DEFINE p == Append(q, e)
<1>1. /\ p \in Seq(S) /\ Len(q) \in Nat /\ Len(p) = Len(q) + 1
      /\ \A i \in 1..Len(q) : p[i] = q[i]
      /\ p[Len(q) + 1] = e
      /\ DOMAIN q = 1..Len(q) /\ DOMAIN p = 1..Len(p)
  OBVIOUS
<1> HIDE DEF p
<1>2. \A i \in 1..Len(p) : i \in 1..Len(q) \/ i = Len(q) + 1
  BY <1>1
<1>3. FlushIds(p, f) = FlushIds(q, f) \union {e[1]}
  <2>1. {p[i][1] : i \in DOMAIN p} = {q[i][1] : i \in DOMAIN q} \union {e[1]}
    BY <1>1, <1>2
  <2> QED BY <2>1 DEF FlushIds
<1>4. FlushValue(p, f, e[1]) = e[2]
  <2>1. PICK k : k = Len(q) + 1
    OBVIOUS
  <2>2. LastEntry(p, e[1], k)
    BY <1>1, <2>1 DEF LastEntry
  <2>3. FlushValue(p, f, e[1]) = p[k][2]
    BY <1>1, <2>2, FlushLast
  <2> QED BY <1>1, <2>1, <2>3
<1>5. ASSUME NEW id, id # e[1]
      PROVE  FlushValue(p, f, id) = FlushValue(q, f, id)
  <2>1. CASE \A i \in 1..Len(q) : q[i][1] # id
    <3>1. \A i \in 1..Len(p) : p[i][1] # id
      BY <1>1, <1>2, <1>5, <2>1
    <3>2. FlushValue(p, f, id) = f[id]
      BY <1>1, <3>1, FlushFile
    <3>3. FlushValue(q, f, id) = f[id]
      BY <2>1, FlushFile
    <3> QED BY <3>2, <3>3
  <2>2. CASE \E i \in 1..Len(q) : q[i][1] = id
    <3>1. PICK k \in 1..Len(q) : LastEntry(q, id, k) /\ FlushValue(q, f, id) = q[k][2]
      BY <2>2, FlushEntry
    <3>2. LastEntry(p, id, k)
      BY <1>1, <1>2, <1>5, <3>1 DEF LastEntry
    <3>3. FlushValue(p, f, id) = p[k][2]
      BY <1>1, <3>2, FlushLast
    <3> QED BY <1>1, <3>1, <3>3 DEF LastEntry
  <2> QED BY <2>1, <2>2
<1> QED BY <1>3, <1>4, <1>5 DEF p

\* The oldest entry is written to its file.
LEMMA FlushWrite ==
  ASSUME NEW S, NEW q \in Seq(S), NEW f, q # << >>
  PROVE  /\ FlushIds(Tail(q), With(f, Head(q)[1], Head(q)[2])) = FlushIds(q, f)
         /\ \A id \in FlushIds(q, f) :
              FlushValue(Tail(q), With(f, Head(q)[1], Head(q)[2]), id) = FlushValue(q, f, id)
<1> DEFINE p == Tail(q)
           g == With(f, Head(q)[1], Head(q)[2])
<1>1. /\ p \in Seq(S) /\ Len(q) \in Nat \ {0} /\ Len(p) = Len(q) - 1 /\ Head(q) = q[1]
      /\ \A i \in 1..(Len(q) - 1) : p[i] = q[i + 1]
      /\ DOMAIN q = 1..Len(q) /\ DOMAIN p = 1..Len(p)
  BY RangeTail
<1>2. /\ DOMAIN g = DOMAIN f \union {q[1][1]}
      /\ g[q[1][1]] = q[1][2]
      /\ \A id \in DOMAIN f : id # q[1][1] => g[id] = f[id]
  BY <1>1 DEF With
<1> HIDE DEF p, g
<1>3. \A i \in 1..Len(q) : i = 1 \/ (i - 1 \in 1..Len(p) /\ p[i - 1] = q[i])
  BY <1>1
<1>4. \A i \in 1..Len(p) : i + 1 \in 1..Len(q) /\ q[i + 1] = p[i]
  BY <1>1
<1>5. FlushIds(p, g) = FlushIds(q, f)
  <2> DEFINE Q == {q[i][1] : i \in DOMAIN q}
             P == {p[i][1] : i \in DOMAIN p}
  <2>1. ASSUME NEW x \in Q
        PROVE  x \in P \/ x = q[1][1]
    <3>1. PICK i \in 1..Len(q) : x = q[i][1]
      BY <1>1
    <3>2. CASE i = 1
      BY <3>1, <3>2
    <3>3. CASE i # 1
      <4>1. PICK j : j = i - 1
        OBVIOUS
      <4>2. j \in 1..Len(p) /\ p[j] = q[i]
        BY <1>3, <3>3, <4>1
      <4> QED BY <1>1, <3>1, <4>2
    <3> QED BY <3>2, <3>3
  <2>2. ASSUME NEW x \in P
        PROVE  x \in Q
    <3>1. PICK i \in 1..Len(p) : x = p[i][1]
      BY <1>1
    <3>2. PICK j : j = i + 1
      OBVIOUS
    <3>3. j \in 1..Len(q) /\ q[j] = p[i]
      BY <1>4, <3>2
    <3> QED BY <1>1, <3>1, <3>3
  <2>3. q[1][1] \in Q
    BY <1>1
  <2>4. FlushIds(p, g) = DOMAIN f \union {q[1][1]} \union P /\ FlushIds(q, f) = DOMAIN f \union Q
    BY <1>2 DEF FlushIds
  <2> HIDE DEF P, Q
  <2> QED BY <2>1, <2>2, <2>3, <2>4
<1>6. ASSUME NEW id \in FlushIds(q, f)
      PROVE  FlushValue(p, g, id) = FlushValue(q, f, id)
  <2>1. CASE \A i \in 1..Len(q) : q[i][1] # id
    <3>1. \A i \in 1..Len(p) : p[i][1] # id
      BY <1>4, <2>1
    <3>2. FlushValue(p, g, id) = g[id]
      BY <1>1, <3>1, FlushFile
    <3>3. FlushValue(q, f, id) = f[id]
      BY <2>1, FlushFile
    <3>4. id \in DOMAIN f /\ id # q[1][1]
      BY <1>1, <2>1 DEF FlushIds
    <3> QED BY <1>2, <3>2, <3>3, <3>4
  <2>2. CASE \E i \in 1..Len(q) : q[i][1] = id
    <3>1. PICK k \in 1..Len(q) : LastEntry(q, id, k) /\ FlushValue(q, f, id) = q[k][2]
      BY <2>2, FlushEntry
    <3>2. CASE k = 1
      <4>1. \A i \in 1..Len(p) : p[i][1] # id
        BY <1>1, <1>4, <3>1, <3>2 DEF LastEntry
      <4>2. FlushValue(p, g, id) = g[id]
        BY <1>1, <4>1, FlushFile
      <4> QED BY <1>2, <3>1, <3>2, <4>2 DEF LastEntry
    <3>3. CASE k # 1
      <4>1. PICK j : j = k - 1
        OBVIOUS
      <4>2. j \in 1..Len(p) /\ p[j] = q[k]
        BY <1>3, <3>3, <4>1
      <4>3. \A i \in 1..Len(p) : p[i][1] = id => i <= j
        BY <1>1, <1>4, <3>1, <4>1 DEF LastEntry
      <4>4. LastEntry(p, id, j)
        BY <3>1, <4>2, <4>3 DEF LastEntry
      <4>5. FlushValue(p, g, id) = p[j][2]
        BY <1>1, <4>4, FlushLast
      <4> QED BY <3>1, <4>2, <4>5
    <3> QED BY <3>2, <3>3
  <2> QED BY <2>1, <2>2
<1> QED BY <1>5, <1>6 DEF p, g

\* A file is deleted.
LEMMA FlushDelete ==
  ASSUME NEW S, NEW q \in Seq(S), NEW f, NEW x
  PROVE  /\ FlushIds(q, Without(f, {x})) \subseteq FlushIds(q, f)
         /\ \A id \in FlushIds(q, f) : id # x => id \in FlushIds(q, Without(f, {x}))
         /\ \A id \in FlushIds(q, Without(f, {x})) :
              FlushValue(q, Without(f, {x}), id) = FlushValue(q, f, id)
<1> DEFINE g == Without(f, {x})
<1>1. DOMAIN g = DOMAIN f \ {x} /\ \A id \in DOMAIN g : g[id] = f[id]
  BY DEF Without
<1>2. DOMAIN q = 1..Len(q)
  OBVIOUS
<1> HIDE DEF g
<1>3. ASSUME NEW id \in FlushIds(q, g)
      PROVE  FlushValue(q, g, id) = FlushValue(q, f, id)
  <2>1. CASE \A i \in 1..Len(q) : q[i][1] # id
    <3>1. FlushValue(q, g, id) = g[id] /\ FlushValue(q, f, id) = f[id]
      BY <2>1, FlushFile
    <3>2. id \in DOMAIN g
      BY <1>2, <2>1 DEF FlushIds
    <3> QED BY <1>1, <3>1, <3>2
  <2>2. CASE \E i \in 1..Len(q) : q[i][1] = id
    BY <1>2, <2>2 DEF FlushValue
  <2> QED BY <2>1, <2>2
<1> QED BY <1>1, <1>3 DEF FlushIds, g

\* Everything gets older.
LEMMA FlushOlder ==
  ASSUME NEW S, NEW q \in Seq(S), NEW f
  PROVE  LET p == [i \in DOMAIN q |-> <<q[i][1], Older(q[i][2])>>]
             g == [id \in DOMAIN f |-> Older(f[id])]
         IN  /\ FlushIds(p, g) = FlushIds(q, f)
             /\ \A id \in FlushIds(q, f) : FlushValue(p, g, id) = Older(FlushValue(q, f, id))
<1> DEFINE p == [i \in DOMAIN q |-> <<q[i][1], Older(q[i][2])>>]
           g == [id \in DOMAIN f |-> Older(f[id])]
           T == {<<q[i][1], Older(q[i][2])>> : i \in DOMAIN q}
<1>1. /\ p \in Seq(T) /\ Len(p) = Len(q) /\ DOMAIN q = 1..Len(q) /\ DOMAIN p = 1..Len(q)
      /\ \A i \in 1..Len(q) : p[i][1] = q[i][1] /\ p[i][2] = Older(q[i][2])
      /\ DOMAIN g = DOMAIN f /\ \A id \in DOMAIN f : g[id] = Older(f[id])
  OBVIOUS
<1> HIDE DEF p, g, T
<1>2. FlushIds(p, g) = FlushIds(q, f)
  BY <1>1 DEF FlushIds
<1>3. ASSUME NEW id \in FlushIds(q, f)
      PROVE  FlushValue(p, g, id) = Older(FlushValue(q, f, id))
  <2>1. CASE \A i \in 1..Len(q) : q[i][1] # id
    <3>1. FlushValue(p, g, id) = g[id]
      BY <1>1, <2>1, FlushFile
    <3>2. FlushValue(q, f, id) = f[id]
      BY <2>1, FlushFile
    <3>3. id \in DOMAIN f
      BY <1>1, <2>1 DEF FlushIds
    <3> QED BY <1>1, <3>1, <3>2, <3>3
  <2>2. CASE \E i \in 1..Len(q) : q[i][1] = id
    <3>1. PICK k \in 1..Len(q) : LastEntry(q, id, k) /\ FlushValue(q, f, id) = q[k][2]
      BY <2>2, FlushEntry
    <3>2. LastEntry(p, id, k)
      BY <1>1, <3>1 DEF LastEntry
    <3>3. FlushValue(p, g, id) = p[k][2]
      BY <1>1, <3>2, FlushLast
    <3> QED BY <1>1, <3>1, <3>3 DEF LastEntry
  <2> QED BY <2>1, <2>2
<1> QED BY <1>2, <1>3 DEF p, g
-----------------------------------------------------------------------------
(* The todo of a handler.                                                  *)

\* The parts of a step.
LEMMA StepShape ==
  ASSUME NEW e \in Steps
  PROVE  /\ e[1] \in {"load", "save", "renew", "unindex", "removeKey"} => e[2] \in Names
         /\ e[1] \in {"index", "auth"} => e[2] \in Names /\ e[3] \in Keys
         /\ e[1] = "persist" => /\ e[2] \in Ids /\ e[3] \in Agent
                                /\ e = <<"persist", e[2], e[3]>>
         /\ e[1] = "removeFile" => e[2] \in SUBSET Ids
  BY DEF Steps

\* A step comes before the others.
LEMMA Prepend ==
  ASSUME NEW S, NEW x \in S, NEW t \in Seq(S)
  PROVE  /\ <<x>> \o t \in Seq(S)
         /\ <<x>> \o t # << >>
         /\ Head(<<x>> \o t) = x
         /\ Tail(<<x>> \o t) = t
<1> DEFINE s == <<x>> \o t
<1>1. <<x>> \in Seq(S) /\ Len(<<x>>) = 1 /\ Len(t) \in Nat
  OBVIOUS
<1>2. s \in Seq(S) /\ Len(s) = Len(t) + 1
  BY <1>1
<1>3. s[1] = x /\ \A i \in 1..Len(t) : s[i + 1] = t[i]
  BY <1>1
<1> HIDE DEF s
<1>4. s # << >>
  BY <1>1, <1>2
<1>5. Head(s) = x
  BY <1>2, <1>3, <1>4, RangeTail
<1>6. /\ Tail(s) \in Seq(S) /\ Len(Tail(s)) = Len(t)
      /\ \A i \in 1..Len(t) : Tail(s)[i] = s[i + 1]
  BY <1>1, <1>2, <1>4
<1>7. Tail(s) = t
  BY <1>3, <1>6
<1> QED BY <1>2, <1>4, <1>5, <1>7 DEF s

\* The same, if nothing comes before.
LEMMA PrependNothing ==
  ASSUME NEW S, NEW t \in Seq(S)
  PROVE  << >> \o t = t
  OBVIOUS

\* A single step.
LEMMA Single ==
  ASSUME NEW x
  PROVE  <<x>> # << >> /\ Head(<<x>>) = x /\ Tail(<<x>>) = << >>
  OBVIOUS

AboutStep(e, n) ==
  \/ e[1] \in {"load", "save", "index", "auth", "renew", "unindex", "removeKey"} /\ e[2] = n
  \/ e[1] = "persist" /\ e[3].name = n

\* A todo that is about a name, or saves an agent, does so in its first step or in
\* a later one.
AboutSeq(s, n)   == \E i \in DOMAIN s : AboutStep(s[i], n)
SavingSeq(s, id) == \E i \in DOMAIN s : s[i][1] = "persist" /\ s[i][2] = id

LEMMA FirstOrLater ==
  ASSUME NEW S, NEW s \in Seq(S), s # << >>
  PROVE  /\ \A n : AboutSeq(s, n) <=> AboutStep(Head(s), n) \/ AboutSeq(Tail(s), n)
         /\ \A id : SavingSeq(s, id) <=>
              (Head(s)[1] = "persist" /\ Head(s)[2] = id) \/ SavingSeq(Tail(s), id)
<1> DEFINE t == Tail(s)
<1>1. /\ Len(s) \in Nat \ {0} /\ Len(t) = Len(s) - 1 /\ Head(s) = s[1]
      /\ \A i \in 1..(Len(s) - 1) : t[i] = s[i + 1]
      /\ DOMAIN s = 1..Len(s) /\ DOMAIN t = 1..Len(t)
  BY RangeTail
<1> HIDE DEF t
<1>2. \A i \in 1..Len(t) : i + 1 \in 1..Len(s) /\ s[i + 1] = t[i]
  BY <1>1
<1>3. \A i \in 1..Len(s) : i = 1 \/ (i - 1 \in 1..Len(t) /\ t[i - 1] = s[i])
  BY <1>1
<1>4. 1 \in 1..Len(s)
  BY <1>1
<1>5. \A i \in DOMAIN t : \E j \in DOMAIN s : s[j] = t[i]
  BY <1>1, <1>2
<1>6. \A i \in DOMAIN s : s[i] = Head(s) \/ \E j \in DOMAIN t : t[j] = s[i]
  BY <1>1, <1>3
<1>7. \E i \in DOMAIN s : s[i] = Head(s)
  BY <1>1, <1>4
<1>8. ASSUME NEW n
      PROVE  AboutSeq(s, n) <=> AboutStep(Head(s), n) \/ AboutSeq(t, n)
  BY <1>5, <1>6, <1>7, Zenon DEF AboutSeq
<1>9. ASSUME NEW id
      PROVE  SavingSeq(s, id) <=>
               (Head(s)[1] = "persist" /\ Head(s)[2] = id) \/ SavingSeq(t, id)
  <2>1. SavingSeq(s, id) => (Head(s)[1] = "persist" /\ Head(s)[2] = id) \/ SavingSeq(t, id)
    BY <1>6, Zenon DEF SavingSeq
  <2>2. SavingSeq(t, id) => SavingSeq(s, id)
    BY <1>5, Zenon DEF SavingSeq
  <2>3. Head(s)[1] = "persist" /\ Head(s)[2] = id => SavingSeq(s, id)
    <3>1. PICK i \in DOMAIN s : s[i] = Head(s)
      BY <1>7
    <3> QED BY <3>1 DEF SavingSeq
  <2> QED BY <2>1, <2>2, <2>3
<1> QED BY <1>8, <1>9 DEF t

LEMMA NothingToDo ==
  /\ \A n : ~AboutSeq(<< >>, n)
  /\ \A id : ~SavingSeq(<< >>, id)
  BY DEF AboutSeq, SavingSeq

\* What follows a renewal is about the same name and saves nothing yet.
LEMMA RestFacts ==
  ASSUME NEW n \in Names, NEW t \in Rest(n)
  PROVE  /\ t \in Seq(Steps)
         /\ \A m : AboutSeq(t, m) => m = n
         /\ \A id : ~SavingSeq(t, id)
         /\ t # << >> => /\ Head(t) \in {<<"renew", n>>, <<"unindex", n>>}
                         /\ Tail(t) = << >>
<1>1. <<"renew", n>> \in Steps /\ <<"unindex", n>> \in Steps
  BY DEF Steps
<1>2. CASE t = << >>
  BY <1>2, NothingToDo
<1>3. CASE t # << >>
  <2>1. PICK e \in {<<"renew", n>>, <<"unindex", n>>} : t = <<e>>
    BY <1>3 DEF Rest
  <2>2. t \in Seq(Steps) /\ Head(t) = e /\ Tail(t) = << >>
    BY <1>1, <2>1
  <2>3. e[1] # "persist" /\ e[2] = n /\ \A m : AboutStep(e, m) => m = n
    BY <2>1 DEF AboutStep
  <2> QED BY <1>3, <2>1, <2>2, <2>3, FirstOrLater, NothingToDo
<1> QED BY <1>2, <1>3

\* A command is about its name from the first step to the last, and saves an agent
\* only in its first step.
LEMMA WorkFacts ==
  ASSUME NEW n \in Names, NEW s \in Seq(Steps), Work1(s, n)
  PROVE  /\ \A m : AboutSeq(s, m) <=> s # << >> /\ m = n
         /\ \A id : SavingSeq(s, id) <=>
              s # << >> /\ Head(s)[1] = "persist" /\ Head(s)[2] = id
<1>1. CASE s = << >>
  BY <1>1, NothingToDo
<1>2. CASE s # << >>
  <2>1. /\ \A m : AboutSeq(s, m) <=> AboutStep(Head(s), m) \/ AboutSeq(Tail(s), m)
        /\ \A id : SavingSeq(s, id) <=>
             (Head(s)[1] = "persist" /\ Head(s)[2] = id) \/ SavingSeq(Tail(s), id)
    BY <1>2, FirstOrLater
  <2>2. Tail(s) \in Seq(Steps)
    BY <1>2
  <2>3. CASE /\ Head(s)[1] \in {"load", "save", "index", "unindex", "removeKey"}
             /\ Head(s)[2] = n /\ Tail(s) = << >>
    <3>1. \A m : AboutStep(Head(s), m) <=> m = n
      BY <2>3 DEF AboutStep
    <3> QED BY <1>2, <2>1, <2>3, <3>1, NothingToDo
  <2>4. CASE /\ Head(s)[1] = "auth" /\ Head(s)[2] = n /\ Tail(s) # << >>
             /\ Head(Tail(s)) = <<"renew", n>> /\ Tail(Tail(s)) \in Rest(n)
    <3>1. \A m : (AboutStep(Head(s), m) <=> m = n) /\ (AboutStep(Head(Tail(s)), m) <=> m = n)
      BY <2>4 DEF AboutStep
    <3>2. /\ \A m : AboutSeq(Tail(s), m) <=> AboutStep(Head(Tail(s)), m) \/ AboutSeq(Tail(Tail(s)), m)
          /\ \A id : SavingSeq(Tail(s), id) <=>
               \/ Head(Tail(s))[1] = "persist" /\ Head(Tail(s))[2] = id
               \/ SavingSeq(Tail(Tail(s)), id)
      BY <2>2, <2>4, FirstOrLater
    <3>3. /\ \A m : AboutSeq(Tail(Tail(s)), m) => m = n
          /\ \A id : ~SavingSeq(Tail(Tail(s)), id)
      BY <2>4, RestFacts
    <3>4. Head(Tail(s))[1] # "persist" /\ Head(s)[1] # "persist"
      BY <2>4
    <3> QED BY <1>2, <2>1, <3>1, <3>2, <3>3, <3>4
  <2>5. CASE /\ Head(s)[1] = "renew" /\ Head(s)[2] = n /\ Tail(s) \in Rest(n)
    <3>1. \A m : AboutStep(Head(s), m) <=> m = n
      BY <2>5 DEF AboutStep
    <3>2. /\ \A m : AboutSeq(Tail(s), m) => m = n
          /\ \A id : ~SavingSeq(Tail(s), id)
      BY <2>5, RestFacts
    <3> QED BY <1>2, <2>1, <2>5, <3>1, <3>2
  <2>6. CASE /\ Head(s)[1] = "persist" /\ Head(s)[3].name = n /\ Tail(s) \in Rest(n)
    <3>1. \A m : AboutStep(Head(s), m) <=> m = n
      BY <2>6 DEF AboutStep
    <3>2. /\ \A m : AboutSeq(Tail(s), m) => m = n
          /\ \A id : ~SavingSeq(Tail(s), id)
      BY <2>6, RestFacts
    <3> QED BY <1>2, <2>1, <2>6, <3>1, <3>2
  <2>7. CASE Head(s)[1] = "removeFile" /\ Tail(s) = << <<"removeKey", n>> >>
    <3>1. \A m : ~AboutStep(Head(s), m) /\ (AboutStep(<<"removeKey", n>>, m) <=> m = n)
      BY <2>7 DEF AboutStep
    <3> PICK e : e = <<"removeKey", n>>
      OBVIOUS
    <3>2. Tail(s) # << >> /\ Head(Tail(s)) = e /\ Tail(Tail(s)) = << >>
      BY <2>7, Single
    <3>3. /\ \A m : AboutSeq(Tail(s), m) <=> AboutStep(Head(Tail(s)), m) \/ AboutSeq(Tail(Tail(s)), m)
          /\ \A id : SavingSeq(Tail(s), id) <=>
               \/ Head(Tail(s))[1] = "persist" /\ Head(Tail(s))[2] = id
               \/ SavingSeq(Tail(Tail(s)), id)
      BY <2>2, <3>2, FirstOrLater
    <3>4. Head(Tail(s))[1] # "persist" /\ Head(s)[1] # "persist"
      BY <2>7, <3>2
    <3>5. \A m : AboutStep(e, m) <=> m = n
      BY <3>1
    <3> QED BY <1>2, <2>1, <3>1, <3>2, <3>3, <3>4, <3>5, NothingToDo
  <2> QED BY <1>2, <2>3, <2>4, <2>5, <2>6, <2>7 DEF Work1
<1> QED BY <1>1, <1>2

-----------------------------------------------------------------------------
(* What the actions do to the todo.                                        *)

\* A command about name n goes on with s.
Move(c, n, s) ==
  /\ todo[c] # << >> /\ Work1(todo[c], n)
  /\ s \in Seq(Steps) /\ Work1(s, n)
  /\ todo' = [todo EXCEPT ![c] = s]

LEMMA MoveTypes ==
  ASSUME TodoTypes, NEW c \in Clients, NEW n \in Names, NEW s, Move(c, n, s)
  PROVE  /\ TodoTypes'
         /\ todo'[c] = s
         /\ \A p \in Procs \ {c} : todo'[p] = todo[p]
<1>1. todo \in [Procs -> Seq(Steps)] /\ c \in Procs /\ Sweeper \in Procs /\ c # Sweeper
  BY RegistryAssumption DEF TodoTypes, Procs
<1>2. todo' \in [Procs -> Seq(Steps)] /\ todo'[c] = s /\ \A p \in Procs \ {c} : todo'[p] = todo[p]
  BY <1>1 DEF Move
<1>3. \A d \in Clients : todo'[d] # << >> => \E m \in Names : Work1(todo'[d], m)
  <2> SUFFICES ASSUME NEW d \in Clients, todo'[d] # << >> PROVE \E m \in Names : Work1(todo'[d], m)
    OBVIOUS
  <2>1. CASE d = c
    BY <1>2, <2>1 DEF Move
  <2>2. CASE d # c
    <3>1. todo'[d] = todo[d]
      BY <1>2, <2>2 DEF Procs
    <3> QED BY <3>1 DEF TodoTypes
  <2> QED BY <2>1, <2>2
<1>4. todo'[Sweeper] = todo[Sweeper]
  BY <1>1, <1>2
<1> QED BY <1>2, <1>3, <1>4 DEF TodoTypes

\* A client that has something to do works on a command.
LEMMA ClientWork ==
  ASSUME TodoTypes, NEW c \in Clients, todo[c] # << >>
  PROVE  /\ todo[c] \in Seq(Steps)
         /\ Head(todo[c]) \in Steps
         /\ Tail(todo[c]) \in Seq(Steps)
         /\ \E n \in Names : Work1(todo[c], n)
<1>1. todo[c] \in Seq(Steps)
  BY DEF TodoTypes, Procs
<1>2. \E n \in Names : Work1(todo[c], n)
  BY DEF TodoTypes
<1> QED BY <1>1, <1>2, RangeTail

\* The new todo if a step is replaced by another one, or is done.
LEMMA InsteadStep ==
  ASSUME TodoTypes, NEW c \in Clients, todo[c] # << >>, NEW x \in Steps,
         Instead(c, <<x>>)
  PROVE  \E s \in Seq(Steps) :
           s # << >> /\ Head(s) = x /\ Tail(s) = Tail(todo[c]) /\ todo' = [todo EXCEPT ![c] = s]
<1>1. Tail(todo[c]) \in Seq(Steps)
  BY ClientWork
<1> QED BY <1>1, Prepend DEF Instead, Then

LEMMA InsteadNothing ==
  ASSUME TodoTypes, NEW c \in Clients, todo[c] # << >>, Instead(c, << >>)
  PROVE  todo' = [todo EXCEPT ![c] = Tail(todo[c])]
<1>1. Tail(todo[c]) \in Seq(Steps)
  BY ClientWork
<1>2. << >> \o Tail(todo[c]) = Tail(todo[c])
  BY <1>1, PrependNothing
<1> QED BY <1>2 DEF Instead, Then

\* The command is over.
LEMMA EndOfCommand ==
  ASSUME TodoTypes, NEW c \in Clients, todo[c] # << >>, NEW n \in Names, Work1(todo[c], n),
         Then(c, << >>)
  PROVE  \E s \in Seq(Steps) : s = << >> /\ Move(c, n, s)
<1>1. << >> \in Seq(Steps)
  OBVIOUS
<1>2. Work1(<< >>, n)
  BY DEF Work1
<1> QED BY <1>1, <1>2 DEF Move, Then

LEMMA LoadMove ==
  ASSUME RegistryTypes, TodoTypes, NEW c \in Clients, LoadKey(c)
  PROVE  \E n \in Names, s \in Seq(Steps) :
           /\ Move(c, n, s)
           /\ Head(todo[c])[1] = "load"
           /\ s # << >>
           /\ \/ Head(s) = <<"index", n, keys[n]>>
              \/ Head(s) = <<"save", n>> /\ keys[n] = 0
<1>1. todo[c] # << >> /\ Head(todo[c])[1] = "load"
  BY DEF LoadKey, Doing, Idle, Step
<1>2. PICK n \in Names : Work1(todo[c], n)
  BY <1>1, ClientWork
<1>3. Head(todo[c])[2] = n /\ Tail(todo[c]) = << >>
  BY <1>1, <1>2 DEF Work1
<1>4. PICK x : x = IF keys[n] # 0 THEN <<"index", n, keys[n]>> ELSE <<"save", n>>
  OBVIOUS
<1>5. keys[n] \in {0} \union Keys
  BY DEF RegistryTypes
<1>6. x \in Steps
  BY <1>4, <1>5 DEF Steps
<1>7. Instead(c, <<x>>)
  BY <1>3, <1>4 DEF LoadKey, Step
<1>8. PICK s \in Seq(Steps) :
        s # << >> /\ Head(s) = x /\ Tail(s) = Tail(todo[c]) /\ todo' = [todo EXCEPT ![c] = s]
  BY <1>1, <1>6, <1>7, InsteadStep
<1>9. Head(s)[1] \in {"index", "save"} /\ Head(s)[2] = n
  BY <1>4, <1>8
<1>10. Work1(s, n)
  BY <1>3, <1>8, <1>9 DEF Work1
<1>11. Head(s) = <<"index", n, keys[n]>> \/ (Head(s) = <<"save", n>> /\ keys[n] = 0)
  BY <1>4, <1>8
<1>12. Move(c, n, s)
  BY <1>1, <1>2, <1>8, <1>10 DEF Move
<1> QED BY <1>1, <1>8, <1>11, <1>12

LEMMA SaveMove ==
  ASSUME RegistryTypes, TodoTypes, NEW c \in Clients, SaveKey(c)
  PROVE  \E n \in Names, s \in Seq(Steps) :
           /\ Move(c, n, s)
           /\ Head(todo[c])[1] = "save"
           /\ \/ /\ s # << >> /\ Head(s) = <<"index", n, lastKey'>>
                 /\ lastKey' \in Keys
                 /\ keys' = [keys EXCEPT ![n] = lastKey']
              \/ s = << >> /\ UNCHANGED <<keys, lastKey>>
<1>1. todo[c] # << >> /\ Head(todo[c])[1] = "save"
  BY DEF SaveKey, Doing, Idle, Step
<1>2. PICK n \in Names : Work1(todo[c], n)
  BY <1>1, ClientWork
<1>3. Head(todo[c])[2] = n /\ Tail(todo[c]) = << >>
  BY <1>1, <1>2 DEF Work1
<1>4. CASE /\ lastKey < MaxKeys /\ lastKey' = lastKey + 1
           /\ keys' = [keys EXCEPT ![n] = lastKey']
           /\ Instead(c, << <<"index", n, lastKey'>> >>)
  <2>1. lastKey' \in Keys
    BY <1>4, RegistryAssumption DEF RegistryTypes, Keys
  <2>2. PICK x : x = <<"index", n, lastKey'>>
    OBVIOUS
  <2>3. x \in Steps
    BY <2>1, <2>2 DEF Steps
  <2>4. PICK s \in Seq(Steps) :
          s # << >> /\ Head(s) = x /\ Tail(s) = Tail(todo[c]) /\ todo' = [todo EXCEPT ![c] = s]
    BY <1>1, <1>4, <2>2, <2>3, InsteadStep
  <2>5. Head(s)[1] = "index" /\ Head(s)[2] = n
    BY <2>2, <2>4
  <2>6. Work1(s, n)
    BY <1>3, <2>4, <2>5 DEF Work1
  <2>7. Move(c, n, s)
    BY <1>1, <1>2, <2>4, <2>6 DEF Move
  <2> QED BY <1>1, <1>4, <2>1, <2>2, <2>4, <2>7
<1>5. CASE Then(c, << >>) /\ UNCHANGED <<keys, lastKey>>
  <2>1. PICK s \in Seq(Steps) : s = << >> /\ Move(c, n, s)
    BY <1>1, <1>2, <1>5, EndOfCommand
  <2> QED BY <1>1, <1>5, <2>1
<1> QED BY <1>3, <1>4, <1>5 DEF SaveKey, Step

LEMMA IndexMove ==
  ASSUME RegistryTypes, TodoTypes, NEW c \in Clients, IndexAgent(c)
  PROVE  \E n \in Names, s \in Seq(Steps) :
           /\ Move(c, n, s)
           /\ Head(todo[c])[1] = "index"
           /\ \/ s = << >> /\ UNCHANGED <<memVars, lastId>>
              \/ \E id \in Ids, a \in Agent :
                   /\ s # << >> /\ Head(s) = <<"persist", id, a>>
                   /\ a.name = n /\ a.pub = Head(todo[c])[3]
                   /\ id = IdFor(n)
                   /\ Index(id, a)
                   /\ lastId' = Max({lastId, id})
<1>1. todo[c] # << >> /\ Head(todo[c])[1] = "index"
  BY DEF IndexAgent, Doing, Idle, Step
<1>2. PICK n \in Names : Work1(todo[c], n)
  BY <1>1, ClientWork
<1>3. Head(todo[c])[2] = n /\ Tail(todo[c]) = << >>
  BY <1>1, <1>2 DEF Work1
<1>4. PICK k \in Keys : k = Head(todo[c])[3]
  <2>1. Head(todo[c])[3] \in Keys
    BY <1>1, ClientWork, StepShape
  <2> QED BY <2>1
<1>5. PICK a : a = [name |-> n, pid |-> c, session |-> Session[c], pub |-> k, age |-> 0]
  OBVIOUS
<1>6. a \in Agent /\ a.name = n /\ a.pub = k
  BY <1>5 DEF Agent, Keys
<1>7. PICK id : id = IdFor(n)
  OBVIOUS
<1>8. CASE Then(c, << >>) /\ UNCHANGED <<memVars, lastId>>
  <2>1. PICK s \in Seq(Steps) : s = << >> /\ Move(c, n, s)
    BY <1>1, <1>2, <1>8, EndOfCommand
  <2> QED BY <1>1, <1>8, <2>1
<1>9. CASE /\ id \in Ids /\ Index(id, a) /\ lastId' = Max({lastId, id})
           /\ Instead(c, << <<"persist", id, a>> >>)
  <2>1. PICK x : x = <<"persist", id, a>>
    OBVIOUS
  <2>2. x \in Steps
    BY <1>6, <1>9, <2>1 DEF Steps
  <2>3. PICK s \in Seq(Steps) :
          s # << >> /\ Head(s) = x /\ Tail(s) = Tail(todo[c]) /\ todo' = [todo EXCEPT ![c] = s]
    BY <1>1, <1>9, <2>1, <2>2, InsteadStep
  <2>4. Head(s)[1] = "persist" /\ Head(s)[3].name = n /\ Tail(s) = << >>
    <3>1. x[1] = "persist" /\ x[3] = a
      BY <2>1
    <3>2. x[3].name = n
      BY <1>6, <3>1
    <3> QED BY <1>3, <2>3, <3>1, <3>2
  <2>5. Work1(s, n)
    BY <2>4 DEF Work1, Rest
  <2>6. Move(c, n, s)
    BY <1>1, <1>2, <2>3, <2>5 DEF Move
  <2> QED BY <1>1, <1>4, <1>6, <1>7, <1>9, <2>1, <2>3, <2>6
<1> QED BY <1>3, <1>4, <1>5, <1>7, <1>8, <1>9 DEF IndexAgent, Step

LEMMA PersistMove ==
  ASSUME RegistryTypes, TodoTypes, NEW c \in Clients, PersistAgent(c)
  PROVE  \E n \in Names, s \in Seq(Steps), id \in Ids, a \in Agent :
           /\ Move(c, n, s)
           /\ Head(todo[c]) = <<"persist", id, a>>
           /\ a.name = n
           /\ s \in Rest(n)
           /\ queue' = Append(queue, <<id, a>>)
           /\ removed' = IF id \in DOMAIN agents THEN removed \ {id} ELSE removed
           /\ crossed' = crossed \union {x \in {id} : \E p \in Clients \ {c} : Saving(p, id)}
<1>1. todo[c] # << >> /\ Head(todo[c])[1] = "persist"
  BY DEF PersistAgent, Doing, Idle, Step
<1>2. PICK n \in Names : Work1(todo[c], n)
  BY <1>1, ClientWork
<1>3. Head(todo[c])[3].name = n /\ Tail(todo[c]) \in Rest(n)
  BY <1>1, <1>2 DEF Work1
<1>4. PICK id \in Ids, a \in Agent : Head(todo[c]) = <<"persist", id, a>>
  BY <1>1, ClientWork, StepShape
<1>5. PICK s \in Seq(Steps) : s = Tail(todo[c])
  BY <1>1, ClientWork
<1>6. todo' = [todo EXCEPT ![c] = s]
  BY <1>1, <1>5, InsteadNothing DEF PersistAgent
<1>7. Work1(s, n)
  <2>1. s # << >> => Head(s) \in {<<"renew", n>>, <<"unindex", n>>} /\ Tail(s) = << >>
    BY <1>3, <1>5, RestFacts
  <2>2. s # << >> => Head(s)[1] \in {"renew", "unindex"} /\ Head(s)[2] = n
    BY <2>1
  <2> QED BY <2>1, <2>2 DEF Work1, Rest
<1>8. Move(c, n, s)
  BY <1>1, <1>2, <1>6, <1>7 DEF Move
<1>9. a.name = n
  BY <1>3, <1>4
<1>10. /\ queue' = Append(queue, <<id, a>>)
       /\ removed' = IF id \in DOMAIN agents THEN removed \ {id} ELSE removed
       /\ crossed' = crossed \union {x \in {id} : \E p \in Clients \ {c} : Saving(p, id)}
  <2>1. Step(c)[2] = id /\ Step(c)[3] = a
    BY <1>4 DEF Step
  <2> QED BY <2>1 DEF PersistAgent
<1>11. s \in Rest(n)
  BY <1>3, <1>5
<1> QED BY <1>4, <1>8, <1>9, <1>10, <1>11

LEMMA AuthMove ==
  ASSUME RegistryTypes, TodoTypes, NEW c \in Clients, Authenticate(c)
  PROVE  \E n \in Names, s \in Seq(Steps) :
           /\ Move(c, n, s)
           /\ Head(todo[c])[1] = "auth"
           /\ \/ s = << >>
              \/ /\ s # << >> /\ Head(s) = <<"renew", n>>
                 /\ nameIdx[n] # 0 /\ agents[nameIdx[n]].pub = Head(todo[c])[3]
<1>1. todo[c] # << >> /\ Head(todo[c])[1] = "auth"
  BY DEF Authenticate, Doing, Idle, Step
<1>2. PICK n \in Names : Work1(todo[c], n)
  BY <1>1, ClientWork
<1>3. PICK t \in Seq(Steps) : t = Tail(todo[c])
  BY <1>1, ClientWork
<1>4. Head(todo[c])[2] = n /\ t # << >> /\ Head(t) = <<"renew", n>> /\ Tail(t) \in Rest(n)
  BY <1>1, <1>2, <1>3 DEF Work1
<1>5. CASE Then(c, << >>)
  <2>1. PICK s \in Seq(Steps) : s = << >> /\ Move(c, n, s)
    BY <1>1, <1>2, <1>5, EndOfCommand
  <2> QED BY <1>1, <2>1
<1>6. CASE /\ nameIdx[n] # 0 /\ agents[nameIdx[n]].pub = Head(todo[c])[3]
           /\ Instead(c, << >>)
  <2>1. todo' = [todo EXCEPT ![c] = t]
    BY <1>1, <1>3, <1>6, InsteadNothing
  <2>2. Head(t)[1] = "renew" /\ Head(t)[2] = n
    BY <1>4
  <2>3. Move(c, n, t)
    BY <1>1, <1>2, <1>4, <2>1, <2>2 DEF Move, Work1
  <2> QED BY <1>1, <1>4, <1>6, <2>3
<1> QED BY <1>4, <1>5, <1>6 DEF Authenticate, Step

LEMMA RenewMove ==
  ASSUME RegistryTypes, TodoTypes, NEW c \in Clients, RenewLease(c),
         \A n \in Names : nameIdx[n] # 0 =>
           nameIdx[n] \in DOMAIN agents /\ agents[nameIdx[n]].name = n
  PROVE  \E n \in Names, s \in Seq(Steps) :
           /\ Move(c, n, s)
           /\ Head(todo[c])[1] = "renew"
           /\ \/ s \in Rest(n) /\ UNCHANGED agents
              \/ \E id \in Ids, a \in Agent :
                   /\ id = nameIdx[n] /\ id \in DOMAIN agents
                   /\ a.name = agents[id].name /\ a.pub = agents[id].pub
                   /\ agents' = [agents EXCEPT ![id] = a]
                   /\ s # << >> /\ Head(s) = <<"persist", id, a>>
<1>1. todo[c] # << >> /\ Head(todo[c])[1] = "renew"
  BY DEF RenewLease, Doing, Idle, Step
<1>2. PICK n \in Names : Work1(todo[c], n)
  BY <1>1, ClientWork
<1>3. Head(todo[c])[2] = n /\ Tail(todo[c]) \in Rest(n)
  BY <1>1, <1>2 DEF Work1
<1>4. PICK id : id = nameIdx[n]
  OBVIOUS
<1>5. CASE id = 0 /\ Instead(c, << >>) /\ UNCHANGED agents
  <2>1. PICK s \in Seq(Steps) : s = Tail(todo[c])
    BY <1>1, ClientWork
  <2>2. todo' = [todo EXCEPT ![c] = s]
    BY <1>1, <1>5, <2>1, InsteadNothing
  <2>3. s # << >> => Head(s)[1] \in {"renew", "unindex"} /\ Head(s)[2] = n /\ Tail(s) = << >>
    <3>1. s # << >> => Head(s) \in {<<"renew", n>>, <<"unindex", n>>} /\ Tail(s) = << >>
      BY <1>3, <2>1, RestFacts
    <3> QED BY <3>1
  <2>4. Work1(s, n)
    BY <2>3 DEF Work1, Rest
  <2> QED BY <1>1, <1>2, <1>3, <1>5, <2>1, <2>2, <2>4 DEF Move
<1>6. CASE /\ id # 0 /\ agents' = [agents EXCEPT ![id].age = 0]
           /\ Instead(c, << <<"persist", id, agents'[id]>> >>)
  <2>1. id \in DOMAIN agents /\ id \in Ids /\ agents[id] \in Agent /\ agents[id].name = n
    BY <1>4, <1>6 DEF RegistryTypes
  <2>2. PICK a : a = [agents[id] EXCEPT !.age = 0]
    OBVIOUS
  <2>3. a \in Agent /\ a.name = n /\ a.pub = agents[id].pub
    BY <2>1, <2>2 DEF Agent
  <2>4. agents' = [agents EXCEPT ![id] = a] /\ agents'[id] = a
    BY <1>6, <2>1, <2>2
  <2>5. PICK x : x = <<"persist", id, a>>
    OBVIOUS
  <2>6. x \in Steps /\ x[1] = "persist" /\ x[3].name = n
    BY <2>1, <2>3, <2>5 DEF Steps
  <2>10. Instead(c, <<x>>)
    BY <1>6, <2>4, <2>5
  <2>7. PICK s \in Seq(Steps) :
          s # << >> /\ Head(s) = x /\ Tail(s) = Tail(todo[c]) /\ todo' = [todo EXCEPT ![c] = s]
    BY <1>1, <2>6, <2>10, InsteadStep
  <2>8. Work1(s, n)
    BY <1>3, <2>6, <2>7 DEF Work1
  <2>9. Move(c, n, s)
    BY <1>1, <1>2, <2>7, <2>8 DEF Move
  <2> QED BY <1>1, <1>4, <2>1, <2>3, <2>4, <2>5, <2>7, <2>9
<1> QED BY <1>3, <1>4, <1>5, <1>6 DEF RenewLease, Step

LEMMA UnindexMove ==
  ASSUME RegistryTypes, TodoTypes, NEW c \in Clients, UnindexAgent(c)
  PROVE  \E n \in Names, s \in Seq(Steps) :
           /\ Move(c, n, s)
           /\ Head(todo[c])[1] = "unindex"
           /\ \/ s = << >> /\ UNCHANGED <<memVars, removed>>
              \/ \E id \in Ids :
                   /\ id = nameIdx[n]
                   /\ Unindex({id})
                   /\ removed' = removed \union {id}
                   /\ s # << >> /\ Head(s) = <<"removeFile", {id}>>
<1>1. todo[c] # << >> /\ Head(todo[c])[1] = "unindex"
  BY DEF UnindexAgent, Doing, Idle, Step
<1>2. PICK n \in Names : Work1(todo[c], n)
  BY <1>1, ClientWork
<1>3. Head(todo[c])[2] = n /\ Tail(todo[c]) = << >>
  BY <1>1, <1>2 DEF Work1
<1>4. PICK id \in {0} \union Ids : id = nameIdx[n]
  BY DEF RegistryTypes
<1>5. CASE Instead(c, << >>) /\ UNCHANGED <<memVars, removed>>
  <2>1. Then(c, << >>)
    BY <1>1, <1>3, <1>5, InsteadNothing DEF Then
  <2>2. PICK s \in Seq(Steps) : s = << >> /\ Move(c, n, s)
    BY <1>1, <1>2, <2>1, EndOfCommand
  <2> QED BY <1>1, <1>5, <2>2
<1>6. CASE /\ id # 0 /\ Unindex({id}) /\ removed' = removed \union {id}
           /\ Instead(c, << <<"removeFile", {id}>>, <<"removeKey", n>> >>)
  <2>1. PICK x \in Steps, y \in Steps : x = <<"removeFile", {id}>> /\ y = <<"removeKey", n>>
    <3>1. {id} \in SUBSET Ids
      BY <1>4, <1>6
    <3>2. <<"removeFile", {id}>> \in Steps
      BY <3>1, Zenon DEF Steps
    <3>3. <<"removeKey", n>> \in Steps
      BY DEF Steps
    <3> QED BY <3>2, <3>3
  <2>2. /\ <<x, y>> \in Seq(Steps) /\ <<x, y>> # << >>
        /\ Head(<<x, y>>) = x /\ Tail(<<x, y>>) = <<y>> /\ <<x, y>> \o << >> = <<x, y>>
    OBVIOUS
  <2>3. PICK s \in Seq(Steps) : s = <<x, y>>
    BY <2>2
  <2>4. s # << >> /\ Head(s) = x /\ Tail(s) = <<y>>
    BY <2>2, <2>3
  <2>8. todo' = [todo EXCEPT ![c] = s]
    BY <1>3, <1>6, <2>1, <2>2, <2>3 DEF Instead, Then
  <2>5. Head(s)[1] = "removeFile"
    BY <2>1, <2>4
  <2>6. Work1(s, n)
    BY <2>1, <2>4, <2>5 DEF Work1
  <2>7. Move(c, n, s)
    BY <1>1, <1>2, <2>3, <2>6, <2>8 DEF Move
  <2> QED BY <1>1, <1>4, <1>6, <2>1, <2>4, <2>7
<1> QED BY <1>3, <1>4, <1>5, <1>6 DEF UnindexAgent, Step

LEMMA RemoveFileMove ==
  ASSUME RegistryTypes, TodoTypes, NEW c \in Clients, RemoveAgentFile(c)
  PROVE  \E n \in Names, s \in Seq(Steps) :
           /\ Move(c, n, s)
           /\ Head(todo[c])[1] = "removeFile"
           /\ \E id \in Head(todo[c])[2] : files' = Without(files, {id})
           /\ s # << >>
           /\ \/ Head(s)[1] = "removeKey"
              \/ Head(s)[1] = "removeFile" /\ Head(s)[2] \subseteq Head(todo[c])[2]
<1>1. todo[c] # << >> /\ Head(todo[c])[1] = "removeFile"
  BY DEF RemoveAgentFile, Doing, Idle, Step
<1>2. PICK n \in Names : Work1(todo[c], n)
  BY <1>1, ClientWork
<1>3. Tail(todo[c]) = << <<"removeKey", n>> >>
  BY <1>1, <1>2 DEF Work1
<1>4. PICK G \in SUBSET Ids : G = Head(todo[c])[2]
  BY <1>1, ClientWork, StepShape
<1>5. PICK id \in G : /\ files' = Without(files, {id})
                      /\ Instead(c, IF G = {id} THEN << >> ELSE << <<"removeFile", G \ {id}>> >>)
  BY <1>4 DEF RemoveAgentFile, Step
<1>6. PICK y : y = <<"removeKey", n>>
  OBVIOUS
<1>7. CASE G = {id}
  <2>1. PICK s \in Seq(Steps) : s = Tail(todo[c])
    BY <1>1, ClientWork
  <2>2. todo' = [todo EXCEPT ![c] = s]
    BY <1>1, <1>5, <1>7, <2>1, InsteadNothing
  <2>3. s # << >> /\ Head(s) = y /\ Tail(s) = << >>
    BY <1>3, <1>6, <2>1, Single
  <2>4. Head(s)[1] = "removeKey" /\ Head(s)[2] = n
    BY <1>6, <2>3
  <2>5. Work1(s, n)
    BY <2>3, <2>4 DEF Work1
  <2>6. Move(c, n, s)
    BY <1>1, <1>2, <2>2, <2>5 DEF Move
  <2> QED BY <1>1, <1>4, <1>5, <2>3, <2>4, <2>6
<1>8. CASE G # {id}
  <2>1. PICK x : x = <<"removeFile", G \ {id}>>
    OBVIOUS
  <2>2. x \in Steps
    <3>1. G \ {id} \in SUBSET Ids
      OBVIOUS
    <3> QED BY <2>1, <3>1, Zenon DEF Steps
  <2>3. Instead(c, <<x>>)
    BY <1>5, <1>8, <2>1
  <2>4. PICK s \in Seq(Steps) :
          s # << >> /\ Head(s) = x /\ Tail(s) = Tail(todo[c]) /\ todo' = [todo EXCEPT ![c] = s]
    BY <1>1, <2>2, <2>3, InsteadStep
  <2>5. Head(s)[1] = "removeFile" /\ Head(s)[2] \subseteq G
    BY <2>1, <2>4
  <2>6. Work1(s, n)
    BY <1>3, <2>4, <2>5 DEF Work1
  <2>7. Move(c, n, s)
    BY <1>1, <1>2, <2>4, <2>6 DEF Move
  <2> QED BY <1>1, <1>4, <1>5, <2>4, <2>5, <2>7
<1> QED BY <1>7, <1>8

LEMMA RemoveKeyMove ==
  ASSUME RegistryTypes, TodoTypes, NEW c \in Clients, RemoveKey(c)
  PROVE  \E n \in Names, s \in Seq(Steps) :
           /\ Move(c, n, s)
           /\ Head(todo[c])[1] = "removeKey"
           /\ s = << >>
           /\ keys' = [keys EXCEPT ![n] = 0]
<1>1. todo[c] # << >> /\ Head(todo[c])[1] = "removeKey"
  BY DEF RemoveKey, Doing, Idle, Step
<1>2. PICK n \in Names : Work1(todo[c], n)
  BY <1>1, ClientWork
<1>3. Head(todo[c])[2] = n /\ Tail(todo[c]) = << >>
  BY <1>1, <1>2 DEF Work1
<1>4. Then(c, << >>)
  BY <1>1, <1>3, InsteadNothing DEF RemoveKey, Then
<1>5. PICK s \in Seq(Steps) : s = << >> /\ Move(c, n, s)
  BY <1>1, <1>2, <1>4, EndOfCommand
<1> QED BY <1>1, <1>3, <1>5 DEF RemoveKey, Step

\* A client that was idle starts with s.
LEMMA CommandMove ==
  ASSUME RegistryTypes, TodoTypes, NEW c \in Clients, NEW n \in Uses[c],
         Register(c, n) \/ \E op \in Requests : Request(c, n, op)
  PROVE  /\ n \in Names
         /\ \E s \in Seq(Steps) :
              /\ Command(c, n, s)
              /\ todo[c] = << >> /\ todo' = [todo EXCEPT ![c] = s]
              /\ s # << >> /\ Work1(s, n)
              /\ \/ Head(s) = <<"load", n>>
                 \/ Head(s) = <<"auth", n, keys[n]>>
<1>1. n \in Names
  BY RegistryAssumption
<1>2. CASE Register(c, n)
  <2>1. PICK x \in Steps : x = <<"load", n>>
    BY <1>1 DEF Steps
  <2>2. <<x>> \in Seq(Steps) /\ <<x>> # << >> /\ Head(<<x>>) = x /\ Tail(<<x>>) = << >>
    OBVIOUS
  <2>3. PICK s \in Seq(Steps) : s = <<x>>
    BY <2>2
  <2>4. Head(s)[1] = "load" /\ Head(s)[2] = n /\ s # << >> /\ Tail(s) = << >>
    BY <2>1, <2>2, <2>3
  <2>5. Work1(s, n)
    BY <2>4 DEF Work1
  <2>6. Command(c, n, s)
    BY <1>2, <2>1, <2>3 DEF Register
  <2>7. todo[c] = << >> /\ todo' = [todo EXCEPT ![c] = s]
    BY <2>6 DEF Command, Idle, Then
  <2> QED BY <1>1, <2>1, <2>2, <2>3, <2>5, <2>6, <2>7
<1>3. ASSUME NEW op \in Requests, Request(c, n, op)
      PROVE  \E s \in Seq(Steps) :
               /\ Command(c, n, s)
               /\ todo[c] = << >> /\ todo' = [todo EXCEPT ![c] = s]
               /\ s # << >> /\ Work1(s, n)
               /\ Head(s) = <<"auth", n, keys[n]>>
  <2>1. keys[n] \in Keys
    BY <1>1, <1>3 DEF Request, RegistryTypes
  <2>2. PICK x \in Steps : x = <<"auth", n, keys[n]>>
    BY <1>1, <2>1 DEF Steps
  <2>3. PICK y \in Steps : y = <<"renew", n>>
    BY <1>1 DEF Steps
  <2>4. op \in {"renew", "unregister", "other"}
    BY RegistryAssumption
  <2>5. PICK t \in Rest(n) :
          t = CASE op = "unregister" -> << <<"unindex", n>> >>
                [] op = "renew"      -> << <<"renew", n>> >>
                [] op = "other"      -> << >>
    BY <2>4 DEF Rest
  <2>6. Command(c, n, <<x, y>> \o t)
    BY <1>3, <2>2, <2>3, <2>5 DEF Request
  <2>7. t \in Seq(Steps)
    BY <1>1, <2>5, RestFacts
  <2>8. <<x, y>> \o t = <<x>> \o (<<y>> \o t)
    BY <2>7
  <2>9. PICK u \in Seq(Steps) : u = <<y>> \o t /\ u # << >> /\ Head(u) = y /\ Tail(u) = t
    BY <2>7, Prepend
  <2>10. PICK s \in Seq(Steps) : s = <<x>> \o u /\ s # << >> /\ Head(s) = x /\ Tail(s) = u
    <3>1. /\ <<x>> \o u \in Seq(Steps) /\ <<x>> \o u # << >>
          /\ Head(<<x>> \o u) = x /\ Tail(<<x>> \o u) = u
      BY Prepend
    <3> QED BY <3>1, Zenon
  <2>11. Head(s)[1] = "auth" /\ Head(s)[2] = n
    BY <2>2, <2>10
  <2>12. Work1(s, n)
    BY <2>3, <2>5, <2>9, <2>10, <2>11 DEF Work1
  <2>13. Command(c, n, s)
    BY <2>6, <2>8, <2>9, <2>10
  <2>14. todo[c] = << >> /\ todo' = [todo EXCEPT ![c] = s]
    BY <2>13 DEF Command, Idle, Then
  <2> QED BY <2>2, <2>10, <2>12, <2>13, <2>14
<1> QED BY <1>1, <1>2, <1>3

\* The sweeper's step.
LEMMA SweepMove ==
  ASSUME RegistryTypes, TodoTypes, Sweep
  PROVE  /\ \A p \in Clients : todo'[p] = todo[p]
         /\ Head(todo'[Sweeper]) = <<"removeFile", Expired>>
         /\ todo[Sweeper] = << >>
         /\ TodoTypes'
<1>1. todo \in [Procs -> Seq(Steps)] /\ Sweeper \in Procs /\ Sweeper \notin Clients
  BY RegistryAssumption DEF TodoTypes, Procs
<1>2. PICK x \in Steps : x = <<"removeFile", Expired>>
  <2>1. Expired \in SUBSET Ids
    BY DEF Expired, RegistryTypes
  <2>2. <<"removeFile", Expired>> \in Steps
    BY <2>1, Zenon DEF Steps
  <2> QED BY <2>2
<1>3. <<x>> \in Seq(Steps) /\ Head(<<x>>) = x /\ Tail(<<x>>) = << >>
  OBVIOUS
<1>4. todo' = [todo EXCEPT ![Sweeper] = <<x>>] /\ todo[Sweeper] = << >>
  BY <1>2 DEF Sweep, Then, Idle
<1>5. /\ todo' \in [Procs -> Seq(Steps)] /\ todo'[Sweeper] = <<x>>
      /\ \A p \in Clients : todo'[p] = todo[p]
  BY <1>1, <1>3, <1>4 DEF Procs
<1>6. x[1] = "removeFile"
  BY <1>2
<1>7. \A c \in Clients : todo'[c] # << >> => \E n \in Names : Work1(todo'[c], n)
  BY <1>5 DEF TodoTypes
<1>8. TodoTypes'
  BY <1>3, <1>5, <1>6, <1>7 DEF TodoTypes
<1> QED BY <1>2, <1>3, <1>4, <1>5, <1>8

LEMMA SweeperFileMove ==
  ASSUME RegistryTypes, TodoTypes, RemoveAgentFile(Sweeper)
  PROVE  /\ \A p \in Clients : todo'[p] = todo[p]
         /\ TodoTypes'
         /\ todo[Sweeper] # << >> /\ Head(todo[Sweeper])[1] = "removeFile"
         /\ \E id \in Head(todo[Sweeper])[2] : files' = Without(files, {id})
         /\ todo'[Sweeper] # << >> => /\ Head(todo'[Sweeper])[1] = "removeFile"
                                      /\ Head(todo'[Sweeper])[2] \subseteq Head(todo[Sweeper])[2]
<1>1. /\ todo \in [Procs -> Seq(Steps)] /\ Sweeper \in Procs /\ Sweeper \notin Clients
      /\ todo[Sweeper] \in Seq(Steps)
  BY RegistryAssumption DEF TodoTypes, Procs
<1>2. todo[Sweeper] # << >> /\ Head(todo[Sweeper])[1] = "removeFile" /\ Tail(todo[Sweeper]) = << >>
  BY DEF RemoveAgentFile, Doing, Idle, Step, TodoTypes
<1>3. PICK G \in SUBSET Ids : G = Head(todo[Sweeper])[2]
  BY <1>1, <1>2, RangeTail, StepShape
<1>4. PICK id \in G : /\ files' = Without(files, {id})
                      /\ Instead(Sweeper, IF G = {id} THEN << >> ELSE << <<"removeFile", G \ {id}>> >>)
  BY <1>3 DEF RemoveAgentFile, Step
<1>5. PICK x \in Steps : x = <<"removeFile", G \ {id}>>
  <2>1. G \ {id} \in SUBSET Ids
    OBVIOUS
  <2>2. <<"removeFile", G \ {id}>> \in Steps
    BY <2>1, Zenon DEF Steps
  <2> QED BY <2>2
<1>6. /\ <<x>> \in Seq(Steps) /\ Head(<<x>>) = x /\ Tail(<<x>>) = << >> /\ <<x>> \o << >> = <<x>>
      /\ << >> \in Seq(Steps) /\ << >> \o << >> = << >>
  OBVIOUS
<1>7. PICK s \in Seq(Steps) : /\ todo' = [todo EXCEPT ![Sweeper] = s]
                              /\ s # << >> => Head(s) = x /\ Tail(s) = << >>
  <2>1. CASE G = {id}
    BY <1>2, <1>4, <1>6, <2>1 DEF Instead, Then
  <2>2. CASE G # {id}
    BY <1>2, <1>4, <1>5, <1>6, <2>2 DEF Instead, Then
  <2> QED BY <2>1, <2>2
<1>8. /\ todo' \in [Procs -> Seq(Steps)] /\ todo'[Sweeper] = s
      /\ \A p \in Clients : todo'[p] = todo[p]
  BY <1>1, <1>7 DEF Procs
<1>9. x[1] = "removeFile" /\ x[2] \subseteq G
  BY <1>5
<1>10. \A c \in Clients : todo'[c] # << >> => \E n \in Names : Work1(todo'[c], n)
  BY <1>8 DEF TodoTypes
<1>11. TodoTypes'
  BY <1>7, <1>8, <1>9, <1>10 DEF TodoTypes
<1> QED BY <1>2, <1>3, <1>4, <1>7, <1>8, <1>9, <1>11

\* Snapshots in a handler get older with the agents.
OlderStep(e) == IF e[1] = "persist" THEN <<"persist", e[2], Older(e[3])>> ELSE e

LEMMA OlderAgent ==
  ASSUME NEW a \in Agent
  PROVE  Older(a) \in Agent /\ Older(a).name = a.name /\ Older(a).pub = a.pub
  BY DEF Older, Agent

LEMMA OlderTodo ==
  ASSUME NEW s \in Seq(Steps), NEW t, t = [i \in DOMAIN s |-> OlderStep(s[i])]
  PROVE  /\ t \in Seq(Steps)
         /\ t = << >> <=> s = << >>
         /\ s # << >> => Head(t) = OlderStep(Head(s))
         /\ \A n \in Names : Work1(s, n) => Work1(t, n)
<1>1. \A e \in Steps : OlderStep(e) \in Steps
  <2> SUFFICES ASSUME NEW e \in Steps PROVE OlderStep(e) \in Steps
    OBVIOUS
  <2>1. CASE e[1] = "persist"
    <3>1. e[2] \in Ids /\ e[3] \in Agent
      BY <2>1, StepShape
    <3>2. <<"persist", e[2], Older(e[3])>> \in Steps
      BY <3>1, OlderAgent DEF Steps
    <3> QED BY <2>1, <3>2 DEF OlderStep
  <2>2. CASE e[1] # "persist"
    BY <2>2 DEF OlderStep
  <2> QED BY <2>1, <2>2
<1>2. /\ DOMAIN s = 1..Len(s) /\ Len(s) \in Nat
      /\ \A i \in 1..Len(s) : s[i] \in Steps
  OBVIOUS
<1>3. t \in Seq(Steps) /\ Len(t) = Len(s) /\ \A i \in 1..Len(s) : t[i] = OlderStep(s[i])
  BY <1>1, <1>2
<1>4. t = << >> <=> s = << >>
  BY <1>2, <1>3
<1>5. s # << >> => Head(t) = OlderStep(Head(s))
  BY <1>2, <1>3, <1>4
<1>6. ASSUME NEW n \in Names, Work1(s, n), s # << >>
      PROVE  Work1(t, n)
  <2>1. Tail(s) \in Seq(Steps) /\ Tail(t) \in Seq(Steps) /\ Head(s) \in Steps
    BY <1>3, <1>4, <1>6, RangeTail
  <2>2. /\ Len(Tail(t)) = Len(Tail(s))
        /\ \A i \in 1..Len(Tail(s)) : Tail(t)[i] = OlderStep(Tail(s)[i])
    BY <1>2, <1>3, <1>4, <1>6
  <2>3. \A i \in 1..Len(Tail(s)) : Tail(s)[i][1] # "persist"
    <3>1. \A id : SavingSeq(s, id) <=>
            (Head(s)[1] = "persist" /\ Head(s)[2] = id) \/ SavingSeq(Tail(s), id)
      BY <1>6, FirstOrLater
    <3>2. \A id : ~SavingSeq(Tail(s), id)
      <4>1. CASE Tail(s) \in Rest(n)
        BY <4>1, RestFacts
      <4>2. CASE Tail(s) = << >>
        BY <4>2, NothingToDo
      <4>3. CASE Head(s)[1] # "persist"
        BY <1>6, <3>1, <4>3, WorkFacts
      <4> QED BY <1>6, <4>1, <4>2, <4>3 DEF Work1
    <3>3. DOMAIN Tail(s) = 1..Len(Tail(s))
      BY <2>1
    <3> QED BY <3>2, <3>3 DEF SavingSeq
  <2>4. Tail(t) = Tail(s)
    BY <2>1, <2>2, <2>3 DEF OlderStep
  <2>5. /\ Head(t)[1] = Head(s)[1]
        /\ Head(s)[1] # "persist" => Head(t) = Head(s)
        /\ Head(s)[1] = "persist" => Head(t)[3].name = Head(s)[3].name
    <3>1. Head(s)[1] = "persist" => Head(s)[3] \in Agent
      BY <2>1, StepShape
    <3>2. CASE Head(s)[1] = "persist"
      <4>1. Head(t) = <<"persist", Head(s)[2], Older(Head(s)[3])>>
        BY <1>5, <1>6, <3>2 DEF OlderStep
      <4>2. PICK a \in Agent : a = Head(s)[3]
        BY <3>1, <3>2
      <4>3. Older(a).name = a.name
        BY OlderAgent
      <4>4. PICK i, b : i = Head(s)[2] /\ b = Older(a)
        OBVIOUS
      <4>5. PICK h : h = Head(t)
        OBVIOUS
      <4>6. h = <<"persist", i, b>>
        BY <4>1, <4>2, <4>4, <4>5
      <4>7. h[1] = "persist" /\ h[3] = b
        BY <4>6
      <4> QED BY <3>2, <4>2, <4>3, <4>4, <4>5, <4>7
    <3>3. CASE Head(s)[1] # "persist"
      BY <1>5, <1>6, <3>3 DEF OlderStep
    <3> QED BY <3>2, <3>3
  <2>6. t # << >>
    BY <1>4, <1>6
  <2>7. CASE Head(s)[1] = "persist"
    <3>1. Head(s)[3].name = n /\ Tail(s) \in Rest(n)
      BY <1>6, <2>7 DEF Work1
    <3> QED BY <2>4, <2>5, <2>7, <3>1 DEF Work1
  <2>8. CASE Head(s)[1] # "persist"
    <3>1. Head(t) = Head(s)
      BY <2>5, <2>8
    <3> QED BY <1>6, <2>4, <2>8, <3>1 DEF Work1
  <2> QED BY <2>7, <2>8
<1> QED BY <1>3, <1>4, <1>5, <1>6 DEF Work1

LEMMA TickMove ==
  ASSUME RegistryTypes, TodoTypes, Tick
  PROVE  /\ TodoTypes'
         /\ \A p \in Procs : todo'[p] = << >> <=> todo[p] = << >>
         /\ \A p \in Procs : todo[p] # << >> => Head(todo'[p]) = OlderStep(Head(todo[p]))
<1>1. todo \in [Procs -> Seq(Steps)] /\ Sweeper \in Procs
  BY DEF TodoTypes, Procs
<1>2. todo' = [p \in Procs |-> [i \in DOMAIN todo[p] |-> OlderStep(todo[p][i])]]
  BY Zenon DEF Tick, OlderStep
<1>3. ASSUME NEW p \in Procs
      PROVE  /\ todo'[p] \in Seq(Steps)
             /\ todo'[p] = << >> <=> todo[p] = << >>
             /\ todo[p] # << >> => Head(todo'[p]) = OlderStep(Head(todo[p]))
             /\ \A n \in Names : Work1(todo[p], n) => Work1(todo'[p], n)
  <2>1. todo[p] \in Seq(Steps)
    BY <1>1
  <2>2. todo'[p] = [i \in DOMAIN todo[p] |-> OlderStep(todo[p][i])]
    BY <1>2
  <2> QED BY <2>1, <2>2, OlderTodo
<1>4. todo' \in [Procs -> Seq(Steps)]
  BY <1>2, <1>3
<1>5. \A c \in Clients : todo'[c] # << >> => \E n \in Names : Work1(todo'[c], n)
  BY <1>3 DEF TodoTypes, Procs
<1>6. todo'[Sweeper] # << >> => /\ Head(todo'[Sweeper])[1] = "removeFile"
                                /\ Tail(todo'[Sweeper]) = << >>
  <2> SUFFICES ASSUME todo'[Sweeper] # << >>
               PROVE  Head(todo'[Sweeper])[1] = "removeFile" /\ Tail(todo'[Sweeper]) = << >>
    OBVIOUS
  <2>1. todo[Sweeper] # << >> /\ todo[Sweeper] \in Seq(Steps) /\ todo'[Sweeper] \in Seq(Steps)
    BY <1>1, <1>3
  <2>2. Head(todo[Sweeper])[1] = "removeFile" /\ Tail(todo[Sweeper]) = << >>
    BY <2>1 DEF TodoTypes
  <2>3. Head(todo'[Sweeper]) = Head(todo[Sweeper])
    BY <1>1, <1>3, <2>1, <2>2 DEF OlderStep
  <2>4. Len(todo[Sweeper]) = 1
    <3>1. PICK s \in Seq(Steps) : s = todo[Sweeper]
      BY <2>1
    <3>2. s # << >> /\ Len(Tail(s)) = 0
      BY <2>1, <2>2, <3>1
    <3>3. Len(s) \in Nat \ {0} /\ Len(Tail(s)) = Len(s) - 1
      BY <3>2, RangeTail
    <3> QED BY <3>1, <3>2, <3>3
  <2>5. Len(todo'[Sweeper]) = Len(todo[Sweeper])
    <3>1. todo'[Sweeper] = [i \in DOMAIN todo[Sweeper] |-> OlderStep(todo[Sweeper][i])]
      BY <1>1, <1>2
    <3>2. DOMAIN todo'[Sweeper] = DOMAIN todo[Sweeper]
      BY <3>1
    <3> QED BY <2>1, <3>2
  <2> QED BY <2>1, <2>2, <2>3, <2>4, <2>5
<1> QED BY <1>3, <1>4, <1>5, <1>6 DEF TodoTypes

-----------------------------------------------------------------------------
(* Types.                                                                  *)

\* What a restart finds, in terms of the write queue and the files.
LEMMA FlushedFacts ==
  ASSUME RegistryTypes
  PROVE  /\ DOMAIN Flushed = FlushIds(queue, files)
         /\ \A id \in DOMAIN Flushed :
              /\ id \in Ids /\ Flushed[id] \in Agent
              /\ Flushed[id] = FlushValue(queue, files, id)
              /\ Named(id, Flushed[id].name)
<1>1. /\ queue \in Seq(Ids \X Agent) /\ DOMAIN queue = 1..Len(queue)
      /\ \A i \in 1..Len(queue) : queue[i] \in Ids \X Agent
  BY DEF RegistryTypes
<1>2. DOMAIN Flushed = FlushIds(queue, files)
  BY DEF Flushed, FlushIds
<1>3. ASSUME NEW id \in DOMAIN Flushed
      PROVE  Flushed[id] = FlushValue(queue, files, id)
  BY <1>3 DEF Flushed, FlushValue, Queued
<1>4. ASSUME NEW id \in DOMAIN Flushed
      PROVE  /\ id \in Ids /\ Flushed[id] \in Agent
             /\ Named(id, Flushed[id].name)
  <2>1. CASE \A i \in 1..Len(queue) : queue[i][1] # id
    <3>1. id \in DOMAIN files
      BY <1>1, <1>2, <2>1 DEF FlushIds
    <3>2. Flushed[id] = files[id]
      BY <1>1, <1>3, <2>1, FlushFile
    <3> QED BY <3>1, <3>2 DEF RegistryTypes, Named
  <2>2. CASE \E i \in 1..Len(queue) : queue[i][1] = id
    <3>1. PICK k \in 1..Len(queue) : LastEntry(queue, id, k) /\ FlushValue(queue, files, id) = queue[k][2]
      BY <1>1, <2>2, FlushEntry
    <3>2. queue[k][1] = id /\ queue[k] \in Ids \X Agent /\ Flushed[id] = queue[k][2] /\ k \in DOMAIN queue
      BY <1>1, <1>3, <3>1 DEF LastEntry
    <3> QED BY <3>2 DEF Named
  <2> QED BY <2>1, <2>2
<1> QED BY <1>2, <1>3, <1>4

\* What is loaded of it, and the name index that is built.
LEMMA ReloadedFacts ==
  ASSUME RegistryTypes
  PROVE  /\ DOMAIN Reloaded = {id \in DOMAIN Flushed : Flushed[id].age # 2}
         /\ \A id \in DOMAIN Reloaded : id \in Ids /\ Reloaded[id] = Flushed[id] /\ Reloaded[id] \in Agent
         /\ ReloadedIdx \in [Names -> {0} \union Ids]
         /\ \A n \in Names :
              /\ \A id \in DOMAIN Reloaded : Reloaded[id].name = n => id <= ReloadedIdx[n]
              /\ ReloadedIdx[n] # 0 =>
                   ReloadedIdx[n] \in DOMAIN Reloaded /\ Reloaded[ReloadedIdx[n]].name = n
<1>1. /\ DOMAIN Reloaded = {id \in DOMAIN Flushed : Flushed[id].age # 2}
      /\ \A id \in DOMAIN Reloaded : Reloaded[id] = Flushed[id]
  BY DEF Reloaded, Without
<1>2. \A id \in DOMAIN Reloaded : id \in Ids /\ Reloaded[id] \in Agent
  BY <1>1, FlushedFacts
<1>3. ASSUME NEW n \in Names
      PROVE  /\ ReloadedIdx[n] \in {0} \union Ids
             /\ \A id \in DOMAIN Reloaded : Reloaded[id].name = n => id <= ReloadedIdx[n]
             /\ ReloadedIdx[n] # 0 =>
                  ReloadedIdx[n] \in DOMAIN Reloaded /\ Reloaded[ReloadedIdx[n]].name = n
  <2> DEFINE S == {0} \union {id \in DOMAIN Reloaded : Reloaded[id].name = n}
  <2>1. ReloadedIdx[n] = Max(S)
    BY DEF ReloadedIdx
  <2>2. S \in SUBSET Nat /\ S # {} /\ \A x \in S : x <= MaxIds
    BY <1>2, RegistryAssumption DEF Ids
  <2>3. MaxIds \in Nat
    BY RegistryAssumption
  <2>4. \A x : x \in S <=> x = 0 \/ (x \in DOMAIN Reloaded /\ Reloaded[x].name = n)
    OBVIOUS
  <2> HIDE DEF S
  <2>5. Max(S) \in S /\ \A x \in S : x <= Max(S)
    BY <2>2, <2>3, MaxOfBounded
  <2> QED BY <1>2, <2>1, <2>4, <2>5
<1>4. ReloadedIdx \in [Names -> {0} \union Ids]
  <2>1. DOMAIN ReloadedIdx = Names /\ ReloadedIdx = [n \in Names |-> ReloadedIdx[n]]
    BY DEF ReloadedIdx
  <2> QED BY <1>3, <2>1
<1> QED BY <1>1, <1>2, <1>3, <1>4

\* The larger of two ids.
LEMMA MaxOfTwo ==
  ASSUME NEW i \in Nat, NEW j \in Nat
  PROVE  Max({i, j}) = IF i <= j THEN j ELSE i
<1> DEFINE S == {i, j}
<1>1. PICK n \in Nat : i <= n /\ j <= n
  <2>1. i + j \in Nat /\ i <= i + j /\ j <= i + j
    OBVIOUS
  <2> QED BY <2>1
<1>2. S \in SUBSET Nat /\ S # {} /\ \A x \in S : x <= n
  BY <1>1
<1>3. \A x : x \in S <=> x = i \/ x = j
  OBVIOUS
<1> HIDE DEF S
<1>4. Max(S) \in S /\ \A x \in S : x <= Max(S)
  BY <1>1, <1>2, MaxOfBounded
<1> QED BY <1>3, <1>4 DEF S

\* The id of an agent that registers: the name's, or the next one.
LEMMA IdForFacts ==
  ASSUME RegistryTypes, NamesInv, NEW n \in Names, NEW id \in Ids, id = IdFor(n),
         lastId' = Max({lastId, id})
  PROVE  \/ /\ nameIdx[n] = id /\ id \in DOMAIN agents /\ agents[id].name = n
            /\ lastId' = lastId /\ id <= lastId
         \/ /\ nameIdx[n] = 0 /\ id = lastId + 1
            /\ lastId' = id
            /\ \A m \in Names : ~Named(id, m)
            /\ id \notin DOMAIN agents
<1>1. lastId \in Nat /\ id \in Nat
  BY RegistryAssumption DEF RegistryTypes, Ids
<1>2. lastId' = IF lastId <= id THEN id ELSE lastId
  BY <1>1, MaxOfTwo
<1>3. CASE nameIdx[n] # 0
  <2>1. id \in DOMAIN agents /\ agents[id].name = n /\ nameIdx[n] = id
    BY <1>3 DEF IdFor, NamesInv
  <2>2. id <= lastId
    BY <2>1 DEF NamesInv, Named
  <2> QED BY <1>1, <1>2, <2>1, <2>2
<1>4. CASE nameIdx[n] = 0
  <2>1. id = lastId + 1
    BY <1>4 DEF IdFor
  <2>2. \A m \in Names : ~Named(id, m)
    BY <1>1, <2>1 DEF NamesInv
  <2>3. id \notin DOMAIN agents
    <3>1. id \in DOMAIN agents => agents[id].name \in Names
      BY DEF RegistryTypes, Agent
    <3> QED BY <2>2, <3>1 DEF Named
  <2> QED BY <1>1, <1>2, <1>4, <2>1, <2>2, <2>3
<1> QED BY <1>3, <1>4

LEMMA Types ==
  ASSUME RegistryTypes, TodoTypes, NamesInv, [Next]_vars
  PROVE  RegistryTypes' /\ TodoTypes'
<1>1. ASSUME NEW c \in Clients, NEW n \in Uses[c],
             Register(c, n) \/ \E op \in Requests : Request(c, n, op)
      PROVE  RegistryTypes' /\ TodoTypes'
  <2>1. PICK s \in Seq(Steps) :
          /\ Command(c, n, s)
          /\ todo[c] = << >> /\ todo' = [todo EXCEPT ![c] = s] /\ Work1(s, n)
    BY <1>1, CommandMove
  <2>2. RegistryTypes'
    BY <2>1 DEF RegistryTypes, Command, memVars, diskVars
  <2>3. n \in Names /\ todo \in [Procs -> Seq(Steps)] /\ c \in Procs /\ Sweeper \in Procs /\ c # Sweeper
    BY <1>1, CommandMove, RegistryAssumption DEF TodoTypes, Procs
  <2>4. todo' \in [Procs -> Seq(Steps)] /\ todo'[c] = s /\ \A p \in Procs \ {c} : todo'[p] = todo[p]
    BY <2>1, <2>3
  <2>5. \A d \in Clients : todo'[d] # << >> => \E m \in Names : Work1(todo'[d], m)
    <3> SUFFICES ASSUME NEW d \in Clients, todo'[d] # << >> PROVE \E m \in Names : Work1(todo'[d], m)
      OBVIOUS
    <3>1. CASE d = c
      BY <2>1, <2>3, <2>4, <3>1
    <3>2. CASE d # c
      BY <2>4, <3>2 DEF TodoTypes, Procs
    <3> QED BY <3>1, <3>2
  <2> QED BY <2>2, <2>3, <2>4, <2>5 DEF TodoTypes
<1>2. ASSUME NEW c \in Clients, LoadKey(c)
      PROVE  RegistryTypes' /\ TodoTypes'
  <2>1. TodoTypes'
    BY <1>2, LoadMove, MoveTypes
  <2>2. RegistryTypes'
    BY <1>2 DEF LoadKey, RegistryTypes, memVars, diskVars, pastVars
  <2> QED BY <2>1, <2>2
<1>3. ASSUME NEW c \in Clients, SaveKey(c)
      PROVE  RegistryTypes' /\ TodoTypes'
  <2>1. PICK n \in Names, s \in Seq(Steps) :
          /\ Move(c, n, s)
          /\ \/ lastKey' \in Keys /\ keys' = [keys EXCEPT ![n] = lastKey']
             \/ UNCHANGED <<keys, lastKey>>
    BY <1>3, SaveMove
  <2>2. TodoTypes'
    BY <2>1, MoveTypes
  <2>3. keys' \in [Names -> {0} \union Keys] /\ lastKey' \in {0} \union Keys
    BY <2>1 DEF RegistryTypes
  <2>4. RegistryTypes'
    BY <1>3, <2>3 DEF SaveKey, RegistryTypes, memVars, pastVars
  <2> QED BY <2>2, <2>4
<1>4. ASSUME NEW c \in Clients, IndexAgent(c)
      PROVE  RegistryTypes' /\ TodoTypes'
  <2>1. PICK n \in Names, s \in Seq(Steps) :
          /\ Move(c, n, s)
          /\ \/ UNCHANGED <<memVars, lastId>>
             \/ \E id \in Ids, a \in Agent :
                  a.name = n /\ id = IdFor(n) /\ Index(id, a) /\ lastId' = Max({lastId, id})
    BY <1>4, IndexMove
  <2>2. TodoTypes'
    BY <2>1, MoveTypes
  <2>3. /\ DOMAIN agents' \subseteq Ids /\ \A id \in DOMAIN agents' : agents'[id] \in Agent
        /\ nameIdx' \in [Names -> {0} \union Ids]
        /\ lastId' \in {0} \union Ids
    <3>1. CASE UNCHANGED <<memVars, lastId>>
      BY <3>1 DEF RegistryTypes, memVars
    <3>2. ASSUME NEW id \in Ids, NEW a \in Agent,
                 a.name = n, id = IdFor(n), Index(id, a), lastId' = Max({lastId, id})
          PROVE  /\ DOMAIN agents' \subseteq Ids /\ \A x \in DOMAIN agents' : agents'[x] \in Agent
                 /\ nameIdx' \in [Names -> {0} \union Ids]
                 /\ lastId' \in {0} \union Ids
      <4>1. lastId' \in {0} \union Ids
        BY <3>2, IdForFacts DEF RegistryTypes
      <4>2. nameIdx' \in [Names -> {0} \union Ids]
        BY <3>2 DEF Index, RegistryTypes
      <4>3. DOMAIN agents' \subseteq Ids /\ \A x \in DOMAIN agents' : agents'[x] \in Agent
        BY <3>2 DEF Index, With, RegistryTypes
      <4> QED BY <4>1, <4>2, <4>3
    <3> QED BY <2>1, <3>1, <3>2
  <2>4. RegistryTypes'
    BY <1>4, <2>3 DEF IndexAgent, RegistryTypes, diskVars, pastVars
  <2> QED BY <2>2, <2>4
<1>5. ASSUME NEW c \in Clients, PersistAgent(c)
      PROVE  RegistryTypes' /\ TodoTypes'
  <2>1. PICK n \in Names, s \in Seq(Steps), id \in Ids, a \in Agent :
          /\ Move(c, n, s)
          /\ queue' = Append(queue, <<id, a>>)
          /\ removed' = IF id \in DOMAIN agents THEN removed \ {id} ELSE removed
    BY <1>5, PersistMove
  <2>2. TodoTypes'
    BY <2>1, MoveTypes
  <2>3. queue' \in Seq(Ids \X Agent) /\ removed' \subseteq Ids
    BY <2>1 DEF RegistryTypes
  <2>4. RegistryTypes'
    BY <1>5, <2>3 DEF PersistAgent, RegistryTypes, memVars
  <2> QED BY <2>2, <2>4
<1>6. ASSUME NEW c \in Clients, Authenticate(c)
      PROVE  RegistryTypes' /\ TodoTypes'
  <2>1. TodoTypes'
    BY <1>6, AuthMove, MoveTypes
  <2>2. RegistryTypes'
    BY <1>6 DEF Authenticate, RegistryTypes, memVars, diskVars, pastVars
  <2> QED BY <2>1, <2>2
<1>7. ASSUME NEW c \in Clients, RenewLease(c)
      PROVE  RegistryTypes' /\ TodoTypes'
  <2>1. PICK n \in Names, s \in Seq(Steps) :
          /\ Move(c, n, s)
          /\ \/ UNCHANGED agents
             \/ \E id \in Ids, a \in Agent : id \in DOMAIN agents /\ agents' = [agents EXCEPT ![id] = a]
    <3>1. \A n \in Names : nameIdx[n] # 0 =>
            nameIdx[n] \in DOMAIN agents /\ agents[nameIdx[n]].name = n
      BY DEF NamesInv
    <3> QED BY <1>7, <3>1, RenewMove
  <2>2. TodoTypes'
    BY <2>1, MoveTypes
  <2>3. DOMAIN agents' \subseteq Ids /\ \A id \in DOMAIN agents' : agents'[id] \in Agent
    BY <2>1 DEF RegistryTypes
  <2>4. RegistryTypes'
    BY <1>7, <2>3 DEF RenewLease, RegistryTypes, diskVars, pastVars
  <2> QED BY <2>2, <2>4
<1>8. ASSUME NEW c \in Clients, UnindexAgent(c)
      PROVE  RegistryTypes' /\ TodoTypes'
  <2>1. PICK n \in Names, s \in Seq(Steps) :
          /\ Move(c, n, s)
          /\ \/ UNCHANGED <<memVars, removed>>
             \/ \E id \in Ids : Unindex({id}) /\ removed' = removed \union {id}
    BY <1>8, UnindexMove
  <2>2. TodoTypes'
    BY <2>1, MoveTypes
  <2>3. /\ DOMAIN agents' \subseteq Ids /\ \A id \in DOMAIN agents' : agents'[id] \in Agent
        /\ nameIdx' \in [Names -> {0} \union Ids]
        /\ removed' \subseteq Ids
    BY <2>1 DEF RegistryTypes, Unindex, Without, memVars
  <2>4. RegistryTypes'
    BY <1>8, <2>3 DEF UnindexAgent, RegistryTypes, diskVars
  <2> QED BY <2>2, <2>4
<1>9. ASSUME NEW c \in Clients, RemoveAgentFile(c)
      PROVE  RegistryTypes' /\ TodoTypes'
  <2>1. PICK n \in Names, s \in Seq(Steps) :
          /\ Move(c, n, s)
          /\ \E id \in Head(todo[c])[2] : files' = Without(files, {id})
    BY <1>9, RemoveFileMove
  <2>2. TodoTypes'
    BY <2>1, MoveTypes
  <2>3. RegistryTypes'
    BY <1>9, <2>1 DEF RemoveAgentFile, RegistryTypes, Without, memVars, pastVars
  <2> QED BY <2>2, <2>3
<1>10. ASSUME NEW c \in Clients, RemoveKey(c)
       PROVE  RegistryTypes' /\ TodoTypes'
  <2>1. PICK n \in Names, s \in Seq(Steps) : Move(c, n, s) /\ keys' = [keys EXCEPT ![n] = 0]
    BY <1>10, RemoveKeyMove
  <2>2. TodoTypes'
    BY <2>1, MoveTypes
  <2>3. keys' \in [Names -> {0} \union Keys]
    BY <2>1 DEF RegistryTypes
  <2>4. RegistryTypes'
    BY <1>10, <2>3 DEF RemoveKey, RegistryTypes, memVars, pastVars
  <2> QED BY <2>2, <2>4
<1>11. CASE Tick
  <2>1. TodoTypes'
    BY <1>11, TickMove
  <2>2. /\ \A id \in DOMAIN agents : Older(agents[id]) \in Agent
        /\ \A id \in DOMAIN files : Older(files[id]) \in Agent
        /\ \A i \in DOMAIN queue : <<queue[i][1], Older(queue[i][2])>> \in Ids \X Agent
    BY OlderAgent DEF RegistryTypes
  <2>3. queue' \in Seq(Ids \X Agent)
    BY <1>11, <2>2 DEF Tick, RegistryTypes
  <2>4. RegistryTypes'
    BY <1>11, <2>2, <2>3 DEF Tick, RegistryTypes, pastVars
  <2> QED BY <2>1, <2>4
<1>12. CASE Sweep
  <2>1. TodoTypes'
    BY <1>12, SweepMove
  <2>2. RegistryTypes'
    BY <1>12 DEF Sweep, Unindex, Without, Expired, RegistryTypes, diskVars
  <2> QED BY <2>1, <2>2
<1>13. CASE RemoveAgentFile(Sweeper)
  <2>1. TodoTypes' /\ \E id \in Head(todo[Sweeper])[2] : files' = Without(files, {id})
    BY <1>13, SweeperFileMove
  <2>2. RegistryTypes'
    BY <1>13, <2>1 DEF RemoveAgentFile, RegistryTypes, Without, memVars, pastVars
  <2> QED BY <2>1, <2>2
<1>14. CASE WriteFile
  <2>1. TodoTypes'
    BY <1>14 DEF WriteFile, TodoTypes
  <2>2. Head(queue) \in Ids \X Agent /\ queue' \in Seq(Ids \X Agent)
    BY <1>14, RangeTail DEF WriteFile, RegistryTypes
  <2>3. RegistryTypes'
    BY <1>14, <2>2 DEF WriteFile, RegistryTypes, With, memVars, pastVars
  <2> QED BY <2>1, <2>3
<1>15. CASE Restart
  <2>1. /\ agents' = Reloaded /\ files' = Reloaded /\ nameIdx' = ReloadedIdx /\ queue' = << >>
        /\ todo' = [p \in Procs |-> << >>]
        /\ UNCHANGED <<keys, lastId, lastKey, removed>>
    BY <1>15 DEF Restart, pastVars
  <2>2. RegistryTypes'
    BY <2>1, ReloadedFacts DEF RegistryTypes
  <2>3. TodoTypes'
    <3>2. << >> \in Seq(Steps)
      OBVIOUS
    <3>3. todo' \in [Procs -> Seq(Steps)] /\ \A p \in Procs : todo'[p] = << >>
      BY <2>1, <3>2
    <3>4. Sweeper \in Procs /\ Clients \subseteq Procs
      BY DEF Procs
    <3> QED BY <3>3, <3>4 DEF TodoTypes
  <2> QED BY <2>2, <2>3
<1>16. CASE UNCHANGED vars
  BY <1>16 DEF vars, memVars, diskVars, pastVars, RegistryTypes, TodoTypes
<1> QED BY <1>1, <1>2, <1>3, <1>4, <1>5, <1>6, <1>7, <1>8, <1>9, <1>10, <1>11, <1>12, <1>13,
           <1>14, <1>15, <1>16 DEF Next, Handler

-----------------------------------------------------------------------------
(* Names: a command that goes on, and the parts of the invariant that a    *)
(* step leaves as they were.                                               *)

\* Only the client that goes on can start or stop to save an agent.
LEMMA MoveFacts ==
  ASSUME TodoTypes, NEW c \in Clients, NEW n \in Names, NEW s, Move(c, n, s)
  PROVE  /\ \A d \in Clients \ {c} :
              /\ \A id, a : Saves(d, id, a)' <=> Saves(d, id, a)
              /\ \A id : Saving(d, id)' <=> Saving(d, id)
              /\ \A m : About(d, m)' <=> About(d, m)
         /\ \A id, a : Saves(c, id, a)' <=> s # << >> /\ Head(s) = <<"persist", id, a>>
         /\ \A id : Saving(c, id)' <=> s # << >> /\ Head(s)[1] = "persist" /\ Head(s)[2] = id
         /\ \A m : About(c, m)' <=> s # << >> /\ m = n
         /\ \A id, a : Saves(c, id, a) => Head(todo[c]) = <<"persist", id, a>>
         /\ \A id : Saving(c, id) <=> Head(todo[c])[1] = "persist" /\ Head(todo[c])[2] = id
         /\ \A m : About(c, m) <=> m = n
<1>1. todo'[c] = s /\ \A d \in Clients \ {c} : todo'[d] = todo[d]
  BY MoveTypes DEF Procs
<1>2. todo[c] \in Seq(Steps) /\ s \in Seq(Steps) /\ todo[c] # << >> /\ Work1(s, n) /\ Work1(todo[c], n)
  BY DEF Move, TodoTypes, Procs
<1>3. ASSUME NEW d \in Clients \ {c}
      PROVE  /\ \A id, a : Saves(d, id, a)' <=> Saves(d, id, a)
             /\ \A id : Saving(d, id)' <=> Saving(d, id)
             /\ \A m : About(d, m)' <=> About(d, m)
  <2>1. todo'[d] = todo[d]
    BY <1>1
  <2> QED BY <2>1 DEF Saves, Saving, About
<1>4. \A id, a : Saves(c, id, a)' <=> s # << >> /\ Head(s) = <<"persist", id, a>>
  BY <1>1 DEF Saves
<1>5. /\ \A m : AboutSeq(s, m) <=> s # << >> /\ m = n
      /\ \A id : SavingSeq(s, id) <=> s # << >> /\ Head(s)[1] = "persist" /\ Head(s)[2] = id
  BY <1>2, WorkFacts
<1>6. /\ \A m : AboutSeq(todo[c], m) <=> m = n
      /\ \A id : SavingSeq(todo[c], id) <=> Head(todo[c])[1] = "persist" /\ Head(todo[c])[2] = id
  BY <1>2, WorkFacts
<1>7. \A id : (Saving(c, id) <=> SavingSeq(todo[c], id)) /\ (Saving(c, id)' <=> SavingSeq(s, id))
  BY <1>1 DEF Saving, SavingSeq
<1>8. \A m : (About(c, m) <=> AboutSeq(todo[c], m)) /\ (About(c, m)' <=> AboutSeq(s, m))
  BY <1>1, Zenon DEF About, AboutSeq, AboutStep
<1>9. \A id, a : Saves(c, id, a) => Head(todo[c]) = <<"persist", id, a>>
  BY DEF Saves
<1> QED BY <1>3, <1>4, <1>5, <1>6, <1>7, <1>8, <1>9

\* The same for somebody who does nothing for now.
LEMMA IdleFacts ==
  ASSUME TodoTypes, NEW c \in Clients
  PROVE  /\ \A id : Saving(c, id) <=> /\ todo[c] # << >> /\ Head(todo[c])[1] = "persist"
                                      /\ Head(todo[c])[2] = id
         /\ \A id, a : Saves(c, id, a) => Saving(c, id)
         /\ \A id : Saving(c, id) => id \in Ids /\ \E a \in Agent : Saves(c, id, a)
         /\ todo[c] = << >> => \A m : ~About(c, m)
         /\ todo[c] # << >> => \E n \in Names : /\ Work1(todo[c], n)
                                              /\ \A m : About(c, m) <=> m = n
<1>8. CASE todo[c] = << >>
  BY <1>8, NothingToDo DEF Saving, Saves, About, SavingSeq, AboutSeq
<1>9. CASE todo[c] # << >>
  <2>1. todo[c] \in Seq(Steps)
    BY DEF TodoTypes, Procs
  <2>2. PICK n \in Names : Work1(todo[c], n)
    BY <1>9 DEF TodoTypes
  <2>3. /\ \A m : AboutSeq(todo[c], m) <=> todo[c] # << >> /\ m = n
        /\ \A id : SavingSeq(todo[c], id) <=> /\ todo[c] # << >> /\ Head(todo[c])[1] = "persist"
                                              /\ Head(todo[c])[2] = id
    BY <2>1, <2>2, WorkFacts
  <2>4. \A id : Saving(c, id) <=> SavingSeq(todo[c], id)
    BY DEF Saving, SavingSeq
  <2>5. \A m : About(c, m) <=> AboutSeq(todo[c], m)
    BY Zenon DEF About, AboutSeq, AboutStep
  <2>6. ASSUME NEW id, NEW a, Saves(c, id, a)
        PROVE  Saving(c, id)
    BY <2>3, <2>4, <2>6 DEF Saves
  <2>7. ASSUME NEW id, Saving(c, id)
        PROVE  id \in Ids /\ \E a \in Agent : Saves(c, id, a)
    <3>1. todo[c] # << >> /\ Head(todo[c])[1] = "persist" /\ Head(todo[c])[2] = id
      BY <2>3, <2>4, <2>7
    <3>2. Head(todo[c]) \in Steps
      BY <2>1, <3>1, RangeTail
    <3> QED BY <3>1, <3>2, StepShape DEF Saves
  <2> QED BY <1>9, <2>2, <2>3, <2>4, <2>5, <2>6, <2>7
<1> QED BY <1>8, <1>9

\* No agent is added, and no copy of one under another name.
LEMMA NamesFrame ==
  ASSUME RegistryTypes, RegistryTypes', NamesInv, lastId' = lastId,
         \A id \in Ids, n \in Names : Named(id, n)' => Named(id, n),
         \A id \in DOMAIN agents' : id \in DOMAIN agents /\ agents'[id].name = agents[id].name,
         \A n \in Names : nameIdx'[n] # 0 => nameIdx'[n] = nameIdx[n] /\ nameIdx'[n] \in DOMAIN agents',
         \A n \in Names : nameIdx[n] \in DOMAIN agents' => nameIdx'[n] = nameIdx[n],
         \A id \in DOMAIN agents : id \notin DOMAIN agents' => id \in removed',
         \A id \in removed : id \notin removed' =>
           id \in DOMAIN agents /\ nameIdx[agents[id].name] = id,
         \A c \in Clients, id \in DOMAIN agents', a \in Agent :
           Saves(c, id, a)' => Saves(c, id, a) \/ nameIdx[a.name] = id
  PROVE  NamesInv'
<1>1. \A id \in Ids, n \in Names : Named(id, n)' => id <= lastId'
  BY DEF NamesInv
<1>2. \A id \in Ids, n, m \in Names : Named(id, n)' /\ Named(id, m)' => n = m
  BY DEF NamesInv
<1>3. \A id \in Ids, n \in Names : nameIdx'[n] # 0 /\ Named(id, n)' => id <= nameIdx'[n]
  BY DEF NamesInv
<1>4. \A id \in Ids, n \in Names : Named(id, n)' /\ id \notin DOMAIN agents' => id \in removed'
  BY DEF NamesInv
<1>5. \A n \in Names : nameIdx'[n] # 0 =>
        nameIdx'[n] \in DOMAIN agents' /\ agents'[nameIdx'[n]].name = n
  BY DEF NamesInv
<1>6. \A id \in DOMAIN agents' \ removed' : nameIdx'[agents'[id].name] = id
  <2> SUFFICES ASSUME NEW id \in DOMAIN agents' \ removed'
               PROVE  nameIdx'[agents'[id].name] = id
    OBVIOUS
  <2>1. id \in DOMAIN agents /\ agents'[id].name = agents[id].name /\ agents[id].name \in Names
    BY DEF RegistryTypes, Agent
  <2>2. nameIdx[agents[id].name] = id
    BY <2>1 DEF NamesInv
  <2> QED BY <2>1, <2>2
<1>7. \A c \in Clients, id \in DOMAIN agents', a \in Agent : Saves(c, id, a)' => nameIdx'[a.name] = id
  <2> SUFFICES ASSUME NEW c \in Clients, NEW id \in DOMAIN agents', NEW a \in Agent, Saves(c, id, a)'
               PROVE  nameIdx'[a.name] = id
    OBVIOUS
  <2>1. a.name \in Names
    BY DEF Agent
  <2>2. nameIdx[a.name] = id
    BY DEF NamesInv
  <2> QED BY <2>1, <2>2
<1> QED BY <1>1, <1>2, <1>3, <1>4, <1>5, <1>6, <1>7 DEF NamesInv

\* The store and the indexes stay as they are, and nobody starts to save.
LEMMA NamesSame ==
  ASSUME RegistryTypes, RegistryTypes', NamesInv,
         UNCHANGED <<memVars, files, queue, lastId, removed>>,
         \A c \in Clients, id \in Ids, a \in Agent : Saves(c, id, a)' => Saves(c, id, a)
  PROVE  NamesInv'
<1>1. \A id \in Ids, n \in Names : Named(id, n)' => Named(id, n)
  BY DEF Named, memVars
<1>2. DOMAIN agents \subseteq Ids
  BY DEF RegistryTypes
<1>3. \A n \in Names : nameIdx[n] # 0 => nameIdx[n] \in DOMAIN agents
  BY DEF NamesInv
<1> QED BY <1>1, <1>2, <1>3, NamesFrame DEF memVars

\* An agent is registered.
LEMMA NamesIndex ==
  ASSUME RegistryTypes, RegistryTypes', TodoTypes, NamesInv, NEW c \in Clients, NEW n \in Names, NEW s,
         Move(c, n, s), NEW id \in Ids, NEW a \in Agent, a.name = n, id = IdFor(n),
         s # << >>, Head(s) = <<"persist", id, a>>, Head(todo[c])[1] = "index",
         Index(id, a), lastId' = Max({lastId, id}), UNCHANGED <<files, queue, removed>>
  PROVE  NamesInv'
<1>1. /\ DOMAIN agents' = DOMAIN agents \union {id} /\ agents'[id] = a
      /\ \A x \in DOMAIN agents : x # id => agents'[x] = agents[x]
      /\ nameIdx'[n] = id /\ \A m \in Names : m # n => nameIdx'[m] = nameIdx[m]
  BY DEF Index, With, RegistryTypes
<1>2. \/ /\ nameIdx[n] = id /\ id \in DOMAIN agents /\ agents[id].name = n
         /\ lastId' = lastId /\ id <= lastId
      \/ /\ nameIdx[n] = 0 /\ id = lastId + 1
         /\ lastId' = id
         /\ \A m \in Names : ~Named(id, m)
         /\ id \notin DOMAIN agents
  BY IdForFacts
<1>3. /\ \A d \in Clients : \A x, b : Saves(d, x, b)' => Saves(d, x, b) \/ (x = id /\ b = a)
      /\ \A x, b : Saves(c, x, b)' => x = id /\ b = a
  <2>1. \A x, b : Head(s) = <<"persist", x, b>> => x = id /\ b = a
    OBVIOUS
  <2>2. \A x, b : Saves(c, x, b)' => Head(s) = <<"persist", x, b>>
    BY MoveFacts
  <2>3. \A d \in Clients \ {c} : \A x, b : Saves(d, x, b)' => Saves(d, x, b)
    BY MoveFacts
  <2> QED BY <2>1, <2>2, <2>3
<1>4. \A x \in Ids, m \in Names : Named(x, m)' => Named(x, m) \/ (x = id /\ m = n)
  <2> SUFFICES ASSUME NEW x \in Ids, NEW m \in Names, Named(x, m)', ~(x = id /\ m = n)
               PROVE  Named(x, m)
    OBVIOUS
  <2>1. CASE x \in DOMAIN agents' /\ agents'[x].name = m
    BY <1>1, <2>1 DEF Named
  <2>2. CASE \/ x \in DOMAIN files' /\ files'[x].name = m
             \/ \E i \in DOMAIN queue' : queue'[i][1] = x /\ queue'[i][2].name = m
    BY <2>2 DEF Named
  <2>3. CASE \E d \in Clients, b \in Agent : Saves(d, x, b)' /\ b.name = m
    BY <1>3, <2>3 DEF Named
  <2> QED BY <2>1, <2>2, <2>3 DEF Named
<1>5. lastId \in Nat /\ Ids \subseteq Nat
  BY RegistryAssumption DEF RegistryTypes, Ids
<1>6. CASE /\ nameIdx[n] = id /\ id \in DOMAIN agents /\ agents[id].name = n /\ lastId' = lastId
  <2>1. \A x \in Ids, m \in Names : Named(x, m)' => Named(x, m)
    BY <1>4, <1>6 DEF Named
  <2>2. \A x \in DOMAIN agents' : x \in DOMAIN agents /\ agents'[x].name = agents[x].name
    BY <1>1, <1>6
  <2>3. \A m \in Names : nameIdx'[m] = nameIdx[m]
    BY <1>1, <1>6
  <2>4. \A m \in Names : nameIdx[m] # 0 => nameIdx[m] \in DOMAIN agents'
    BY <1>1 DEF NamesInv
  <2>5. \A d \in Clients, x \in DOMAIN agents', b \in Agent :
          Saves(d, x, b)' => Saves(d, x, b) \/ nameIdx[b.name] = x
    BY <1>3, <1>6
  <2> QED BY <1>1, <1>6, <2>1, <2>2, <2>3, <2>4, <2>5, NamesFrame
<1>7. CASE /\ nameIdx[n] = 0 /\ id = lastId + 1 /\ lastId' = id
           /\ \A m \in Names : ~Named(id, m)
           /\ id \notin DOMAIN agents
  <2>1. \A x \in Ids, m \in Names : Named(x, m)' => x <= lastId'
    <3> SUFFICES ASSUME NEW x \in Ids, NEW m \in Names, Named(x, m)' PROVE x <= lastId'
      OBVIOUS
    <3>1. CASE x = id
      BY <1>5, <1>7, <3>1
    <3>2. CASE x # id
      <4>1. x <= lastId
        BY <1>4, <3>2 DEF NamesInv
      <4> QED BY <1>5, <1>7, <4>1
    <3> QED BY <3>1, <3>2
  <2>2. \A x \in Ids, m, l \in Names : Named(x, m)' /\ Named(x, l)' => m = l
    <3> SUFFICES ASSUME NEW x \in Ids, NEW m \in Names, NEW l \in Names, Named(x, m)', Named(x, l)'
                 PROVE  m = l
      OBVIOUS
    <3>1. (Named(x, m) \/ (x = id /\ m = n)) /\ (Named(x, l) \/ (x = id /\ l = n))
      BY <1>4
    <3> QED BY <1>7, <3>1 DEF NamesInv
  <2>3. \A x \in Ids, m \in Names : nameIdx'[m] # 0 /\ Named(x, m)' => x <= nameIdx'[m]
    <3> SUFFICES ASSUME NEW x \in Ids, NEW m \in Names, nameIdx'[m] # 0, Named(x, m)'
                 PROVE  x <= nameIdx'[m]
      OBVIOUS
    <3>1. CASE m = n
      BY <1>1, <1>5, <1>7, <2>1, <3>1
    <3>2. CASE m # n
      BY <1>1, <1>4, <3>2 DEF NamesInv
    <3> QED BY <3>1, <3>2
  <2>4. \A x \in Ids, m \in Names : Named(x, m)' /\ x \notin DOMAIN agents' => x \in removed'
    BY <1>1, <1>4 DEF NamesInv
  <2>5. \A m \in Names : nameIdx'[m] # 0 =>
          nameIdx'[m] \in DOMAIN agents' /\ agents'[nameIdx'[m]].name = m
    <3> SUFFICES ASSUME NEW m \in Names, nameIdx'[m] # 0
                 PROVE  nameIdx'[m] \in DOMAIN agents' /\ agents'[nameIdx'[m]].name = m
      OBVIOUS
    <3>1. CASE m = n
      BY <1>1, <3>1
    <3>2. CASE m # n
      <4>1. nameIdx'[m] = nameIdx[m] /\ nameIdx[m] \in DOMAIN agents /\ agents[nameIdx[m]].name = m
        BY <1>1, <3>2 DEF NamesInv
      <4> QED BY <1>1, <1>7, <4>1
    <3> QED BY <3>1, <3>2
  <2>6. \A x \in DOMAIN agents' \ removed' : nameIdx'[agents'[x].name] = x
    <3> SUFFICES ASSUME NEW x \in DOMAIN agents' \ removed'
                 PROVE  nameIdx'[agents'[x].name] = x
      OBVIOUS
    <3>1. CASE x = id
      BY <1>1, <3>1
    <3>2. CASE x # id
      <4>1. x \in DOMAIN agents /\ x \notin removed /\ agents'[x] = agents[x]
        BY <1>1, <3>2
      <4>2. nameIdx[agents[x].name] = x /\ agents[x].name \in Names /\ x # 0
        BY <1>5, <4>1, RegistryAssumption DEF NamesInv, RegistryTypes, Agent, Ids
      <4> QED BY <1>1, <1>7, <4>1, <4>2
    <3> QED BY <3>1, <3>2
  <2>7. \A d \in Clients, x \in DOMAIN agents', b \in Agent : Saves(d, x, b)' => nameIdx'[b.name] = x
    <3> SUFFICES ASSUME NEW d \in Clients, NEW x \in DOMAIN agents', NEW b \in Agent, Saves(d, x, b)'
                 PROVE  nameIdx'[b.name] = x
      OBVIOUS
    <3>1. b.name \in Names
      BY DEF Agent
    <3>2. CASE x = id /\ b = a
      BY <1>1, <3>2
    <3>3. CASE Saves(d, x, b) /\ x = id
      BY <1>7, <3>1, <3>3 DEF Named
    <3>4. CASE Saves(d, x, b) /\ x # id
      <4>1. x \in DOMAIN agents /\ x # 0
        BY <1>1, <3>4 DEF RegistryTypes, Ids
      <4>2. nameIdx[b.name] = x
        BY <3>4, <4>1 DEF NamesInv
      <4> QED BY <1>1, <1>7, <3>1, <4>1, <4>2
    <3> QED BY <1>3, <3>2, <3>3, <3>4
  <2> QED BY <2>1, <2>2, <2>3, <2>4, <2>5, <2>6, <2>7 DEF NamesInv
<1> QED BY <1>2, <1>6, <1>7

\* Agents are removed, with the names that lead to them.
LEMMA NamesUnindex ==
  ASSUME RegistryTypes, RegistryTypes', NamesInv, NEW G \in SUBSET Ids, Unindex(G),
         removed' = removed \union G, UNCHANGED <<files, queue, lastId>>,
         \A c \in Clients, id \in Ids, a \in Agent : Saves(c, id, a)' => Saves(c, id, a)
  PROVE  NamesInv'
<1>1. /\ DOMAIN agents' = DOMAIN agents \ G /\ \A id \in DOMAIN agents' : agents'[id] = agents[id]
      /\ \A n \in Names : nameIdx'[n] = IF nameIdx[n] \in G THEN 0 ELSE nameIdx[n]
      /\ 0 \notin G
  BY DEF Unindex, Without, Ids
<1>2. \A id \in Ids, n \in Names : Named(id, n)' => Named(id, n)
  BY <1>1 DEF Named
<1>3. \A n \in Names : nameIdx'[n] # 0 => nameIdx'[n] = nameIdx[n] /\ nameIdx'[n] \in DOMAIN agents'
  BY <1>1 DEF NamesInv
<1>4. \A n \in Names : nameIdx[n] \in DOMAIN agents' => nameIdx'[n] = nameIdx[n]
  BY <1>1
<1>5. DOMAIN agents' \subseteq Ids
  BY DEF RegistryTypes
<1> QED BY <1>1, <1>2, <1>3, <1>4, <1>5, NamesFrame

\* A restart: what is loaded bears the names it had, and what was never removed
\* is the youngest agent of its name.
LEMMA NamesRestart ==
  ASSUME RegistryTypes, RegistryTypes', NamesInv, Restart
  PROVE  NamesInv'
<1>1. /\ agents' = Reloaded /\ files' = Reloaded /\ nameIdx' = ReloadedIdx /\ queue' = << >>
      /\ lastId' = lastId /\ removed' = removed
      /\ \A p \in Procs : todo'[p] = << >>
  BY DEF Restart, pastVars
<1>2. \A c \in Clients : \A id, a : ~Saves(c, id, a)'
  BY <1>1 DEF Saves, Procs
<1>3. \A id \in Ids, n \in Names : Named(id, n)' => id \in DOMAIN agents' /\ agents'[id].name = n
  BY <1>1, <1>2 DEF Named
<1>4. \A id \in DOMAIN agents' : id \in Ids /\ agents'[id].name \in Names /\ Named(id, agents'[id].name)
  <2> SUFFICES ASSUME NEW id \in DOMAIN agents'
               PROVE  id \in Ids /\ agents'[id].name \in Names /\ Named(id, agents'[id].name)
    OBVIOUS
  <2>1. id \in DOMAIN Flushed /\ agents'[id] = Flushed[id] /\ agents'[id] \in Agent
    BY <1>1, ReloadedFacts
  <2>2. id \in Ids /\ Named(id, Flushed[id].name)
    BY <2>1, FlushedFacts
  <2> QED BY <2>1, <2>2 DEF Agent
<1>5. \A id \in Ids, n \in Names : Named(id, n)' => Named(id, n)
  BY <1>3, <1>4
<1>6. \A n \in Names : /\ \A id \in DOMAIN agents' : agents'[id].name = n => id <= nameIdx'[n]
                       /\ nameIdx'[n] # 0 => /\ nameIdx'[n] \in DOMAIN agents'
                                             /\ agents'[nameIdx'[n]].name = n
  BY <1>1, ReloadedFacts
<1>7. \A id \in DOMAIN agents' \ removed' : nameIdx'[agents'[id].name] = id
  <2> SUFFICES ASSUME NEW id \in DOMAIN agents' \ removed' PROVE nameIdx'[agents'[id].name] = id
    OBVIOUS
  <2>1. PICK n \in Names : n = agents'[id].name
    BY <1>4
  <2>2. Named(id, n) /\ id \in Ids
    BY <1>4, <2>1
  <2>3. id \in DOMAIN agents
    BY <1>1, <2>2 DEF NamesInv
  <2>4. agents[id].name = n
    <3>1. agents[id].name \in Names /\ Named(id, agents[id].name)
      BY <2>3 DEF RegistryTypes, Agent, Named
    <3> QED BY <2>2, <3>1 DEF NamesInv
  <2>5. nameIdx[n] = id /\ id # 0
    BY <1>1, <2>2, <2>3, <2>4 DEF NamesInv, Ids
  <2>6. PICK x : x = nameIdx'[n]
    OBVIOUS
  <2>7. id <= x /\ x \in {0} \union Ids
    BY <1>6, <2>1, <2>6 DEF RegistryTypes
  <2>8. id \in 1..MaxIds /\ MaxIds \in Nat
    BY <2>2, RegistryAssumption DEF Ids
  <2>9. x \in DOMAIN agents' /\ agents'[x].name = n /\ x \in Ids
    BY <1>6, <2>6, <2>7, <2>8 DEF Ids
  <2>10. Named(x, n)
    BY <1>4, <2>9
  <2>11. x <= id
    BY <2>5, <2>9, <2>10 DEF NamesInv
  <2> QED BY <2>1, <2>6, <2>7, <2>8, <2>9, <2>11 DEF Ids
<1>8. \A id \in Ids, n \in Names : Named(id, n)' => id <= lastId'
  BY <1>1, <1>5 DEF NamesInv
<1>9. \A id \in Ids, n, m \in Names : Named(id, n)' /\ Named(id, m)' => n = m
  BY <1>5 DEF NamesInv
<1>10. \A id \in Ids, n \in Names : nameIdx'[n] # 0 /\ Named(id, n)' => id <= nameIdx'[n]
  BY <1>3, <1>6
<1>11. \A id \in Ids, n \in Names : Named(id, n)' /\ id \notin DOMAIN agents' => id \in removed'
  BY <1>3
<1> QED BY <1>2, <1>6, <1>7, <1>8, <1>9, <1>10, <1>11 DEF NamesInv

LEMMA NamesStep ==
  ASSUME RegistryTypes, RegistryTypes', TodoTypes, NamesInv, [Next]_vars
  PROVE  NamesInv'
<1>1. ASSUME NEW c \in Clients, NEW n \in Uses[c],
             Register(c, n) \/ \E op \in Requests : Request(c, n, op)
      PROVE  NamesInv'
  <2>1. PICK s \in Seq(Steps) :
          /\ Command(c, n, s)
          /\ todo[c] = << >> /\ todo' = [todo EXCEPT ![c] = s]
          /\ \/ Head(s) = <<"load", n>>
             \/ Head(s) = <<"auth", n, keys[n]>>
    BY <1>1, CommandMove
  <2>2. \A d \in Clients : \A id, a : Saves(d, id, a)' => Saves(d, id, a)
    <3>1. todo \in [Procs -> Seq(Steps)] /\ c \in Procs
      BY DEF TodoTypes, Procs
    <3>2. todo'[c] = s /\ \A d \in Clients \ {c} : todo'[d] = todo[d]
      BY <2>1, <3>1 DEF Procs
    <3>3. \A id, a : Head(s) # <<"persist", id, a>>
      BY <2>1
    <3> QED BY <3>2, <3>3 DEF Saves
  <2> QED BY <2>1, <2>2, NamesSame DEF Command, memVars, diskVars
<1>2. ASSUME NEW c \in Clients, NEW n \in Names, NEW s, Move(c, n, s),
             s = << >> \/ Head(s)[1] # "persist"
      PROVE  \A d \in Clients, id \in Ids, a \in Agent : Saves(d, id, a)' => Saves(d, id, a)
  <2>1. \A id, a : Saves(c, id, a)' => s # << >> /\ Head(s) = <<"persist", id, a>>
    BY <1>2, MoveFacts
  <2>2. \A id, a : ~Saves(c, id, a)'
    BY <1>2, <2>1
  <2>3. \A d \in Clients \ {c} : \A id, a : Saves(d, id, a)' <=> Saves(d, id, a)
    BY <1>2, MoveFacts
  <2> QED BY <2>2, <2>3
<1>3. ASSUME NEW c \in Clients, NEW n \in Names, NEW s, Move(c, n, s), s \in Rest(n)
      PROVE  s = << >> \/ Head(s)[1] # "persist"
  <2>1. s # << >> => Head(s) \in {<<"renew", n>>, <<"unindex", n>>}
    BY <1>3, RestFacts
  <2> QED BY <2>1
<1>4. ASSUME NEW c \in Clients, LoadKey(c)
      PROVE  NamesInv'
  <2>1. PICK n \in Names, s \in Seq(Steps) :
          /\ Move(c, n, s)
          /\ Head(s) = <<"index", n, keys[n]>> \/ Head(s) = <<"save", n>>
    BY <1>4, LoadMove
  <2>2. Head(s)[1] # "persist"
    BY <2>1
  <2> QED BY <1>2, <1>4, <2>1, <2>2, NamesSame DEF LoadKey, diskVars, pastVars
<1>5. ASSUME NEW c \in Clients, SaveKey(c)
      PROVE  NamesInv'
  <2>1. PICK n \in Names, s \in Seq(Steps) :
          Move(c, n, s) /\ (Head(s) = <<"index", n, lastKey'>> \/ s = << >>)
    BY <1>5, SaveMove
  <2>2. s = << >> \/ Head(s)[1] # "persist"
    BY <2>1
  <2> QED BY <1>2, <1>5, <2>1, <2>2, NamesSame DEF SaveKey, pastVars
<1>6. ASSUME NEW c \in Clients, IndexAgent(c)
      PROVE  NamesInv'
  <2>1. PICK n \in Names, s \in Seq(Steps) :
          /\ Move(c, n, s)
          /\ Head(todo[c])[1] = "index"
          /\ \/ s = << >> /\ UNCHANGED <<memVars, lastId>>
             \/ \E id \in Ids, a \in Agent :
                  /\ s # << >> /\ Head(s) = <<"persist", id, a>>
                  /\ a.name = n /\ a.pub = Head(todo[c])[3]
                  /\ id = IdFor(n)
                  /\ Index(id, a)
                  /\ lastId' = Max({lastId, id})
    BY <1>6, IndexMove
  <2>2. UNCHANGED <<files, queue, removed>>
    BY <1>6 DEF IndexAgent, diskVars, pastVars
  <2>3. CASE s = << >> /\ UNCHANGED <<memVars, lastId>>
    BY <1>2, <2>1, <2>2, <2>3, NamesSame
  <2>4. ASSUME NEW id \in Ids, NEW a \in Agent, s # << >>, Head(s) = <<"persist", id, a>>,
               a.name = n, id = IdFor(n), Index(id, a), lastId' = Max({lastId, id})
        PROVE  NamesInv'
    BY <2>1, <2>2, <2>4, NamesIndex
  <2> QED BY <2>1, <2>3, <2>4
<1>7. ASSUME NEW c \in Clients, PersistAgent(c)
      PROVE  NamesInv'
  <2>1. PICK n \in Names, s \in Seq(Steps), id \in Ids, a \in Agent :
          /\ Move(c, n, s)
          /\ Head(todo[c]) = <<"persist", id, a>>
          /\ a.name = n
          /\ s \in Rest(n)
          /\ queue' = Append(queue, <<id, a>>)
          /\ removed' = IF id \in DOMAIN agents THEN removed \ {id} ELSE removed
    BY <1>7, PersistMove
  <2>2. \A d \in Clients, x \in Ids, b \in Agent : Saves(d, x, b)' => Saves(d, x, b)
    BY <1>2, <1>3, <2>1
  <2>3. Saves(c, id, a)
    BY <2>1 DEF Saves, Move
  <2>4. UNCHANGED <<memVars, files, lastId>>
    BY <1>7 DEF PersistAgent
  <2>5. queue \in Seq(Ids \X Agent)
    BY DEF RegistryTypes
  <2>6. /\ DOMAIN queue' = DOMAIN queue \union {Len(queue) + 1}
        /\ \A i \in DOMAIN queue : queue'[i] = queue[i]
        /\ queue'[Len(queue) + 1] = <<id, a>>
    BY <2>1, <2>5
  <2>7. \A x \in Ids, m \in Names : Named(x, m)' => Named(x, m)
    <3> SUFFICES ASSUME NEW x \in Ids, NEW m \in Names, Named(x, m)' PROVE Named(x, m)
      OBVIOUS
    <3>1. CASE \/ x \in DOMAIN agents' /\ agents'[x].name = m
               \/ x \in DOMAIN files' /\ files'[x].name = m
      BY <2>4, <3>1 DEF Named, memVars
    <3>2. CASE \E i \in DOMAIN queue' : queue'[i][1] = x /\ queue'[i][2].name = m
      <4>1. PICK i \in DOMAIN queue' : queue'[i][1] = x /\ queue'[i][2].name = m
        BY <3>2
      <4>2. CASE i \in DOMAIN queue
        BY <2>6, <4>1, <4>2 DEF Named
      <4>3. CASE i \notin DOMAIN queue
        <5>1. queue'[i] = <<id, a>>
          BY <2>6, <4>3
        <5>2. x = id /\ a.name = m
          BY <4>1, <5>1
        <5> QED BY <2>3, <5>2 DEF Named
      <4> QED BY <4>2, <4>3
    <3>3. CASE \E d \in Clients, b \in Agent : Saves(d, x, b)' /\ b.name = m
      BY <2>2, <3>3 DEF Named
    <3> QED BY <3>1, <3>2, <3>3 DEF Named
  <2>8. id \in DOMAIN agents => nameIdx[agents[id].name] = id
    <3> SUFFICES ASSUME id \in DOMAIN agents PROVE nameIdx[agents[id].name] = id
      OBVIOUS
    <3>1. nameIdx[n] = id
      BY <2>1, <2>3 DEF NamesInv
    <3>2. id # 0
      BY DEF Ids
    <3> QED BY <3>1, <3>2 DEF NamesInv
  <2>9. \A x \in removed : x \notin removed' => x \in DOMAIN agents /\ nameIdx[agents[x].name] = x
    BY <2>1, <2>8
  <2>10. \A m \in Names : nameIdx[m] # 0 => nameIdx[m] \in DOMAIN agents
    BY DEF NamesInv
  <2>11. DOMAIN agents \subseteq Ids
    BY DEF RegistryTypes
  <2> QED BY <2>2, <2>4, <2>7, <2>9, <2>10, <2>11, NamesFrame DEF memVars
<1>8. ASSUME NEW c \in Clients, Authenticate(c)
      PROVE  NamesInv'
  <2>1. PICK n \in Names, s \in Seq(Steps) : Move(c, n, s) /\ (s = << >> \/ Head(s) = <<"renew", n>>)
    BY <1>8, AuthMove
  <2>2. s = << >> \/ Head(s)[1] # "persist"
    BY <2>1
  <2> QED BY <1>2, <1>8, <2>1, <2>2, NamesSame DEF Authenticate, diskVars, pastVars
<1>9. ASSUME NEW c \in Clients, RenewLease(c)
      PROVE  NamesInv'
  <2>1. \A n \in Names : nameIdx[n] # 0 =>
          nameIdx[n] \in DOMAIN agents /\ agents[nameIdx[n]].name = n
    BY DEF NamesInv
  <2>2. PICK n \in Names, s \in Seq(Steps) :
          /\ Move(c, n, s)
          /\ Head(todo[c])[1] = "renew"
          /\ \/ s \in Rest(n) /\ UNCHANGED agents
             \/ \E id \in Ids, a \in Agent :
                  /\ id = nameIdx[n] /\ id \in DOMAIN agents
                  /\ a.name = agents[id].name /\ a.pub = agents[id].pub
                  /\ agents' = [agents EXCEPT ![id] = a]
                  /\ s # << >> /\ Head(s) = <<"persist", id, a>>
    BY <1>9, <2>1, RenewMove
  <2>3. UNCHANGED <<nameIdx, files, queue, lastId, removed>>
    BY <1>9 DEF RenewLease, diskVars, pastVars
  <2>4. CASE s \in Rest(n) /\ UNCHANGED agents
    <3>1. \A d \in Clients, id \in Ids, a \in Agent : Saves(d, id, a)' => Saves(d, id, a)
      BY <1>2, <1>3, <2>2, <2>4
    <3> QED BY <2>3, <2>4, <3>1, NamesSame DEF memVars
  <2>5. ASSUME NEW id \in Ids, NEW a \in Agent, id = nameIdx[n], id \in DOMAIN agents,
               a.name = agents[id].name, agents' = [agents EXCEPT ![id] = a],
               s # << >>, Head(s) = <<"persist", id, a>>
        PROVE  NamesInv'
    <3>1. DOMAIN agents' = DOMAIN agents /\ \A x \in DOMAIN agents : agents'[x].name = agents[x].name
      BY <2>5
    <3>2. a.name = n
      BY <2>1, <2>5 DEF Ids
    <3>3. /\ \A d \in Clients \ {c} : \A x, b : Saves(d, x, b)' => Saves(d, x, b)
          /\ \A x, b : Saves(c, x, b)' => x = id /\ b = a
      <4>1. \A x, b : Head(s) = <<"persist", x, b>> => x = id /\ b = a
        BY <2>5
      <4>2. \A x, b : Saves(c, x, b)' => Head(s) = <<"persist", x, b>>
        BY <2>2, MoveFacts
      <4>3. \A d \in Clients \ {c} : \A x, b : Saves(d, x, b)' => Saves(d, x, b)
        BY <2>2, MoveFacts
      <4> QED BY <4>1, <4>2, <4>3
    <3>4. \A x \in Ids, m \in Names : Named(x, m)' => Named(x, m)
      <4> SUFFICES ASSUME NEW x \in Ids, NEW m \in Names, Named(x, m)' PROVE Named(x, m)
        OBVIOUS
      <4>1. CASE x \in DOMAIN agents' /\ agents'[x].name = m
        BY <3>1, <4>1 DEF Named
      <4>2. CASE \/ x \in DOMAIN files' /\ files'[x].name = m
                 \/ \E i \in DOMAIN queue' : queue'[i][1] = x /\ queue'[i][2].name = m
        BY <2>3, <4>2 DEF Named
      <4>3. CASE \E d \in Clients, b \in Agent : Saves(d, x, b)' /\ b.name = m
        BY <2>5, <3>3, <4>3 DEF Named
      <4> QED BY <4>1, <4>2, <4>3 DEF Named
    <3>5. \A d \in Clients, x \in DOMAIN agents', b \in Agent :
            Saves(d, x, b)' => Saves(d, x, b) \/ nameIdx[b.name] = x
      BY <2>5, <3>2, <3>3
    <3>6. \A m \in Names : nameIdx[m] # 0 => nameIdx[m] \in DOMAIN agents'
      BY <2>1, <3>1
    <3> QED BY <2>3, <3>1, <3>4, <3>5, <3>6, NamesFrame
  <2> QED BY <2>2, <2>4, <2>5
<1>10. ASSUME NEW c \in Clients, UnindexAgent(c)
       PROVE  NamesInv'
  <2>1. PICK n \in Names, s \in Seq(Steps) :
          /\ Move(c, n, s)
          /\ \/ s = << >> /\ UNCHANGED <<memVars, removed>>
             \/ \E id \in Ids :
                  /\ Unindex({id}) /\ removed' = removed \union {id}
                  /\ s # << >> /\ Head(s) = <<"removeFile", {id}>>
    BY <1>10, UnindexMove
  <2>2. s = << >> \/ Head(s)[1] # "persist"
    <3>1. \A x : <<"removeFile", x>>[1] # "persist"
      OBVIOUS
    <3> QED BY <2>1, <3>1
  <2>3. \A d \in Clients, id \in Ids, a \in Agent : Saves(d, id, a)' => Saves(d, id, a)
    BY <1>2, <2>1, <2>2
  <2>4. UNCHANGED <<files, queue, lastId>>
    BY <1>10 DEF UnindexAgent, diskVars
  <2>5. CASE UNCHANGED <<memVars, removed>>
    BY <2>3, <2>4, <2>5, NamesSame
  <2>6. ASSUME NEW id \in Ids, Unindex({id}), removed' = removed \union {id}
        PROVE  NamesInv'
    <3>1. PICK G \in SUBSET Ids : G = {id}
      OBVIOUS
    <3>2. Unindex(G) /\ removed' = removed \union G
      BY <2>6, <3>1
    <3> QED BY <2>3, <2>4, <3>2, NamesUnindex
  <2> QED BY <2>1, <2>5, <2>6
<1>11. ASSUME RegistryTypes, RegistryTypes', NEW x, files' = Without(files, {x}),
              UNCHANGED <<memVars, queue, lastId, removed>>,
              \A d \in Clients, id \in Ids, a \in Agent : Saves(d, id, a)' => Saves(d, id, a)
       PROVE  NamesInv'
  <2>1. DOMAIN files' \subseteq DOMAIN files /\ \A id \in DOMAIN files' : files'[id] = files[id]
    BY <1>11 DEF Without
  <2>2. \A id \in Ids, n \in Names : Named(id, n)' => Named(id, n)
    BY <1>11, <2>1 DEF Named, memVars
  <2>3. \A n \in Names : nameIdx[n] # 0 => nameIdx[n] \in DOMAIN agents
    BY DEF NamesInv
  <2>4. DOMAIN agents \subseteq Ids
    BY DEF RegistryTypes
  <2> QED BY <1>11, <2>2, <2>3, <2>4, NamesFrame DEF memVars
<1>12. ASSUME NEW c \in Clients, RemoveAgentFile(c)
       PROVE  NamesInv'
  <2>1. PICK n \in Names, s \in Seq(Steps) :
          /\ Move(c, n, s)
          /\ \E id \in Head(todo[c])[2] : files' = Without(files, {id})
          /\ Head(s)[1] = "removeKey" \/ Head(s)[1] = "removeFile"
    BY <1>12, RemoveFileMove
  <2> QED BY <1>2, <1>11, <1>12, <2>1 DEF RemoveAgentFile, pastVars
<1>13. ASSUME NEW c \in Clients, RemoveKey(c)
       PROVE  NamesInv'
  <2>1. PICK n \in Names, s \in Seq(Steps) : Move(c, n, s) /\ s = << >>
    BY <1>13, RemoveKeyMove
  <2> QED BY <1>2, <1>13, <2>1, NamesSame DEF RemoveKey, pastVars
<1>14. CASE Tick
  <2>1. /\ DOMAIN agents' = DOMAIN agents /\ \A id \in DOMAIN agents : agents'[id] = Older(agents[id])
        /\ DOMAIN files' = DOMAIN files /\ \A id \in DOMAIN files : files'[id] = Older(files[id])
        /\ DOMAIN queue' = DOMAIN queue
        /\ \A i \in DOMAIN queue : queue'[i] = <<queue[i][1], Older(queue[i][2])>>
        /\ UNCHANGED <<nameIdx, lastId, removed>>
    BY <1>14 DEF Tick, pastVars
  <2>2. /\ \A id \in DOMAIN agents : agents'[id].name = agents[id].name
        /\ \A id \in DOMAIN files : files'[id].name = files[id].name
        /\ \A i \in DOMAIN queue : queue'[i][1] = queue[i][1] /\ queue'[i][2].name = queue[i][2].name
    <3>1. /\ \A id \in DOMAIN agents : agents[id] \in Agent
          /\ \A id \in DOMAIN files : files[id] \in Agent
          /\ \A i \in DOMAIN queue : queue[i][2] \in Agent
      BY DEF RegistryTypes
    <3> QED BY <2>1, <3>1, OlderAgent
  <2>3. ASSUME NEW c \in Clients, NEW id \in Ids, NEW a \in Agent, Saves(c, id, a)'
        PROVE  \E b \in Agent : Saves(c, id, b) /\ b.name = a.name
    <3>1. todo'[c] # << >> /\ Head(todo'[c]) = <<"persist", id, a>> /\ c \in Procs
      BY <2>3 DEF Saves, Procs
    <3>2. todo[c] # << >> /\ OlderStep(Head(todo[c])) = <<"persist", id, a>>
      BY <1>14, <3>1, TickMove
    <3>3. Head(todo[c]) \in Steps
      BY <3>2, ClientWork
    <3>4. Head(todo[c])[1] = "persist"
      BY <3>2 DEF OlderStep
    <3>5. PICK b \in Agent, i \in Ids : Head(todo[c]) = <<"persist", i, b>>
      BY <3>3, <3>4, StepShape
    <3>6. PICK o : o = Older(b)
      OBVIOUS
    <3>7. <<"persist", i, o>> = <<"persist", id, a>>
      BY <3>2, <3>5, <3>6 DEF OlderStep
    <3>8. i = id /\ o = a
      BY <3>7
    <3>9. Saves(c, id, b)
      BY <3>2, <3>5, <3>8 DEF Saves
    <3>10. b.name = a.name
      BY <3>6, <3>8, OlderAgent
    <3> QED BY <3>9, <3>10
  <2>4. \A id \in Ids, n \in Names : Named(id, n)' => Named(id, n)
    <3> SUFFICES ASSUME NEW id \in Ids, NEW n \in Names, Named(id, n)' PROVE Named(id, n)
      OBVIOUS
    <3>1. CASE \E c \in Clients, a \in Agent : Saves(c, id, a)' /\ a.name = n
      BY <2>3, <3>1 DEF Named
    <3>2. CASE ~\E c \in Clients, a \in Agent : Saves(c, id, a)' /\ a.name = n
      BY <2>1, <2>2, <3>2 DEF Named
    <3> QED BY <3>1, <3>2
  <2>5. \A c \in Clients, id \in DOMAIN agents', a \in Agent :
          Saves(c, id, a)' => nameIdx[a.name] = id
    <3> SUFFICES ASSUME NEW c \in Clients, NEW id \in DOMAIN agents', NEW a \in Agent, Saves(c, id, a)'
                 PROVE  nameIdx[a.name] = id
      OBVIOUS
    <3>1. id \in Ids /\ id \in DOMAIN agents
      BY <2>1 DEF RegistryTypes
    <3>2. PICK b \in Agent : Saves(c, id, b) /\ b.name = a.name
      BY <2>3, <3>1
    <3>3. nameIdx[b.name] = id
      BY <3>1, <3>2 DEF NamesInv
    <3> QED BY <3>2, <3>3
  <2>6. \A n \in Names : nameIdx[n] # 0 => nameIdx[n] \in DOMAIN agents'
    BY <2>1 DEF NamesInv
  <2> QED BY <2>1, <2>2, <2>4, <2>5, <2>6, NamesFrame
<1>15. CASE Sweep
  <2>1. /\ Unindex(Expired) /\ removed' = removed \union Expired
        /\ UNCHANGED <<files, queue, lastId>>
    BY <1>15 DEF Sweep, diskVars
  <2>2. PICK G \in SUBSET Ids : G = Expired
    BY DEF Expired, RegistryTypes
  <2>3. \A c \in Clients, id \in Ids, a \in Agent : Saves(c, id, a)' => Saves(c, id, a)
    BY <1>15, SweepMove DEF Saves
  <2>4. Unindex(G) /\ removed' = removed \union G
    BY <2>1, <2>2
  <2> QED BY <2>1, <2>3, <2>4, NamesUnindex
<1>16. CASE RemoveAgentFile(Sweeper)
  <2>1. \A c \in Clients, id \in Ids, a \in Agent : Saves(c, id, a)' => Saves(c, id, a)
    BY <1>16, SweeperFileMove DEF Saves
  <2>2. \E id \in Head(todo[Sweeper])[2] : files' = Without(files, {id})
    BY <1>16, SweeperFileMove
  <2> QED BY <1>11, <1>16, <2>1, <2>2 DEF RemoveAgentFile, pastVars
<1>17. CASE WriteFile
  <2>1. queue \in Seq(Ids \X Agent) /\ queue # << >>
    BY <1>17 DEF WriteFile, RegistryTypes
  <2>2. /\ UNCHANGED <<memVars, todo, lastId, removed>>
        /\ files' = With(files, Head(queue)[1], Head(queue)[2]) /\ queue' = Tail(queue)
    BY <1>17 DEF WriteFile, pastVars
  <2>3. PICK e \in Ids \X Agent : e = Head(queue) /\ e = queue[1] /\ 1 \in DOMAIN queue
    BY <2>1, RangeTail
  <2>4. \A id \in DOMAIN files' : /\ id = e[1] => files'[id] = e[2]
                                  /\ id # e[1] => id \in DOMAIN files /\ files'[id] = files[id]
    BY <2>2, <2>3 DEF With
  <2>5. \A i \in DOMAIN queue' : i + 1 \in DOMAIN queue /\ queue'[i] = queue[i + 1]
    BY <2>1, <2>2
  <2>6. \A id \in Ids, n \in Names : Named(id, n)' => Named(id, n)
    <3> SUFFICES ASSUME NEW id \in Ids, NEW n \in Names, Named(id, n)' PROVE Named(id, n)
      OBVIOUS
    <3>1. CASE id \in DOMAIN files' /\ files'[id].name = n
      <4>1. CASE id = e[1]
        <5>1. queue[1][1] = id /\ queue[1][2].name = n
          BY <2>3, <2>4, <3>1, <4>1
        <5> QED BY <2>3, <5>1 DEF Named
      <4>2. CASE id # e[1]
        BY <2>4, <3>1, <4>2 DEF Named
      <4> QED BY <4>1, <4>2
    <3>2. CASE \E i \in DOMAIN queue' : queue'[i][1] = id /\ queue'[i][2].name = n
      <4>1. PICK i \in DOMAIN queue' : queue'[i][1] = id /\ queue'[i][2].name = n
        BY <3>2
      <4>2. PICK j : j = i + 1
        OBVIOUS
      <4>3. j \in DOMAIN queue /\ queue[j][1] = id /\ queue[j][2].name = n
        BY <2>5, <4>1, <4>2
      <4> QED BY <4>3 DEF Named
    <3>3. CASE \/ id \in DOMAIN agents' /\ agents'[id].name = n
               \/ \E c \in Clients, a \in Agent : Saves(c, id, a)' /\ a.name = n
      BY <2>2, <3>3 DEF Named, Saves, memVars
    <3> QED BY <3>1, <3>2, <3>3 DEF Named
  <2>7. \A c \in Clients : \A id, a : Saves(c, id, a)' => Saves(c, id, a)
    BY <2>2 DEF Saves
  <2>8. \A n \in Names : nameIdx[n] # 0 => nameIdx[n] \in DOMAIN agents
    BY DEF NamesInv
  <2> QED BY <2>2, <2>6, <2>7, <2>8, NamesFrame DEF memVars
<1>18. CASE Restart
  BY <1>18, NamesRestart
<1>19. CASE UNCHANGED vars
  <2>1. \A c \in Clients, id \in Ids, a \in Agent : Saves(c, id, a)' => Saves(c, id, a)
    BY <1>19 DEF vars, Saves
  <2> QED BY <1>19, <2>1, NamesSame DEF vars, diskVars, pastVars
<1> QED BY <1>1, <1>4, <1>5, <1>6, <1>7, <1>8, <1>9, <1>10, <1>12, <1>13, <1>14, <1>15, <1>16,
           <1>17, <1>18, <1>19 DEF Next, Handler


-----------------------------------------------------------------------------
(* Snapshots: what is stored of an agent, or about to be.                  *)

LEMMA FlushedAfter ==
  /\ DOMAIN Flushed' = FlushIds(queue', files')
  /\ \A id \in DOMAIN Flushed' : Flushed'[id] = FlushValue(queue', files', id)
<1>1. DOMAIN Flushed' = FlushIds(queue', files')
  BY DEF Flushed, FlushIds
<1>2. ASSUME NEW id \in DOMAIN Flushed'
      PROVE  Flushed'[id] = FlushValue(queue', files', id)
  BY <1>2 DEF Flushed, FlushValue, Queued
<1> QED BY <1>1, <1>2

\* The files that this handler is going to delete are nobody's.
Removals(p) ==
  (todo[p] # << >> /\ Head(todo[p])[1] = "removeFile") =>
    \A id \in Head(todo[p])[2] : id <= lastId /\ id \notin DOMAIN agents

LEMMA StoreFrame ==
  ASSUME StoreInv,
         \A id \in DOMAIN agents' \ crossed' :
           id \in DOMAIN agents \ crossed /\ agents'[id] = agents[id],
         \A id \in DOMAIN agents' : id \in DOMAIN Flushed =>
           id \in DOMAIN Flushed' /\ Flushed'[id] = Flushed[id],
         \A c \in Clients, id \in DOMAIN agents' : Saving(c, id)' <=> Saving(c, id),
         \A c \in Clients, id \in DOMAIN agents', a \in Agent : Saves(c, id, a)' => Saves(c, id, a),
         \A p \in Procs : Removals(p)'
  PROVE  StoreInv'
<1>1. ASSUME NEW id \in DOMAIN agents' \ crossed', ~\E c \in Clients : Saving(c, id)'
      PROVE  id \in DOMAIN Flushed' /\ Flushed'[id] = agents'[id]
  <2>1. id \in DOMAIN agents \ crossed /\ agents'[id] = agents[id] /\ ~\E c \in Clients : Saving(c, id)
    BY <1>1
  <2>2. id \in DOMAIN Flushed /\ Flushed[id] = agents[id]
    BY <2>1 DEF StoreInv
  <2> QED BY <1>1, <2>1, <2>2
<1>2. ASSUME NEW id \in DOMAIN agents' \ crossed', NEW c \in Clients, NEW a \in Agent,
             Saves(c, id, a)', ~\E d \in Clients \ {c} : Saving(d, id)'
      PROVE  a = agents'[id]
  <2>1. id \in DOMAIN agents \ crossed /\ agents'[id] = agents[id] /\ Saves(c, id, a)
    BY <1>2
  <2>2. ~\E d \in Clients \ {c} : Saving(d, id)
    BY <1>2
  <2> QED BY <2>1, <2>2 DEF StoreInv
<1>3. \A p \in Procs : (todo'[p] # << >> /\ Head(todo'[p])[1] = "removeFile") =>
        \A id \in Head(todo'[p])[2] : id <= lastId' /\ id \notin DOMAIN agents'
  BY DEF Removals
<1> QED BY <1>1, <1>2, <1>3 DEF StoreInv

\* A handler goes on without a snapshot; agents may go.
LEMMA StoreMove ==
  ASSUME RegistryTypes, TodoTypes, StoreInv, NEW c \in Clients, NEW n \in Names, NEW s, Move(c, n, s),
         Head(todo[c])[1] # "persist", s = << >> \/ Head(s)[1] # "persist",
         s # << >> /\ Head(s)[1] = "removeFile" =>
           \A id \in Head(s)[2] : id <= lastId' /\ id \notin DOMAIN agents',
         \A id \in DOMAIN agents' : id \in DOMAIN agents /\ agents'[id] = agents[id],
         \A id \in DOMAIN agents' : id \in DOMAIN Flushed =>
           id \in DOMAIN Flushed' /\ Flushed'[id] = Flushed[id],
         UNCHANGED <<crossed, lastId>>
  PROVE  StoreInv'
<1>1. \A d \in Clients : \A id : Saving(d, id)' <=> Saving(d, id)
  <2>1. \A id : ~Saving(c, id) /\ ~Saving(c, id)'
    BY MoveFacts
  <2> QED BY <2>1, MoveFacts
<1>2. \A d \in Clients : \A id, a : Saves(d, id, a)' => Saves(d, id, a)
  <2>1. \A id, a : ~Saves(c, id, a)'
    <3>1. \A id, a : Saves(c, id, a)' <=> s # << >> /\ Head(s) = <<"persist", id, a>>
      BY MoveFacts
    <3> QED BY <3>1
  <2> QED BY <2>1, MoveFacts
<1>3. ASSUME NEW p \in Procs
      PROVE  Removals(p)'
  <2>1. CASE p = c
    <3>1. todo'[p] = s
      BY <2>1, MoveTypes
    <3> QED BY <3>1 DEF Removals
  <2>2. CASE p # c
    <3>1. todo'[p] = todo[p]
      BY <2>2, MoveTypes
    <3> QED BY <3>1 DEF Removals, StoreInv
  <2> QED BY <2>1, <2>2
<1>4. \A id \in DOMAIN agents' \ crossed' : id \in DOMAIN agents \ crossed /\ agents'[id] = agents[id]
  OBVIOUS
<1> QED BY <1>1, <1>2, <1>3, <1>4, StoreFrame

\* A snapshot of an agent is taken.
LEMMA StoreSnapshot ==
  ASSUME RegistryTypes, TodoTypes, StoreInv, NEW c \in Clients, NEW n \in Names, NEW s, Move(c, n, s),
         Head(todo[c])[1] # "persist", NEW id \in Ids, NEW a \in Agent,
         s # << >>, Head(s) = <<"persist", id, a>>,
         DOMAIN agents' = DOMAIN agents \union {id}, agents'[id] = a,
         \A x \in DOMAIN agents : x # id => agents'[x] = agents[x],
         (id \in DOMAIN agents /\ lastId' = lastId) \/ (id = lastId + 1 /\ lastId' = id),
         UNCHANGED <<queue, files, crossed>>
  PROVE  StoreInv'
<1>1. Flushed' = Flushed
  BY DEF Flushed, Queued
<1>2. /\ \A x : Saving(c, x)' <=> x = id
      /\ \A x : ~Saving(c, x)
      /\ \A x, b : Saves(c, x, b)' => x = id /\ b = a
  <2>1. Head(s)[1] = "persist" /\ Head(s)[2] = id
    OBVIOUS
  <2>2. \A x : Saving(c, x)' <=> s # << >> /\ Head(s)[1] = "persist" /\ Head(s)[2] = x
    BY MoveFacts
  <2>3. \A x : Saving(c, x) <=> Head(todo[c])[1] = "persist" /\ Head(todo[c])[2] = x
    BY MoveFacts
  <2>4. \A x, b : Saves(c, x, b)' <=> s # << >> /\ Head(s) = <<"persist", x, b>>
    BY MoveFacts
  <2>5. \A x, b : Head(s) = <<"persist", x, b>> => x = id /\ b = a
    OBVIOUS
  <2> QED BY <2>1, <2>2, <2>3, <2>4, <2>5
<1>3. \A d \in Clients \ {c} : /\ \A x : Saving(d, x)' <=> Saving(d, x)
                               /\ \A x, b : Saves(d, x, b)' <=> Saves(d, x, b)
  BY MoveFacts
<1>4. ASSUME NEW x \in DOMAIN agents' \ crossed', ~\E d \in Clients : Saving(d, x)'
      PROVE  x \in DOMAIN Flushed' /\ Flushed'[x] = agents'[x]
  <2>1. x # id /\ x \in DOMAIN agents \ crossed /\ agents'[x] = agents[x]
    BY <1>2, <1>4
  <2>2. ~\E d \in Clients : Saving(d, x)
    BY <1>2, <1>3, <1>4
  <2> QED BY <1>1, <2>1, <2>2 DEF StoreInv
<1>5. ASSUME NEW x \in DOMAIN agents' \ crossed', NEW d \in Clients, NEW b \in Agent,
             Saves(d, x, b)', ~\E e \in Clients \ {d} : Saving(e, x)'
      PROVE  b = agents'[x]
  <2>1. CASE d = c
    BY <1>2, <1>5, <2>1
  <2>2. CASE d # c
    <3>1. x # id
      BY <1>2, <1>5, <2>2
    <3>2. x \in DOMAIN agents \ crossed /\ agents'[x] = agents[x] /\ Saves(d, x, b)
      BY <1>3, <1>5, <2>2, <3>1
    <3>3. ~\E e \in Clients \ {d} : Saving(e, x)
      BY <1>2, <1>3, <1>5
    <3> QED BY <3>2, <3>3 DEF StoreInv
  <2> QED BY <2>1, <2>2
<1>6. ASSUME NEW p \in Procs, todo'[p] # << >>, Head(todo'[p])[1] = "removeFile"
      PROVE  \A x \in Head(todo'[p])[2] : x <= lastId' /\ x \notin DOMAIN agents'
  <2>1. p # c
    <3>1. Head(s)[1] = "persist"
      OBVIOUS
    <3> QED BY <1>6, <3>1, MoveTypes
  <2>2. todo'[p] = todo[p]
    BY <2>1, MoveTypes
  <2>3. \A x \in Head(todo[p])[2] : x <= lastId /\ x \notin DOMAIN agents
    BY <1>6, <2>2 DEF StoreInv
  <2>4. todo[p] \in Seq(Steps) /\ todo[p] # << >> /\ Head(todo[p])[1] = "removeFile"
    BY <1>6, <2>2 DEF TodoTypes
  <2>5. Head(todo[p])[2] \in SUBSET Ids
    BY <2>4, RangeTail, StepShape
  <2>6. lastId \in Nat /\ Ids \subseteq Nat
    BY RegistryAssumption DEF RegistryTypes, Ids
  <2> QED BY <2>2, <2>3, <2>5, <2>6
<1> QED BY <1>4, <1>5, <1>6 DEF StoreInv

\* A snapshot is queued.
LEMMA QueuedFile ==
  ASSUME RegistryTypes, NEW id \in Ids, NEW a \in Agent,
         queue' = Append(queue, <<id, a>>), files' = files
  PROVE  /\ DOMAIN Flushed' = DOMAIN Flushed \union {id} /\ Flushed'[id] = a
         /\ \A x \in DOMAIN Flushed : x # id => Flushed'[x] = Flushed[x]
<1>1. PICK e : e = <<id, a>>
  OBVIOUS
<1>2. /\ FlushIds(queue', files') = FlushIds(queue, files) \union {id}
      /\ FlushValue(queue', files', id) = a
      /\ \A x : x # id => FlushValue(queue', files', x) = FlushValue(queue, files, x)
  <2>1. e[1] = id /\ e[2] = a
    BY <1>1
  <2>2. PICK S : queue \in Seq(S) /\ e \in S
    BY <1>1 DEF RegistryTypes
  <2>3. PICK q \in Seq(S), f \in {files} : q = queue /\ f = files
    BY <2>2
  <2>4. queue' = Append(q, e) /\ files' = f
    BY <1>1, <2>3
  <2>5. /\ FlushIds(Append(q, e), f) = FlushIds(q, f) \union {e[1]}
        /\ FlushValue(Append(q, e), f, e[1]) = e[2]
        /\ \A x : x # e[1] => FlushValue(Append(q, e), f, x) = FlushValue(q, f, x)
    BY <2>2, <2>3, FlushAppend, SMTT(30)
  <2> QED BY <2>1, <2>3, <2>4, <2>5
<1> QED BY <1>2, FlushedFacts, FlushedAfter

\* A snapshot is queued: if it was the only one on its way, it is the agent.
LEMMA StorePersist ==
  ASSUME RegistryTypes, TodoTypes, StoreInv, NEW c \in Clients, NEW n \in Names, NEW s, Move(c, n, s),
         NEW id \in Ids, NEW a \in Agent, Head(todo[c]) = <<"persist", id, a>>, s \in Rest(n),
         queue' = Append(queue, <<id, a>>),
         crossed' = crossed \union {x \in {id} : \E p \in Clients \ {c} : Saving(p, id)},
         UNCHANGED <<agents, files, lastId>>
  PROVE  StoreInv'
<1>1. Head(todo[c])[1] = "persist" /\ Head(todo[c])[2] = id
  OBVIOUS
<1>2. \A x : Saving(c, x) <=> x = id
  BY <1>1, MoveFacts
<1>3. s = << >> \/ Head(s)[1] \in {"renew", "unindex"}
  <2>1. s # << >> => Head(s) \in {<<"renew", n>>, <<"unindex", n>>}
    BY RestFacts
  <2> QED BY <2>1
<1>4. \A x : ~Saving(c, x)'
  BY <1>3, MoveFacts
<1>5. \A x, b : ~Saves(c, x, b)'
  <2>1. \A x, b : Saves(c, x, b)' <=> s # << >> /\ Head(s) = <<"persist", x, b>>
    BY MoveFacts
  <2> QED BY <1>3, <2>1
<1>6. \A d \in Clients \ {c} : /\ \A x : Saving(d, x)' <=> Saving(d, x)
                               /\ \A x, b : Saves(d, x, b)' <=> Saves(d, x, b)
  BY MoveFacts
<1>7. Saves(c, id, a)
  BY DEF Saves, Move
<1>10. /\ DOMAIN Flushed' = DOMAIN Flushed \union {id} /\ Flushed'[id] = a
       /\ \A x \in DOMAIN Flushed : x # id => Flushed'[x] = Flushed[x]
  BY QueuedFile
<1>11. id \notin crossed' => id \notin crossed /\ ~\E d \in Clients \ {c} : Saving(d, id)
  OBVIOUS
<1>12. ASSUME NEW x \in DOMAIN agents' \ crossed', ~\E d \in Clients : Saving(d, x)'
       PROVE  x \in DOMAIN Flushed' /\ Flushed'[x] = agents'[x]
  <2>1. CASE x = id
    <3>1. a = agents[id]
      BY <1>7, <1>11, <1>12, <2>1 DEF StoreInv
    <3> QED BY <1>10, <2>1, <3>1
  <2>2. CASE x # id
    <3>1. x \in DOMAIN agents \ crossed /\ ~\E d \in Clients : Saving(d, x)
      BY <1>2, <1>6, <1>12, <2>2
    <3>2. x \in DOMAIN Flushed /\ Flushed[x] = agents[x]
      BY <3>1 DEF StoreInv
    <3> QED BY <1>10, <2>2, <3>2
  <2> QED BY <2>1, <2>2
<1>13. ASSUME NEW x \in DOMAIN agents' \ crossed', NEW d \in Clients, NEW b \in Agent,
              Saves(d, x, b)', ~\E f \in Clients \ {d} : Saving(f, x)'
       PROVE  b = agents'[x]
  <2>1. d # c /\ Saves(d, x, b)
    BY <1>5, <1>6, <1>13
  <2>2. x # id
    <3>1. Saving(d, x)
      BY <2>1, IdleFacts
    <3> QED BY <1>11, <1>13, <2>1, <3>1
  <2>3. x \in DOMAIN agents \ crossed /\ ~\E f \in Clients \ {d} : Saving(f, x)
    BY <1>2, <1>6, <1>13, <2>2
  <2> QED BY <2>1, <2>3 DEF StoreInv
<1>14. ASSUME NEW p \in Procs, todo'[p] # << >>, Head(todo'[p])[1] = "removeFile"
       PROVE  \A x \in Head(todo'[p])[2] : x <= lastId' /\ x \notin DOMAIN agents'
  <2>1. p # c
    BY <1>3, <1>14, MoveTypes
  <2>2. todo'[p] = todo[p]
    BY <2>1, MoveTypes
  <2> QED BY <1>14, <2>2 DEF StoreInv
<1> QED BY <1>12, <1>13, <1>14 DEF StoreInv

\* A file of an agent that is gone is deleted.
LEMMA DeletedFile ==
  ASSUME RegistryTypes, NEW x, x \notin DOMAIN agents', files' = Without(files, {x}), queue' = queue
  PROVE  /\ \A id \in DOMAIN agents' : id \in DOMAIN Flushed => id \in DOMAIN Flushed'
         /\ DOMAIN Flushed' \subseteq DOMAIN Flushed
         /\ \A id \in DOMAIN Flushed' : Flushed'[id] = Flushed[id]
<1>1. PICK S : queue \in Seq(S)
  BY DEF RegistryTypes
<1>2. PICK q \in Seq(S), f \in {files} : q = queue /\ f = files
  BY <1>1
<1>3. /\ FlushIds(q, Without(f, {x})) \subseteq FlushIds(q, f)
      /\ \A id \in FlushIds(q, f) : id # x => id \in FlushIds(q, Without(f, {x}))
      /\ \A id \in FlushIds(q, Without(f, {x})) :
           FlushValue(q, Without(f, {x}), id) = FlushValue(q, f, id)
  BY FlushDelete
<1>4. /\ FlushIds(queue', files') \subseteq FlushIds(queue, files)
      /\ \A id \in FlushIds(queue, files) : id # x => id \in FlushIds(queue', files')
      /\ \A id \in FlushIds(queue', files') :
           FlushValue(queue', files', id) = FlushValue(queue, files, id)
  BY <1>2, <1>3
<1> QED BY <1>4, FlushedFacts, FlushedAfter

\* The writer writes one file.
LEMMA WrittenFile ==
  ASSUME RegistryTypes, WriteFile
  PROVE  DOMAIN Flushed' = DOMAIN Flushed /\ \A id \in DOMAIN Flushed : Flushed'[id] = Flushed[id]
<1>1. PICK S : queue \in Seq(S)
  BY DEF RegistryTypes
<1>2. PICK q \in Seq(S), f \in {files} : q = queue /\ f = files /\ q # << >>
  BY <1>1 DEF WriteFile
<1>3. /\ FlushIds(Tail(q), With(f, Head(q)[1], Head(q)[2])) = FlushIds(q, f)
      /\ \A id \in FlushIds(q, f) :
           FlushValue(Tail(q), With(f, Head(q)[1], Head(q)[2]), id) = FlushValue(q, f, id)
  BY <1>2, FlushWrite
<1>4. queue' = Tail(q) /\ files' = With(f, Head(q)[1], Head(q)[2])
  BY <1>2 DEF WriteFile
<1> QED BY <1>2, <1>3, <1>4, FlushedFacts, FlushedAfter

\* Time passes.
LEMMA AgedFiles ==
  ASSUME RegistryTypes, Tick
  PROVE  DOMAIN Flushed' = DOMAIN Flushed /\ \A id \in DOMAIN Flushed : Flushed'[id] = Older(Flushed[id])
<1>1. PICK S : queue \in Seq(S)
  BY DEF RegistryTypes
<1>2. PICK q \in Seq(S), f \in {files} : q = queue /\ f = files
  BY <1>1
<1>3. PICK p, g : /\ p = [i \in DOMAIN q |-> <<q[i][1], Older(q[i][2])>>]
                  /\ g = [id \in DOMAIN f |-> Older(f[id])]
  OBVIOUS
<1>4. /\ FlushIds(p, g) = FlushIds(q, f)
      /\ \A id \in FlushIds(q, f) : FlushValue(p, g, id) = Older(FlushValue(q, f, id))
  BY <1>3, FlushOlder
<1>5. queue' = p /\ files' = g
  BY <1>2, <1>3 DEF Tick
<1> QED BY <1>2, <1>4, <1>5, FlushedFacts, FlushedAfter

\* Whoever saves after time has passed had the younger snapshot.
LEMMA AgedSaves ==
  ASSUME RegistryTypes, TodoTypes, Tick, NEW c \in Clients
  PROVE  /\ \A id : Saving(c, id)' <=> Saving(c, id)
         /\ \A id, a : Saves(c, id, a)' =>
              \E b \in Agent : Saves(c, id, b) /\ a = Older(b)
<1>1. /\ c \in Procs /\ todo[c] \in Seq(Steps) /\ todo'[c] \in Seq(Steps)
      /\ todo'[c] = << >> <=> todo[c] = << >>
      /\ todo[c] # << >> => Head(todo'[c]) = OlderStep(Head(todo[c]))
  BY TickMove DEF Procs, TodoTypes
<1>2. \A id : Saving(c, id)' <=> Saving(c, id)
  <2>1. todo' = [p \in Procs |-> [i \in DOMAIN todo[p] |-> OlderStep(todo[p][i])]]
    BY Zenon DEF Tick, OlderStep
  <2>2. DOMAIN todo'[c] = DOMAIN todo[c] /\ \A i \in DOMAIN todo[c] : todo'[c][i] = OlderStep(todo[c][i])
    BY <1>1, <2>1
  <2>3. \A e : OlderStep(e)[1] = e[1] \/ (OlderStep(e)[1] = "persist" /\ e[1] = "persist")
    BY DEF OlderStep
  <2>4. \A e : e[1] = "persist" => OlderStep(e)[1] = "persist" /\ OlderStep(e)[2] = e[2]
    BY DEF OlderStep
  <2> QED BY <2>2, <2>3, <2>4 DEF Saving
<1>3. ASSUME NEW id, NEW a, Saves(c, id, a)'
      PROVE  \E b \in Agent : Saves(c, id, b) /\ a = Older(b)
  <2>1. todo[c] # << >> /\ OlderStep(Head(todo[c])) = <<"persist", id, a>>
    BY <1>1, <1>3 DEF Saves
  <2>2. Head(todo[c]) \in Steps
    BY <2>1, ClientWork
  <2>3. Head(todo[c])[1] = "persist"
    BY <2>1 DEF OlderStep
  <2>4. PICK b \in Agent, i \in Ids : Head(todo[c]) = <<"persist", i, b>>
    BY <2>2, <2>3, StepShape
  <2>5. PICK o : o = Older(b)
    OBVIOUS
  <2>6. <<"persist", i, o>> = <<"persist", id, a>>
    BY <2>1, <2>4, <2>5 DEF OlderStep
  <2>7. i = id /\ o = a
    BY <2>6
  <2>8. Saves(c, id, b)
    BY <2>1, <2>4, <2>7 DEF Saves
  <2> QED BY <2>5, <2>7, <2>8
<1> QED BY <1>2, <1>3

LEMMA StoreStep ==
  ASSUME RegistryTypes, RegistryTypes', TodoTypes, NamesInv, StoreInv, [Next]_vars
  PROVE  StoreInv'
<1>1. \A n \in Names : nameIdx[n] # 0 =>
        nameIdx[n] \in DOMAIN agents /\ agents[nameIdx[n]].name = n
  BY DEF NamesInv
<1>2. ASSUME UNCHANGED <<queue, files>>
      PROVE  Flushed' = Flushed
  BY <1>2 DEF Flushed, Queued
<1>3. ASSUME NEW c \in Clients, NEW n \in Uses[c],
             Register(c, n) \/ \E op \in Requests : Request(c, n, op)
      PROVE  StoreInv'
  <2>1. PICK s \in Seq(Steps) :
          /\ Command(c, n, s)
          /\ todo[c] = << >> /\ todo' = [todo EXCEPT ![c] = s]
          /\ s # << >> /\ Work1(s, n)
          /\ \/ Head(s) = <<"load", n>>
             \/ Head(s) = <<"auth", n, keys[n]>>
    BY <1>3, CommandMove
  <2>2. todo'[c] = s /\ \A p \in Procs \ {c} : todo'[p] = todo[p]
    BY <2>1 DEF TodoTypes, Procs
  <2>3. Head(s)[1] \in {"load", "auth"} /\ n \in Names
    BY <1>3, <2>1, CommandMove
  <2>4. \A id : ~Saving(c, id) /\ ~Saving(c, id)'
    <3>1. \A id : ~SavingSeq(s, id)
      BY <2>1, <2>3, WorkFacts
    <3>2. \A id : ~Saving(c, id)'
      BY <2>2, <3>1 DEF Saving, SavingSeq
    <3>3. \A id : ~Saving(c, id)
      BY <2>1, IdleFacts
    <3> QED BY <3>2, <3>3
  <2>5. \A d \in Clients \ {c} : \A id : Saving(d, id)' <=> Saving(d, id)
    BY <2>2 DEF Saving, Procs
  <2>6. \A d \in Clients : \A id, a : Saves(d, id, a)' => Saves(d, id, a)
    BY <2>2, <2>3 DEF Saves, Procs
  <2>7. UNCHANGED <<memVars, queue, files, lastId, crossed>>
    BY <2>1 DEF Command, diskVars
  <2>8. \A p \in Procs : Removals(p)'
    BY <2>2, <2>3, <2>7 DEF Removals, StoreInv, memVars
  <2> QED BY <1>2, <2>4, <2>5, <2>6, <2>7, <2>8, StoreFrame DEF memVars
<1>4. ASSUME NEW c \in Clients, LoadKey(c)
      PROVE  StoreInv'
  <2>1. PICK n \in Names, s \in Seq(Steps) :
          /\ Move(c, n, s) /\ Head(todo[c])[1] = "load"
          /\ Head(s) = <<"index", n, keys[n]>> \/ Head(s) = <<"save", n>>
    BY <1>4, LoadMove
  <2>2. Head(s)[1] \in {"index", "save"}
    BY <2>1
  <2>3. UNCHANGED <<agents, queue, files, crossed, lastId>>
    BY <1>4 DEF LoadKey, memVars, diskVars, pastVars
  <2> QED BY <1>2, <2>1, <2>2, <2>3, StoreMove
<1>5. ASSUME NEW c \in Clients, SaveKey(c)
      PROVE  StoreInv'
  <2>1. PICK n \in Names, s \in Seq(Steps) :
          /\ Move(c, n, s) /\ Head(todo[c])[1] = "save"
          /\ Head(s) = <<"index", n, lastKey'>> \/ s = << >>
    BY <1>5, SaveMove
  <2>2. s = << >> \/ Head(s)[1] = "index"
    BY <2>1
  <2>3. UNCHANGED <<agents, queue, files, crossed, lastId>>
    BY <1>5 DEF SaveKey, memVars, pastVars
  <2> QED BY <1>2, <2>1, <2>2, <2>3, StoreMove
<1>6. ASSUME NEW c \in Clients, IndexAgent(c)
      PROVE  StoreInv'
  <2>1. PICK n \in Names, s \in Seq(Steps) :
          /\ Move(c, n, s)
          /\ Head(todo[c])[1] = "index"
          /\ \/ s = << >> /\ UNCHANGED <<memVars, lastId>>
             \/ \E id \in Ids, a \in Agent :
                  /\ s # << >> /\ Head(s) = <<"persist", id, a>>
                  /\ a.name = n /\ a.pub = Head(todo[c])[3]
                  /\ id = IdFor(n)
                  /\ Index(id, a)
                  /\ lastId' = Max({lastId, id})
    BY <1>6, IndexMove
  <2>2. UNCHANGED <<files, queue, crossed>>
    BY <1>6 DEF IndexAgent, diskVars, pastVars
  <2>3. CASE s = << >> /\ UNCHANGED <<memVars, lastId>>
    BY <1>2, <2>1, <2>2, <2>3, StoreMove DEF memVars
  <2>4. ASSUME NEW id \in Ids, NEW a \in Agent, s # << >>, Head(s) = <<"persist", id, a>>,
               id = IdFor(n), Index(id, a), lastId' = Max({lastId, id})
        PROVE  StoreInv'
    <3>1. /\ DOMAIN agents' = DOMAIN agents \union {id} /\ agents'[id] = a
          /\ \A x \in DOMAIN agents : x # id => agents'[x] = agents[x]
      BY <2>4 DEF Index, With
    <3>2. (id \in DOMAIN agents /\ lastId' = lastId) \/ (id = lastId + 1 /\ lastId' = id)
      BY <2>4, IdForFacts
    <3>3. Head(todo[c])[1] # "persist" /\ Move(c, n, s)
      BY <2>1
    <3>4. s # << >> /\ Head(s) = <<"persist", id, a>>
      BY <2>4
    <3> QED BY <2>2, <3>1, <3>2, <3>3, <3>4, StoreSnapshot
  <2> QED BY <2>1, <2>3, <2>4
<1>7. ASSUME NEW c \in Clients, PersistAgent(c)
      PROVE  StoreInv'
  <2>1. PICK n \in Names, s \in Seq(Steps), id \in Ids, a \in Agent :
          /\ Move(c, n, s)
          /\ Head(todo[c]) = <<"persist", id, a>>
          /\ a.name = n
          /\ s \in Rest(n)
          /\ queue' = Append(queue, <<id, a>>)
          /\ removed' = IF id \in DOMAIN agents THEN removed \ {id} ELSE removed
          /\ crossed' = crossed \union {x \in {id} : \E p \in Clients \ {c} : Saving(p, id)}
    BY <1>7, PersistMove
  <2>2. UNCHANGED <<agents, files, lastId>>
    BY <1>7 DEF PersistAgent, memVars
  <2> QED BY <2>1, <2>2, StorePersist
<1>8. ASSUME NEW c \in Clients, Authenticate(c)
      PROVE  StoreInv'
  <2>1. PICK n \in Names, s \in Seq(Steps) :
          /\ Move(c, n, s) /\ Head(todo[c])[1] = "auth"
          /\ s = << >> \/ Head(s) = <<"renew", n>>
    BY <1>8, AuthMove
  <2>2. s = << >> \/ Head(s)[1] = "renew"
    BY <2>1
  <2>3. UNCHANGED <<agents, queue, files, crossed, lastId>>
    BY <1>8 DEF Authenticate, memVars, diskVars, pastVars
  <2> QED BY <1>2, <2>1, <2>2, <2>3, StoreMove
<1>9. ASSUME NEW c \in Clients, RenewLease(c)
      PROVE  StoreInv'
  <2>1. PICK n \in Names, s \in Seq(Steps) :
          /\ Move(c, n, s)
          /\ Head(todo[c])[1] = "renew"
          /\ \/ s \in Rest(n) /\ UNCHANGED agents
             \/ \E id \in Ids, a \in Agent :
                  /\ id = nameIdx[n] /\ id \in DOMAIN agents
                  /\ a.name = agents[id].name /\ a.pub = agents[id].pub
                  /\ agents' = [agents EXCEPT ![id] = a]
                  /\ s # << >> /\ Head(s) = <<"persist", id, a>>
    BY <1>1, <1>9, RenewMove
  <2>2. UNCHANGED <<queue, files, crossed, lastId>>
    BY <1>9 DEF RenewLease, diskVars, pastVars
  <2>3. CASE s \in Rest(n) /\ UNCHANGED agents
    <3>1. s = << >> \/ Head(s) \in {<<"renew", n>>, <<"unindex", n>>}
      BY <2>3, RestFacts
    <3>2. s = << >> \/ Head(s)[1] \in {"renew", "unindex"}
      BY <3>1
    <3> QED BY <1>2, <2>1, <2>2, <2>3, <3>2, StoreMove
  <2>4. ASSUME NEW id \in Ids, NEW a \in Agent, id \in DOMAIN agents,
               agents' = [agents EXCEPT ![id] = a], s # << >>, Head(s) = <<"persist", id, a>>
        PROVE  StoreInv'
    <3>1. /\ DOMAIN agents' = DOMAIN agents \union {id} /\ agents'[id] = a
          /\ \A x \in DOMAIN agents : x # id => agents'[x] = agents[x]
      BY <2>4
    <3>2. Head(todo[c])[1] # "persist"
      BY <2>1
    <3> QED BY <2>1, <2>2, <2>4, <3>1, <3>2, StoreSnapshot
  <2> QED BY <2>1, <2>3, <2>4
<1>10. ASSUME NEW c \in Clients, UnindexAgent(c)
       PROVE  StoreInv'
  <2>1. PICK n \in Names, s \in Seq(Steps) :
          /\ Move(c, n, s)
          /\ Head(todo[c])[1] = "unindex"
          /\ \/ s = << >> /\ UNCHANGED <<memVars, removed>>
             \/ \E id \in Ids :
                  /\ id = nameIdx[n]
                  /\ Unindex({id})
                  /\ removed' = removed \union {id}
                  /\ s # << >> /\ Head(s) = <<"removeFile", {id}>>
    BY <1>10, UnindexMove
  <2>2. UNCHANGED <<queue, files, crossed, lastId>>
    BY <1>10 DEF UnindexAgent, diskVars
  <2>3. CASE s = << >> /\ UNCHANGED <<memVars, removed>>
    BY <1>2, <2>1, <2>2, <2>3, StoreMove DEF memVars
  <2>4. ASSUME NEW id \in Ids, id = nameIdx[n], Unindex({id}), s # << >>, Head(s) = <<"removeFile", {id}>>
        PROVE  StoreInv'
    <3>1. PICK x : x = {id}
      OBVIOUS
    <3>2. Head(s) = <<"removeFile", x>>
      BY <2>4, <3>1
    <3>3. Head(s)[1] = "removeFile" /\ Head(s)[2] = x
      BY <3>2
    <3>4. /\ DOMAIN agents' = DOMAIN agents \ {id}
          /\ \A y \in DOMAIN agents' : y \in DOMAIN agents /\ agents'[y] = agents[y]
      BY <2>4 DEF Unindex, Without
    <3>5. id <= lastId
      <4>1. Named(id, n)
        BY <1>1, <2>4 DEF Named, Ids
      <4> QED BY <4>1 DEF NamesInv
    <3> QED BY <1>2, <2>1, <2>2, <3>1, <3>3, <3>4, <3>5, StoreMove
  <2> QED BY <2>1, <2>3, <2>4
<1>11. ASSUME NEW c \in Clients, RemoveAgentFile(c)
       PROVE  StoreInv'
  <2>1. PICK n \in Names, s \in Seq(Steps) :
          /\ Move(c, n, s)
          /\ Head(todo[c])[1] = "removeFile"
          /\ \E id \in Head(todo[c])[2] : files' = Without(files, {id})
          /\ s # << >>
          /\ \/ Head(s)[1] = "removeKey"
             \/ Head(s)[1] = "removeFile" /\ Head(s)[2] \subseteq Head(todo[c])[2]
    BY <1>11, RemoveFileMove
  <2>2. UNCHANGED <<agents, queue, crossed, lastId>>
    BY <1>11 DEF RemoveAgentFile, memVars, pastVars
  <2>3. \A id \in Head(todo[c])[2] : id <= lastId /\ id \notin DOMAIN agents
    BY <2>1 DEF StoreInv, Move, Procs
  <2>4. PICK x \in Head(todo[c])[2] : files' = Without(files, {x})
    BY <2>1
  <2>5. \A id \in DOMAIN agents' : id \in DOMAIN Flushed =>
          id \in DOMAIN Flushed' /\ Flushed'[id] = Flushed[id]
    BY <2>2, <2>3, <2>4, DeletedFile
  <2> QED BY <2>1, <2>2, <2>3, <2>5, StoreMove
<1>12. ASSUME NEW c \in Clients, RemoveKey(c)
       PROVE  StoreInv'
  <2>1. PICK n \in Names, s \in Seq(Steps) :
          Move(c, n, s) /\ Head(todo[c])[1] = "removeKey" /\ s = << >>
    BY <1>12, RemoveKeyMove
  <2>2. UNCHANGED <<agents, queue, files, crossed, lastId>>
    BY <1>12 DEF RemoveKey, memVars, pastVars
  <2> QED BY <1>2, <2>1, <2>2, StoreMove
<1>13. CASE Tick
  <2>1. /\ DOMAIN agents' = DOMAIN agents /\ \A id \in DOMAIN agents : agents'[id] = Older(agents[id])
        /\ UNCHANGED <<lastId, crossed>>
    BY <1>13 DEF Tick, pastVars
  <2>2. \A c \in Clients : /\ \A id : Saving(c, id)' <=> Saving(c, id)
                           /\ \A id, a : Saves(c, id, a)' => \E b \in Agent : Saves(c, id, b) /\ a = Older(b)
    BY <1>13, AgedSaves
  <2>3. ASSUME NEW id \in DOMAIN agents' \ crossed', ~\E c \in Clients : Saving(c, id)'
        PROVE  id \in DOMAIN Flushed' /\ Flushed'[id] = agents'[id]
    <3>1. id \in DOMAIN Flushed /\ Flushed[id] = agents[id]
      BY <2>1, <2>2, <2>3 DEF StoreInv
    <3> QED BY <1>13, <2>1, <2>3, <3>1, AgedFiles
  <2>4. ASSUME NEW id \in DOMAIN agents' \ crossed', NEW c \in Clients, NEW a \in Agent,
               Saves(c, id, a)', ~\E d \in Clients \ {c} : Saving(d, id)'
        PROVE  a = agents'[id]
    <3>1. PICK b \in Agent : Saves(c, id, b) /\ a = Older(b)
      BY <2>2, <2>4
    <3>2. b = agents[id]
      BY <2>1, <2>2, <2>4, <3>1 DEF StoreInv
    <3> QED BY <2>1, <2>4, <3>1, <3>2
  <2>5. ASSUME NEW p \in Procs, todo'[p] # << >>, Head(todo'[p])[1] = "removeFile"
        PROVE  \A id \in Head(todo'[p])[2] : id <= lastId' /\ id \notin DOMAIN agents'
    <3>1. todo[p] # << >> /\ Head(todo'[p]) = OlderStep(Head(todo[p]))
      BY <1>13, <2>5, TickMove
    <3>2. Head(todo'[p]) = Head(todo[p])
      BY <2>5, <3>1 DEF OlderStep
    <3> QED BY <2>1, <2>5, <3>1, <3>2 DEF StoreInv
  <2> QED BY <2>3, <2>4, <2>5 DEF StoreInv
<1>14. CASE Sweep
  <2>1. /\ Unindex(Expired)
        /\ UNCHANGED <<queue, files, lastId, crossed>>
    BY <1>14 DEF Sweep, diskVars
  <2>2. PICK G \in SUBSET Ids : G = Expired
    BY DEF Expired, RegistryTypes
  <2>3. /\ \A c \in Clients : todo'[c] = todo[c]
        /\ Head(todo'[Sweeper])[1] = "removeFile" /\ Head(todo'[Sweeper])[2] = G
    BY <1>14, <2>2, SweepMove
  <2>4. /\ DOMAIN agents' = DOMAIN agents \ G
        /\ \A id \in DOMAIN agents' : id \in DOMAIN agents /\ agents'[id] = agents[id]
    BY <2>1, <2>2 DEF Unindex, Without
  <2>5. \A id \in G : id <= lastId
    <3> SUFFICES ASSUME NEW id \in G PROVE id <= lastId
      OBVIOUS
    <3>1. id \in DOMAIN agents /\ id \in Ids /\ agents[id].name \in Names
      BY <2>2 DEF Expired, RegistryTypes, Agent
    <3>2. Named(id, agents[id].name)
      BY <3>1 DEF Named
    <3> QED BY <3>1, <3>2 DEF NamesInv
  <2>6. \A p \in Procs : Removals(p)'
    <3> SUFFICES ASSUME NEW p \in Procs PROVE Removals(p)'
      OBVIOUS
    <3>1. CASE p = Sweeper
      BY <2>1, <2>3, <2>4, <2>5, <3>1 DEF Removals
    <3>2. CASE p # Sweeper
      BY <2>1, <2>3, <2>4, <3>2 DEF Removals, StoreInv, Procs
    <3> QED BY <3>1, <3>2
  <2>7. \A c \in Clients : /\ \A id : Saving(c, id)' <=> Saving(c, id)
                           /\ \A id, a : Saves(c, id, a)' => Saves(c, id, a)
    BY <2>3 DEF Saving, Saves
  <2> QED BY <1>2, <2>1, <2>4, <2>6, <2>7, StoreFrame
<1>15. CASE RemoveAgentFile(Sweeper)
  <2>1. /\ \A c \in Clients : todo'[c] = todo[c]
        /\ todo[Sweeper] # << >> /\ Head(todo[Sweeper])[1] = "removeFile"
        /\ \E id \in Head(todo[Sweeper])[2] : files' = Without(files, {id})
        /\ todo'[Sweeper] # << >> => /\ Head(todo'[Sweeper])[1] = "removeFile"
                                     /\ Head(todo'[Sweeper])[2] \subseteq Head(todo[Sweeper])[2]
    BY <1>15, SweeperFileMove
  <2>2. UNCHANGED <<agents, queue, crossed, lastId>>
    BY <1>15 DEF RemoveAgentFile, memVars, pastVars
  <2>3. \A id \in Head(todo[Sweeper])[2] : id <= lastId /\ id \notin DOMAIN agents
    BY <2>1 DEF StoreInv, Procs
  <2>4. PICK x \in Head(todo[Sweeper])[2] : files' = Without(files, {x})
    BY <2>1
  <2>5. \A id \in DOMAIN agents' : id \in DOMAIN Flushed =>
          id \in DOMAIN Flushed' /\ Flushed'[id] = Flushed[id]
    BY <2>2, <2>3, <2>4, DeletedFile
  <2>6. \A p \in Procs : Removals(p)'
    BY <2>1, <2>2, <2>3 DEF Removals, StoreInv, Procs
  <2>7. \A c \in Clients : /\ \A id : Saving(c, id)' <=> Saving(c, id)
                           /\ \A id, a : Saves(c, id, a)' => Saves(c, id, a)
    BY <2>1 DEF Saving, Saves
  <2> QED BY <2>2, <2>5, <2>6, <2>7, StoreFrame
<1>16. CASE WriteFile
  <2>1. UNCHANGED <<agents, todo, crossed, lastId>>
    BY <1>16 DEF WriteFile, memVars, pastVars
  <2>2. \A p \in Procs : Removals(p)'
    BY <2>1 DEF Removals, StoreInv
  <2>3. \A c \in Clients : /\ \A id : Saving(c, id)' <=> Saving(c, id)
                           /\ \A id, a : Saves(c, id, a)' => Saves(c, id, a)
    BY <2>1 DEF Saving, Saves
  <2> QED BY <1>16, <2>1, <2>2, <2>3, WrittenFile, StoreFrame
<1>17. CASE Restart
  <2>1. /\ agents' = Reloaded /\ files' = Reloaded /\ queue' = << >>
        /\ \A p \in Procs : todo'[p] = << >>
    BY <1>17 DEF Restart
  <2>2. DOMAIN Flushed' = DOMAIN agents' /\ \A id \in DOMAIN Flushed' : Flushed'[id] = agents'[id]
    <3>1. DOMAIN queue' = {}
      BY <2>1
    <3>2. FlushIds(queue', files') = DOMAIN agents' /\ \A id : FlushValue(queue', files', id) = agents'[id]
      BY <2>1, <3>1 DEF FlushIds, FlushValue
    <3> QED BY <3>2, FlushedAfter
  <2> QED BY <2>1, <2>2 DEF StoreInv, Saves, Procs
<1>18. CASE UNCHANGED vars
  <2>1. UNCHANGED <<agents, queue, files, todo, crossed, lastId>>
    BY <1>18 DEF vars, memVars, diskVars, pastVars
  <2>2. \A p \in Procs : Removals(p)'
    BY <2>1 DEF Removals, StoreInv
  <2>3. \A c \in Clients : /\ \A id : Saving(c, id)' <=> Saving(c, id)
                           /\ \A id, a : Saves(c, id, a)' => Saves(c, id, a)
    BY <2>1 DEF Saving, Saves
  <2> QED BY <1>2, <2>1, <2>2, <2>3, StoreFrame
<1> QED BY <1>3, <1>4, <1>5, <1>6, <1>7, <1>8, <1>9, <1>10, <1>11, <1>12, <1>13, <1>14, <1>15,
           <1>16, <1>17, <1>18 DEF Next, Handler

-----------------------------------------------------------------------------
(* Keys: what a command knows about the key of its name.                   *)

\* The key of the name and the agent that it leads to stay, or the agent goes.
SameKey(n) ==
  /\ keys'[n] = keys[n]
  /\ nameIdx'[n] # 0 =>
       /\ nameIdx'[n] = nameIdx[n]
       /\ agents'[nameIdx'[n]].pub = agents[nameIdx'[n]].pub
       /\ nameIdx'[n] \in removed => nameIdx'[n] \in removed'

LEMMA KeySame ==
  ASSUME NEW n, SameKey(n)
  PROVE  /\ Fits(n) => Fits(n)'
         /\ Strong(n) => Strong(n)'
         /\ \A s : Stage(s, n) => Stage(s, n)'
<1>1. Fits(n) => Fits(n)'
  BY DEF SameKey, Fits
<1>2. Strong(n) => Strong(n)'
  BY DEF SameKey, Strong
<1>3. nameIdx[n] = 0 => nameIdx'[n] = 0
  BY DEF SameKey
<1>4. keys'[n] = keys[n]
  BY DEF SameKey
<1>5. \A s : Stage(s, n) => Stage(s, n)'
  BY <1>2, <1>3, <1>4 DEF Stage
<1> QED BY <1>1, <1>2, <1>5

\* What is stored stays, or an agent is removed.
LEMMA StoredFrame ==
  ASSUME StoredKeys, DOMAIN Flushed' \subseteq DOMAIN Flushed,
         \A id \in DOMAIN Flushed' :
           Flushed'[id].name = Flushed[id].name /\ Flushed'[id].pub = Flushed[id].pub,
         keys' = keys, removed \subseteq removed', contended \subseteq contended'
  PROVE  StoredKeys'
  BY DEF StoredKeys

\* The command about name n goes on.
LEMMA KeyMove ==
  ASSUME TodoTypes, KeyInv, NEW c \in Clients, NEW n \in Names, NEW s, Move(c, n, s),
         contended' = contended,
         \A m \in Names : m # n => SameKey(m),
         n \notin contended => Fits(n)',
         n \notin contended /\ s # << >> => Stage(s, n)',
         StoredKeys'
  PROVE  KeyInv'
<1>1. /\ \A d \in Clients \ {c} : \A m : About(d, m)' <=> About(d, m)
      /\ \A m : About(c, m)' <=> s # << >> /\ m = n
      /\ \A m : About(c, m) <=> m = n
  BY MoveFacts
<1>2. todo'[c] = s /\ \A d \in Clients \ {c} : todo'[d] = todo[d]
  BY MoveTypes DEF Procs
<1>3. \A m \in Names \ contended' : Fits(m)'
  <2> SUFFICES ASSUME NEW m \in Names \ contended' PROVE Fits(m)'
    OBVIOUS
  <2>1. CASE m = n
    BY <2>1
  <2>2. CASE m # n
    <3>1. Fits(m)
      BY DEF KeyInv
    <3> QED BY <2>2, <3>1, KeySame
  <2> QED BY <2>1, <2>2
<1>4. \A m \in Names \ contended' : \A d, e \in Clients : About(d, m)' /\ About(e, m)' => d = e
  <2>1. \A d \in Clients : \A m : About(d, m)' => About(d, m)
    BY <1>1
  <2> QED BY <2>1 DEF KeyInv
<1>5. ASSUME NEW m \in Names \ contended', NEW d \in Clients, About(d, m)'
      PROVE  Stage(todo[d], m)'
  <2>1. CASE d = c
    <3>1. m = n /\ Stage(s, n)'
      BY <1>1, <1>5, <2>1
    <3> QED BY <1>2, <2>1, <3>1 DEF Stage
  <2>2. CASE d # c
    <3>1. About(d, m)
      BY <1>1, <1>5, <2>2
    <3>2. m # n
      <4>1. About(c, n)
        BY <1>1
      <4> QED BY <2>2, <3>1, <4>1 DEF KeyInv
    <3>3. PICK t : t = todo[d]
      OBVIOUS
    <3>4. Stage(t, m)
      BY <3>1, <3>3 DEF KeyInv
    <3>5. Stage(t, m)'
      BY <3>2, <3>4, KeySame
    <3>6. todo'[d] = t
      BY <1>2, <2>2, <3>3
    <3> QED BY <3>5, <3>6 DEF Stage
  <2> QED BY <2>1, <2>2
<1> QED BY <1>3, <1>4, <1>5 DEF KeyInv

\* No client goes on.
LEMMA KeyFrame ==
  ASSUME KeyInv, contended' = contended, \A c \in Clients : todo'[c] = todo[c],
         \A m \in Names : SameKey(m), StoredKeys'
  PROVE  KeyInv'
<1>1. \A d \in Clients : \A m : About(d, m)' <=> About(d, m)
  BY Zenon DEF About
<1>2. \A m \in Names \ contended' : Fits(m)'
  BY KeySame DEF KeyInv
<1>3. \A m \in Names \ contended' : \A d, e \in Clients : About(d, m)' /\ About(e, m)' => d = e
  BY <1>1 DEF KeyInv
<1>4. ASSUME NEW m \in Names \ contended', NEW d \in Clients, About(d, m)'
      PROVE  Stage(todo[d], m)'
  <2>1. PICK t : t = todo[d]
    OBVIOUS
  <2>2. Stage(t, m)
    BY <1>1, <1>4, <2>1 DEF KeyInv
  <2>3. Stage(t, m)'
    BY <2>2, KeySame
  <2>4. todo'[d] = t
    BY <2>1
  <2> QED BY <2>3, <2>4 DEF Stage
<1> QED BY <1>2, <1>3, <1>4 DEF KeyInv

\* A command is given.
LEMMA KeyCommand ==
  ASSUME RegistryTypes, TodoTypes, KeyInv, NEW c \in Clients, NEW n \in Uses[c],
         Register(c, n) \/ \E op \in Requests : Request(c, n, op)
  PROVE  KeyInv'
<1>1. PICK s \in Seq(Steps) :
        /\ Command(c, n, s)
        /\ todo[c] = << >> /\ todo' = [todo EXCEPT ![c] = s]
        /\ s # << >> /\ Work1(s, n)
        /\ \/ Head(s) = <<"load", n>>
           \/ Head(s) = <<"auth", n, keys[n]>>
  BY CommandMove
<1>2. n \in Names
  BY CommandMove
<1>3. /\ UNCHANGED <<agents, nameIdx, keys, files, queue, removed>>
      /\ contended' = contended \union {x \in {n} : \E p \in Clients : About(p, n)}
  BY <1>1 DEF Command, memVars, diskVars
<1>4. todo'[c] = s /\ \A d \in Clients \ {c} : todo'[d] = todo[d]
  BY <1>1 DEF TodoTypes, Procs
<1>5. /\ \A d \in Clients \ {c} : \A m : About(d, m)' <=> About(d, m)
      /\ \A m : About(c, m)' => m = n
  <2>1. \A m : AboutSeq(s, m) => m = n
    BY <1>1, <1>2, WorkFacts
  <2>2. \A m : About(c, m)' <=> AboutSeq(s, m)
    BY <1>4, Zenon DEF About, AboutSeq, AboutStep
  <2>3. \A d \in Clients \ {c} : \A m : About(d, m)' <=> About(d, m)
    BY <1>4, Zenon DEF About
  <2> QED BY <2>1, <2>2, <2>3
<1>6. \A m \in Names : SameKey(m)
  BY <1>3 DEF SameKey
<1>7. n \notin contended' => ~\E p \in Clients : About(p, n)
  BY <1>3
<1>8. \A m \in Names \ contended' : Fits(m)'
  BY <1>3, <1>6, KeySame DEF KeyInv
<1>9. \A m \in Names \ contended' : \A d, e \in Clients : About(d, m)' /\ About(e, m)' => d = e
  <2> SUFFICES ASSUME NEW m \in Names \ contended', NEW d \in Clients, NEW e \in Clients,
                      About(d, m)', About(e, m)'
               PROVE  d = e
    OBVIOUS
  <2>1. CASE m = n
    BY <1>5, <1>7, <2>1
  <2>2. CASE m # n
    <3>1. About(d, m) /\ About(e, m) /\ m \notin contended
      BY <1>3, <1>5, <2>2
    <3> QED BY <3>1 DEF KeyInv
  <2> QED BY <2>1, <2>2
<1>10. ASSUME NEW m \in Names \ contended', NEW d \in Clients, About(d, m)'
       PROVE  Stage(todo[d], m)'
  <2>1. CASE d = c
    <3>1. m = n
      BY <1>5, <1>10, <2>1
    <3>2. \/ Head(s)[1] = "load"
          \/ Head(s)[1] = "auth" /\ Head(s)[3] = keys[n]
      BY <1>1
    <3> QED BY <1>3, <1>4, <2>1, <3>1, <3>2 DEF Stage
  <2>2. CASE d # c
    <3>1. PICK t : t = todo[d]
      OBVIOUS
    <3>2. Stage(t, m)
      BY <1>3, <1>5, <1>10, <2>2, <3>1 DEF KeyInv
    <3>3. Stage(t, m)'
      BY <1>6, <3>2, KeySame
    <3>4. todo'[d] = t
      BY <1>4, <2>2, <3>1
    <3> QED BY <3>3, <3>4 DEF Stage
  <2> QED BY <2>1, <2>2
<1>11. StoredKeys'
  <2>1. Flushed' = Flushed
    BY <1>3 DEF Flushed, Queued
  <2>2. contended \subseteq contended'
    BY <1>3
  <2> QED BY <1>3, <2>1, <2>2, StoredFrame DEF KeyInv
<1> QED BY <1>8, <1>9, <1>10, <1>11 DEF KeyInv

\* A step that leaves the names, their keys and the stored snapshots alone.
LEMMA KeyQuiet ==
  ASSUME TodoTypes, KeyInv, NEW c \in Clients, NEW n \in Names, NEW s, Move(c, n, s),
         UNCHANGED <<memVars, keys, removed, contended>>,
         DOMAIN Flushed' \subseteq DOMAIN Flushed,
         \A id \in DOMAIN Flushed' : Flushed'[id] = Flushed[id],
         n \notin contended /\ s # << >> => Stage(s, n)
  PROVE  KeyInv'
<1>1. \A m \in Names : SameKey(m)
  BY DEF SameKey, memVars
<1>2. n \notin contended => Fits(n)'
  BY <1>1, KeySame DEF KeyInv
<1>3. n \notin contended /\ s # << >> => Stage(s, n)'
  BY <1>1, KeySame
<1>4. StoredKeys'
  BY StoredFrame DEF KeyInv
<1> QED BY <1>1, <1>2, <1>3, <1>4, KeyMove

\* The key of a name is saved.
LEMMA KeySave ==
  ASSUME RegistryTypes, TodoTypes, NamesInv, KeyInv, NEW c \in Clients, NEW n \in Names, NEW s,
         Move(c, n, s), Head(todo[c])[1] = "save", NEW k \in Keys,
         s # << >>, Head(s) = <<"index", n, k>>, keys' = [keys EXCEPT ![n] = k],
         UNCHANGED <<memVars, files, queue, removed, contended>>
  PROVE  KeyInv'
<1>1. keys'[n] = k /\ \A m \in Names : m # n => keys'[m] = keys[m]
  BY DEF RegistryTypes
<1>2. n \notin contended => keys[n] = 0
  <2>1. n \notin contended => Stage(todo[c], n)
    BY MoveFacts DEF KeyInv
  <2> QED BY <2>1 DEF Stage
<1>3. \A m \in Names : m # n => SameKey(m)
  BY <1>1 DEF SameKey, memVars
<1>4. n \notin contended => nameIdx[n] \in removed \union {0}
  <2>1. nameIdx[n] # 0 => agents[nameIdx[n]].pub \in Keys
    BY DEF NamesInv, RegistryTypes, Agent, Keys
  <2>2. 0 \notin Keys
    BY DEF Keys
  <2> QED BY <1>2, <2>1, <2>2 DEF KeyInv, Fits
<1>5. n \notin contended => Fits(n)'
  BY <1>4 DEF Fits, memVars
<1>6. Stage(s, n)'
  <2>1. Head(s)[1] = "index" /\ Head(s)[3] = k
    OBVIOUS
  <2> QED BY <1>1, <2>1 DEF Stage
<1>7. StoredKeys'
  <2>1. Flushed' = Flushed
    BY DEF Flushed, Queued
  <2>2. ASSUME NEW id \in DOMAIN Flushed \ removed, Flushed[id].name \notin contended
        PROVE  Flushed[id].pub = keys'[Flushed[id].name]
    <3>1. Flushed[id].pub = keys[Flushed[id].name]
      BY <2>2 DEF KeyInv, StoredKeys
    <3>2. Flushed[id].name \in Names /\ Flushed[id].pub # 0
      BY FlushedFacts DEF Agent
    <3>3. Flushed[id].name # n
      BY <1>2, <2>2, <3>1, <3>2
    <3> QED BY <1>1, <3>1, <3>2, <3>3
  <2> QED BY <2>1, <2>2 DEF StoredKeys
<1> QED BY <1>3, <1>5, <1>6, <1>7, KeyMove

\* An agent is indexed with the key of its name.
LEMMA KeyIndex ==
  ASSUME RegistryTypes, TodoTypes, NamesInv, KeyInv, NEW c \in Clients, NEW n \in Names, NEW s,
         Move(c, n, s), Head(todo[c])[1] = "index", NEW id \in Ids, NEW a \in Agent,
         s # << >>, Head(s) = <<"persist", id, a>>, a.name = n, a.pub = Head(todo[c])[3],
         id = IdFor(n), Index(id, a), lastId' = Max({lastId, id}),
         UNCHANGED <<keys, files, queue, removed, contended>>
  PROVE  KeyInv'
<1>1. /\ agents'[id] = a
      /\ \A x \in DOMAIN agents : x # id => agents'[x] = agents[x]
      /\ nameIdx'[n] = id /\ \A m \in Names : m # n => nameIdx'[m] = nameIdx[m]
  BY DEF Index, With, RegistryTypes
<1>2. n \notin contended => keys[n] = a.pub
  <2>1. n \notin contended => Stage(todo[c], n)
    BY MoveFacts DEF KeyInv
  <2> QED BY <2>1 DEF Stage
<1>3. ASSUME NEW m \in Names, m # n
      PROVE  SameKey(m)
  <2>1. nameIdx[m] # 0 => nameIdx[m] \in DOMAIN agents /\ agents[nameIdx[m]].name = m
    BY DEF NamesInv
  <2>2. (id \in DOMAIN agents /\ agents[id].name = n) \/ id \notin DOMAIN agents
    BY IdForFacts
  <2>3. nameIdx[m] # 0 => nameIdx[m] # id
    BY <1>3, <2>1, <2>2
  <2> QED BY <1>1, <1>3, <2>1, <2>3 DEF SameKey
<1>4. n \notin contended => Fits(n)' /\ Strong(n)'
  BY <1>1, <1>2 DEF Fits, Strong
<1>5. Head(s)[1] = "persist" /\ Head(s)[3] = a
  OBVIOUS
<1>6. n \notin contended => Stage(s, n)'
  BY <1>2, <1>4, <1>5 DEF Stage
<1>7. StoredKeys'
  <2>1. Flushed' = Flushed
    BY DEF Flushed, Queued
  <2> QED BY <2>1, StoredFrame DEF KeyInv
<1> QED BY <1>3, <1>4, <1>6, <1>7, KeyMove

\* A snapshot is queued with the key of its name.
LEMMA KeyPersist ==
  ASSUME RegistryTypes, TodoTypes, NamesInv, KeyInv, NEW c \in Clients, NEW n \in Names, NEW s,
         Move(c, n, s), NEW id \in Ids, NEW a \in Agent, Head(todo[c]) = <<"persist", id, a>>,
         a.name = n, s \in Rest(n), queue' = Append(queue, <<id, a>>),
         removed' = (IF id \in DOMAIN agents THEN removed \ {id} ELSE removed),
         UNCHANGED <<memVars, keys, files, contended>>
  PROVE  KeyInv'
<1>1. Head(todo[c])[1] = "persist" /\ Head(todo[c])[3] = a
  OBVIOUS
<1>2. n \notin contended => Strong(n) /\ a.pub = keys[n]
  <2>1. n \notin contended => Stage(todo[c], n)
    BY MoveFacts DEF KeyInv
  <2> QED BY <1>1, <2>1 DEF Stage
<1>3. ASSUME NEW m \in Names, m # n
      PROVE  SameKey(m)
  <2>1. nameIdx[m] # 0 => nameIdx[m] \in DOMAIN agents /\ agents[nameIdx[m]].name = m
    BY DEF NamesInv
  <2>2. Saves(c, id, a)
    BY DEF Saves, Move
  <2>3. id \in DOMAIN agents => nameIdx[n] = id
    BY <2>2 DEF NamesInv
  <2>4. nameIdx[n] # 0 => agents[nameIdx[n]].name = n
    BY DEF NamesInv
  <2>5. id # 0
    BY DEF Ids
  <2>6. id \in DOMAIN agents => nameIdx[m] # id
    BY <1>3, <2>1, <2>3, <2>4, <2>5
  <2> QED BY <2>6 DEF SameKey, memVars
<1>4. n \notin contended => Fits(n)'
  BY <1>2 DEF Fits, Strong, memVars
<1>5. n \notin contended /\ s # << >> => Stage(s, n)'
  <2>1. s # << >> => Head(s) \in {<<"renew", n>>, <<"unindex", n>>}
    BY RestFacts
  <2>2. s # << >> => Head(s)[1] \in {"renew", "unindex"}
    BY <2>1
  <2>3. n \notin contended => Strong(n)'
    BY <1>2 DEF Strong, memVars
  <2> QED BY <2>2, <2>3 DEF Stage
<1>6. /\ DOMAIN Flushed' = DOMAIN Flushed \union {id}
      /\ Flushed'[id] = a
      /\ \A x \in DOMAIN Flushed : x # id => Flushed'[x] = Flushed[x]
  BY QueuedFile
<1>7. StoredKeys'
  <2> SUFFICES ASSUME NEW x \in DOMAIN Flushed', x \notin removed', Flushed'[x].name \notin contended'
               PROVE  Flushed'[x].pub = keys'[Flushed'[x].name]
    BY DEF StoredKeys
  <2>1. CASE x = id
    BY <1>2, <1>6, <2>1
  <2>2. CASE x # id
    <3>1. x \in DOMAIN Flushed \ removed /\ Flushed'[x] = Flushed[x]
      BY <1>6, <2>2
    <3> QED BY <3>1 DEF KeyInv, StoredKeys
  <2> QED BY <2>1, <2>2
<1> QED BY <1>3, <1>4, <1>5, <1>7, KeyMove

\* Time passes: names and keys do not age.
LEMMA KeyTick ==
  ASSUME RegistryTypes, TodoTypes, NamesInv, KeyInv, Tick
  PROVE  KeyInv'
<1>1. /\ DOMAIN agents' = DOMAIN agents /\ \A id \in DOMAIN agents : agents'[id] = Older(agents[id])
      /\ UNCHANGED <<nameIdx, keys, removed, contended>>
  BY DEF Tick, pastVars
<1>2. ASSUME NEW m \in Names
      PROVE  SameKey(m)
  <2>1. nameIdx[m] # 0 => nameIdx[m] \in DOMAIN agents /\ agents[nameIdx[m]] \in Agent
    BY DEF NamesInv, RegistryTypes
  <2> QED BY <1>1, <2>1, OlderAgent DEF SameKey
<1>3. ASSUME NEW e \in Steps
      PROVE  /\ OlderStep(e)[1] = e[1]
             /\ \A m : AboutStep(OlderStep(e), m) <=> AboutStep(e, m)
             /\ e[1] = "persist" => OlderStep(e)[3].pub = e[3].pub
             /\ e[1] # "persist" => OlderStep(e) = e
  <2>1. CASE e[1] # "persist"
    BY <2>1 DEF OlderStep
  <2>2. CASE e[1] = "persist"
    <3>1. e[3] \in Agent
      BY <2>2, StepShape
    <3>2. OlderStep(e) = <<"persist", e[2], Older(e[3])>>
      BY <2>2 DEF OlderStep
    <3>3. OlderStep(e)[1] = "persist" /\ OlderStep(e)[3] = Older(e[3])
      BY <3>2
    <3> QED BY <2>2, <3>1, <3>3, OlderAgent DEF AboutStep
  <2> QED BY <2>1, <2>2
<1>4. ASSUME NEW c \in Clients
      PROVE  \A m : About(c, m)' <=> About(c, m)
  <2>1. c \in Procs /\ todo[c] \in Seq(Steps)
    BY DEF TodoTypes, Procs
  <2>2. todo' = [p \in Procs |-> [i \in DOMAIN todo[p] |-> OlderStep(todo[p][i])]]
    BY Zenon DEF Tick, OlderStep
  <2>3. DOMAIN todo'[c] = DOMAIN todo[c] /\ \A i \in DOMAIN todo[c] : todo'[c][i] = OlderStep(todo[c][i])
    BY <2>1, <2>2
  <2>4. \A i \in DOMAIN todo[c] : todo[c][i] \in Steps
    BY <2>1
  <2>5. \A m : About(c, m) <=> \E i \in DOMAIN todo[c] : AboutStep(todo[c][i], m)
    BY Zenon DEF About, AboutStep
  <2>6. \A m : About(c, m)' <=> \E i \in DOMAIN todo'[c] : AboutStep(todo'[c][i], m)
    BY Zenon DEF About, AboutStep
  <2> QED BY <1>3, <2>3, <2>4, <2>5, <2>6
<1>5. \A m \in Names \ contended' : Fits(m)'
  BY <1>1, <1>2, KeySame DEF KeyInv
<1>6. \A m \in Names \ contended' : \A d, e \in Clients : About(d, m)' /\ About(e, m)' => d = e
  BY <1>1, <1>4 DEF KeyInv
<1>7. ASSUME NEW m \in Names \ contended', NEW d \in Clients, About(d, m)'
      PROVE  Stage(todo[d], m)'
  <2>1. About(d, m) /\ m \notin contended
    BY <1>1, <1>4, <1>7
  <2>2. Stage(todo[d], m)
    BY <2>1 DEF KeyInv
  <2>3. todo[d] # << >> /\ d \in Procs
    BY <2>1, IdleFacts DEF Procs
  <2>4. PICK e \in Steps : e = Head(todo[d])
    BY <2>3, ClientWork
  <2>5. Head(todo'[d]) = OlderStep(e)
    BY <2>3, <2>4, TickMove
  <2>6. Strong(m) => Strong(m)'
    BY <1>2, KeySame
  <2>7. /\ e[1] = "save" => keys[m] = 0
        /\ e[1] \in {"index", "auth"} => keys[m] = e[3]
        /\ e[1] \in {"renew", "unindex", "persist"} => Strong(m)'
        /\ e[1] = "persist" => e[3].pub = keys[m]
        /\ e[1] \in {"removeFile", "removeKey"} => nameIdx[m] = 0
    BY <2>2, <2>4, <2>6 DEF Stage
  <2>8. PICK g : g = OlderStep(e)
    OBVIOUS
  <2>9. /\ g[1] = e[1]
        /\ e[1] # "persist" => g = e
        /\ e[1] = "persist" => g[3].pub = e[3].pub
    BY <1>3, <2>8
  <2>10. /\ g[1] = "save" => keys'[m] = 0
         /\ g[1] \in {"index", "auth"} => keys'[m] = g[3]
         /\ g[1] \in {"renew", "unindex", "persist"} => Strong(m)'
         /\ g[1] = "persist" => g[3].pub = keys'[m]
         /\ g[1] \in {"removeFile", "removeKey"} => nameIdx'[m] = 0
    BY <1>1, <2>7, <2>9
  <2>11. Head(todo'[d]) = g
    BY <2>5, <2>8
  <2> QED BY <2>10, <2>11 DEF Stage
<1>8. StoredKeys'
  <2>1. \A id \in DOMAIN Flushed : Flushed[id] \in Agent
    BY FlushedFacts
  <2>2. DOMAIN Flushed' = DOMAIN Flushed /\ \A id \in DOMAIN Flushed : Flushed'[id] = Older(Flushed[id])
    BY AgedFiles
  <2> QED BY <1>1, <2>1, <2>2, OlderAgent, StoredFrame DEF KeyInv
<1> QED BY <1>5, <1>6, <1>7, <1>8 DEF KeyInv

\* A restart finds the keys that were stored.
LEMMA KeyRestart ==
  ASSUME RegistryTypes, TodoTypes, KeyInv, Restart
  PROVE  KeyInv'
<1>1. /\ agents' = Reloaded /\ nameIdx' = ReloadedIdx /\ files' = Reloaded /\ queue' = << >>
      /\ \A p \in Procs : todo'[p] = << >>
      /\ UNCHANGED <<keys, removed, contended>>
  BY DEF Restart, pastVars
<1>2. \A c \in Clients : \A n : ~About(c, n)'
  BY <1>1 DEF About, Procs
<1>3. ASSUME NEW n \in Names \ contended', nameIdx'[n] \notin removed' \union {0}
      PROVE  keys'[n] = agents'[nameIdx'[n]].pub
  <2>1. PICK id : id = ReloadedIdx[n]
    OBVIOUS
  <2>2. id # 0 /\ id \notin removed
    BY <1>1, <1>3, <2>1
  <2>3. id \in DOMAIN Reloaded /\ Reloaded[id].name = n
    BY <2>1, <2>2, ReloadedFacts
  <2>4. id \in DOMAIN Flushed /\ Reloaded[id] = Flushed[id]
    BY <2>3, ReloadedFacts
  <2>5. Flushed[id].pub = keys[n]
    BY <1>1, <2>2, <2>3, <2>4 DEF KeyInv, StoredKeys
  <2> QED BY <1>1, <2>1, <2>4, <2>5
<1>4. StoredKeys'
  <2>1. DOMAIN queue' = {}
    BY <1>1
  <2>2. FlushIds(queue', files') = DOMAIN Reloaded /\ \A id : FlushValue(queue', files', id) = Reloaded[id]
    BY <1>1, <2>1 DEF FlushIds, FlushValue
  <2>3. DOMAIN Flushed' = DOMAIN Reloaded /\ \A id \in DOMAIN Reloaded : Flushed'[id] = Reloaded[id]
    BY <2>2, FlushedAfter
  <2>4. DOMAIN Reloaded \subseteq DOMAIN Flushed /\ \A id \in DOMAIN Reloaded : Reloaded[id] = Flushed[id]
    BY ReloadedFacts
  <2> QED BY <1>1, <2>3, <2>4, StoredFrame DEF KeyInv
<1>5. \A n \in Names \ contended' : Fits(n)'
  BY <1>3 DEF Fits
<1> QED BY <1>2, <1>4, <1>5 DEF KeyInv

LEMMA KeyStep ==
  ASSUME RegistryTypes, RegistryTypes', TodoTypes, NamesInv, StoreInv, KeyInv, [Next]_vars
  PROVE  KeyInv'
<1>1. \A n \in Names : nameIdx[n] # 0 =>
        nameIdx[n] \in DOMAIN agents /\ agents[nameIdx[n]].name = n
  BY DEF NamesInv
<1>2. ASSUME UNCHANGED <<queue, files>>
      PROVE  /\ Flushed' = Flushed
             /\ DOMAIN Flushed' \subseteq DOMAIN Flushed
             /\ \A id \in DOMAIN Flushed' : Flushed'[id] = Flushed[id]
  BY <1>2 DEF Flushed, Queued
<1>3. ASSUME NEW c \in Clients, NEW n \in Names, NEW s, Move(c, n, s), n \notin contended
      PROVE  Stage(todo[c], n)
  BY <1>3, MoveFacts DEF KeyInv
<1>4. ASSUME NEW c \in Clients, NEW n \in Uses[c],
             Register(c, n) \/ \E op \in Requests : Request(c, n, op)
      PROVE  KeyInv'
  BY <1>4, KeyCommand
<1>5. ASSUME NEW c \in Clients, LoadKey(c)
      PROVE  KeyInv'
  <2>1. PICK n \in Names, s \in Seq(Steps) :
          /\ Move(c, n, s)
          /\ \/ Head(s) = <<"index", n, keys[n]>>
             \/ Head(s) = <<"save", n>> /\ keys[n] = 0
    BY <1>5, LoadMove
  <2>2. \/ Head(s)[1] = "index" /\ Head(s)[3] = keys[n]
        \/ Head(s)[1] = "save" /\ keys[n] = 0
    BY <2>1
  <2>3. Stage(s, n)
    BY <2>2 DEF Stage
  <2>4. UNCHANGED <<memVars, keys, removed, contended, queue, files>>
    BY <1>5 DEF LoadKey, diskVars, pastVars
  <2> QED BY <1>2, <2>1, <2>3, <2>4, KeyQuiet
<1>6. ASSUME NEW c \in Clients, SaveKey(c)
      PROVE  KeyInv'
  <2>1. PICK n \in Names, s \in Seq(Steps) :
          /\ Move(c, n, s)
          /\ Head(todo[c])[1] = "save"
          /\ \/ /\ s # << >> /\ Head(s) = <<"index", n, lastKey'>>
                /\ lastKey' \in Keys
                /\ keys' = [keys EXCEPT ![n] = lastKey']
             \/ s = << >> /\ UNCHANGED <<keys, lastKey>>
    BY <1>6, SaveMove
  <2>2. UNCHANGED <<memVars, files, queue, removed, contended>>
    BY <1>6 DEF SaveKey, pastVars
  <2>3. CASE s = << >> /\ UNCHANGED keys
    BY <1>2, <2>1, <2>2, <2>3, KeyQuiet
  <2>4. ASSUME NEW k \in Keys, k = lastKey', s # << >>, Head(s) = <<"index", n, k>>,
               keys' = [keys EXCEPT ![n] = k]
        PROVE  KeyInv'
    <3>1. Move(c, n, s) /\ Head(todo[c])[1] = "save"
      BY <2>1
    <3> QED BY <2>2, <2>4, <3>1, KeySave
  <2> QED BY <2>1, <2>3, <2>4
<1>7. ASSUME NEW c \in Clients, IndexAgent(c)
      PROVE  KeyInv'
  <2>1. PICK n \in Names, s \in Seq(Steps) :
          /\ Move(c, n, s)
          /\ Head(todo[c])[1] = "index"
          /\ \/ s = << >> /\ UNCHANGED <<memVars, lastId>>
             \/ \E id \in Ids, a \in Agent :
                  /\ s # << >> /\ Head(s) = <<"persist", id, a>>
                  /\ a.name = n /\ a.pub = Head(todo[c])[3]
                  /\ id = IdFor(n)
                  /\ Index(id, a)
                  /\ lastId' = Max({lastId, id})
    BY <1>7, IndexMove
  <2>2. UNCHANGED <<keys, files, queue, removed, contended>>
    BY <1>7 DEF IndexAgent, diskVars, pastVars
  <2>3. CASE s = << >> /\ UNCHANGED memVars
    BY <1>2, <2>1, <2>2, <2>3, KeyQuiet
  <2>4. ASSUME NEW id \in Ids, NEW a \in Agent, s # << >>, Head(s) = <<"persist", id, a>>,
               a.name = n, a.pub = Head(todo[c])[3], id = IdFor(n), Index(id, a),
               lastId' = Max({lastId, id})
        PROVE  KeyInv'
    <3>1. Move(c, n, s) /\ Head(todo[c])[1] = "index"
      BY <2>1
    <3> QED BY <2>2, <2>4, <3>1, KeyIndex
  <2> QED BY <2>1, <2>3, <2>4
<1>8. ASSUME NEW c \in Clients, PersistAgent(c)
      PROVE  KeyInv'
  <2>1. PICK n \in Names, s \in Seq(Steps), id \in Ids, a \in Agent :
          /\ Move(c, n, s)
          /\ Head(todo[c]) = <<"persist", id, a>>
          /\ a.name = n
          /\ s \in Rest(n)
          /\ queue' = Append(queue, <<id, a>>)
          /\ removed' = IF id \in DOMAIN agents THEN removed \ {id} ELSE removed
    BY <1>8, PersistMove
  <2>2. UNCHANGED <<memVars, keys, files, contended>>
    BY <1>8 DEF PersistAgent
  <2> QED BY <2>1, <2>2, KeyPersist
<1>9. ASSUME NEW c \in Clients, Authenticate(c)
      PROVE  KeyInv'
  <2>1. PICK n \in Names, s \in Seq(Steps) :
          /\ Move(c, n, s)
          /\ Head(todo[c])[1] = "auth"
          /\ \/ s = << >>
             \/ /\ s # << >> /\ Head(s) = <<"renew", n>>
                /\ nameIdx[n] # 0 /\ agents[nameIdx[n]].pub = Head(todo[c])[3]
    BY <1>9, AuthMove
  <2>2. n \notin contended /\ s # << >> => Stage(s, n)
    <3> SUFFICES ASSUME n \notin contended, s # << >> PROVE Stage(s, n)
      OBVIOUS
    <3>1. keys[n] = Head(todo[c])[3]
      BY <1>3, <2>1 DEF Stage
    <3>2. Strong(n)
      BY <2>1, <3>1 DEF Strong
    <3>3. Head(s)[1] = "renew"
      BY <2>1
    <3> QED BY <3>2, <3>3 DEF Stage
  <2>3. UNCHANGED <<memVars, keys, removed, contended, queue, files>>
    BY <1>9 DEF Authenticate, diskVars, pastVars
  <2> QED BY <1>2, <2>1, <2>2, <2>3, KeyQuiet
<1>10. ASSUME NEW c \in Clients, RenewLease(c)
       PROVE  KeyInv'
  <2>1. PICK n \in Names, s \in Seq(Steps) :
          /\ Move(c, n, s)
          /\ Head(todo[c])[1] = "renew"
          /\ \/ s \in Rest(n) /\ UNCHANGED agents
             \/ \E id \in Ids, a \in Agent :
                  /\ id = nameIdx[n] /\ id \in DOMAIN agents
                  /\ a.name = agents[id].name /\ a.pub = agents[id].pub
                  /\ agents' = [agents EXCEPT ![id] = a]
                  /\ s # << >> /\ Head(s) = <<"persist", id, a>>
    BY <1>1, <1>10, RenewMove
  <2>2. UNCHANGED <<nameIdx, keys, queue, files, removed, contended>>
    BY <1>10 DEF RenewLease, diskVars, pastVars
  <2>3. n \notin contended => Strong(n)
    BY <1>3, <2>1 DEF Stage
  <2>4. CASE s \in Rest(n) /\ UNCHANGED agents
    <3>1. s = << >> \/ Head(s) \in {<<"renew", n>>, <<"unindex", n>>}
      BY <2>4, RestFacts
    <3>2. s = << >> \/ Head(s)[1] \in {"renew", "unindex"}
      BY <3>1
    <3>3. n \notin contended /\ s # << >> => Stage(s, n)
      BY <2>3, <3>2 DEF Stage
    <3>4. UNCHANGED memVars
      BY <2>2, <2>4 DEF memVars
    <3> QED BY <1>2, <2>1, <2>2, <3>3, <3>4, KeyQuiet
  <2>5. ASSUME NEW id \in Ids, NEW a \in Agent, id = nameIdx[n], id \in DOMAIN agents,
               a.pub = agents[id].pub, agents' = [agents EXCEPT ![id] = a],
               s # << >>, Head(s) = <<"persist", id, a>>
        PROVE  KeyInv'
    <3>1. \A m \in Names : SameKey(m)
      BY <1>1, <2>2, <2>5 DEF SameKey
    <3>2. Head(s)[1] = "persist" /\ Head(s)[3] = a
      BY <2>5
    <3>3. n \notin contended => Stage(s, n)
      BY <2>3, <2>5, <3>2 DEF Stage, Strong, Ids
    <3>4. n \notin contended => Fits(n)' /\ Stage(s, n)'
      BY <3>1, <3>3, KeySame DEF KeyInv
    <3>5. StoredKeys'
      BY <1>2, <2>2, StoredFrame DEF KeyInv
    <3> QED BY <2>1, <2>2, <3>1, <3>4, <3>5, KeyMove
  <2> QED BY <2>1, <2>4, <2>5
<1>11. ASSUME NEW c \in Clients, UnindexAgent(c)
       PROVE  KeyInv'
  <2>1. PICK n \in Names, s \in Seq(Steps) :
          /\ Move(c, n, s)
          /\ Head(todo[c])[1] = "unindex"
          /\ \/ s = << >> /\ UNCHANGED <<memVars, removed>>
             \/ \E id \in Ids :
                  /\ id = nameIdx[n]
                  /\ Unindex({id})
                  /\ removed' = removed \union {id}
                  /\ s # << >> /\ Head(s) = <<"removeFile", {id}>>
    BY <1>11, UnindexMove
  <2>2. UNCHANGED <<keys, queue, files, contended>>
    BY <1>11 DEF UnindexAgent, diskVars
  <2>3. CASE s = << >> /\ UNCHANGED <<memVars, removed>>
    BY <1>2, <2>1, <2>2, <2>3, KeyQuiet
  <2>4. ASSUME NEW id \in Ids, id = nameIdx[n], Unindex({id}), removed' = removed \union {id},
               s # << >>, Head(s) = <<"removeFile", {id}>>
        PROVE  KeyInv'
    <3>1. /\ DOMAIN agents' = DOMAIN agents \ {id} /\ \A x \in DOMAIN agents' : agents'[x] = agents[x]
          /\ \A m \in Names : nameIdx'[m] = IF nameIdx[m] = id THEN 0 ELSE nameIdx[m]
      BY <2>4 DEF Unindex, Without
    <3>2. \A m \in Names : SameKey(m)
      BY <1>1, <2>2, <2>4, <3>1 DEF SameKey
    <3>3. n \notin contended => Fits(n)'
      BY <3>2, KeySame DEF KeyInv
    <3>4. PICK x : x = {id}
      OBVIOUS
    <3>5. Head(s) = <<"removeFile", x>>
      BY <2>4, <3>4
    <3>6. Head(s)[1] = "removeFile"
      BY <3>5
    <3>7. Stage(s, n)'
      BY <2>4, <3>1, <3>6 DEF Stage
    <3>8. StoredKeys'
      BY <1>2, <2>2, <2>4, StoredFrame DEF KeyInv
    <3> QED BY <2>1, <2>2, <3>2, <3>3, <3>7, <3>8, KeyMove
  <2> QED BY <2>1, <2>3, <2>4
<1>12. ASSUME NEW c \in Clients, RemoveAgentFile(c)
       PROVE  KeyInv'
  <2>1. PICK n \in Names, s \in Seq(Steps) :
          /\ Move(c, n, s)
          /\ Head(todo[c])[1] = "removeFile"
          /\ \E id \in Head(todo[c])[2] : files' = Without(files, {id})
          /\ s # << >>
          /\ \/ Head(s)[1] = "removeKey"
             \/ Head(s)[1] = "removeFile" /\ Head(s)[2] \subseteq Head(todo[c])[2]
    BY <1>12, RemoveFileMove
  <2>2. UNCHANGED <<memVars, keys, queue, removed, contended>>
    BY <1>12 DEF RemoveAgentFile, pastVars
  <2>3. \A id \in Head(todo[c])[2] : id \notin DOMAIN agents
    BY <2>1 DEF StoreInv, Move, Procs
  <2>4. PICK x \in Head(todo[c])[2] : files' = Without(files, {x})
    BY <2>1
  <2>5. x \notin DOMAIN agents' /\ queue' = queue
    BY <2>2, <2>3, <2>4 DEF memVars
  <2>6. DOMAIN Flushed' \subseteq DOMAIN Flushed /\ \A id \in DOMAIN Flushed' : Flushed'[id] = Flushed[id]
    BY <2>4, <2>5, DeletedFile
  <2>7. n \notin contended => Stage(s, n)
    <3>1. n \notin contended => nameIdx[n] = 0
      BY <1>3, <2>1 DEF Stage
    <3> QED BY <2>1, <3>1 DEF Stage
  <2> QED BY <2>1, <2>2, <2>6, <2>7, KeyQuiet
<1>13. ASSUME NEW c \in Clients, RemoveKey(c)
       PROVE  KeyInv'
  <2>1. PICK n \in Names, s \in Seq(Steps) :
          /\ Move(c, n, s) /\ Head(todo[c])[1] = "removeKey" /\ s = << >>
          /\ keys' = [keys EXCEPT ![n] = 0]
    BY <1>13, RemoveKeyMove
  <2>2. UNCHANGED <<memVars, queue, files, removed, contended>>
    BY <1>13 DEF RemoveKey, pastVars
  <2>3. keys'[n] = 0 /\ \A m \in Names : m # n => keys'[m] = keys[m]
    BY <2>1 DEF RegistryTypes
  <2>4. n \notin contended => nameIdx[n] = 0
    BY <1>3, <2>1 DEF Stage
  <2>5. \A m \in Names : m # n => SameKey(m)
    BY <2>2, <2>3 DEF SameKey, memVars
  <2>6. n \notin contended => Fits(n)'
    BY <2>2, <2>4 DEF Fits, memVars
  <2>7. ASSUME NEW id \in DOMAIN Flushed \ removed, Flushed[id].name \notin contended
        PROVE  Flushed[id].pub = keys'[Flushed[id].name]
    <3>1. PICK m \in Names : m = Flushed[id].name
      BY FlushedFacts DEF Agent
    <3>2. id \in Ids /\ Named(id, m)
      BY <3>1, FlushedFacts
    <3>3. id \in DOMAIN agents /\ agents[id].name \in Names
      BY <2>7, <3>2 DEF NamesInv, RegistryTypes, Agent
    <3>4. Named(id, agents[id].name)
      BY <3>3 DEF Named
    <3>5. agents[id].name = m
      BY <3>2, <3>3, <3>4 DEF NamesInv
    <3>6. nameIdx[m] = id
      BY <2>7, <3>3, <3>5 DEF NamesInv
    <3>7. m # n
      BY <2>4, <2>7, <3>1, <3>2, <3>6 DEF Ids
    <3> QED BY <2>3, <2>7, <3>1, <3>7 DEF KeyInv, StoredKeys
  <2>8. StoredKeys'
    BY <1>2, <2>2, <2>7 DEF StoredKeys
  <2> QED BY <2>1, <2>2, <2>5, <2>6, <2>8, KeyMove
<1>14. CASE Tick
  BY <1>14, KeyTick
<1>15. CASE Sweep
  <2>1. /\ Unindex(Expired) /\ removed' = removed \union Expired
        /\ UNCHANGED <<keys, queue, files, contended>>
    BY <1>15 DEF Sweep, diskVars
  <2>2. \A c \in Clients : todo'[c] = todo[c]
    BY <1>15, SweepMove
  <2>3. /\ DOMAIN agents' = DOMAIN agents \ Expired
        /\ \A x \in DOMAIN agents' : agents'[x] = agents[x]
        /\ \A m \in Names : nameIdx'[m] = IF nameIdx[m] \in Expired THEN 0 ELSE nameIdx[m]
    BY <2>1 DEF Unindex, Without
  <2>4. \A m \in Names : SameKey(m)
    BY <1>1, <2>1, <2>3 DEF SameKey
  <2>5. StoredKeys'
    BY <1>2, <2>1, StoredFrame DEF KeyInv
  <2> QED BY <2>1, <2>2, <2>4, <2>5, KeyFrame
<1>16. CASE RemoveAgentFile(Sweeper)
  <2>1. /\ \A c \in Clients : todo'[c] = todo[c]
        /\ todo[Sweeper] # << >> /\ Head(todo[Sweeper])[1] = "removeFile"
        /\ \E id \in Head(todo[Sweeper])[2] : files' = Without(files, {id})
    BY <1>16, SweeperFileMove
  <2>2. UNCHANGED <<memVars, keys, queue, removed, contended>>
    BY <1>16 DEF RemoveAgentFile, pastVars
  <2>3. \A id \in Head(todo[Sweeper])[2] : id \notin DOMAIN agents
    BY <2>1 DEF StoreInv, Procs
  <2>4. PICK x \in Head(todo[Sweeper])[2] : files' = Without(files, {x})
    BY <2>1
  <2>5. x \notin DOMAIN agents' /\ queue' = queue
    BY <2>2, <2>3, <2>4 DEF memVars
  <2>6. DOMAIN Flushed' \subseteq DOMAIN Flushed /\ \A id \in DOMAIN Flushed' : Flushed'[id] = Flushed[id]
    BY <2>4, <2>5, DeletedFile
  <2>7. \A m \in Names : SameKey(m)
    BY <2>2 DEF SameKey, memVars
  <2>8. StoredKeys'
    BY <2>2, <2>6, StoredFrame DEF KeyInv
  <2> QED BY <2>1, <2>2, <2>7, <2>8, KeyFrame
<1>17. CASE WriteFile
  <2>1. UNCHANGED <<memVars, keys, todo, removed, contended>>
    BY <1>17 DEF WriteFile, pastVars
  <2>2. DOMAIN Flushed' = DOMAIN Flushed /\ \A id \in DOMAIN Flushed : Flushed'[id] = Flushed[id]
    BY <1>17, WrittenFile
  <2>3. \A m \in Names : SameKey(m)
    BY <2>1 DEF SameKey, memVars
  <2>4. StoredKeys'
    BY <2>1, <2>2, StoredFrame DEF KeyInv
  <2> QED BY <2>1, <2>3, <2>4, KeyFrame
<1>18. CASE Restart
  BY <1>18, KeyRestart
<1>19. CASE UNCHANGED vars
  <2>1. UNCHANGED <<memVars, keys, queue, files, todo, removed, contended>>
    BY <1>19 DEF vars, diskVars, pastVars
  <2>2. \A m \in Names : SameKey(m)
    BY <2>1 DEF SameKey, memVars
  <2>3. StoredKeys'
    BY <1>2, <2>1, StoredFrame DEF KeyInv
  <2> QED BY <2>1, <2>2, <2>3, KeyFrame
<1> QED BY <1>4, <1>5, <1>6, <1>7, <1>8, <1>9, <1>10, <1>11, <1>12, <1>13, <1>14, <1>15,
           <1>16, <1>17, <1>18, <1>19 DEF Next, Handler

-----------------------------------------------------------------------------
(* The theorems.                                                           *)

\* What the registry's two maps, the key store, the files, the write queue and
\* the handlers know of an agent stays together at every step of every handler,
\* of the sweeper and of the writer, as time passes and over restarts.
THEOREM RegistryInvariant == Spec => []IInv
<1>1. Init => IInv
  <2> SUFFICES ASSUME Init PROVE IInv
    OBVIOUS
  <2>1. DOMAIN agents = {} /\ DOMAIN files = {} /\ queue = << >> /\ DOMAIN queue = {}
    BY DEF Init
  <2>2. RegistryTypes
    BY <2>1, RegistryAssumption DEF Init, RegistryTypes
  <2>3. todo \in [Procs -> Seq(Steps)] /\ \A p \in Procs : todo[p] = << >>
    BY DEF Init
  <2>4. TodoTypes
    BY <2>3 DEF TodoTypes, Procs
  <2>5. /\ \A c \in Clients : \A id, a : ~Saves(c, id, a)
        /\ \A c \in Clients : \A n : ~About(c, n)
    BY <2>3 DEF Saves, About, Procs
  <2>6. \A id \in Ids, n \in Names : ~Named(id, n)
    BY <2>1, <2>5 DEF Named
  <2>7. \A n \in Names : nameIdx[n] = 0
    BY DEF Init
  <2>8. NamesInv
    BY <2>1, <2>5, <2>6, <2>7 DEF NamesInv
  <2>9. DOMAIN Flushed = {}
    BY <2>1 DEF Flushed
  <2>10. StoreInv
    BY <2>1, <2>3 DEF StoreInv
  <2>11. KeyInv
    BY <2>5, <2>7, <2>9 DEF KeyInv, Fits, StoredKeys
  <2> QED BY <2>2, <2>4, <2>8, <2>10, <2>11 DEF IInv
<1>2. IInv /\ [Next]_vars => IInv'
  <2> SUFFICES ASSUME IInv, [Next]_vars PROVE IInv'
    OBVIOUS
  <2>1. RegistryTypes /\ TodoTypes /\ NamesInv /\ StoreInv /\ KeyInv
    BY DEF IInv
  <2>2. RegistryTypes' /\ TodoTypes'
    BY <2>1, Types
  <2>3. NamesInv' /\ StoreInv' /\ KeyInv'
    BY <2>1, <2>2, NamesStep, StoreStep, KeyStep
  <2> QED BY <2>2, <2>3 DEF IInv
<1> QED BY <1>1, <1>2, PTL DEF Spec

\* A name leads to an agent of that name, and an agent that was not removed is
\* found under its name: indexAgent, unindexAgent and loadRegistry keep the two
\* maps together whatever was registered over, removed beside or loaded with it.
THEOREM RegistryNameFindsAgent == Spec => []NameFindsAgent
<1>1. IInv => NameFindsAgent
  BY DEF IInv, NamesInv, NameFindsAgent
<1> QED BY <1>1, RegistryInvariant, PTL

\* A daemon that restarts, at whatever moment, finds every agent whose lease
\* runs as it was, under its name: once persistAgent has queued a snapshot, no
\* later one that is on its way, no deleted file and no file that the writer is
\* late with takes it back.
THEOREM RegistryRegistrationSurvives == Spec => []RegistrationSurvives
<1>1. IInv => RegistrationSurvives
  <2> SUFFICES ASSUME IInv, NEW id \in DOMAIN agents \ crossed, agents[id].age < 2,
                      ~\E c \in Clients : Saving(c, id)
               PROVE  /\ id \in DOMAIN Reloaded
                      /\ Reloaded[id] = agents[id]
                      /\ id \notin removed => ReloadedIdx[agents[id].name] = id
    BY DEF RegistrationSurvives
  <2>1. RegistryTypes /\ NamesInv /\ StoreInv
    BY DEF IInv
  <2>2. id \in DOMAIN Flushed /\ Flushed[id] = agents[id]
    BY <2>1 DEF StoreInv
  <2>3. id \in DOMAIN Reloaded /\ Reloaded[id] = agents[id]
    BY <2>1, <2>2, ReloadedFacts
  <2>4. PICK n \in Names : n = agents[id].name
    BY <2>1 DEF RegistryTypes, Agent
  <2>5. ASSUME id \notin removed
        PROVE  ReloadedIdx[n] = id
    <3>1. nameIdx[n] = id
      BY <2>1, <2>4, <2>5 DEF NamesInv
    <3>2. PICK x \in {0} \union Ids : x = ReloadedIdx[n]
      BY <2>1, ReloadedFacts
    <3>3. id \in Ids /\ id <= x /\ x # 0
      BY <2>1, <2>3, <2>4, <3>2, ReloadedFacts DEF Ids
    <3>4. x \in DOMAIN Flushed /\ Flushed[x].name = n
      BY <2>1, <3>2, <3>3, ReloadedFacts
    <3>5. x \in Ids /\ Named(x, n)
      BY <2>1, <3>4, FlushedFacts
    <3>6. x <= id
      BY <2>1, <3>1, <3>3, <3>5 DEF NamesInv, Ids
    <3> QED BY <3>2, <3>3, <3>5, <3>6 DEF Ids
  <2> QED BY <2>3, <2>4, <2>5
<1> QED BY <1>1, RegistryInvariant, PTL

\* The key on disk is the one that the agent of its name is registered with, at
\* every step of register, unregister and every signed request, and after every
\* restart: whoever has the key can sign.  Left out are names that two commands
\* ran against each other on (contended), and names that lead to an agent that
\* was removed and came back by an old snapshot (removed).
THEOREM RegistryKeyFits == Spec => []KeyFits
<1>1. IInv => KeyFits
  BY DEF IInv, KeyInv, Fits, KeyFits
<1> QED BY <1>1, RegistryInvariant, PTL
=============================================================================
