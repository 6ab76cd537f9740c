-------------------------- MODULE WriteQueueProofs --------------------------
(***************************************************************************)
(* Proofs about module WriteQueue, for all producers, paths, faults and    *)
(* capacities.                                                             *)
(***************************************************************************)
EXTENDS WriteQueue, Lemmas, FiniteSetTheorems

-----------------------------------------------------------------------------
(* The inductive invariant.                                                *)

\* A row has an id that SQLite gave out, and no other row has it.
RowIds ==
  /\ \A o \in rows : o.id \in 1..lastId
  /\ \A o, q \in rows : o.id = q.id => o = q

\* A copy of a write says what the write said.
Faithful(o) ==
  /\ o.id <= lastId
  /\ \A w \in accepted : w.id = o.id => w.path = o.path /\ w.body = o.body

Known == \A o \in (rows \union dead \union Carried) \ {NoOp} : Faithful(o)

\* flushPendingWrites runs alone.
FlushAlone ==
  /\ boot => writes = << >> /\ \A p \in Producers : sending[p] = NoOp
  /\ ~boot => todo = << >>

\* What commitWrite has achieved so far for the write in hand.
Progress ==
  /\ stage \in {"bump", "bury"} => op.id > 0
  /\ stage = "bury" => op.attempts >= MaxAttempts
  /\ op # NoOp /\ op.path \notin Removable =>
       /\ stage = "add" => files[op.path] = op.body
       /\ stage = "commit" => index[op.path] = op.body
       /\ stage = "delete" => <<op.path, op.body>> \in history

\* A write failed at most once per start so far, and one that is carried has
\* still this start's failure to come.
FailedOncePerStart ==
  \A w \in accepted :
    /\ \A o \in rows : o.id = w.id => o.attempts <= starts - w.start + 1
    /\ \A o \in Carried \ {NoOp} : o.id = w.id /\ ~(o = op /\ stage = "bury")
         => o.attempts <= starts - w.start

IInv ==
  /\ TypeOK /\ RowIds /\ Known
  /\ FlushAlone /\ OneCarrier /\ Progress
  /\ FailedOncePerStart /\ NoWriteLost /\ BuriedAfterRestarts

-----------------------------------------------------------------------------
(* The rows in the order of their ids.                                     *)

\* The table is finite.
LEMMA RowsFinite ==
  ASSUME TypeOK, RowIds
  PROVE  IsFiniteSet(rows)
<1> DEFINE f == [o \in rows |-> o.id]
<1>1. f \in Injection(rows, 1..lastId)
  BY DEF RowIds, Injection, IsInjective
<1>2. lastId \in Nat
  BY DEF TypeOK, TableTypes
<1>3. IsFiniteSet(1..lastId)
  BY <1>2, FS_Interval
<1> HIDE DEF f
<1> QED BY <1>1, <1>3, FS_Injection

\* The ranks of the rows are the numbers up to the size of the table, each
\* taken once.
LEMMA Ranks ==
  ASSUME TypeOK, RowIds
  PROVE  /\ Cardinality(rows) \in Nat
         /\ \A i \in 1..Cardinality(rows) : \E o \in rows : Rank(o) = i
<1> DEFINE Upto(o) == {x \in rows : x.id <= o.id}
           n == Cardinality(rows)
           f == [o \in rows |-> Rank(o)]
<1>1. IsFiniteSet(rows)
  BY RowsFinite
<1>2. n \in Nat
  BY <1>1, FS_CardinalityType
<1>3. \A o \in rows : o.id \in Nat
  BY DEF RowIds, TypeOK, TableTypes
<1>4. ASSUME NEW o \in rows
      PROVE  IsFiniteSet(Upto(o)) /\ Rank(o) = Cardinality(Upto(o)) /\ Rank(o) \in 1..n
  <2>1. Upto(o) \in SUBSET rows
    OBVIOUS
  <2>2. IsFiniteSet(Upto(o)) /\ Cardinality(Upto(o)) <= n
    <3> HIDE DEF Upto
    <3> QED BY <1>1, <2>1, FS_Subset
  <2>3. o \in Upto(o)
    BY <1>3
  <2>4. Cardinality(Upto(o)) # 0 /\ Cardinality(Upto(o)) \in Nat
    <3> HIDE DEF Upto
    <3> QED BY <2>2, <2>3, FS_CardinalityType, FS_EmptySet
  <2>5. Rank(o) = Cardinality(Upto(o))
    BY DEF Rank
  <2> HIDE DEF Upto
  <2> QED BY <2>2, <2>4, <2>5, <1>2
<1>5. ASSUME NEW o \in rows, NEW q \in rows, Rank(o) = Rank(q) PROVE o = q
  <2>1. Upto(o) \in SUBSET Upto(q) \/ Upto(q) \in SUBSET Upto(o)
    BY <1>3
  <2>2. Upto(o) = Upto(q)
    <3> HIDE DEF Upto
    <3> QED BY <2>1, <1>4, <1>5, FS_Subset
  <2>3. o \in Upto(q) /\ q \in Upto(o)
    BY <2>2, <1>3
  <2> QED BY <2>3, <1>3 DEF RowIds
<1>6. f \in Injection(rows, 1..n)
  <2>1. f \in [rows -> 1..n]
    BY <1>4
  <2>2. \A o, q \in rows : f[o] = f[q] => o = q
    BY <1>5
  <2> HIDE DEF f
  <2> QED BY <2>1, <2>2 DEF Injection, IsInjective
<1>7. IsFiniteSet(1..n) /\ Cardinality(1..n) = n
  BY <1>2, FS_Interval
<1>8. f \in Surjection(rows, 1..n)
  <2> HIDE DEF f, n
  <2>1. Cardinality(rows) = Cardinality(1..n)
    BY <1>7 DEF n
  <2> QED BY <1>6, <1>7, <2>1, FS_Injection
<1> QED BY <1>2, <1>8 DEF Surjection

\* pending lists the rows, each once.
LEMMA PendingLists ==
  ASSUME TypeOK, RowIds
  PROVE  /\ Pending \in Seq(rows)
         /\ Pending \in Seq(Op)
         /\ Range(Pending) \subseteq rows
         /\ \A i, j \in 1..Len(Pending) : Pending[i].id = Pending[j].id => i = j
<1> DEFINE n == Cardinality(rows)
<1>1. n \in Nat
  BY Ranks
<1>2. \A i \in 1..n : Pending[i] \in rows /\ Rank(Pending[i]) = i
  BY Ranks DEF Pending
<1>3. Pending \in [1..n -> rows]
  BY <1>2 DEF Pending
<1>4. Pending \in Seq(rows) /\ Len(Pending) = n
  <2> HIDE DEF n
  <2> QED BY <1>1, <1>3
<1>5. rows \subseteq Op
  BY DEF TypeOK, TableTypes
<1>6. Pending \in Seq(Op)
  BY <1>4, <1>5
<1>7. Range(Pending) \subseteq rows
  BY <1>4, RangeEntries
<1>8. \A i, j \in 1..n : Pending[i].id = Pending[j].id => i = j
  <2>1. \A i, j \in 1..n : Pending[i].id = Pending[j].id => Pending[i] = Pending[j]
    BY <1>2 DEF RowIds
  <2> QED BY <2>1, <1>2
<1> QED BY <1>4, <1>6, <1>7, <1>8

-----------------------------------------------------------------------------
(* Initial states.                                                         *)

LEMMA InitInv == Init => IInv
<1> SUFFICES ASSUME Init PROVE IInv
  OBVIOUS
<1> USE DEF Init
<1>1. Range(<< >>) = {}
  BY DEF Range
<1>2. Carried = {NoOp} \/ Carried = {}
  BY <1>1 DEF Carried
<1>3. TypeOK
  <2>1. TableTypes
    BY SizeAssumption DEF TableTypes
  <2>2. CarrierTypes
    <3>1. << >> \in Seq(Op)
      OBVIOUS
    <3>2. stage \in Stages /\ stage \in {"idle", "exited"}
      BY DEF Stages
    <3> QED BY <3>1, <3>2 DEF CarrierTypes
  <2>3. GitTypes
    BY DEF GitTypes
  <2> QED BY <2>1, <2>2, <2>3 DEF TypeOK
<1>4. RowIds /\ Known /\ FlushAlone /\ Progress
  BY <1>2 DEF RowIds, Known, FlushAlone, Progress
<1>5. OneCarrier
  BY <1>1, <1>2 DEF OneCarrier, CarriedIsRow, OnceInWrites, OnceInTodo, OneSender,
     SenderAlone, WriterAlone
<1>6. FailedOncePerStart /\ NoWriteLost /\ BuriedAfterRestarts
  BY DEF FailedOncePerStart, NoWriteLost, BuriedAfterRestarts
<1> QED BY <1>3, <1>4, <1>5, <1>6 DEF IInv

-----------------------------------------------------------------------------
(* Facts about copies.                                                     *)

LEMMA OpFields ==
  ASSUME NEW o \in Op
  PROVE  /\ o.id \in Nat
         /\ o.path \in Paths
         /\ o.body \in Contents
         /\ o.attempts \in Nat
         /\ o # NoOp
  BY NoOpAssumption DEF Op

LEMMA CarriedTyped ==
  ASSUME TypeOK
  PROVE  Carried \subseteq Op \union {NoOp}
<1>1. writes \in Seq(Op) /\ todo \in Seq(Op)
  BY DEF TypeOK, CarrierTypes
<1>2. Range(writes) \subseteq Op /\ Range(todo) \subseteq Op
  BY <1>1, RangeEntries
<1>3. op \in Op \union {NoOp} /\ \A p \in Producers : sending[p] \in Op \union {NoOp}
  BY DEF TypeOK, CarrierTypes
<1> QED BY <1>2, <1>3 DEF Carried

\* The writer's row is its copy.
LEMMA WritersRow ==
  ASSUME IInv, op # NoOp
  PROVE  /\ op \in Op
         /\ op \in Carried
         /\ op.id = 0 => RowOf(op.id) = {}
         /\ op.id > 0 => op \in rows /\ RowOf(op.id) = {op}
<1>1. op \in Op /\ op \in Carried
  BY DEF IInv, TypeOK, CarrierTypes, Carried
<1>2. op.id = 0 => RowOf(op.id) = {}
  BY DEF IInv, RowIds, RowOf
<1>3. op.id > 0 => op \in rows
  BY <1>1 DEF IInv, OneCarrier, CarriedIsRow
<1>4. op.id > 0 => RowOf(op.id) = {op}
  BY <1>3 DEF IInv, RowIds, RowOf
<1> QED BY <1>1, <1>2, <1>3, <1>4

\* While the tables stay, copies may only be passed on.
LEMMA TablesStay ==
  ASSUME IInv, UNCHANGED <<starts, lastId, accepted, rows, dead>>,
         \A o \in Carried' \ {NoOp} :
           /\ o \in Carried
           /\ o = op /\ stage = "bury" => o = op' /\ stage' = "bury"
  PROVE  RowIds' /\ Known' /\ CarriedIsRow' /\ FailedOncePerStart'
         /\ BuriedAfterRestarts'
<1>1. RowIds'
  BY DEF IInv, RowIds
<1>2. Known'
  BY DEF IInv, Known, Faithful
<1>3. CarriedIsRow'
  BY DEF IInv, OneCarrier, CarriedIsRow
<1>4. FailedOncePerStart'
  BY DEF IInv, FailedOncePerStart
<1>5. BuriedAfterRestarts'
  BY DEF IInv, BuriedAfterRestarts
<1> QED BY <1>1, <1>2, <1>3, <1>4, <1>5

\* The writer may put its copy down.
LEMMA PutDown ==
  ASSUME IInv, UNCHANGED <<sending, writes, todo>>, op' = op \/ op' = NoOp
  PROVE  /\ OnceInWrites' /\ OnceInTodo' /\ OneSender' /\ SenderAlone' /\ WriterAlone'
         /\ Carried' \subseteq Carried \union {NoOp}
         /\ op' = NoOp /\ op # NoOp /\ op.id > 0 => op \notin Carried'
<1>1. OnceInWrites' /\ OnceInTodo' /\ OneSender'
  BY DEF IInv, OneCarrier, OnceInWrites, OnceInTodo, OneSender
<1>2. SenderAlone'
  BY DEF IInv, OneCarrier, SenderAlone
<1>3. WriterAlone'
  BY DEF IInv, OneCarrier, WriterAlone
<1>4. Carried' \subseteq Carried \union {NoOp}
  BY DEF Carried
<1>5. op' = NoOp /\ op # NoOp /\ op.id > 0 => op \notin Carried'
  BY DEF IInv, OneCarrier, WriterAlone, SenderAlone, Carried
<1> QED BY <1>1, <1>2, <1>3, <1>4, <1>5

\* Both together: what most steps of the writer leave alone.
LEMMA WriterKeeps ==
  ASSUME IInv, UNCHANGED <<starts, lastId, accepted, rows, dead>>,
         UNCHANGED <<sending, writes, todo>>,
         \/ op' = op /\ (stage = "bury" => stage' = "bury")
         \/ op' = NoOp
  PROVE  RowIds' /\ Known' /\ OneCarrier' /\ FailedOncePerStart'
         /\ BuriedAfterRestarts'
<1>1. /\ OnceInWrites' /\ OnceInTodo' /\ OneSender' /\ SenderAlone' /\ WriterAlone'
      /\ Carried' \subseteq Carried \union {NoOp}
      /\ op' = NoOp /\ op # NoOp /\ op.id > 0 => op \notin Carried'
  BY PutDown
<1>2. stage = "bury" /\ op # NoOp => op.id > 0
  BY DEF IInv, Progress
<1>3. \A o \in Carried' \ {NoOp} :
           /\ o \in Carried
           /\ o = op /\ stage = "bury" => o = op' /\ stage' = "bury"
  BY <1>1, <1>2
<1>4. RowIds' /\ Known' /\ CarriedIsRow' /\ FailedOncePerStart'
         /\ BuriedAfterRestarts'
  BY <1>3, TablesStay
<1> QED BY <1>1, <1>4 DEF OneCarrier

\* Nothing is lost while the tables stay and history grows.
LEMMA HistoryGrows ==
  ASSUME IInv, UNCHANGED <<accepted, rows, dead>>, history \subseteq history'
  PROVE  NoWriteLost'
  BY DEF IInv, NoWriteLost

-----------------------------------------------------------------------------
(* Steps of the writer that leave the tables alone.                        *)

\* A file is removed, s.writes is closed, the flush or the writer ends.
LEMMA QuietInv ==
  ASSUME IInv, \/ \E x \in Paths : RemoveAgentFile(x)
               \/ CloseWrites \/ FlushDone \/ WriterExit \/ UNCHANGED vars
  PROVE  IInv'
<1> USE DEF queueVars, senderVars, gitVars
<1>1. /\ UNCHANGED <<starts, lastId, accepted, rows, dead>>
      /\ UNCHANGED <<sending, writes, todo>>
      /\ op' = op /\ history' = history
      /\ stage = "bury" => stage' = "bury"
  BY DEF RemoveAgentFile, CloseWrites, FlushDone, WriterExit, vars
<1>2. RowIds' /\ Known' /\ OneCarrier' /\ FailedOncePerStart' /\ BuriedAfterRestarts'
  BY <1>1, WriterKeeps
<1>3. NoWriteLost'
  BY <1>1, HistoryGrows
<1>4. TableTypes' /\ GitTypes'
  <2>1. TableTypes /\ GitTypes
    BY DEF IInv, TypeOK
  <2>2. issued' = issued
    BY DEF RemoveAgentFile, CloseWrites, FlushDone, WriterExit, vars
  <2>3. TableTypes'
    BY <1>1, <2>1, <2>2 DEF TableTypes
  <2>4. files' \in [Paths -> Contents \union {Absent}]
    BY <2>1 DEF GitTypes, RemoveAgentFile, CloseWrites, FlushDone, WriterExit, vars
  <2>5. UNCHANGED <<index, head, lock>>
    BY DEF RemoveAgentFile, CloseWrites, FlushDone, WriterExit, vars
  <2> QED BY <1>1, <2>1, <2>3, <2>4, <2>5 DEF GitTypes
<1>5. CarrierTypes'
  <2>1. CarrierTypes
    BY DEF IInv, TypeOK
  <2>2. closed' \in BOOLEAN /\ boot' \in BOOLEAN
    BY <2>1 DEF CarrierTypes, RemoveAgentFile, CloseWrites, FlushDone, WriterExit, vars
  <2>3. stage' = stage \/ (stage = "idle" /\ stage' = "exited")
    BY DEF RemoveAgentFile, CloseWrites, FlushDone, WriterExit, vars
  <2>4. stage' \in Stages /\ (op' = NoOp <=> stage' \in {"idle", "exited"})
    BY <1>1, <2>1, <2>3 DEF CarrierTypes, Stages
  <2> QED BY <1>1, <2>1, <2>2, <2>4 DEF CarrierTypes
<1>6. FlushAlone'
  BY <1>1 DEF IInv, FlushAlone, RemoveAgentFile, CloseWrites, FlushDone, WriterExit, vars
<1>7. Progress'
  <2>1. /\ index' = index
        /\ \A x \in Paths : x \notin Removable => files'[x] = files[x]
    BY DEF IInv, TypeOK, GitTypes, RemoveAgentFile, CloseWrites, FlushDone, WriterExit, vars
  <2>2. stage' \in {"bump", "bury", "add", "commit", "delete"} => stage' = stage
    BY DEF RemoveAgentFile, CloseWrites, FlushDone, WriterExit, vars
  <2>3. op # NoOp => op.path \in Paths
    BY OpFields DEF IInv, TypeOK, CarrierTypes
  <2> QED BY <1>1, <2>1, <2>2, <2>3 DEF IInv, Progress
<1> QED BY <1>2, <1>3, <1>4, <1>5, <1>6, <1>7 DEF IInv, TypeOK

\* What the closure fail leaves behind.
LEMMA FailFacts ==
  ASSUME Fail
  PROVE  \/ op' = NoOp /\ stage' = "idle"
         \/ op' = op /\ op.id > 0 /\ stage' = "bump"
  BY DEF Fail, Drop

\* The file is written, staged and committed, or that fails.
LEMMA CommitInv ==
  ASSUME IInv, WriteFile \/ GitAdd \/ GitCommit
  PROVE  IInv'
<1> USE DEF queueVars, senderVars, gitVars
<1>1. /\ UNCHANGED <<starts, issued, lastId, accepted, rows, dead>>
      /\ UNCHANGED <<sending, writes, todo, closed, boot, lock>>
      /\ stage \in {"file", "add", "commit"}
      /\ op # NoOp
  <2>1. stage \in {"file", "add", "commit"}
    BY DEF WriteFile, GitAdd, GitCommit
  <2> QED BY <2>1 DEF WriteFile, GitAdd, GitCommit, IInv, TypeOK, CarrierTypes
<1>2. op \in Op /\ op.path \in Paths /\ op.body \in Contents
  BY <1>1, OpFields DEF IInv, TypeOK, CarrierTypes
<1>3. \/ op' = NoOp /\ stage' = "idle"
      \/ op' = op /\ op.id > 0 /\ stage' = "bump"
      \/ op' = op /\ stage' \in {"add", "commit", "delete"}
  <2>1. CASE Fail
    BY <2>1, FailFacts
  <2>2. CASE ~Fail
    BY <2>2 DEF WriteFile, GitAdd, GitCommit
  <2> QED BY <2>1, <2>2
<1>4. RowIds' /\ Known' /\ OneCarrier' /\ FailedOncePerStart' /\ BuriedAfterRestarts'
  <2>1. \/ op' = op /\ (stage = "bury" => stage' = "bury")
        \/ op' = NoOp
    BY <1>1, <1>3
  <2> QED BY <1>1, <2>1, WriterKeeps
<1>5. GitTypes
  BY DEF IInv, TypeOK
<1>6. history \subseteq history' /\ history' \subseteq Paths \X Contents
  <2>1. Staged \subseteq Paths \X Contents
    BY <1>5 DEF Staged, GitTypes
  <2> QED BY <2>1, <1>5 DEF WriteFile, GitAdd, GitCommit, GitTypes
<1>7. NoWriteLost'
  BY <1>1, <1>6, HistoryGrows
<1>8. GitTypes'
  <2>1. files' \in [Paths -> Contents \union {Absent}]
    BY <1>2, <1>5 DEF WriteFile, GitAdd, GitCommit, GitTypes
  <2>2. index' \in [Paths -> Contents \union {Absent}]
    BY <1>2, <1>5 DEF WriteFile, GitAdd, GitCommit, GitTypes
  <2>3. head' \in [Paths -> Contents \union {Absent}]
    BY <1>5 DEF WriteFile, GitAdd, GitCommit, GitTypes
  <2> QED BY <1>1, <1>5, <1>6, <2>1, <2>2, <2>3 DEF GitTypes
<1>9. TableTypes'
  BY <1>1 DEF IInv, TypeOK, TableTypes
<1>10. CarrierTypes'
  <2>1. stage' \in Stages /\ (op' = NoOp <=> stage' \in {"idle", "exited"})
    BY <1>1, <1>3 DEF Stages
  <2>2. CarrierTypes
    BY DEF IInv, TypeOK
  <2> QED BY <1>1, <1>2, <1>3, <2>1, <2>2 DEF CarrierTypes
<1>11. FlushAlone'
  BY <1>1 DEF IInv, FlushAlone
<1>12. Progress'
  <2>1. stage' = "add" => files'[op.path] = op.body
    <3> SUFFICES ASSUME stage' = "add" PROVE files'[op.path] = op.body
      OBVIOUS
    <3>1. WriteFile
      BY <1>1 DEF GitAdd, GitCommit, Fail, Drop
    <3>2. files' = [files EXCEPT ![op.path] = op.body]
      BY <3>1 DEF WriteFile, Fail, Drop
    <3> QED BY <3>2, <1>2, <1>5 DEF GitTypes
  <2>2. stage' = "commit" /\ op.path \notin Removable => index'[op.path] = op.body
    <3> SUFFICES ASSUME stage' = "commit", op.path \notin Removable
                 PROVE  index'[op.path] = op.body
      OBVIOUS
    <3>1. GitAdd
      BY <1>1 DEF WriteFile, GitCommit, Fail, Drop
    <3>2. index' = [index EXCEPT ![op.path] = files[op.path]] /\ stage = "add"
      BY <3>1 DEF GitAdd, Fail, Drop
    <3>3. files[op.path] = op.body
      BY <3>2, <1>1 DEF IInv, Progress
    <3> QED BY <3>2, <3>3, <1>2, <1>5 DEF GitTypes
  <2>3. stage' = "delete" /\ op.path \notin Removable => <<op.path, op.body>> \in history'
    <3> SUFFICES ASSUME stage' = "delete", op.path \notin Removable
                 PROVE  <<op.path, op.body>> \in history'
      OBVIOUS
    <3>1. GitCommit
      BY <1>1 DEF WriteFile, GitAdd, Fail, Drop
    <3>2. Staged \subseteq history' /\ stage = "commit"
      BY <3>1 DEF GitCommit, Fail, Drop
    <3>3. index[op.path] = op.body
      BY <3>2, <1>1 DEF IInv, Progress
    <3>4. op.body # Absent
      BY <1>2, ContentAssumption
    <3> QED BY <3>2, <3>3, <3>4, <1>2 DEF Staged
  <2> QED BY <1>1, <1>3, <2>1, <2>2, <2>3 DEF Progress
<1> QED BY <1>4, <1>7, <1>8, <1>9, <1>10, <1>11, <1>12 DEF IInv, TypeOK

-----------------------------------------------------------------------------
(* Steps of the writer that change its row.                                *)

Others == Range(writes) \union Range(todo) \union {sending[p] : p \in Producers}

\* No other goroutine carries the writer's row.
LEMMA OthersDiffer ==
  ASSUME IInv, op # NoOp
  PROVE  \A o \in Others \ {NoOp} : o.id > 0 => o.id # op.id /\ o \in rows \ RowOf(op.id)
<1> SUFFICES ASSUME NEW o \in Others, o # NoOp, o.id > 0
             PROVE  o.id # op.id /\ o \in rows \ RowOf(op.id)
  OBVIOUS
<1>1. op \in Op /\ (op.id > 0 => op \in rows)
  BY WritersRow
<1>2. o \in rows
  BY DEF Others, Carried, IInv, OneCarrier, CarriedIsRow
<1>3. ASSUME o.id = op.id PROVE FALSE
  <2>1. op.id > 0 /\ o = op
    BY <1>1, <1>2, <1>3 DEF IInv, RowIds
  <2> QED BY <2>1 DEF Others, IInv, OneCarrier, WriterAlone, SenderAlone
<1> QED BY <1>2, <1>3 DEF RowOf

\* The row is deleted, or given up.
LEMMA RowGone ==
  ASSUME IInv, op # NoOp, op' = NoOp,
         UNCHANGED <<starts, lastId, accepted, sending, writes, todo>>,
         rows' = rows \ RowOf(op.id),
         dead' = dead \/ (dead' = dead \union {op} /\ stage = "bury")
  PROVE  RowIds' /\ Known' /\ OneCarrier' /\ FailedOncePerStart' /\ BuriedAfterRestarts'
<1>1. /\ OnceInWrites' /\ OnceInTodo' /\ OneSender' /\ SenderAlone' /\ WriterAlone'
      /\ Carried' \subseteq Carried \union {NoOp}
      /\ op.id > 0 => op \notin Carried'
  BY PutDown
<1>2. rows' \subseteq rows
  OBVIOUS
<1>3. RowIds'
  BY <1>2 DEF IInv, RowIds
<1>4. op \in Op /\ op \in Carried /\ (op.id > 0 => op \in rows)
  BY WritersRow
<1>5. Known'
  BY <1>1, <1>2, <1>4 DEF IInv, Known, Faithful
<1>6. CarriedIsRow'
  <2>1. \A o \in Others \ {NoOp} : o.id > 0 => o \in rows'
    BY OthersDiffer
  <2>2. Carried' = Others \union {NoOp}
    BY DEF Carried, Others
  <2> QED BY <2>1, <2>2 DEF CarriedIsRow
<1>7. OneCarrier'
  BY <1>1, <1>6 DEF OneCarrier
<1>8. stage = "bury" => op.id > 0 /\ op.attempts >= MaxAttempts
  BY DEF IInv, Progress
<1>9. FailedOncePerStart'
  BY <1>1, <1>2, <1>8 DEF IInv, FailedOncePerStart
<1>10. BuriedAfterRestarts'
  <2> SUFFICES ASSUME NEW w \in accepted, NEW o \in dead', o.id = w.id
               PROVE  starts >= w.start + MaxAttempts - 1
    BY DEF BuriedAfterRestarts
  <2>1. CASE o \in dead
    BY <2>1 DEF IInv, BuriedAfterRestarts
  <2>2. CASE o = op /\ stage = "bury"
    <3>1. op.attempts <= starts - w.start + 1
      BY <2>2, <1>4, <1>8 DEF IInv, FailedOncePerStart
    <3>2. starts \in Nat /\ w.start \in Nat /\ op.attempts \in Nat /\ MaxAttempts \in Nat
      BY <1>4, OpFields, SizeAssumption DEF IInv, TypeOK, TableTypes
    <3> QED BY <3>1, <3>2, <1>8, <2>2
  <2> QED BY <2>1, <2>2
<1> QED BY <1>3, <1>5, <1>7, <1>9, <1>10

\* commitWrite is over and git was not touched.
LEMMA DropTypes ==
  ASSUME IInv, Drop, UNCHANGED <<queueVars, senderVars, gitVars>>,
         rows' \subseteq Op, dead' \subseteq Op
  PROVE  TypeOK' /\ FlushAlone' /\ Progress'
<1> USE DEF queueVars, senderVars, gitVars
<1>1. op' = NoOp /\ stage' = "idle"
  BY DEF Drop
<1>2. TableTypes'
  BY DEF IInv, TypeOK, TableTypes
<1>3. GitTypes'
  BY DEF IInv, TypeOK, GitTypes
<1>4. CarrierTypes'
  <2>1. stage' \in Stages /\ stage' \in {"idle", "exited"}
    BY <1>1 DEF Stages
  <2> QED BY <1>1, <2>1 DEF IInv, TypeOK, CarrierTypes
<1>5. FlushAlone'
  BY DEF IInv, FlushAlone
<1>6. Progress'
  BY <1>1 DEF Progress
<1> QED BY <1>2, <1>3, <1>4, <1>5, <1>6 DEF TypeOK

LEMMA HasOp ==
  ASSUME IInv, stage \notin {"idle", "exited"}
  PROVE  op # NoOp
  BY DEF IInv, TypeOK, CarrierTypes

\* The row of a committed write goes.
LEMMA DeleteRowInv ==
  ASSUME IInv, DeleteRow
  PROVE  IInv'
<1> USE DEF queueVars, senderVars, gitVars
<1>1. /\ UNCHANGED <<queueVars, dead, senderVars, gitVars>>
      /\ stage = "delete" /\ Drop /\ op' = NoOp
      /\ rows' = rows \/ rows' = rows \ RowOf(op.id)
  BY DEF DeleteRow, Drop
<1>2. op # NoOp
  BY <1>1, HasOp
<1>3. RowIds' /\ Known' /\ OneCarrier' /\ FailedOncePerStart' /\ BuriedAfterRestarts'
  <2>1. CASE rows' = rows
    BY <1>1, <2>1, WriterKeeps
  <2>2. CASE rows' = rows \ RowOf(op.id)
    BY <1>1, <1>2, <2>2, RowGone
  <2> QED BY <1>1, <2>1, <2>2
<1>4. TypeOK' /\ FlushAlone' /\ Progress'
  <2>1. rows' \subseteq Op /\ dead' \subseteq Op
    BY <1>1 DEF IInv, TypeOK, TableTypes
  <2> QED BY <1>1, <2>1, DropTypes
<1>5. NoWriteLost'
  <2> SUFFICES ASSUME NEW w \in accepted, w.path \notin Removable
               PROVE  \/ \E o \in rows' \union dead :
                           o.id = w.id /\ o.path = w.path /\ o.body = w.body
                      \/ <<w.path, w.body>> \in history
    BY <1>1 DEF NoWriteLost
  <2>1. CASE w.id = op.id
    <3>1. op \in Carried
      BY DEF Carried
    <3>2. w.path = op.path /\ w.body = op.body
      BY <1>2, <2>1, <3>1 DEF IInv, Known, Faithful
    <3> QED BY <1>1, <1>2, <3>2 DEF IInv, Progress
  <2>2. CASE w.id # op.id
    BY <1>1, <2>2 DEF IInv, NoWriteLost, RowOf
  <2> QED BY <2>1, <2>2
<1> QED BY <1>3, <1>4, <1>5 DEF IInv

\* The row moves to queue_dead.
LEMMA DeadLetterInv ==
  ASSUME IInv, DeadLetter
  PROVE  IInv'
<1> USE DEF queueVars, senderVars, gitVars
<1>1. /\ UNCHANGED <<queueVars, senderVars, gitVars>>
      /\ stage = "bury" /\ Drop /\ op' = NoOp
      /\ \/ rows' = rows /\ dead' = dead
         \/ rows' = rows \ RowOf(op.id) /\ dead' = dead \union {op}
  BY DEF DeadLetter, Drop
<1>2. op # NoOp /\ op \in Op
  BY <1>1, HasOp DEF IInv, TypeOK, CarrierTypes
<1>3. RowIds' /\ Known' /\ OneCarrier' /\ FailedOncePerStart' /\ BuriedAfterRestarts'
  <2>1. CASE rows' = rows /\ dead' = dead
    BY <1>1, <2>1, WriterKeeps
  <2>2. CASE rows' = rows \ RowOf(op.id) /\ dead' = dead \union {op}
    BY <1>1, <1>2, <2>2, RowGone
  <2> QED BY <1>1, <2>1, <2>2
<1>4. TypeOK' /\ FlushAlone' /\ Progress'
  <2>1. rows' \subseteq Op /\ dead' \subseteq Op
    BY <1>1, <1>2 DEF IInv, TypeOK, TableTypes
  <2> QED BY <1>1, <2>1, DropTypes
<1>5. NoWriteLost'
  <2> SUFFICES ASSUME NEW w \in accepted, w.path \notin Removable
               PROVE  \/ \E o \in rows' \union dead' :
                           o.id = w.id /\ o.path = w.path /\ o.body = w.body
                      \/ <<w.path, w.body>> \in history
    BY <1>1 DEF NoWriteLost
  <2>1. CASE w.id = op.id /\ dead' = dead \union {op}
    <3>1. op \in Carried
      BY DEF Carried
    <3>2. w.path = op.path /\ w.body = op.body
      BY <1>2, <2>1, <3>1 DEF IInv, Known, Faithful
    <3> QED BY <2>1, <3>2
  <2>2. CASE w.id # op.id \/ (rows' = rows /\ dead' = dead)
    BY <1>1, <2>2 DEF IInv, NoWriteLost, RowOf
  <2> QED BY <1>1, <2>1, <2>2
<1> QED BY <1>3, <1>4, <1>5 DEF IInv

\* A failure changes the count of a write and nothing else of it.
LEMMA BumpedFields ==
  ASSUME NEW o \in Op
  PROVE  /\ Bumped(o) \in Op
         /\ Bumped(o).id = o.id
         /\ Bumped(o).path = o.path
         /\ Bumped(o).body = o.body
         /\ Bumped(o).attempts = o.attempts + 1
  BY DEF Bumped, Op

\* The row and, if it is given up next, the copy count one failure more.
LEMMA CountedRow ==
  ASSUME IInv, stage = "bump", op # NoOp, NEW b, b = Bumped(op),
         UNCHANGED <<starts, lastId, accepted, dead, sending, writes, todo>>,
         rows' = (rows \ {op}) \union {b},
         op' = NoOp \/ (op' = b /\ stage' = "bury")
  PROVE  RowIds' /\ Known' /\ OneCarrier' /\ FailedOncePerStart' /\ BuriedAfterRestarts'
<1>1. /\ op \in Op /\ op \in Carried
      /\ op.id > 0 /\ op \in rows /\ RowOf(op.id) = {op}
  BY WritersRow DEF IInv, Progress
<1>2. /\ b \in Op /\ b.id = op.id /\ b.path = op.path /\ b.body = op.body
      /\ b.attempts = op.attempts + 1 /\ b # NoOp /\ b.id > 0
  <2>1. b \in Op /\ b.id = op.id /\ b.path = op.path /\ b.body = op.body
        /\ b.attempts = op.attempts + 1
    BY <1>1, BumpedFields
  <2> QED BY <1>1, <2>1, NoOpAssumption
<1>3. \A o \in Others \ {NoOp} : o.id > 0 => o.id # op.id /\ o \in rows \ {op}
  BY <1>1, OthersDiffer
<1>4. Carried' = Others \union {op'} /\ Carried = Others \union {op}
  BY DEF Carried, Others
<1>5. RowIds'
  <2>1. \A o \in rows \ {op} : o.id # b.id
    BY <1>1, <1>2 DEF IInv, RowIds
  <2> QED BY <1>1, <1>2, <2>1 DEF IInv, RowIds
<1>6. Known'
  <2>1. Faithful(op)
    BY <1>1 DEF IInv, Known
  <2>2. Faithful(b)'
    BY <2>1, <1>2 DEF Faithful
  <2>3. \A o \in (rows \union dead \union Others) \ {NoOp} : Faithful(o)'
    BY <1>4 DEF IInv, Known, Faithful
  <2> QED BY <2>2, <2>3, <1>4 DEF Known
<1>7. OneCarrier'
  <2>1. CarriedIsRow'
    BY <1>2, <1>3, <1>4 DEF CarriedIsRow
  <2>2. OnceInWrites' /\ OnceInTodo' /\ OneSender'
    BY DEF IInv, OneCarrier, OnceInWrites, OnceInTodo, OneSender
  <2>3. SenderAlone'
    BY <1>2, <1>3 DEF Others, IInv, OneCarrier, SenderAlone
  <2>4. WriterAlone'
    BY <1>2, <1>3 DEF Others, WriterAlone
  <2> QED BY <2>1, <2>2, <2>3, <2>4 DEF OneCarrier
<1>8. FailedOncePerStart'
  <2> SUFFICES ASSUME NEW w \in accepted
               PROVE  /\ \A o \in rows' : o.id = w.id => o.attempts <= starts - w.start + 1
                      /\ \A o \in Carried' \ {NoOp} :
                           o.id = w.id /\ ~(o = op' /\ stage' = "bury")
                             => o.attempts <= starts - w.start
    BY DEF FailedOncePerStart
  <2>1. /\ \A o \in rows : o.id = w.id => o.attempts <= starts - w.start + 1
        /\ \A o \in Carried \ {NoOp} : o.id = w.id => o.attempts <= starts - w.start
    BY DEF IInv, FailedOncePerStart
  <2>2. b.id = w.id => b.attempts <= starts - w.start + 1
    <3>1. starts \in Nat /\ w.start \in Nat /\ op.attempts \in Nat
      BY <1>1, OpFields DEF IInv, TypeOK, TableTypes
    <3>2. op.id = w.id => op.attempts <= starts - w.start
      BY <1>1, <2>1
    <3>3. b.id = op.id /\ b.attempts = op.attempts + 1
      BY <1>2
    <3> QED BY ONLY <3>1, <3>2, <3>3
  <2> QED BY <1>4, <2>1, <2>2
<1>9. BuriedAfterRestarts'
  BY DEF IInv, BuriedAfterRestarts
<1> QED BY <1>5, <1>6, <1>7, <1>8, <1>9

\* A failure is counted.
LEMMA BumpInv ==
  ASSUME IInv, BumpAttempts
  PROVE  IInv'
<1> USE DEF queueVars, senderVars, gitVars
<1>1. /\ UNCHANGED <<queueVars, dead, senderVars, gitVars>>
      /\ stage = "bump"
  BY DEF BumpAttempts
<1>2. op # NoOp /\ op \in Op /\ op.id > 0 /\ op \in rows /\ RowOf(op.id) = {op}
  BY <1>1, HasOp, WritersRow DEF IInv, Progress
<1> DEFINE b == Bumped(op)
<1>3. b \in Op /\ b.id = op.id /\ b.path = op.path /\ b.body = op.body
      /\ b.attempts = op.attempts + 1
  BY <1>2, BumpedFields
<1>4. \/ rows' = rows /\ Drop
      \/ rows' = (rows \ {op}) \union {b} /\ Drop
      \/ /\ rows' = (rows \ {op}) \union {b}
         /\ op' = b /\ stage' = "bury" /\ b.attempts >= MaxAttempts
  BY <1>2, <1>3 DEF BumpAttempts, Exhausted
<1> HIDE DEF b
<1>5. rows' \subseteq Op /\ dead' \subseteq Op
  BY <1>1, <1>3, <1>4 DEF IInv, TypeOK, TableTypes
<1>6. op' = NoOp \/ (op' = b /\ stage' = "bury")
  BY <1>4 DEF Drop
<1>7. RowIds' /\ Known' /\ OneCarrier' /\ FailedOncePerStart' /\ BuriedAfterRestarts'
  <2>1. CASE rows' = rows /\ Drop
    <3>1. op' = NoOp
      BY <2>1 DEF Drop
    <3> QED BY <1>1, <2>1, <3>1, WriterKeeps
  <2>2. CASE rows' = (rows \ {op}) \union {b}
    <3>1. b = Bumped(op)
      BY DEF b
    <3> QED BY <1>1, <1>2, <1>6, <2>2, <3>1, CountedRow
  <2> QED BY <1>4, <2>1, <2>2
<1>8. TypeOK' /\ FlushAlone' /\ Progress'
  <2>1. CASE Drop
    BY <1>1, <1>5, <2>1, DropTypes
  <2>2. CASE op' = b /\ stage' = "bury" /\ b.attempts >= MaxAttempts
    <3>1. TableTypes'
      BY <1>1, <1>5 DEF IInv, TypeOK, TableTypes
    <3>2. GitTypes'
      BY <1>1 DEF IInv, TypeOK, GitTypes
    <3>3. CarrierTypes'
      <4>1. stage' \in Stages /\ stage' \notin {"idle", "exited"}
        BY <2>2 DEF Stages
      <4>2. op' \in Op /\ op' # NoOp
        BY <1>3, <2>2, NoOpAssumption
      <4> QED BY <1>1, <4>1, <4>2 DEF IInv, TypeOK, CarrierTypes
    <3>4. FlushAlone'
      BY <1>1 DEF IInv, FlushAlone
    <3>5. Progress'
      BY <1>2, <1>3, <2>2 DEF Progress
    <3> QED BY <3>1, <3>2, <3>3, <3>4, <3>5 DEF TypeOK
  <2> QED BY <1>4, <2>1, <2>2
<1>9. NoWriteLost'
  BY <1>1, <1>3, <1>4 DEF IInv, NoWriteLost
<1> QED BY <1>7, <1>8, <1>9 DEF IInv

-----------------------------------------------------------------------------
(* Producers and the flush.                                                *)

\* A producer comes with a copy that nobody has.
LEMMA NewCopy ==
  ASSUME IInv, NEW p \in Producers, NEW o \in Op, sending[p] = NoOp,
         sending' = [sending EXCEPT ![p] = o],
         UNCHANGED <<writes, todo, op>>,
         o.id > 0 => o \notin Carried
  PROVE  /\ OnceInWrites' /\ OnceInTodo' /\ OneSender' /\ SenderAlone' /\ WriterAlone'
         /\ Carried' \subseteq Carried \union {o}
<1>1. /\ sending'[p] = o
      /\ \A q \in Producers : q # p => sending'[q] = sending[q]
  BY DEF IInv, TypeOK, CarrierTypes
<1>2. OnceInWrites' /\ OnceInTodo' /\ WriterAlone'
  BY DEF IInv, OneCarrier, OnceInWrites, OnceInTodo, WriterAlone
<1>3. OneSender'
  <2> SUFFICES ASSUME NEW q \in Producers, NEW r \in Producers, sending'[q] # NoOp,
                      sending'[q] = sending'[r], sending'[q].id > 0
               PROVE  q = r
    BY DEF OneSender
  <2>1. CASE q # p /\ r # p
    BY <1>1, <2>1 DEF IInv, OneCarrier, OneSender
  <2>2. CASE q = p /\ r # p
    BY <1>1, <2>2 DEF Carried
  <2>3. CASE q # p /\ r = p
    BY <1>1, <2>3 DEF Carried
  <2> QED BY <2>1, <2>2, <2>3
<1>4. SenderAlone'
  BY <1>1 DEF IInv, OneCarrier, SenderAlone, Carried
<1>5. Carried' \subseteq Carried \union {o}
  BY <1>1 DEF Carried
<1> QED BY <1>2, <1>3, <1>4, <1>5

\* A write is inserted, or goes on without a row.
LEMMA EnqueueInv ==
  ASSUME IInv, NEW p \in Producers, NEW x \in Paths, NEW c \in Contents,
         EnqueueWrite(p, x, c)
  PROVE  IInv'
<1> USE DEF queueVars, senderVars, gitVars
<1> DEFINE n == lastId + 1
           o == [id |-> n, path |-> x, body |-> c, attempts |-> 0]
           z == [id |-> 0, path |-> x, body |-> c, attempts |-> 0]
           v == [id |-> n, path |-> x, body |-> c, start |-> starts]
<1>1. /\ UNCHANGED <<starts, dead, writes, closed, todo, boot, op, stage, gitVars>>
      /\ ~boot /\ sending[p] = NoOp /\ issued < MaxWrites /\ issued' = issued + 1
  BY DEF EnqueueWrite
<1>2. \/ /\ lastId' = n /\ rows' = rows \union {o}
         /\ sending' = [sending EXCEPT ![p] = o]
         /\ accepted' = accepted \union {v}
      \/ /\ sending' = [sending EXCEPT ![p] = z]
         /\ UNCHANGED <<lastId, rows, accepted>>
  BY DEF EnqueueWrite, Insert, InsertFails
<1>3. /\ starts \in Nat \ {0} /\ issued \in Nat /\ lastId \in Nat /\ lastId <= issued
      /\ MaxWrites \in Nat /\ rows \subseteq Op /\ dead \subseteq Op
  BY SizeAssumption DEF IInv, TypeOK, TableTypes
<1>4. /\ o \in Op /\ o.id = n /\ o.path = x /\ o.body = c /\ o.attempts = 0
      /\ z \in Op /\ z.id = 0 /\ z.attempts = 0
      /\ v.id = n /\ v.path = x /\ v.body = c /\ v.start = starts
  BY <1>3 DEF Op
<1>5. v \in [id : 1..n, path : Paths, body : Contents, start : 1..starts]
  BY <1>3
<1> HIDE DEF o, z, v
<1>6. o # NoOp /\ z # NoOp
  BY <1>4, NoOpAssumption
<1>7. \A w \in accepted : w.id \in 1..lastId /\ w.start \in 1..starts
  BY DEF IInv, TypeOK, TableTypes
<1>8. \A k \in (rows \union dead \union Carried) \ {NoOp} : k \in Op /\ k.id <= lastId
  <2>1. \A k \in (rows \union dead \union Carried) \ {NoOp} : k.id <= lastId
    BY DEF IInv, Known, Faithful
  <2>2. TypeOK
    BY DEF IInv
  <2> QED BY <2>1, <2>2, <1>3, CarriedTyped
<1>9. /\ OnceInWrites' /\ OnceInTodo' /\ OneSender' /\ SenderAlone' /\ WriterAlone'
      /\ \/ Carried' \subseteq Carried \union {o} /\ rows' = rows \union {o}
            /\ lastId' = n /\ accepted' = accepted \union {v}
         \/ Carried' \subseteq Carried \union {z} /\ UNCHANGED <<lastId, rows, accepted>>
  <2>1. o.id > 0 => o \notin Carried
    BY <1>3, <1>4, <1>6, <1>8
  <2>2. z.id > 0 => z \notin Carried
    BY <1>4
  <2>3. CASE sending' = [sending EXCEPT ![p] = o] /\ rows' = rows \union {o}
             /\ lastId' = n /\ accepted' = accepted \union {v}
    BY <1>1, <1>4, <2>1, <2>3, NewCopy
  <2>4. CASE sending' = [sending EXCEPT ![p] = z] /\ UNCHANGED <<lastId, rows, accepted>>
    BY <1>1, <1>4, <2>2, <2>4, NewCopy
  <2> QED BY <1>2, <2>3, <2>4
<1>10. TypeOK'
  <2>1. TableTypes'
    <3>1. /\ starts' \in 1..MaxStarts /\ issued' \in 0..MaxWrites
          /\ lastId' \in 0..issued' /\ rows' \subseteq Op /\ dead' \subseteq Op
      BY <1>1, <1>2, <1>3, <1>4 DEF IInv, TypeOK, TableTypes
    <3>2. accepted' \subseteq
            [id : 1..lastId', path : Paths, body : Contents, start : 1..starts']
      <4>1. accepted \subseteq
            [id : 1..lastId, path : Paths, body : Contents, start : 1..starts]
        BY DEF IInv, TypeOK, TableTypes
      <4>2. 1..lastId \subseteq 1..n
        BY <1>3
      <4>3. accepted \subseteq
            [id : 1..n, path : Paths, body : Contents, start : 1..starts]
        BY <4>1, <4>2
      <4> HIDE DEF n
      <4> QED BY <4>1, <4>3, <1>1, <1>2, <1>5
    <3> QED BY <3>1, <3>2 DEF TableTypes
  <2>2. CarrierTypes'
    <3>1. sending' \in [Producers -> Op \union {NoOp}]
      BY <1>2, <1>4 DEF IInv, TypeOK, CarrierTypes
    <3> QED BY <1>1, <3>1 DEF IInv, TypeOK, CarrierTypes
  <2>3. GitTypes'
    BY <1>1 DEF IInv, TypeOK, GitTypes
  <2> QED BY <2>1, <2>2, <2>3 DEF TypeOK
<1>11. RowIds'
  BY <1>2, <1>3, <1>4 DEF IInv, RowIds
<1>12. Known'
  <2>1. \A k \in (rows \union dead \union Carried) \ {NoOp} : Faithful(k)'
    <3> SUFFICES ASSUME NEW k \in rows \union dead \union Carried, k # NoOp
                 PROVE  Faithful(k)'
      OBVIOUS
    <3>1. Faithful(k) /\ k.id \in Nat /\ k.id <= lastId
      BY <1>8, OpFields DEF IInv, Known
    <3> QED BY <3>1, <1>2, <1>3, <1>4 DEF Faithful
  <2>2. ASSUME NEW k, k = z PROVE Faithful(k)'
    BY <2>2, <1>2, <1>3, <1>4, <1>7 DEF Faithful
  <2>3. ASSUME NEW k, k = o, lastId' = n, accepted' = accepted \union {v}
        PROVE  Faithful(k)'
    BY <2>3, <1>3, <1>4, <1>7 DEF Faithful
  <2> SUFFICES ASSUME NEW k \in (rows' \union dead' \union Carried') \ {NoOp}
               PROVE  Faithful(k)'
    BY DEF Known
  <2>4. CASE k \in rows \union dead \union Carried
    BY <2>1, <2>4
  <2>5. CASE k = z
    BY <2>2, <2>5
  <2>6. CASE k = o /\ lastId' = n /\ accepted' = accepted \union {v}
    BY <2>3, <2>6
  <2> QED BY <1>1, <1>9, <2>4, <2>5, <2>6
<1>13. CarriedIsRow'
  BY <1>9, <1>4 DEF IInv, OneCarrier, CarriedIsRow
<1>14. OneCarrier'
  BY <1>9, <1>13 DEF OneCarrier
<1>15. FlushAlone'
  BY <1>1 DEF IInv, FlushAlone
<1>16. Progress'
  BY <1>1 DEF IInv, Progress
<1>17. FailedOncePerStart'
  <2> SUFFICES ASSUME NEW w \in accepted'
               PROVE  /\ \A k \in rows' : k.id = w.id => k.attempts <= starts - w.start + 1
                      /\ \A k \in Carried' \ {NoOp} :
                           k.id = w.id /\ ~(k = op /\ stage = "bury")
                             => k.attempts <= starts - w.start
    BY <1>1 DEF FailedOncePerStart
  <2>1. CASE w \in accepted
    <3>1. /\ \A k \in rows : k.id = w.id => k.attempts <= starts - w.start + 1
          /\ \A k \in Carried \ {NoOp} : k.id = w.id /\ ~(k = op /\ stage = "bury")
               => k.attempts <= starts - w.start
      BY <2>1 DEF IInv, FailedOncePerStart
    <3>2. w.id # n /\ w.id # 0
      BY <2>1, <1>3, <1>7
    <3> HIDE DEF n
    <3> QED BY <3>1, <3>2, <1>4, <1>9
  <2>2. CASE w = v /\ rows' = rows \union {o} /\ Carried' \subseteq Carried \union {o}
    <3>1. \A k \in (rows \union Carried) \ {NoOp} : k.id # n
      <4>1. \A k \in Op : k.id <= lastId => k.id # n
        BY <1>3, OpFields
      <4> HIDE DEF n
      <4> QED BY <4>1, <1>8
    <3>2. NoOp \notin rows
      BY <1>3, NoOpAssumption
    <3>3. o.attempts <= starts - v.start + 1 /\ o.attempts <= starts - v.start
      BY <1>3, <1>4
    <3> HIDE DEF n
    <3> QED BY <2>2, <3>1, <3>2, <3>3, <1>4
  <2> QED BY <2>1, <2>2, <1>9
<1>18. NoWriteLost'
  <2>1. \A w \in accepted : w.path \notin Removable =>
          \/ \E k \in rows' \union dead' :
               k.id = w.id /\ k.path = w.path /\ k.body = w.body
          \/ <<w.path, w.body>> \in history'
    BY <1>1, <1>9 DEF IInv, NoWriteLost
  <2>2. accepted' = accepted \/ (accepted' = accepted \union {v} /\ o \in rows')
    BY <1>9
  <2> QED BY <2>1, <2>2, <1>4 DEF NoWriteLost
<1>19. BuriedAfterRestarts'
  <2>1. \A k \in dead : k.id # n
    <3>1. \A k \in dead : k \in Op /\ k # NoOp
      BY <1>3, NoOpAssumption
    <3>2. \A k \in dead : k.id \in Nat /\ k.id <= lastId
      BY <3>1, <1>8, OpFields
    <3> QED BY <3>2, <1>3
  <2> HIDE DEF n
  <2> QED BY <2>1, <1>1, <1>4, <1>9 DEF IInv, BuriedAfterRestarts
<1> QED BY <1>10, <1>11, <1>12, <1>14, <1>15, <1>16, <1>17, <1>18, <1>19 DEF IInv

\* A copy moves from its producer to s.writes.
LEMMA SendInv ==
  ASSUME IInv, NEW p \in Producers, Send(p)
  PROVE  IInv'
<1> USE DEF queueVars, senderVars, gitVars
<1> DEFINE o == sending[p]
           n == Len(writes)
<1>1. /\ UNCHANGED <<starts, issued, lastId, accepted, rows, dead, closed, todo, boot>>
      /\ UNCHANGED <<op, stage, gitVars>>
      /\ o # NoOp /\ writes' = Append(writes, o)
      /\ sending' = [sending EXCEPT ![p] = NoOp]
  BY DEF Send
<1>2. /\ writes \in Seq(Op) /\ todo \in Seq(Op) /\ o \in Op /\ n \in Nat
      /\ sending \in [Producers -> Op \union {NoOp}]
  BY <1>1 DEF IInv, TypeOK, CarrierTypes
<1>3. /\ sending'[p] = NoOp
      /\ \A q \in Producers : q # p => sending'[q] = sending[q]
  BY <1>1, <1>2
<1>4. /\ writes' \in Seq(Op) /\ Len(writes') = n + 1
      /\ \A i \in 1..n : writes'[i] = writes[i]
      /\ writes'[n + 1] = o
      /\ Range(writes') = Range(writes) \union {o}
  <2> HIDE DEF o
  <2> QED BY <1>1, <1>2, RangeAppend
<1>5. \A i \in 1..n : writes[i] \in Range(writes) /\ writes[i] \in Op
  BY <1>2, RangeEntries
<1>6. Carried' \subseteq Carried \union {NoOp}
  BY <1>1, <1>3, <1>4 DEF Carried
<1>7. RowIds' /\ Known' /\ CarriedIsRow' /\ FailedOncePerStart' /\ BuriedAfterRestarts'
  BY <1>1, <1>6, TablesStay
<1>8. OneCarrier'
  <2>1. o.id > 0 => o \in rows /\ o \notin Range(writes) \union Range(todo) \union {op}
    BY <1>1 DEF IInv, OneCarrier, SenderAlone, CarriedIsRow, Carried
  <2>2. \A i \in 1..n : writes[i].id > 0 => writes[i].id # o.id
    <3> SUFFICES ASSUME NEW i \in 1..n, writes[i].id > 0, writes[i].id = o.id PROVE FALSE
      OBVIOUS
    <3>1. writes[i] \in rows
      BY <1>5, NoOpAssumption DEF IInv, OneCarrier, CarriedIsRow, Carried
    <3> QED BY <2>1, <3>1, <1>5 DEF IInv, RowIds
  <2>3. OnceInWrites'
    <3>1. \A i \in 1..(n + 1) : i \in 1..n \/ i = n + 1
      BY <1>2
    <3>2. \A i, j \in 1..n : writes[i].id > 0 /\ writes[i].id = writes[j].id => i = j
      BY DEF IInv, OneCarrier, OnceInWrites
    <3> HIDE DEF o, n
    <3> QED BY <1>4, <2>2, <3>1, <3>2 DEF OnceInWrites
  <2>4. OnceInTodo'
    BY <1>1 DEF IInv, OneCarrier, OnceInTodo
  <2>5. OneSender'
    BY <1>3 DEF IInv, OneCarrier, OneSender
  <2>6. SenderAlone'
    <3> SUFFICES ASSUME NEW q \in Producers, q # p, sending[q] # NoOp, sending[q].id > 0
                 PROVE  sending[q] \notin Range(writes') \union Range(todo) \union {op}
      BY <1>1, <1>3 DEF SenderAlone
    <3>1. sending[q] \notin Range(writes) \union Range(todo) \union {op}
      BY DEF IInv, OneCarrier, SenderAlone
    <3>2. sending[q] # o
      BY DEF IInv, OneCarrier, OneSender
    <3> QED BY <3>1, <3>2, <1>4
  <2>7. WriterAlone'
    BY <1>1, <1>4, <2>1 DEF IInv, OneCarrier, WriterAlone
  <2> QED BY <1>7, <2>3, <2>4, <2>5, <2>6, <2>7 DEF OneCarrier
<1>9. TypeOK'
  <2>1. TableTypes' /\ GitTypes'
    BY <1>1 DEF IInv, TypeOK, TableTypes, GitTypes
  <2>2. sending' \in [Producers -> Op \union {NoOp}]
    BY <1>1, <1>2
  <2>3. CarrierTypes'
    BY <1>1, <1>4, <2>2 DEF IInv, TypeOK, CarrierTypes
  <2> QED BY <2>1, <2>3 DEF TypeOK
<1>10. FlushAlone'
  BY <1>1, <1>3 DEF IInv, FlushAlone
<1>11. Progress'
  BY <1>1 DEF IInv, Progress
<1>12. NoWriteLost'
  BY <1>1, HistoryGrows
<1> QED BY <1>7, <1>8, <1>9, <1>10, <1>11, <1>12 DEF IInv

\* The writer takes a copy off a list.
LEMMA TakeInv ==
  ASSUME IInv, Take
  PROVE  IInv'
<1> USE DEF queueVars, senderVars, gitVars
<1>1. /\ UNCHANGED <<starts, issued, lastId, accepted, rows, dead, sending, closed, boot>>
      /\ UNCHANGED gitVars
      /\ stage = "idle" /\ stage' = "file"
  BY DEF Take
<1>2. op = NoOp /\ writes \in Seq(Op) /\ todo \in Seq(Op)
  BY <1>1 DEF IInv, TypeOK, CarrierTypes
<1>3. Range(<< >>) = {}
  BY DEF Range
<1>4. /\ op' \in Op /\ writes' \in Seq(Op) /\ todo' \in Seq(Op)
      /\ Range(writes) \union Range(todo) = {op'} \union Range(writes') \union Range(todo')
      /\ op'.id > 0 => op' \notin Range(writes') \union Range(todo')
      /\ OnceInWrites' /\ OnceInTodo'
      /\ (writes = << >> => writes' = << >>) /\ (todo = << >> => todo' = << >>)
  <2>1. CASE /\ boot /\ todo # << >>
             /\ op' = Head(todo) /\ todo' = Tail(todo) /\ writes' = writes
    <3>1. writes = << >>
      BY <2>1 DEF IInv, FlushAlone
    <3>2. /\ Len(todo) \in Nat \ {0} /\ Head(todo) = todo[1] /\ Head(todo) \in Op
          /\ Tail(todo) \in Seq(Op) /\ Len(Tail(todo)) = Len(todo) - 1
          /\ \A i \in 1..(Len(todo) - 1) : Tail(todo)[i] = todo[i + 1]
          /\ Range(todo) = {Head(todo)} \union Range(Tail(todo))
      BY <1>2, <2>1, RangeTail
    <3>3. \A i, j \in 1..Len(todo) : todo[i].id = todo[j].id => i = j
      BY DEF IInv, OneCarrier, OnceInTodo
    <3>4. \A i \in 1..(Len(todo) - 1) : i + 1 \in 1..Len(todo) /\ i + 1 # 1 /\ 1 \in 1..Len(todo)
      BY <3>2
    <3>5. OnceInTodo'
      BY <2>1, <3>2, <3>3, <3>4 DEF OnceInTodo
    <3>6. \A i \in 1..(Len(todo) - 1) : Tail(todo)[i] # Head(todo)
      BY <3>2, <3>3, <3>4
    <3>7. Head(todo) \notin Range(Tail(todo))
      <4>1. Tail(todo) \in Seq(Op) /\ Len(Tail(todo)) = Len(todo) - 1
        BY <3>2
      <4>2. \A k \in Range(Tail(todo)) : \E i \in 1..Len(Tail(todo)) : k = Tail(todo)[i]
        BY <4>1, RangeEntries
      <4> QED BY <3>6, <4>1, <4>2
    <3>8. OnceInWrites'
      BY <2>1 DEF IInv, OneCarrier, OnceInWrites
    <3> QED BY <1>2, <1>3, <2>1, <3>1, <3>2, <3>5, <3>7, <3>8
  <2>2. CASE /\ ~boot /\ writes # << >>
             /\ op' = Head(writes) /\ writes' = Tail(writes) /\ todo' = todo
    <3>1. todo = << >>
      BY <2>2 DEF IInv, FlushAlone
    <3>2. /\ Len(writes) \in Nat \ {0} /\ Head(writes) = writes[1] /\ Head(writes) \in Op
          /\ Tail(writes) \in Seq(Op) /\ Len(Tail(writes)) = Len(writes) - 1
          /\ \A i \in 1..(Len(writes) - 1) : Tail(writes)[i] = writes[i + 1]
          /\ Range(writes) = {Head(writes)} \union Range(Tail(writes))
      BY <1>2, <2>2, RangeTail
    <3>3. \A i, j \in 1..Len(writes) : writes[i].id > 0 /\ writes[i].id = writes[j].id => i = j
      BY DEF IInv, OneCarrier, OnceInWrites
    <3>4. \A i \in 1..(Len(writes) - 1) :
            i + 1 \in 1..Len(writes) /\ i + 1 # 1 /\ 1 \in 1..Len(writes)
      BY <3>2
    <3>5. OnceInWrites'
      BY <2>2, <3>2, <3>3, <3>4 DEF OnceInWrites
    <3>6. Head(writes).id > 0 =>
            \A i \in 1..(Len(writes) - 1) : Tail(writes)[i] # Head(writes)
      BY <3>2, <3>3, <3>4
    <3>7. Head(writes).id > 0 => Head(writes) \notin Range(Tail(writes))
      <4>1. Tail(writes) \in Seq(Op) /\ Len(Tail(writes)) = Len(writes) - 1
        BY <3>2
      <4>2. \A k \in Range(Tail(writes)) : \E i \in 1..Len(Tail(writes)) : k = Tail(writes)[i]
        BY <4>1, RangeEntries
      <4> QED BY <3>6, <4>1, <4>2
    <3>8. OnceInTodo'
      BY <2>2 DEF IInv, OneCarrier, OnceInTodo
    <3> QED BY <1>2, <1>3, <2>2, <3>1, <3>2, <3>5, <3>7, <3>8
  <2> QED BY <2>1, <2>2 DEF Take
<1>5. Carried' \subseteq Carried
  BY <1>1, <1>4 DEF Carried
<1>6. RowIds' /\ Known' /\ CarriedIsRow' /\ FailedOncePerStart' /\ BuriedAfterRestarts'
  BY <1>1, <1>5, TablesStay
<1>7. OneCarrier'
  <2>1. OneSender'
    BY <1>1 DEF IInv, OneCarrier, OneSender
  <2>2. SenderAlone'
    BY <1>1, <1>4 DEF IInv, OneCarrier, SenderAlone
  <2>3. WriterAlone'
    BY <1>4 DEF WriterAlone
  <2> QED BY <1>4, <1>6, <2>1, <2>2, <2>3 DEF OneCarrier
<1>8. TypeOK'
  <2>1. TableTypes' /\ GitTypes'
    BY <1>1 DEF IInv, TypeOK, TableTypes, GitTypes
  <2>2. stage' \in Stages /\ stage' \notin {"idle", "exited"} /\ op' # NoOp
    BY <1>1, <1>4, NoOpAssumption DEF Stages
  <2>3. CarrierTypes'
    BY <1>1, <1>4, <2>2 DEF IInv, TypeOK, CarrierTypes
  <2> QED BY <2>1, <2>3 DEF TypeOK
<1>9. FlushAlone'
  BY <1>1, <1>4 DEF IInv, FlushAlone
<1>10. Progress'
  BY <1>1 DEF Progress
<1>11. NoWriteLost'
  BY <1>1, HistoryGrows
<1> QED BY <1>6, <1>7, <1>8, <1>9, <1>10, <1>11 DEF IInv

\* At a restart every copy is lost, and the flush gets the rows.
LEMMA RestartInv ==
  ASSUME IInv, Restart
  PROVE  IInv'
<1> USE DEF queueVars, senderVars, gitVars
<1>1. /\ UNCHANGED <<issued, lastId, rows, dead, files, index, head, history, accepted>>
      /\ starts < MaxStarts /\ starts' = starts + 1
      /\ sending' = [p \in Producers |-> NoOp] /\ writes' = << >> /\ closed' = FALSE
      /\ todo' = Pending /\ boot' = TRUE /\ op' = NoOp /\ stage' = "idle"
      /\ lock' \in {lock, lock \/ ("kill" \in Faults /\ stage \in {"add", "commit"})}
  BY DEF Restart
<1>2. /\ todo' \in Seq(Op) /\ Range(todo') \subseteq rows
      /\ \A i, j \in 1..Len(todo') : todo'[i].id = todo'[j].id => i = j
  BY <1>1, PendingLists DEF IInv
<1>3. Range(<< >>) = {}
  BY DEF Range
<1>4. Carried' \ {NoOp} \subseteq rows
  BY <1>1, <1>2, <1>3 DEF Carried
<1>5. starts \in Nat /\ starts' \in 1..MaxStarts
  BY <1>1, SizeAssumption DEF IInv, TypeOK, TableTypes
<1>6. TypeOK'
  <2>1. TableTypes'
    <3>1. accepted \subseteq
            [id : 1..lastId, path : Paths, body : Contents, start : 1..starts]
      BY DEF IInv, TypeOK, TableTypes
    <3>2. 1..starts \subseteq 1..(starts + 1)
      BY <1>5
    <3>3. accepted \subseteq
            [id : 1..lastId, path : Paths, body : Contents, start : 1..(starts + 1)]
      BY <3>1, <3>2
    <3> QED BY <1>1, <1>5, <3>3 DEF IInv, TypeOK, TableTypes
  <2>2. CarrierTypes'
    <3>1. stage' \in Stages /\ stage' \in {"idle", "exited"}
      BY <1>1 DEF Stages
    <3>2. sending' \in [Producers -> Op \union {NoOp}] /\ writes' \in Seq(Op)
      BY <1>1
    <3> QED BY <1>1, <1>2, <3>1, <3>2 DEF CarrierTypes
  <2>3. GitTypes'
    <3>1. lock' \in BOOLEAN
      BY <1>1 DEF IInv, TypeOK, GitTypes
    <3> QED BY <1>1, <3>1 DEF IInv, TypeOK, GitTypes
  <2> QED BY <2>1, <2>2, <2>3 DEF TypeOK
<1>7. RowIds'
  BY <1>1 DEF IInv, RowIds
<1>8. Known'
  BY <1>1, <1>4 DEF IInv, Known, Faithful
<1>9. FlushAlone' /\ Progress'
  BY <1>1 DEF FlushAlone, Progress
<1>10. OneCarrier'
  <2>1. CarriedIsRow'
    BY <1>1, <1>4 DEF CarriedIsRow
  <2>2. OnceInWrites' /\ OnceInTodo'
    BY <1>1, <1>2 DEF OnceInWrites, OnceInTodo
  <2>3. OneSender' /\ SenderAlone' /\ WriterAlone'
    BY <1>1 DEF OneSender, SenderAlone, WriterAlone
  <2> QED BY <2>1, <2>2, <2>3 DEF OneCarrier
<1>11. FailedOncePerStart'
  <2>1. ASSUME NEW w \in accepted, NEW o \in rows, o.id = w.id
        PROVE  o.attempts <= starts' - w.start + 1 /\ o.attempts <= starts' - w.start
    <3>1. o.attempts <= starts - w.start + 1
      BY <2>1 DEF IInv, FailedOncePerStart
    <3>2. w.start \in Nat /\ o.attempts \in Nat
      BY <1>5, OpFields DEF IInv, TypeOK, TableTypes
    <3> QED BY <1>1, <1>5, <3>1, <3>2
  <2>2. accepted' = accepted /\ rows' = rows
    BY <1>1
  <2>3. \A o \in Carried' : o # NoOp => o \in rows
    BY <1>4
  <2> QED BY <2>1, <2>2, <2>3 DEF FailedOncePerStart
<1>12. NoWriteLost'
  BY <1>1, HistoryGrows
<1>13. BuriedAfterRestarts'
  <2> SUFFICES ASSUME NEW w \in accepted, NEW o \in dead, o.id = w.id
               PROVE  starts + 1 >= w.start + MaxAttempts - 1
    BY <1>1 DEF BuriedAfterRestarts
  <2>1. starts >= w.start + MaxAttempts - 1
    BY DEF IInv, BuriedAfterRestarts
  <2>2. w.start \in Nat /\ MaxAttempts \in Nat
    BY <1>5, SizeAssumption DEF IInv, TypeOK, TableTypes
  <2> QED BY <1>5, <2>1, <2>2
<1> QED BY <1>6, <1>7, <1>8, <1>9, <1>10, <1>11, <1>12, <1>13 DEF IInv

-----------------------------------------------------------------------------
(* Theorems.                                                               *)

\* Every step of the daemon preserves the invariant.
LEMMA NextInv == IInv /\ [Next]_vars => IInv'
<1> SUFFICES ASSUME IInv, [Next]_vars PROVE IInv'
  OBVIOUS
<1>1. CASE \E p \in Producers, x \in Paths, b \in Contents : EnqueueWrite(p, x, b)
  BY <1>1, EnqueueInv
<1>2. CASE \E p \in Producers : Send(p)
  BY <1>2, SendInv
<1>3. CASE \/ \E x \in Paths : RemoveAgentFile(x)
           \/ CloseWrites \/ FlushDone \/ WriterExit \/ UNCHANGED vars
  BY <1>3, QuietInv
<1>4. CASE Take
  BY <1>4, TakeInv
<1>5. CASE WriteFile \/ GitAdd \/ GitCommit
  BY <1>5, CommitInv
<1>6. CASE DeleteRow
  BY <1>6, DeleteRowInv
<1>7. CASE BumpAttempts
  BY <1>7, BumpInv
<1>8. CASE DeadLetter
  BY <1>8, DeadLetterInv
<1>9. CASE Restart
  BY <1>9, RestartInv
<1> QED BY <1>1, <1>2, <1>3, <1>4, <1>5, <1>6, <1>7, <1>8, <1>9 DEF Next, Writer

\* The invariant holds in every reachable state, whatever fails and wherever
\* the daemon goes down.
THEOREM Invariance == Spec => []IInv
  BY InitInv, NextInv, PTL DEF Spec

\* Type correctness of the queue, the writer and the workspace.
THEOREM TypeCorrect == Spec => []TypeOK
<1>1. IInv => TypeOK
  BY DEF IInv
<1> QED BY Invariance, <1>1, PTL

\* No write that SQLite took is lost.
THEOREM AcceptedIsKept == Spec => []NoWriteLost
<1>1. IInv => NoWriteLost
  BY DEF IInv
<1> QED BY Invariance, <1>1, PTL

\* No row is in the hands of two goroutines.
THEOREM CarriedOnce == Spec => []OneCarrier
<1>1. IInv => OneCarrier
  BY DEF IInv
<1> QED BY Invariance, <1>1, PTL

\* A write is given up only after failures in MaxAttempts runs of the daemon.
THEOREM GivenUpLate == Spec => []BuriedAfterRestarts
<1>1. IInv => BuriedAfterRestarts
  BY DEF IInv
<1> QED BY Invariance, <1>1, PTL
=============================================================================
