-------------------------- MODULE LockOrderProofs --------------------------
(***************************************************************************)
(* Scripts that take mutexes in the order of their ranks never wait for    *)
(* each other in a circle, however many threads run them and whatever the  *)
(* channels, rooms and repositories are.                                   *)
(***************************************************************************)
EXTENDS LockOrder, TLAPS

\* What a script holds before its i-th step: what it locked and did not unlock
\* since.
HeldAt(sc, i) ==
  {l \in Locks : \E j \in 1..(i - 1) :
     /\ sc[j] = Lock(l)
     /\ \A k \in (j + 1)..(i - 1) : sc[k] # Unlock(l)}

\* A script respects the ranks: each mutex it takes has a higher rank than
\* those it holds, it unlocks what it holds, and it ends with none.
Disciplined(sc) ==
  /\ \A i \in 1..Len(sc) : \A l \in Locks :
       sc[i] = Lock(l) => \A h \in HeldAt(sc, i) : Rank(h) < Rank(l)
  /\ \A i \in 1..Len(sc) : \A l \in Locks :
       sc[i] = Unlock(l) => l \in HeldAt(sc, i)
  /\ HeldAt(sc, Len(sc) + 1) = {}

\* The inductive invariant: mutexes are with the threads whose scripts hold
\* them.
OwnersMatch ==
  \A t \in Threads :
    /\ pc[t] <= Len(script[t]) + 1
    /\ HeldBy(t) = HeldAt(script[t], pc[t])

IInv == TypeOK /\ OwnersMatch

-----------------------------------------------------------------------------
\* The steps of a script are told apart by what they do and on what.
LEMMA StepsDiffer ==
  ASSUME NEW l \in Locks, NEW m \in Locks
  PROVE  /\ Lock(l) # Unlock(m)
         /\ Lock(l) # Send
         /\ Unlock(l) # Send
         /\ Lock(l) = Lock(m) => l = m
         /\ Unlock(l) = Unlock(m) => l = m
  <1>1. Lock(l).do = "lock" /\ Unlock(m).do = "unlock" /\ Send.do = "send"
        /\ Unlock(l).do = "unlock"
    BY DEF Lock, Unlock, Send
  <1>2. Lock(l).on = l /\ Lock(m).on = m /\ Unlock(l).on = l /\ Unlock(m).on = m
    BY DEF Lock, Unlock
  <1> QED BY <1>1, <1>2

\* What one more step does to what is held.
LEMMA HeldAtStep ==
  ASSUME NEW sc, NEW i \in Nat \ {0}
  PROVE  /\ \A l \in Locks : sc[i] = Lock(l) =>
              HeldAt(sc, i + 1) = HeldAt(sc, i) \union {l}
         /\ \A l \in Locks : sc[i] = Unlock(l) =>
              HeldAt(sc, i + 1) = HeldAt(sc, i) \ {l}
         /\ sc[i] = Send => HeldAt(sc, i + 1) = HeldAt(sc, i)
  <1>1. ASSUME NEW h \in Locks
        PROVE  h \in HeldAt(sc, i + 1) <=>
                 \/ sc[i] = Lock(h)
                 \/ h \in HeldAt(sc, i) /\ sc[i] # Unlock(h)
    <2>1. ASSUME h \in HeldAt(sc, i + 1)
          PROVE  sc[i] = Lock(h) \/ (h \in HeldAt(sc, i) /\ sc[i] # Unlock(h))
      <3>1. PICK j \in 1..i : /\ sc[j] = Lock(h)
                              /\ \A k \in (j + 1)..i : sc[k] # Unlock(h)
        BY <2>1 DEF HeldAt
      <3>2. CASE j = i
        BY <3>1, <3>2
      <3>3. CASE j # i
        <4>1. j \in 1..(i - 1) /\ i \in (j + 1)..i
          BY <3>3
        <4>2. \A k \in (j + 1)..(i - 1) : sc[k] # Unlock(h)
          BY <3>1
        <4> QED BY <3>1, <4>1, <4>2 DEF HeldAt
      <3> QED BY <3>2, <3>3
    <2>2. ASSUME sc[i] = Lock(h) PROVE h \in HeldAt(sc, i + 1)
      <3>1. i \in 1..((i + 1) - 1) /\ \A k \in (i + 1)..((i + 1) - 1) : FALSE
        OBVIOUS
      <3> QED BY <2>2, <3>1 DEF HeldAt
    <2>3. ASSUME h \in HeldAt(sc, i), sc[i] # Unlock(h)
          PROVE  h \in HeldAt(sc, i + 1)
      <3>1. PICK j \in 1..(i - 1) : /\ sc[j] = Lock(h)
                                    /\ \A k \in (j + 1)..(i - 1) : sc[k] # Unlock(h)
        BY <2>3 DEF HeldAt
      <3>2. j \in 1..((i + 1) - 1)
        OBVIOUS
      <3>3. \A k \in (j + 1)..((i + 1) - 1) : k = i \/ k \in (j + 1)..(i - 1)
        OBVIOUS
      <3> QED BY <2>3, <3>1, <3>2, <3>3 DEF HeldAt
    <2> QED BY <2>1, <2>2, <2>3
  <1>2. HeldAt(sc, i) \subseteq Locks /\ HeldAt(sc, i + 1) \subseteq Locks
    BY DEF HeldAt
  <1>3. ASSUME NEW l \in Locks, sc[i] = Lock(l)
        PROVE  HeldAt(sc, i + 1) = HeldAt(sc, i) \union {l}
    <2>1. ASSUME NEW h \in Locks
          PROVE  h \in HeldAt(sc, i + 1) <=> h = l \/ h \in HeldAt(sc, i)
      BY <1>1, <1>3, StepsDiffer
    <2> QED BY <1>2, <2>1
  <1>4. ASSUME NEW l \in Locks, sc[i] = Unlock(l)
        PROVE  HeldAt(sc, i + 1) = HeldAt(sc, i) \ {l}
    <2>1. ASSUME NEW h \in Locks
          PROVE  h \in HeldAt(sc, i + 1) <=> h # l /\ h \in HeldAt(sc, i)
      BY <1>1, <1>4, StepsDiffer
    <2> QED BY <1>2, <2>1
  <1>5. ASSUME sc[i] = Send PROVE HeldAt(sc, i + 1) = HeldAt(sc, i)
    <2>1. ASSUME NEW h \in Locks
          PROVE  h \in HeldAt(sc, i + 1) <=> h \in HeldAt(sc, i)
      BY <1>1, <1>5, StepsDiffer
    <2> QED BY <1>2, <2>1
  <1> QED BY <1>3, <1>4, <1>5

\* Before its first step a script holds nothing.
LEMMA HeldAtStart == \A sc : HeldAt(sc, 1) = {}
  BY DEF HeldAt

-----------------------------------------------------------------------------
\* The mutexes are free at the start.
LEMMA InitIInv == Init => IInv
  <1> SUFFICES ASSUME Init PROVE IInv
    OBVIOUS
  <1>1. TypeOK
    BY CapAssumption DEF Init, TypeOK
  <1>2. ASSUME NEW t \in Threads
        PROVE  /\ pc[t] <= Len(script[t]) + 1
               /\ HeldBy(t) = HeldAt(script[t], pc[t])
    <2>1. script[t] = << >> /\ pc[t] = 1 /\ Len(<< >>) = 0
      BY DEF Init
    <2>2. HeldBy(t) = {}
      BY LocksAssumption DEF Init, HeldBy
    <2> QED BY <2>1, <2>2, HeldAtStart
  <1> QED BY <1>1, <1>2 DEF IInv, OwnersMatch

\* A step of one thread leaves the others' mutexes alone.
LEMMA OneThreadMoves ==
  ASSUME OwnersMatch, NEW t \in Threads,
         \A u \in Threads \ {t} :
           /\ script'[u] = script[u]
           /\ pc'[u] = pc[u]
           /\ \A l \in Locks : owner'[l] = u <=> owner[l] = u,
         pc'[t] <= Len(script'[t]) + 1,
         HeldBy(t)' = HeldAt(script'[t], pc'[t])
  PROVE  OwnersMatch'
  <1>1. ASSUME NEW u \in Threads
        PROVE  /\ pc'[u] <= Len(script'[u]) + 1
               /\ HeldBy(u)' = HeldAt(script'[u], pc'[u])
    <2>1. CASE u = t
      BY <2>1
    <2>2. CASE u # t
      <3>1. HeldBy(u)' = HeldBy(u)
        BY <2>2 DEF HeldBy
      <3> QED BY <2>2, <3>1 DEF OwnersMatch
    <2> QED BY <2>1, <2>2
  <1> QED BY <1>1 DEF OwnersMatch

\* A step Lock.
LEMMA AcquireIInv ==
  ASSUME IInv, NEW t \in Threads, Acquire(t) PROVE IInv'
  <1>1. PICK l \in Locks :
          At(t, Lock(l)) /\ owner[l] = Free /\ owner' = [owner EXCEPT ![l] = t]
    BY DEF Acquire
  <1>2. pc' = [pc EXCEPT ![t] = @ + 1] /\ script' = script /\ queued' = queued
    BY DEF Acquire, Advance
  <1>3. TypeOK'
    BY <1>1, <1>2 DEF IInv, TypeOK
  <1>4. pc[t] \in Nat \ {0} /\ pc[t] <= Len(script[t]) /\ script[t][pc[t]] = Lock(l)
    BY <1>1 DEF IInv, TypeOK, At
  <1>5. pc'[t] = pc[t] + 1
    BY <1>2 DEF IInv, TypeOK
  <1>6. HeldBy(t)' = HeldBy(t) \union {l}
    BY <1>1 DEF HeldBy, IInv, TypeOK
  <1>7. HeldBy(t)' = HeldAt(script'[t], pc'[t])
    BY <1>2, <1>4, <1>5, <1>6, HeldAtStep DEF IInv, OwnersMatch
  <1>8. \A u \in Threads \ {t} :
          /\ script'[u] = script[u]
          /\ pc'[u] = pc[u]
          /\ \A k \in Locks : owner'[k] = u <=> owner[k] = u
    BY <1>1, <1>2, LocksAssumption DEF IInv, TypeOK
  <1>9. pc'[t] <= Len(script'[t]) + 1
    <2>1. Len(script[t]) \in Nat
      BY ScriptsAssumption DEF IInv, TypeOK
    <2> QED BY <1>2, <1>4, <1>5, <2>1
  <1>10. OwnersMatch'
    BY <1>7, <1>8, <1>9, OneThreadMoves DEF IInv
  <1> QED BY <1>3, <1>10 DEF IInv

\* A step Unlock.
LEMMA ReleaseIInv ==
  ASSUME IInv, \A sc \in Scripts : Disciplined(sc),
         NEW t \in Threads, Release(t)
  PROVE  IInv'
  <1>1. PICK l \in Locks :
          At(t, Unlock(l)) /\ owner' = [owner EXCEPT ![l] = Free]
    BY DEF Release
  <1>2. pc' = [pc EXCEPT ![t] = @ + 1] /\ script' = script /\ queued' = queued
    BY DEF Release, Advance
  <1>3. TypeOK'
    BY <1>1, <1>2 DEF IInv, TypeOK
  <1>4. /\ pc[t] \in Nat \ {0} /\ pc[t] \in 1..Len(script[t])
        /\ script[t][pc[t]] = Unlock(l)
    BY <1>1 DEF IInv, TypeOK, At
  <1>5. pc'[t] = pc[t] + 1
    BY <1>2 DEF IInv, TypeOK
  <1>6. owner[l] = t
    <2>1. script[t] \in Scripts
      BY <1>4 DEF IInv, TypeOK
    <2>2. l \in HeldAt(script[t], pc[t])
      BY <1>4, <2>1 DEF Disciplined
    <2> QED BY <2>2 DEF IInv, OwnersMatch, HeldBy
  <1>7. HeldBy(t)' = HeldBy(t) \ {l}
    BY <1>1, LocksAssumption DEF HeldBy, IInv, TypeOK
  <1>8. HeldBy(t)' = HeldAt(script'[t], pc'[t])
    BY <1>2, <1>4, <1>5, <1>7, HeldAtStep DEF IInv, OwnersMatch
  <1>9. \A u \in Threads \ {t} :
          /\ script'[u] = script[u]
          /\ pc'[u] = pc[u]
          /\ \A k \in Locks : owner'[k] = u <=> owner[k] = u
    BY <1>1, <1>2, <1>6, LocksAssumption DEF IInv, TypeOK
  <1>10. pc'[t] <= Len(script'[t]) + 1
    <2>1. Len(script[t]) \in Nat
      BY ScriptsAssumption DEF IInv, TypeOK
    <2> QED BY <1>2, <1>4, <1>5, <2>1
  <1>11. OwnersMatch'
    BY <1>8, <1>9, <1>10, OneThreadMoves DEF IInv
  <1> QED BY <1>3, <1>11 DEF IInv

\* A send on s.writes.
LEMMA EnqueueIInv ==
  ASSUME IInv, NEW t \in Threads, Enqueue(t) PROVE IInv'
  <1>1. /\ At(t, Send) /\ queued < Cap /\ queued' = queued + 1
        /\ pc' = [pc EXCEPT ![t] = @ + 1] /\ script' = script /\ owner' = owner
    BY DEF Enqueue, Advance
  <1>2. TypeOK'
    BY <1>1, CapAssumption DEF IInv, TypeOK
  <1>3. /\ pc[t] \in Nat \ {0} /\ pc[t] \in 1..Len(script[t])
        /\ script[t][pc[t]] = Send
    BY <1>1 DEF IInv, TypeOK, At
  <1>4. pc'[t] = pc[t] + 1
    BY <1>1 DEF IInv, TypeOK
  <1>5. HeldBy(t)' = HeldBy(t)
    BY <1>1 DEF HeldBy
  <1>6. HeldBy(t)' = HeldAt(script'[t], pc'[t])
    BY <1>1, <1>3, <1>4, <1>5, HeldAtStep DEF IInv, OwnersMatch
  <1>7. \A u \in Threads \ {t} :
          /\ script'[u] = script[u]
          /\ pc'[u] = pc[u]
          /\ \A k \in Locks : owner'[k] = u <=> owner[k] = u
    BY <1>1 DEF IInv, TypeOK
  <1>8. pc'[t] <= Len(script'[t]) + 1
    <2>1. Len(script[t]) \in Nat
      BY ScriptsAssumption DEF IInv, TypeOK
    <2> QED BY <1>1, <1>3, <1>4, <2>1
  <1>9. OwnersMatch'
    BY <1>6, <1>7, <1>8, OneThreadMoves DEF IInv
  <1> QED BY <1>2, <1>9 DEF IInv

\* The end of a handler, whether it is done or refuses.
LEMMA LeaveIInv ==
  ASSUME IInv, NEW t \in Threads, Leave(t) PROVE IInv'
  <1>1. /\ HeldBy(t) = {} /\ script' = [script EXCEPT ![t] = << >>]
        /\ pc' = [pc EXCEPT ![t] = 1] /\ owner' = owner /\ queued' = queued
    BY DEF Leave
  <1>2. TypeOK'
    BY <1>1 DEF IInv, TypeOK
  <1>3. script'[t] = << >> /\ pc'[t] = 1
    BY <1>1 DEF IInv, TypeOK
  <1>4. HeldBy(t)' = HeldAt(script'[t], pc'[t])
    <2>1. HeldBy(t)' = {}
      BY <1>1 DEF HeldBy
    <2> QED BY <1>3, <2>1, HeldAtStart
  <1>5. \A u \in Threads \ {t} :
          /\ script'[u] = script[u]
          /\ pc'[u] = pc[u]
          /\ \A k \in Locks : owner'[k] = u <=> owner[k] = u
    BY <1>1 DEF IInv, TypeOK
  <1>6. pc'[t] <= Len(script'[t]) + 1
    BY <1>3
  <1>7. OwnersMatch'
    BY <1>4, <1>5, <1>6, OneThreadMoves DEF IInv
  <1> QED BY <1>2, <1>7 DEF IInv

\* The start of a handler.
LEMMA BeginIInv ==
  ASSUME IInv, NEW t \in Threads, NEW sc \in Scripts, Begin(t, sc) PROVE IInv'
  <1>1. /\ script[t] = << >> /\ script' = [script EXCEPT ![t] = sc]
        /\ pc' = [pc EXCEPT ![t] = 1] /\ owner' = owner /\ queued' = queued
    BY DEF Begin, Busy
  <1>2. TypeOK'
    BY <1>1 DEF IInv, TypeOK
  <1>3. script'[t] = sc /\ pc'[t] = 1
    BY <1>1 DEF IInv, TypeOK
  <1>4. HeldBy(t)' = HeldAt(script'[t], pc'[t])
    <2>1. pc[t] = 1
      BY <1>1 DEF IInv, OwnersMatch, TypeOK
    <2>2. HeldBy(t) = {}
      BY <2>1, HeldAtStart DEF IInv, OwnersMatch
    <2>3. HeldBy(t)' = {}
      BY <1>1, <2>2 DEF HeldBy
    <2> QED BY <1>3, <2>3, HeldAtStart
  <1>5. \A u \in Threads \ {t} :
          /\ script'[u] = script[u]
          /\ pc'[u] = pc[u]
          /\ \A k \in Locks : owner'[k] = u <=> owner[k] = u
    BY <1>1 DEF IInv, TypeOK
  <1>6. pc'[t] <= Len(script'[t]) + 1
    <2>1. Len(sc) \in Nat
      BY ScriptsAssumption
    <2> QED BY <1>3, <2>1
  <1>7. OwnersMatch'
    BY <1>4, <1>5, <1>6, OneThreadMoves DEF IInv
  <1> QED BY <1>2, <1>7 DEF IInv

\* A step of the writer, and a step that changes nothing.
LEMMA QuietIInv ==
  ASSUME IInv, Write \/ UNCHANGED vars PROVE IInv'
  <1>1. /\ script' = script /\ pc' = pc /\ owner' = owner
        /\ queued' \in {queued, queued - 1} /\ queued' # -1
    BY CapAssumption DEF Write, vars, IInv, TypeOK
  <1>2. TypeOK'
    BY <1>1, CapAssumption DEF IInv, TypeOK
  <1>3. OwnersMatch'
    BY <1>1 DEF IInv, OwnersMatch, HeldBy
  <1> QED BY <1>2, <1>3 DEF IInv

-----------------------------------------------------------------------------
\* Where mutexes are with the scripts that hold them, ranks are respected.
LEMMA IInvImpliesInRankOrder ==
  ASSUME IInv, \A sc \in Scripts : Disciplined(sc) PROVE InRankOrder
  <1> SUFFICES ASSUME NEW t \in Threads
               PROVE  /\ \A l \in Locks : At(t, Lock(l)) =>
                           \A h \in HeldBy(t) : Rank(h) < Rank(l)
                      /\ \A l \in Locks : At(t, Unlock(l)) => l \in HeldBy(t)
                      /\ pc[t] > Len(script[t]) => HeldBy(t) = {}
    BY DEF InRankOrder
  <1>1. HeldBy(t) = HeldAt(script[t], pc[t]) /\ pc[t] <= Len(script[t]) + 1
    BY DEF IInv, OwnersMatch
  <1>2. CASE script[t] = << >>
    <2>1. Len(script[t]) = 0 /\ pc[t] = 1
      BY <1>1, <1>2 DEF IInv, TypeOK
    <2> QED BY <1>1, <2>1, HeldAtStart DEF At
  <1>3. CASE script[t] \in Scripts
    <2>1. Disciplined(script[t]) /\ Len(script[t]) \in Nat /\ pc[t] \in Nat
      BY <1>3, ScriptsAssumption DEF IInv, TypeOK
    <2>2. ASSUME NEW l \in Locks, At(t, Lock(l))
          PROVE  \A h \in HeldBy(t) : Rank(h) < Rank(l)
      BY <1>1, <2>1, <2>2 DEF At, Disciplined
    <2>3. ASSUME NEW l \in Locks, At(t, Unlock(l)) PROVE l \in HeldBy(t)
      BY <1>1, <2>1, <2>3 DEF At, Disciplined
    <2>4. ASSUME pc[t] > Len(script[t]) PROVE HeldBy(t) = {}
      <3>1. pc[t] = Len(script[t]) + 1
        BY <1>1, <2>1, <2>4
      <3> QED BY <1>1, <2>1, <3>1 DEF Disciplined
    <2> QED BY <2>2, <2>3, <2>4
  <1> QED BY <1>2, <1>3 DEF IInv, TypeOK

\* A circle of threads would need a rank above the highest: its members wait
\* for mutexes of ranks that grow along it.
LEMMA RanksBreakCircles ==
  ASSUME InRankOrder PROVE NoCircularWait
  <1> SUFFICES ASSUME NEW W \in (SUBSET Threads) \ {{}},
                      \A t \in W : \E u \in W : WaitsFor(t, u)
               PROVE  FALSE
    BY DEF NoCircularWait
  <1> DEFINE Waits(t, l) == At(t, Lock(l))
  <1>1. ASSUME NEW t \in W, NEW l \in Locks, Waits(t, l)
        PROVE  \E u \in W : \E m \in Locks : Waits(u, m) /\ Rank(l) < Rank(m)
    <2>1. PICK u \in W : WaitsFor(t, u)
      OBVIOUS
    <2>2. PICK k \in Locks : At(t, Lock(k)) /\ owner[k] = u
      BY <2>1 DEF WaitsFor
    <2>3. k = l
      BY <1>1, <2>2, StepsDiffer DEF At
    <2>4. l \in HeldBy(u)
      BY <2>2, <2>3 DEF HeldBy
    <2>5. PICK v \in W : WaitsFor(u, v)
      OBVIOUS
    <2>6. PICK m \in Locks : At(u, Lock(m))
      BY <2>5 DEF WaitsFor
    <2>7. Rank(l) < Rank(m)
      BY <2>4, <2>6 DEF InRankOrder
    <2> QED BY <2>6, <2>7
  <1>2. \A l \in Locks : Rank(l) \in 1..3
    BY DEF Rank
  <1>3. PICK t1 \in W, l1 \in Locks : Waits(t1, l1)
    <2>1. PICK t \in W : TRUE
      OBVIOUS
    <2>2. PICK u \in W : WaitsFor(t, u)
      OBVIOUS
    <2> QED BY <2>2 DEF WaitsFor
  <1>4. PICK t2 \in W, l2 \in Locks : Waits(t2, l2) /\ Rank(l1) < Rank(l2)
    BY <1>1, <1>3
  <1>5. PICK t3 \in W, l3 \in Locks : Waits(t3, l3) /\ Rank(l2) < Rank(l3)
    BY <1>1, <1>4
  <1>6. PICK t4 \in W, l4 \in Locks : Waits(t4, l4) /\ Rank(l3) < Rank(l4)
    BY <1>1, <1>5
  <1>7. Rank(l1) \in 1..3 /\ Rank(l2) \in 1..3 /\ Rank(l3) \in 1..3 /\ Rank(l4) \in 1..3
    BY <1>2
  <1> QED BY <1>4, <1>5, <1>6, <1>7

\* Every step keeps the inductive invariant.
LEMMA NextIInv ==
  ASSUME IInv, \A sc \in Scripts : Disciplined(sc), [Next]_vars PROVE IInv'
  <1>1. CASE \E t \in Threads : Run(t) \/ Refuse(t)
    <2>1. PICK t \in Threads : Run(t) \/ Refuse(t)
      BY <1>1
    <2>2. CASE Acquire(t)
      BY <2>2, AcquireIInv
    <2>3. CASE Release(t)
      BY <2>3, ReleaseIInv
    <2>4. CASE Enqueue(t)
      BY <2>4, EnqueueIInv
    <2>5. CASE Return(t) \/ Refuse(t)
      BY <2>5, LeaveIInv DEF Return, Refuse
    <2> QED BY <2>1, <2>2, <2>3, <2>4, <2>5 DEF Run
  <1>2. CASE \E t \in Threads : \E sc \in Scripts : Begin(t, sc)
    BY <1>2, BeginIInv
  <1>3. CASE Write \/ UNCHANGED vars
    BY <1>3, QuietIInv
  <1> QED BY <1>1, <1>2, <1>3 DEF Next

\* Goroutines whose scripts respect the ranks hold and take mutexes in that
\* order at every moment.
THEOREM RanksRespected ==
  ASSUME \A sc \in Scripts : Disciplined(sc)
  PROVE  Spec => []InRankOrder
  <1>1. Init => IInv
    BY InitIInv
  <1>2. IInv /\ [Next]_vars => IInv'
    BY NextIInv
  <1>3. IInv => InRankOrder
    BY IInvImpliesInRankOrder
  <1> QED BY <1>1, <1>2, <1>3, PTL DEF Spec

\* Goroutines whose scripts respect the ranks never wait for each other in a
\* circle: the handlers of the daemon, as long as none of them locks a channel
\* or room with s.mu held.
THEOREM NoDeadlock ==
  ASSUME \A sc \in Scripts : Disciplined(sc)
  PROVE  Spec => []NoCircularWait
  <1>1. Init => IInv
    BY InitIInv
  <1>2. IInv /\ [Next]_vars => IInv'
    BY NextIInv
  <1>3. IInv => NoCircularWait
    BY IInvImpliesInRankOrder, RanksBreakCircles
  <1> QED BY <1>1, <1>2, <1>3, PTL DEF Spec

\* The mutexes, scripts and the write queue keep their types.
THEOREM TypeCorrect ==
  ASSUME \A sc \in Scripts : Disciplined(sc)
  PROVE  Spec => []TypeOK
  <1>1. Init => IInv
    BY InitIInv
  <1>2. IInv /\ [Next]_vars => IInv'
    BY NextIInv
  <1>3. IInv => TypeOK
    BY DEF IInv
  <1> QED BY <1>1, <1>2, <1>3, PTL DEF Spec
=============================================================================
