------------------------ MODULE TestInvocationProofs ------------------------
(* Proofs about TestInvocation, for every number of callers, plans, runs and
   restarts. *)
EXTENDS TestInvocation, TLAPS

-----------------------------------------------------------------------------
(* Lists of runs: their elements, and that none occurs twice. *)

(* The elements of a list are of the type the list is of. *)
LEMMA ElementsOfSeq ==
  ASSUME NEW S, NEW s \in Seq(S)
  PROVE  /\ ToSet(s) \subseteq S
         /\ DOMAIN s = 1..Len(s) /\ Len(s) \in Nat
         /\ \A i \in 1..Len(s) : s[i] \in S
<1>1. DOMAIN s = 1..Len(s) /\ Len(s) \in Nat
  OBVIOUS
<1>2. \A i \in 1..Len(s) : s[i] \in S
  OBVIOUS
<1>3. QED
  BY <1>1, <1>2 DEF ToSet

(* Adding to the end of a list: what changes, and which elements it has. *)
LEMMA AppendFacts ==
  ASSUME NEW S, NEW s \in Seq(S), NEW e \in S
  PROVE  /\ Append(s, e) \in Seq(S)
         /\ DOMAIN s = 1..Len(s)
         /\ DOMAIN Append(s, e) = 1..(Len(s) + 1)
         /\ \A i \in 1..Len(s) : Append(s, e)[i] = s[i]
         /\ Append(s, e)[Len(s) + 1] = e
         /\ ToSet(Append(s, e)) = ToSet(s) \union {e}
<1>1. /\ Append(s, e) \in Seq(S)
      /\ DOMAIN s = 1..Len(s)
      /\ DOMAIN Append(s, e) = 1..(Len(s) + 1)
      /\ \A i \in 1..Len(s) : Append(s, e)[i] = s[i]
      /\ Append(s, e)[Len(s) + 1] = e
      /\ Len(s) \in Nat
  OBVIOUS
<1>2. 1..(Len(s) + 1) = 1..Len(s) \union {Len(s) + 1}
  BY <1>1
<1>3. QED
  BY <1>1, <1>2 DEF ToSet

(* Taking the first element of a list that has one. *)
LEMMA TailFacts ==
  ASSUME NEW S, NEW s \in Seq(S), s # <<>>
  PROVE  /\ Head(s) = s[1] /\ Head(s) \in S
         /\ Tail(s) \in Seq(S)
         /\ DOMAIN s = 1..Len(s) /\ Len(s) \in Nat \ {0}
         /\ DOMAIN Tail(s) = 1..(Len(s) - 1)
         /\ \A i \in 1..(Len(s) - 1) : Tail(s)[i] = s[i + 1] /\ i + 1 \in 1..Len(s)
         /\ ToSet(s) = ToSet(Tail(s)) \union {Head(s)}
<1>1. /\ Head(s) = s[1] /\ Head(s) \in S
      /\ Tail(s) \in Seq(S)
      /\ DOMAIN s = 1..Len(s) /\ Len(s) \in Nat \ {0}
      /\ DOMAIN Tail(s) = 1..(Len(s) - 1)
      /\ \A i \in 1..(Len(s) - 1) : Tail(s)[i] = s[i + 1] /\ i + 1 \in 1..Len(s)
  OBVIOUS
<1>2. ASSUME NEW i \in 2..Len(s)
      PROVE  s[i] = Tail(s)[i - 1] /\ i - 1 \in 1..(Len(s) - 1)
  BY <1>1
<1>3. \A i \in 1..Len(s) : i = 1 \/ i \in 2..Len(s)
  BY <1>1
<1>4. ASSUME NEW e \in ToSet(s), e # Head(s)
      PROVE  e \in ToSet(Tail(s))
  <2>1. PICK i \in 1..Len(s) : e = s[i]
    BY <1>1 DEF ToSet
  <2>2. i \in 2..Len(s)
    BY <1>1, <1>3, <1>4, <2>1
  <2>3. QED
    BY <1>1, <1>2, <2>1, <2>2 DEF ToSet
<1>5. ToSet(Tail(s)) \union {Head(s)} \subseteq ToSet(s)
  BY <1>1 DEF ToSet
<1>6. QED
  BY <1>1, <1>4, <1>5

(* A list without repetition stays so when a new element is added, ... *)
LEMMA AppendNoRepeat ==
  ASSUME NEW S, NEW s \in Seq(S), NEW e \in S, IsInjective(s), e \notin ToSet(s)
  PROVE  IsInjective(Append(s, e))
<1> DEFINE n == Len(s)
           t == Append(s, e)
<1>1. /\ DOMAIN s = 1..n /\ n \in Nat
      /\ DOMAIN t = 1..(n + 1)
      /\ \A i \in 1..n : t[i] = s[i]
      /\ t[n + 1] = e
  BY ElementsOfSeq, AppendFacts
<1>2. \A i \in 1..n : s[i] # e
  BY <1>1 DEF ToSet
<1>3. \A i \in 1..(n + 1) : i \in 1..n \/ i = n + 1
  BY <1>1
<1>4. ASSUME NEW i \in 1..(n + 1), NEW j \in 1..(n + 1), t[i] = t[j]
      PROVE  i = j
  <2>1. CASE i \in 1..n /\ j \in 1..n
    BY <1>1, <1>4, <2>1 DEF IsInjective
  <2>2. QED
    BY <1>1, <1>2, <1>3, <1>4, <2>1
<1>5. IsInjective(t)
  BY <1>1, <1>4 DEF IsInjective
<1>6. QED
  BY <1>5

(* ... or its first is taken, which then is in the list no more. *)
LEMMA TailNoRepeat ==
  ASSUME NEW S, NEW s \in Seq(S), s # <<>>, IsInjective(s)
  PROVE  /\ IsInjective(Tail(s))
         /\ ToSet(Tail(s)) = ToSet(s) \ {Head(s)}
         /\ Head(s) \in ToSet(s)
<1> DEFINE n == Len(s)
<1>1. /\ Head(s) = s[1] /\ DOMAIN s = 1..n /\ n \in Nat \ {0}
      /\ DOMAIN Tail(s) = 1..(n - 1)
      /\ \A i \in 1..(n - 1) : Tail(s)[i] = s[i + 1] /\ i + 1 \in 1..n
      /\ ToSet(s) = ToSet(Tail(s)) \union {Head(s)}
  BY TailFacts
<1>2. 1 \in 1..n /\ \A i \in 1..(n - 1) : i + 1 # 1
  BY <1>1
<1>3. \A i \in 1..(n - 1) : Tail(s)[i] # Head(s)
  BY <1>1, <1>2 DEF IsInjective
<1>4. Head(s) \notin ToSet(Tail(s))
  BY <1>1, <1>3 DEF ToSet
<1>5. ASSUME NEW i \in 1..(n - 1), NEW j \in 1..(n - 1), Tail(s)[i] = Tail(s)[j]
      PROVE  i = j
  <2>1. i + 1 = j + 1
    BY <1>1, <1>5 DEF IsInjective
  <2>2. QED
    BY <2>1
<1>6. QED
  BY <1>1, <1>4, <1>5 DEF IsInjective

-----------------------------------------------------------------------------

USE DEF Runs, NoRun, Micro, NewRun, Put, Rest, SeenAfterChange

-----------------------------------------------------------------------------
(* Every variable has its type: runs stay within the ids Redis has handed
   out, and the status is always one a client can read. *)
LEMMA InitType == Init => TypeOK
  BY BoundsAssumption, PlansAssumption
  DEF Init, TypeOK, SystemStatus, IdleStatus

(* No step leaves the types. *)
LEMMA NextType == TypeOK /\ [Next]_vars => TypeOK'
<1> SUFFICES ASSUME TypeOK, [Next]_vars
             PROVE  TypeOK'
  OBVIOUS
<1> USE DEF processVars, persistent, queueVars, workerVars, planVars
<1> IdleStatus \in SystemStatus
  BY PlansAssumption DEF IdleStatus, SystemStatus
<1>0. CASE UNCHANGED vars
  BY <1>0 DEF TypeOK, vars
<1>1. ASSUME NEW c \in Callers, NEW p \in Plans, CreateRun(c, p)
      PROVE  TypeOK'
  <2>1. lastRun' \in Runs
    BY <1>1, BoundsAssumption DEF CreateRun, TypeOK
  <2>2. \A r \in Runs : r > lastRun' <=> planOf'[r] = NoPlan
    BY <1>1, <2>1, PlansAssumption, BoundsAssumption DEF CreateRun, TypeOK
  <2>3. QED
    BY <1>1, <2>1, <2>2, BoundsAssumption DEF CreateRun, TypeOK
<1>2. ASSUME NEW c \in Callers, Enqueue(c)
      PROVE  TypeOK'
  <2>1. issued[c] \in Runs
    BY <1>2 DEF Enqueue, TypeOK
  <2>2. queue' \in Seq(Runs)
    BY <1>2, <2>1, AppendFacts DEF Enqueue, TypeOK
  <2>3. QED
    BY <1>2, <2>1, <2>2 DEF Enqueue, TypeOK
<1>3. CASE Dequeue
  <2>1. Head(queue) \in Runs /\ Tail(queue) \in Seq(Runs)
    BY <1>3, TailFacts DEF Dequeue, TypeOK
  <2>2. Append(began, Head(queue)) \in Seq(Runs)
    BY <2>1, AppendFacts DEF TypeOK
  <2>3. QED
    BY <1>3, <2>1, <2>2 DEF Dequeue, TypeOK
<1>4. CASE BeginRun
  <2>1. job \in Runs /\ planOf[job] \in Plans \union {NoPlan}
    BY <1>4 DEF TypeOK, BeginRun, At
  <2>2. QED
    BY <1>4, <2>1 DEF BeginRun, TypeOK, UpdateStatus, SystemStatus, At
<1>5. CASE LookupPlan \/ OpenPlan
  BY <1>5 DEF LookupPlan, OpenPlan, TypeOK, At
<1>6. CASE StartScript \/ EndScript
  <2>1. stat' \in SystemStatus
    BY <1>6 DEF StartScript, EndScript, TypeOK, SystemStatus
  <2>2. job \in Runs /\ status' = stat'
    BY <1>6 DEF StartScript, EndScript, TypeOK, UpdateStatus, At
  <2>3. CASE StartScript
    BY <2>1, <2>2, <2>3 DEF StartScript, TypeOK
  <2>4. CASE EndScript
    BY <2>1, <2>2, <2>4 DEF EndScript, TypeOK
  <2>5. QED
    BY <1>6, <2>3, <2>4
<1>7. CASE CleanUp
  BY <1>7 DEF CleanUp, TypeOK, At
<1>8. CASE ClearField
  BY <1>8, PlansAssumption DEF ClearField, TypeOK, At, SystemStatus, IdleStatus
<1>9. CASE EndRun
  BY <1>9 DEF EndRun, TypeOK, At, UpdateStatus
<1>10. CASE WorkerDies \/ Crash
  <2>1. GoDown /\ crashes' \in Nat
    BY <1>10 DEF WorkerDies, Crash, TypeOK
  <2>2. job \in Runs \union {NoRun}
    BY DEF TypeOK
  <2>3. ToSet(queue) \subseteq Runs
    BY ElementsOfSeq DEF TypeOK
  <2>4. InMemory \subseteq Runs
    BY <2>2, <2>3 DEF InMemory, Held, Queued, InHand, TypeOK
  <2>5. file' \in [Plans -> {"saved", "torn", "missing", "writing"}]
    BY <2>1 DEF GoDown, TypeOK
  <2>6. /\ issued' \in [Callers -> Runs \union {NoRun}]
        /\ editing' \in [Plans -> SUBSET {"emptied", "writing", "deleting"}]
        /\ queue' \in Seq(Runs)
    BY <2>1 DEF GoDown, TypeOK
  <2>7. QED
    BY <2>1, <2>4, <2>5, <2>6 DEF GoDown, TypeOK
<1>11. ASSUME NEW p \in Plans
       PROVE  /\ EmptyForWrite(p) \/ OpenForWrite(p) => TypeOK'
              /\ CloseWritten(p) => TypeOK'
              /\ UnindexPlan(p) \/ DeletePlanFile(p) => TypeOK'
  <2>1. CASE EmptyForWrite(p)
    BY <2>1 DEF EmptyForWrite, TypeOK
  <2>2. CASE OpenForWrite(p)
    BY <2>2 DEF OpenForWrite, TypeOK
  <2>3. CASE CloseWritten(p)
    BY <2>3 DEF CloseWritten, TypeOK
  <2>4. CASE UnindexPlan(p)
    BY <2>4 DEF UnindexPlan, TypeOK
  <2>5. CASE DeletePlanFile(p)
    BY <2>5 DEF DeletePlanFile, TypeOK
  <2>6. QED
    BY <2>1, <2>2, <2>3, <2>4, <2>5
<1>12. CASE Restart
  BY <1>12 DEF Restart, TypeOK
<1>13. QED
  BY <1>0, <1>1, <1>2, <1>3, <1>4, <1>5, <1>6, <1>7, <1>8, <1>9, <1>10, <1>11,
     <1>12
  DEF Next, Worker, Editor

(* The queue, the worker, the status and the plans have their types in every
   state, for any callers, plans and bounds (TestInvocationManager.cs). *)
THEOREM TypeCorrect == Spec => []TypeOK
  BY InitType, NextType, PTL DEF Spec

-----------------------------------------------------------------------------
(* Why runs begin in the order of their calls: a run gets its "before" from
   the calls that have returned, it is not itself among them until it is in
   the queue, and the order then holds within the runs that began, within the
   queue, and from the one to the other. *)
OrderInv ==
  /\ \A r \in Runs : before[r] \subseteq returned
  /\ \A c \in Callers : issued[c] \notin returned
  /\ ToSet(queue) \subseteq returned /\ ToSet(began) \subseteq returned
  /\ returned \subseteq 1..lastRun
  /\ \A c \in Callers : issued[c] \in 0..lastRun
  /\ \A c, d \in Callers : issued[c] = issued[d] => c = d \/ issued[c] = NoRun
  /\ \A i, j \in DOMAIN queue : queue[i] \in before[queue[j]] => i < j
  /\ \A i \in DOMAIN began, j \in DOMAIN queue : queue[j] \notin before[began[i]]
  /\ CallOrder

(* No run is queued or has begun at first. *)
LEMMA InitOrder == Init => OrderInv
<1> SUFFICES ASSUME Init PROVE OrderInv
  OBVIOUS
<1>1. DOMAIN queue = {} /\ DOMAIN began = {}
  BY DEF Init
<1>2. ToSet(queue) = {} /\ ToSet(began) = {}
  BY <1>1 DEF ToSet
<1>3. QED
  BY <1>1, <1>2, BoundsAssumption DEF Init, OrderInv, CallOrder

(* A run is put at the end of the list and taken from its front. *)
LEMMA NextOrder == TypeOK /\ OrderInv /\ [Next]_vars => OrderInv'
<1> SUFFICES ASSUME TypeOK, OrderInv, [Next]_vars
             PROVE  OrderInv'
  OBVIOUS
<1> USE DEF processVars, persistent, queueVars, workerVars, planVars
<1>t. queue \in Seq(Runs) /\ began \in Seq(Runs)
  BY DEF TypeOK
<1>q. /\ DOMAIN queue = 1..Len(queue) /\ Len(queue) \in Nat
      /\ DOMAIN began = 1..Len(began) /\ Len(began) \in Nat
      /\ \A i \in 1..Len(queue) : queue[i] \in Runs /\ queue[i] \in returned
      /\ \A i \in 1..Len(began) : began[i] \in Runs /\ began[i] \in returned
  <2>1. /\ DOMAIN queue = 1..Len(queue) /\ Len(queue) \in Nat
        /\ \A i \in 1..Len(queue) : queue[i] \in Runs
    BY <1>t, ElementsOfSeq
  <2>2. /\ DOMAIN began = 1..Len(began) /\ Len(began) \in Nat
        /\ \A i \in 1..Len(began) : began[i] \in Runs
    BY <1>t, ElementsOfSeq
  <2>3. QED
    BY <2>1, <2>2 DEF OrderInv, ToSet
<1>1. ASSUME NEW c \in Callers, NEW p \in Plans, CreateRun(c, p)
      PROVE  OrderInv'
  <2>1. lastRun' = lastRun + 1 /\ lastRun' \in Runs /\ lastRun \in Nat
    BY <1>1, BoundsAssumption DEF CreateRun, TypeOK
  <2>2. lastRun' \notin returned /\ UNCHANGED <<queue, began, returned>>
    BY <1>1, <2>1 DEF CreateRun, OrderInv
  <2>3. \A r \in Runs : before'[r] = IF r = lastRun' THEN returned ELSE before[r]
    BY <1>1 DEF CreateRun, TypeOK
  <2>4. \A d \in Callers : issued'[d] = IF d = c THEN lastRun' ELSE issued[d]
    BY <1>1 DEF CreateRun, TypeOK
  <2>5. \A i \in 1..Len(queue) : before'[queue[i]] = before[queue[i]]
    BY <1>q, <2>2, <2>3
  <2>6. \A i \in 1..Len(began) : before'[began[i]] = before[began[i]]
    BY <1>q, <2>2, <2>3
  <2>7. /\ \A r \in Runs : before'[r] \subseteq returned'
        /\ \A d \in Callers : issued'[d] \notin returned'
        /\ returned' \subseteq 1..lastRun'
        /\ \A d \in Callers : issued'[d] \in 0..lastRun'
        /\ \A d, e \in Callers :
             issued'[d] = issued'[e] => d = e \/ issued'[d] = NoRun
    BY <2>1, <2>2, <2>3, <2>4 DEF OrderInv
  <2>8. QED
    BY <1>q, <2>2, <2>5, <2>6, <2>7 DEF OrderInv, CallOrder
<1>2. ASSUME NEW c \in Callers, Enqueue(c)
      PROVE  OrderInv'
  <2> DEFINE r == issued[c]
             n == Len(queue)
  <2>1. r \in Runs /\ r \notin returned /\ r \in 1..lastRun
    BY <1>2 DEF Enqueue, TypeOK, OrderInv
  <2>2. /\ queue' = Append(queue, r) /\ returned' = returned \union {r}
        /\ UNCHANGED <<before, began, lastRun>>
    BY <1>2 DEF Enqueue
  <2>3. /\ DOMAIN queue' = 1..(n + 1)
        /\ \A i \in 1..n : queue'[i] = queue[i]
        /\ queue'[n + 1] = r
        /\ ToSet(queue') = ToSet(queue) \union {r}
    <3>1. r \in Runs
      BY <2>1
    <3> HIDE DEF r, Runs
    <3>2. /\ DOMAIN Append(queue, r) = 1..(n + 1)
          /\ \A i \in 1..n : Append(queue, r)[i] = queue[i]
          /\ Append(queue, r)[n + 1] = r
          /\ ToSet(Append(queue, r)) = ToSet(queue) \union {r}
      BY <1>t, <3>1, AppendFacts
    <3>3. QED
      BY <2>2, <3>2
  <2>4. \A d \in Callers : issued'[d] = IF d = c THEN NoRun ELSE issued[d]
    BY <1>2 DEF Enqueue, TypeOK
  <2>5. \A s \in Runs : r \notin before[s]
    BY <2>1 DEF OrderInv
  <2>6. \A i \in 1..(n + 1) : i \in 1..n \/ i = n + 1
    BY <1>q
  <2>7. ASSUME NEW i \in 1..(n + 1), NEW j \in 1..(n + 1),
               queue'[i] \in before[queue'[j]]
        PROVE  i < j
    <3>1. queue'[j] \in Runs
      BY <1>q, <2>1, <2>3, <2>6
    <3>2. i \in 1..n
      BY <2>3, <2>5, <2>6, <2>7, <3>1
    <3>3. CASE j = n + 1
      BY <1>q, <3>2, <3>3
    <3>4. CASE j \in 1..n
      <4>1. queue[i] \in before[queue[j]]
        BY <2>3, <2>7, <3>2, <3>4
      <4>2. QED
        BY <1>q, <3>2, <3>4, <4>1 DEF OrderInv
    <3>5. QED
      BY <2>6, <3>3, <3>4
  <2>8. \A i \in 1..Len(began), j \in 1..(n + 1) : queue'[j] \notin before[began[i]]
    BY <1>q, <2>3, <2>5, <2>6 DEF OrderInv
  <2>9. /\ \A d \in Callers : issued'[d] \notin returned'
        /\ \A d \in Callers : issued'[d] \in 0..lastRun
        /\ \A d, e \in Callers :
             issued'[d] = issued'[e] => d = e \/ issued'[d] = NoRun
    <3>1. \A d \in Callers : d # c => issued[d] # r
      BY <2>1 DEF OrderInv
    <3>2. NoRun \notin returned /\ NoRun \in 0..lastRun
      BY <2>1 DEF OrderInv, TypeOK
    <3>3. QED
      BY <2>1, <2>2, <2>4, <3>1, <3>2 DEF OrderInv
  <2>10. ToSet(queue') \subseteq returned' /\ returned' \subseteq 1..lastRun
    BY <2>1, <2>2, <2>3 DEF OrderInv
  <2>11. ToSet(began') \subseteq returned'
    BY <2>2 DEF OrderInv
  <2>12. \A s \in Runs : before'[s] \subseteq returned'
    BY <2>2 DEF OrderInv
  <2>13. CallOrder'
    BY <2>2 DEF OrderInv, CallOrder
  <2>14. QED
    BY <1>q, <2>2, <2>3, <2>7, <2>8, <2>9, <2>10, <2>11, <2>12, <2>13
    DEF OrderInv
<1>3. CASE Dequeue
  <2> DEFINE m == Len(began)
             n == Len(queue)
             h == Head(queue)
  <2>1. queue # <<>> /\ queue' = Tail(queue) /\ began' = Append(began, h)
        /\ UNCHANGED <<issued, returned, before, lastRun>>
    BY <1>3 DEF Dequeue
  <2>2. /\ h = queue[1] /\ h \in Runs /\ n \in Nat \ {0}
        /\ DOMAIN queue' = 1..(n - 1)
        /\ \A i \in 1..(n - 1) : queue'[i] = queue[i + 1] /\ i + 1 \in 1..n
        /\ ToSet(queue) = ToSet(queue') \union {h}
    BY <1>t, <2>1, TailFacts
  <2>3. /\ DOMAIN began' = 1..(m + 1)
        /\ \A i \in 1..m : began'[i] = began[i]
        /\ began'[m + 1] = h
        /\ ToSet(began') = ToSet(began) \union {h}
    BY <1>t, <2>1, <2>2, AppendFacts
  <2>4. \A i \in 1..(m + 1) : i \in 1..m \/ i = m + 1
    BY <1>q
  <2>5. 1 \in 1..n
    BY <2>2
  <2>6. \A i, j \in DOMAIN queue' : queue'[i] \in before'[queue'[j]] => i < j
    BY <1>q, <2>1, <2>2 DEF OrderInv
  <2>7. \A j \in 1..(n - 1) : queue'[j] \notin before[h]
    <3> SUFFICES ASSUME NEW j \in 1..(n - 1), queue[j + 1] \in before[queue[1]]
                 PROVE  FALSE
      BY <2>2
    <3>1. j + 1 \in DOMAIN queue /\ 1 \in DOMAIN queue
      BY <1>q, <2>2, <2>5
    <3>2. j + 1 < 1
      BY <3>1 DEF OrderInv
    <3>3. QED
      BY <3>2
  <2>8. \A i \in DOMAIN began', j \in DOMAIN queue' : queue'[j] \notin before'[began'[i]]
    BY <1>q, <2>1, <2>2, <2>3, <2>4, <2>7 DEF OrderInv
  <2>9. ASSUME NEW i \in 1..(m + 1), NEW j \in 1..(m + 1),
               began'[i] \in before[began'[j]]
        PROVE  i < j
    <3>1. CASE i \in 1..m /\ j \in 1..m
      BY <1>q, <2>3, <2>9, <3>1 DEF OrderInv, CallOrder
    <3>2. CASE i = m + 1 /\ j \in 1..m
      BY <1>q, <2>2, <2>3, <2>5, <2>9, <3>2 DEF OrderInv
    <3>3. CASE i = m + 1 /\ j = m + 1
      BY <1>q, <2>2, <2>3, <2>5, <2>9, <3>3 DEF OrderInv
    <3>4. QED
      BY <1>q, <2>4, <3>1, <3>2, <3>3
  <2>10. QED
    BY <2>1, <2>2, <2>3, <2>6, <2>8, <2>9 DEF OrderInv, CallOrder
<1>4. CASE GoDown
  <2>1. queue' = <<>> /\ UNCHANGED <<began, returned, before, lastRun>>
    BY <1>4 DEF GoDown
  <2>2. DOMAIN queue' = {} /\ ToSet(queue') = {}
    BY <2>1 DEF ToSet
  <2>3. \A c \in Callers : issued'[c] = NoRun
    BY <1>4 DEF GoDown
  <2>4. lastRun \in Nat
    BY BoundsAssumption DEF TypeOK
  <2>5. QED
    BY <2>1, <2>2, <2>3, <2>4 DEF OrderInv, CallOrder
<1>5. CASE UNCHANGED <<lastRun, issued, queue, returned, before, began>>
  BY <1>5 DEF OrderInv, CallOrder
<1>6. QED
  <2>1. CASE Worker
    BY <1>3, <1>5, <2>1
    DEF Worker, BeginRun, LookupPlan, OpenPlan, StartScript, EndScript,
        CleanUp, ClearField, EndRun
  <2>2. CASE Editor
    BY <1>5, <2>2
    DEF Editor, EmptyForWrite, OpenForWrite, CloseWritten, UnindexPlan,
        DeletePlanFile
  <2>3. CASE Restart \/ UNCHANGED vars
    BY <1>5, <2>3 DEF Restart, vars
  <2>4. CASE WorkerDies \/ Crash
    BY <1>4, <2>4 DEF WorkerDies, Crash
  <2>5. QED
    BY <1>1, <1>2, <2>1, <2>2, <2>3, <2>4 DEF Next

(* Runs begin in the order their calls were made. *)
THEOREM CallOrderHolds == Spec => []CallOrder
<1>1. OrderInv => CallOrder
  BY DEF OrderInv
<1>2. QED
  BY <1>1, InitOrder, NextOrder, TypeCorrect, PTL DEF Spec

-----------------------------------------------------------------------------
(* Every created run is in exactly one place, and none begins twice: what has
   begun is in hand, finished or lost, so what is still queued has not. *)
PlaceInv ==
  /\ Accounted
  /\ AtMostOnce
  /\ ToSet(began) \subseteq InHand \union finished \union lost

(* There are no runs at first. *)
LEMMA InitPlace == Init => PlaceInv
<1> SUFFICES ASSUME Init PROVE PlaceInv
  OBVIOUS
<1>1. DOMAIN queue = {} /\ DOMAIN began = {}
  BY DEF Init
<1>2. ToSet(queue) = {} /\ ToSet(began) = {}
  BY <1>1 DEF ToSet
<1>3. Held = {} /\ InHand = {} /\ 1..lastRun = {}
  BY DEF Init, Held, InHand
<1>4. QED
  BY <1>1, <1>2, <1>3
  DEF Init, PlaceInv, Accounted, Queued, AtMostOnce, IsInjective

(* A step takes a run from one place to another. *)
LEMMA NextPlace == TypeOK /\ PlaceInv /\ [Next]_vars => PlaceInv'
<1> SUFFICES ASSUME TypeOK, PlaceInv, [Next]_vars
             PROVE  PlaceInv'
  OBVIOUS
<1> USE DEF processVars, persistent, queueVars, workerVars, planVars
<1>t. queue \in Seq(Runs) /\ began \in Seq(Runs)
  BY DEF TypeOK
<1>1. ASSUME NEW c \in Callers, NEW p \in Plans, CreateRun(c, p)
      PROVE  PlaceInv'
  <2>1. lastRun' = lastRun + 1 /\ lastRun \in Nat /\ issued[c] = NoRun
    BY <1>1, BoundsAssumption DEF CreateRun, TypeOK
  <2>2. 1..lastRun' = 1..lastRun \union {lastRun'} /\ lastRun' \notin 1..lastRun
    BY <2>1
  <2>3. UNCHANGED <<queue, began, job, finished, lost>>
    BY <1>1 DEF CreateRun
  <2>4. \A d \in Callers : issued'[d] = IF d = c THEN lastRun' ELSE issued[d]
    BY <1>1 DEF CreateRun, TypeOK
  <2>5. Held' = Held \union {lastRun'}
    BY <2>1, <2>4 DEF Held
  <2>6. /\ \A d \in Callers : issued[d] # NoRun => issued[d] \in 1..lastRun
        /\ lastRun' # NoRun
    BY <2>1 DEF PlaceInv, Accounted, Held
  <2>7. \A d, e \in Callers :
           issued'[d] = issued'[e] => d = e \/ issued'[d] = NoRun
    BY <2>2, <2>4, <2>6 DEF PlaceInv, Accounted
  <2>8. UNCHANGED <<Queued, InHand>>
    BY <2>3 DEF Queued, InHand
  <2>9. QED
    BY <2>2, <2>3, <2>5, <2>7, <2>8 DEF PlaceInv, Accounted, AtMostOnce
<1>2. ASSUME NEW c \in Callers, Enqueue(c)
      PROVE  PlaceInv'
  <2>1. PICK r \in Runs : r = issued[c]
    BY <1>2 DEF Enqueue, TypeOK
  <2>2. /\ queue' = Append(queue, r)
        /\ UNCHANGED <<began, job, finished, lost, lastRun>>
    BY <1>2, <2>1 DEF Enqueue
  <2>3. \A d \in Callers : issued'[d] = IF d = c THEN NoRun ELSE issued[d]
    BY <1>2 DEF Enqueue, TypeOK
  <2>4. r # NoRun /\ r \in Held
    BY <2>1 DEF Held
  <2>5. Held' = Held \ {r}
    BY <2>1, <2>3, <2>4 DEF Held, PlaceInv, Accounted
  <2>6. Queued' = Queued \union {r} /\ IsInjective(queue')
    <3>1. r \notin ToSet(queue) /\ IsInjective(queue)
      BY <2>4 DEF PlaceInv, Accounted, Queued
    <3> HIDE DEF Runs
    <3>2. QED
      BY <1>t, <2>1, <2>2, <3>1, AppendFacts, AppendNoRepeat DEF Queued
  <2>7. UNCHANGED InHand
    BY <2>2 DEF InHand
  <2>8. \A d, e \in Callers :
           issued'[d] = issued'[e] => d = e \/ issued'[d] = NoRun
    BY <2>3 DEF PlaceInv, Accounted
  <2>9. QED
    BY <2>2, <2>4, <2>5, <2>6, <2>7, <2>8 DEF PlaceInv, Accounted, AtMostOnce
<1>3. CASE Dequeue
  <2>1. PICK h \in Runs : h = Head(queue)
    BY <1>3, <1>t, TailFacts DEF Dequeue
  <2>2. /\ queue # <<>> /\ queue' = Tail(queue) /\ began' = Append(began, h)
        /\ job' = h /\ job = NoRun
        /\ UNCHANGED <<issued, finished, lost, lastRun>>
    BY <1>3, <2>1 DEF Dequeue, At, TypeOK
  <2>3. /\ Queued' = Queued \ {h} /\ h \in Queued /\ IsInjective(queue')
    BY <1>t, <2>1, <2>2, TailNoRepeat DEF Queued, PlaceInv, Accounted
  <2>4. InHand = {} /\ InHand' = {h} /\ UNCHANGED Held
    BY <2>1, <2>2 DEF InHand, Held
  <2>5. h \notin ToSet(began)
    BY <2>3, <2>4 DEF PlaceInv, Accounted
  <2>6. IsInjective(began') /\ ToSet(began') = ToSet(began) \union {h}
    <3>1. IsInjective(began)
      BY DEF PlaceInv, AtMostOnce
    <3> HIDE DEF Runs
    <3>2. QED
      BY <1>t, <2>1, <2>2, <2>5, <3>1, AppendFacts, AppendNoRepeat
  <2>7. QED
    BY <2>2, <2>3, <2>4, <2>6 DEF PlaceInv, Accounted, AtMostOnce
<1>4. CASE EndRun
  <2>1. /\ finished' = finished \union {job} /\ job' = NoRun /\ job # NoRun
        /\ UNCHANGED <<issued, queue, began, lost, lastRun>>
    BY <1>4 DEF EndRun, At, TypeOK
  <2>2. InHand = {job} /\ InHand' = {} /\ UNCHANGED <<Held, Queued>>
    BY <2>1 DEF InHand, Held, Queued
  <2>3. QED
    BY <2>1, <2>2 DEF PlaceInv, Accounted, AtMostOnce
<1>5. CASE GoDown
  <2>1. /\ queue' = <<>> /\ job' = NoRun
        /\ lost' = lost \union Held \union Queued \union InHand
        /\ \A c \in Callers : issued'[c] = NoRun
        /\ UNCHANGED <<began, finished, lastRun>>
    BY <1>5 DEF GoDown, InMemory
  <2>2. DOMAIN queue' = {}
    BY <2>1
  <2>3. Held' = {} /\ Queued' = {} /\ InHand' = {} /\ IsInjective(queue')
    BY <2>1, <2>2 DEF Held, Queued, InHand, ToSet, IsInjective
  <2>4. QED
    BY <2>1, <2>3 DEF PlaceInv, Accounted, AtMostOnce
<1>6. CASE UNCHANGED <<lastRun, issued, queue, job, finished, lost, began>>
  BY <1>6 DEF PlaceInv, Accounted, AtMostOnce, Held, Queued, InHand
<1>7. QED
  <2>1. CASE Worker
    BY <1>3, <1>4, <1>6, <2>1
    DEF Worker, BeginRun, LookupPlan, OpenPlan, StartScript, EndScript,
        CleanUp, ClearField
  <2>2. CASE Editor
    BY <1>6, <2>2
    DEF Editor, EmptyForWrite, OpenForWrite, CloseWritten, UnindexPlan,
        DeletePlanFile
  <2>3. CASE Restart \/ UNCHANGED vars
    BY <1>6, <2>3 DEF Restart, vars
  <2>4. CASE WorkerDies \/ Crash
    BY <1>5, <2>4 DEF WorkerDies, Crash
  <2>5. QED
    BY <1>1, <1>2, <2>1, <2>2, <2>3, <2>4 DEF Next

(* Every created run is in exactly one place. *)
THEOREM AccountedHolds == Spec => []Accounted
<1>1. PlaceInv => Accounted
  BY DEF PlaceInv
<1>2. QED
  BY <1>1, InitPlace, NextPlace, TypeCorrect, PTL DEF Spec

(* No run executes twice. *)
THEOREM AtMostOnceHolds == Spec => []AtMostOnce
<1>1. PlaceInv => AtMostOnce
  BY DEF PlaceInv
<1>2. QED
  BY <1>1, InitPlace, NextPlace, TypeCorrect, PTL DEF Spec

-----------------------------------------------------------------------------
(* The status a client reads names the worker's run: the delegate's own copy
   agrees with it until the delegate starts to clear its copy. *)
StatusInv ==
  /\ StatusNamesJob
  /\ pc \in {"lookup", "opening", "loaded", "running", "cleaning"} => stat = status

(* The status is the idle one at first. *)
LEMMA InitStatus == Init => StatusInv
  BY DEF Init, StatusInv, StatusNamesJob

(* The status is published when the delegate begins and when it ends. *)
LEMMA NextStatus ==
  TypeOK /\ PlaceInv /\ StatusInv /\ [Next]_vars => StatusInv'
<1> SUFFICES ASSUME TypeOK, PlaceInv, StatusInv, [Next]_vars
             PROVE  StatusInv'
  OBVIOUS
<1> USE DEF processVars, persistent, queueVars, workerVars, planVars
<1>1. ASSUME NEW c \in Callers, NEW p \in Plans, CreateRun(c, p)
      PROVE  StatusInv'
  <2>1. lastRun \in Nat /\ job \in 0..lastRun
    BY BoundsAssumption DEF TypeOK, PlaceInv, Accounted, InHand
  <2>2. job # NoRun => planOf'[job] = planOf[job]
    BY <1>1, <2>1 DEF CreateRun, TypeOK
  <2>3. QED
    BY <1>1, <2>2 DEF CreateRun, StatusInv, StatusNamesJob
<1>2. CASE Dequeue
  BY <1>2 DEF Dequeue, At, StatusInv, StatusNamesJob
<1>3. CASE BeginRun
  <2>1. /\ status' = stat' /\ pc' = "lookup" /\ UNCHANGED <<job, planOf>>
        /\ stat' = [plan |-> planOf[job], run |-> job,
                    micro |-> "Initializing Test Plan"]
    BY <1>3 DEF BeginRun, UpdateStatus
  <2>2. job \in Runs
    BY <1>3 DEF BeginRun, At, TypeOK
  <2>3. job # NoRun
    BY <2>2
  <2>4. QED
    BY <2>1, <2>3 DEF StatusInv, StatusNamesJob
<1>4. CASE LookupPlan \/ OpenPlan
  BY <1>4 DEF LookupPlan, OpenPlan, At, StatusInv, StatusNamesJob
<1>5. CASE StartScript \/ EndScript
  <2>1. pc \in {"loaded", "running"} /\ pc' \in {"running", "cleaning"}
    BY <1>5 DEF StartScript, EndScript, At
  <2>2. stat = status /\ status \in SystemStatus
    BY <2>1 DEF StatusInv, TypeOK
  <2>3. status'.run = status.run /\ status'.plan = status.plan
        /\ status'.micro # "null" /\ stat' = status'
    BY <1>5, <2>2 DEF StartScript, EndScript, UpdateStatus, SystemStatus
  <2>4. UNCHANGED <<job, planOf>>
    BY <1>5 DEF StartScript, EndScript
  <2>5. QED
    BY <2>1, <2>3, <2>4 DEF StatusInv, StatusNamesJob
<1>6. CASE CleanUp \/ ClearField
  BY <1>6 DEF CleanUp, ClearField, At, StatusInv, StatusNamesJob
<1>7. CASE EndRun
  BY <1>7 DEF EndRun, UpdateStatus, StatusInv, StatusNamesJob
<1>8. CASE GoDown
  BY <1>8 DEF GoDown, StatusInv, StatusNamesJob
<1>9. CASE UNCHANGED <<planOf, workerVars>>
  BY <1>9 DEF StatusInv, StatusNamesJob
<1>10. QED
  <2>1. CASE \E c \in Callers : Enqueue(c)
    BY <1>9, <2>1 DEF Enqueue
  <2>2. CASE Editor
    BY <1>9, <2>2
    DEF Editor, EmptyForWrite, OpenForWrite, CloseWritten, UnindexPlan,
        DeletePlanFile
  <2>3. CASE Restart \/ UNCHANGED vars
    BY <1>9, <2>3 DEF Restart, vars
  <2>4. CASE WorkerDies \/ Crash
    BY <1>8, <2>4 DEF WorkerDies, Crash
  <2>5. QED
    BY <1>1, <1>2, <1>3, <1>4, <1>5, <1>6, <1>7, <2>1, <2>2, <2>3, <2>4
    DEF Next, Worker

(* The published status is never a mixture of two runs. *)
THEOREM StatusNamesJobHolds == Spec => []StatusNamesJob
<1>1. StatusInv => StatusNamesJob
  BY DEF StatusInv
<1>2. QED
  BY <1>1, InitStatus, NextStatus, InitPlace, NextPlace, TypeCorrect, PTL
  DEF Spec

(* Once another status than run r's is published, r is over. *)
LEMMA StatusStep ==
  TypeOK /\ StatusInv /\ [Next]_vars =>
    \A r \in Runs : status.run = r /\ status'.run # r =>
       status' = IdleStatus /\ r \in finished' \union lost'
<1> SUFFICES ASSUME TypeOK, StatusInv, [Next]_vars,
                    NEW r \in Runs, status.run = r, status'.run # r
             PROVE  status' = IdleStatus /\ r \in finished' \union lost'
  OBVIOUS
<1> USE DEF processVars, persistent, queueVars, workerVars, planVars
<1>1. job = r /\ pc \notin {"waiting", "dequeued"}
  BY DEF StatusInv, StatusNamesJob, IdleStatus
<1>2. CASE StartScript \/ EndScript
  <2>1. stat = status /\ status \in SystemStatus
    BY <1>2 DEF StartScript, EndScript, At, StatusInv, TypeOK
  <2>2. status'.run = status.run
    BY <1>2, <2>1 DEF StartScript, EndScript, UpdateStatus, SystemStatus
  <2>3. QED
    BY <2>2
<1>3. CASE EndRun
  BY <1>1, <1>3 DEF EndRun, UpdateStatus
<1>4. CASE GoDown
  BY <1>1, <1>4 DEF GoDown, InMemory, InHand
<1>5. CASE BeginRun \/ Dequeue
  BY <1>1, <1>5 DEF BeginRun, Dequeue, At
<1>6. status' # status
  OBVIOUS
<1>7. QED
  <2>1. CASE Worker
    BY <1>2, <1>3, <1>5, <1>6, <2>1
    DEF Worker, LookupPlan, OpenPlan, CleanUp, ClearField
  <2>2. CASE Editor
    BY <1>6, <2>2
    DEF Editor, EmptyForWrite, OpenForWrite, CloseWritten, UnindexPlan,
        DeletePlanFile
  <2>3. CASE Restart \/ UNCHANGED vars
    BY <1>6, <2>3 DEF Restart, vars
  <2>4. CASE WorkerDies \/ Crash
    BY <1>4, <2>4 DEF WorkerDies, Crash
  <2>5. CASE \E c \in Callers : (\E p \in Plans : CreateRun(c, p)) \/ Enqueue(c)
    BY <1>6, <2>5 DEF CreateRun, Enqueue
  <2>6. QED
    BY <2>1, <2>2, <2>3, <2>4, <2>5 DEF Next

(* A run that was shown as the current one is over when it is shown no more. *)
THEOREM StatusEndsWithRunHolds == Spec => StatusEndsWithRun
<1>1. TypeOK /\ StatusInv /\ [Next]_vars =>
        [\A r \in Runs : status.run = r /\ status'.run # r =>
            status' = IdleStatus /\ r \in finished' \union lost']_vars
  BY StatusStep
<1>2. QED
  BY <1>1, InitStatus, NextStatus, InitPlace, NextPlace, TypeCorrect, PTL
  DEF Spec, StatusEndsWithRun

-----------------------------------------------------------------------------
(* A plan's file is cut short, and so the source the worker has read from it,
   only when a process has gone down: what throws on the worker's thread takes
   the run in hand with it, so such an end is seen in "lost". *)
TornInv ==
  (code = "torn" \/ \E p \in Plans : file[p] = "torn") => crashes > 0 \/ lost # {}

(* A save that is broken off, and what the worker reads of it. *)
LEMMA NextTorn == TypeOK /\ PlaceInv /\ TornInv /\ [Next]_vars => TornInv'
<1> SUFFICES ASSUME TypeOK, PlaceInv, TornInv, [Next]_vars
             PROVE  TornInv'
  OBVIOUS
<1> USE DEF processVars, persistent, queueVars, workerVars, planVars
<1>1. CASE OpenPlan
  <2>1. job \in Runs /\ job \in 1..lastRun
    BY <1>1 DEF OpenPlan, At, TypeOK, PlaceInv, Accounted, InHand
  <2>2. planOf[job] \in Plans
    <3>1. ~(job > lastRun)
      BY <2>1, BoundsAssumption DEF TypeOK
    <3>2. QED
      BY <2>1, <3>1 DEF TypeOK
  <2>3. QED
    BY <1>1, <2>2 DEF OpenPlan, Readable, TornInv
<1>2. CASE EndRun
  BY <1>2 DEF EndRun, TornInv
<1>3. CASE Crash
  BY <1>3 DEF Crash, TornInv, TypeOK
<1>4. CASE WorkerDies
  <2>1. pc # "waiting" /\ lost' = lost \union InMemory
    BY <1>4 DEF WorkerDies, GoDown, Uncaught
  <2>2. job \in InMemory
    BY <2>1 DEF TypeOK, InMemory, InHand
  <2>3. QED
    BY <2>1, <2>2 DEF TornInv
<1>5. ASSUME NEW p \in Plans,
             EmptyForWrite(p) \/ OpenForWrite(p) \/ CloseWritten(p) \/ DeletePlanFile(p)
      PROVE  TornInv'
  <2>1. \A q \in Plans : file'[q] = "torn" => file[q] = "torn"
    BY <1>5 DEF EmptyForWrite, OpenForWrite, CloseWritten, DeletePlanFile, TypeOK
  <2>2. UNCHANGED <<code, crashes, lost>>
    BY <1>5 DEF EmptyForWrite, OpenForWrite, CloseWritten, DeletePlanFile
  <2>3. QED
    BY <2>1, <2>2 DEF TornInv
<1>6. CASE UNCHANGED <<code, file, crashes, lost>>
  BY <1>6 DEF TornInv
<1>7. QED
  BY <1>1, <1>2, <1>3, <1>4, <1>5, <1>6
  DEF Next, Worker, Editor, CreateRun, Enqueue, Dequeue, BeginRun, LookupPlan, StartScript,
      EndScript, CleanUp, ClearField, UnindexPlan, Restart, vars

(* The worker executes no source that a web thread is in the middle of saving. *)
THEOREM WholeSourceHolds == Spec => []WholeSource
<1>1. Init => TornInv
  BY DEF Init, TornInv
<1>2. TornInv => WholeSource
  BY DEF TornInv, WholeSource
<1>3. QED
  BY <1>1, <1>2, NextTorn, InitPlace, NextPlace, TypeCorrect, PTL DEF Spec

-----------------------------------------------------------------------------
(* The queue and its worker implement RunService: creating a run asks for it,
   putting it in the queue answers, taking the head serves a run none of whose
   predecessors still waits, and the end of the process loses what was in
   memory; every other step leaves the promised state alone. *)
LEMMA RefinementInit == Init => Service!Init
<1> SUFFICES ASSUME Init PROVE Service!Init
  OBVIOUS
<1>1. DOMAIN queue = {}
  BY DEF Init
<1>2. Queued = {} /\ Held = {}
  BY <1>1 DEF Init, Queued, Held, ToSet
<1>3. QED
  BY <1>2 DEF Init, Service!Init

(* Every step of the list, the lock and the worker is one of the service's or none. *)
LEMMA RefinementNext ==
  TypeOK /\ OrderInv /\ PlaceInv /\ [Next]_vars => [Service!Next]_(Service!rvars)
<1> SUFFICES ASSUME TypeOK, OrderInv, PlaceInv, [Next]_vars
             PROVE  Service!Next \/ UNCHANGED Service!rvars
  OBVIOUS
<1> USE DEF processVars, persistent, queueVars, workerVars, planVars
<1>t. queue \in Seq(Runs)
  BY DEF TypeOK
<1>1. ASSUME NEW c \in Callers, NEW p \in Plans, CreateRun(c, p)
      PROVE  Service!Next
  <2>1. lastRun' = lastRun + 1 /\ lastRun \in Nat /\ issued[c] = NoRun
        /\ lastRun' \in Runs
    BY <1>1, BoundsAssumption DEF CreateRun, TypeOK
  <2>2. \A d \in Callers : issued'[d] = IF d = c THEN lastRun' ELSE issued[d]
    BY <1>1 DEF CreateRun, TypeOK
  <2>3. Held' = Held \union {lastRun'}
    BY <2>1, <2>2 DEF Held
  <2>4. lastRun' \notin Service!Known
    BY <2>1 DEF Service!Known, PlaceInv, Accounted, InHand
  <2>5. /\ before' = [before EXCEPT ![lastRun'] = returned]
        /\ UNCHANGED <<queue, returned, job, finished, lost>>
    BY <1>1 DEF CreateRun
  <2>6. Service!Ask(lastRun')
    BY <2>3, <2>4, <2>5 DEF Service!Ask, Queued
  <2>7. QED
    BY <2>1, <2>6 DEF Service!Next
<1>2. ASSUME NEW c \in Callers, Enqueue(c)
      PROVE  Service!Next
  <2>1. PICK r \in Runs : r = issued[c] /\ r # NoRun
    BY <1>2 DEF Enqueue, TypeOK
  <2>2. /\ queue' = Append(queue, r) /\ returned' = returned \union {r}
        /\ UNCHANGED <<before, job, finished, lost>>
    BY <1>2, <2>1 DEF Enqueue
  <2>3. \A d \in Callers : issued'[d] = IF d = c THEN NoRun ELSE issued[d]
    BY <1>2 DEF Enqueue, TypeOK
  <2>4. r \in Held /\ Held' = Held \ {r}
    BY <2>1, <2>3 DEF Held, PlaceInv, Accounted
  <2>5. Queued' = Queued \union {r}
    <3> HIDE DEF Runs
    <3>1. QED
      BY <1>t, <2>1, <2>2, AppendFacts DEF Queued
  <2>6. Service!Answer(r)
    BY <2>2, <2>4, <2>5 DEF Service!Answer
  <2>7. QED
    BY <2>6 DEF Service!Next
<1>3. CASE Dequeue
  <2>1. PICK h \in Runs : h = Head(queue)
    BY <1>3, <1>t, TailFacts DEF Dequeue
  <2>2. /\ queue # <<>> /\ queue' = Tail(queue) /\ job' = h /\ job = NoRun
        /\ UNCHANGED <<issued, returned, before, finished, lost>>
    BY <1>3, <2>1 DEF Dequeue, At, TypeOK
  <2>3. Queued' = Queued \ {h} /\ h \in Queued
    BY <1>t, <2>1, <2>2, TailNoRepeat DEF Queued, PlaceInv, Accounted
  <2>4. before[h] \intersect Queued = {}
    <3> SUFFICES ASSUME NEW s \in Queued, s \in before[h]
                 PROVE  FALSE
      OBVIOUS
    <3>1. DOMAIN queue = 1..Len(queue) /\ Len(queue) \in Nat \ {0} /\ h = queue[1]
      BY <1>t, <2>1, <2>2, TailFacts
    <3>2. PICK i \in DOMAIN queue : s = queue[i]
      BY DEF Queued, ToSet
    <3>3. 1 \in DOMAIN queue
      BY <3>1
    <3>4. i < 1
      BY <3>1, <3>2, <3>3 DEF OrderInv
    <3>5. QED
      BY <3>1, <3>4
  <2>5. Service!Serve(h)
    BY <2>2, <2>3, <2>4 DEF Service!Serve, Held
  <2>6. QED
    BY <2>5 DEF Service!Next
<1>4. CASE EndRun
  <2>1. Service!Complete
    BY <1>4 DEF EndRun, At, TypeOK, Service!Complete, Held, Queued
  <2>2. QED
    BY <2>1 DEF Service!Next
<1>5. CASE GoDown
  <2>1. DOMAIN queue' = {}
    BY <1>5 DEF GoDown
  <2>2. Held' = {} /\ Queued' = {}
    BY <1>5, <2>1 DEF GoDown, Held, Queued, ToSet
  <2>3. Service!GoDown
    BY <1>5, <2>2 DEF GoDown, InMemory, InHand, Service!GoDown
  <2>4. QED
    BY <2>3 DEF Service!Next
<1>6. CASE UNCHANGED <<issued, queue, returned, before, job, finished, lost>>
  BY <1>6 DEF Service!rvars, Held, Queued
<1>7. QED
  <2>1. CASE Worker
    BY <1>3, <1>4, <1>6, <2>1
    DEF Worker, BeginRun, LookupPlan, OpenPlan, StartScript, EndScript,
        CleanUp, ClearField
  <2>2. CASE Editor
    BY <1>6, <2>2
    DEF Editor, EmptyForWrite, OpenForWrite, CloseWritten, UnindexPlan,
        DeletePlanFile
  <2>3. CASE Restart \/ UNCHANGED vars
    BY <1>6, <2>3 DEF Restart, vars
  <2>4. CASE WorkerDies \/ Crash
    BY <1>5, <2>4 DEF WorkerDies, Crash
  <2>5. QED
    BY <1>1, <1>2, <2>1, <2>2, <2>3, <2>4 DEF Next

(* The list under its lock, the worker and the end of the process implement
   RunService. *)
THEOREM ImplementsService == Spec => ServiceSpec
  BY RefinementInit, RefinementNext, InitOrder, NextOrder, InitPlace, NextPlace,
     TypeCorrect, PTL
  DEF Spec, ServiceSpec, Service!Spec
=============================================================================
