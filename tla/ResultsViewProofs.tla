-------------------------- MODULE ResultsViewProofs --------------------------
(* Proofs about ResultsView, for any runs, pages and openings of the view. *)
EXTENDS ResultsView, FiniteSetTheorems, TLAPS

Results == {"none", "running", "ok"}

-----------------------------------------------------------------------------
(* The inductive invariant. First the service: the runs that wait are neither done nor
   lost, nor twice in the queue, nor being executed; ... *)
Waits(r) == \E i \in DOMAIN queue : queue[i] = r
ServiceOK ==
  /\ created \in 0..MaxRuns /\ disordered \in BOOLEAN
  /\ queue \in Seq(Ids) /\ executing \in Ids \union {Null}
  /\ result \in [Ids -> Results]
  /\ done \subseteq Created /\ lost \subseteq Created
  /\ \A i \in DOMAIN queue : /\ queue[i] \in Created /\ queue[i] \notin Over
                             /\ queue[i] # executing
  /\ \A i, j \in DOMAIN queue : i # j => queue[i] # queue[j]
  /\ executing # Null => executing \in Created /\ executing \notin Over

\* ... and they, the one executed and those that are over are in the order of the
\* ids, with none between them left out, unless one overtook another.
In(r) == Waits(r) \/ r = executing \/ r \in Over
InOrder ==
  /\ \A i, j \in DOMAIN queue : i < j => queue[i] < queue[j]
  /\ executing # Null => \A i \in DOMAIN queue : executing < queue[i]
  /\ \A r \in Over : /\ executing # Null => r < executing
                    /\ \A i \in DOMAIN queue : r < queue[i]
  /\ \A r, s \in Ids : In(r) /\ s < r => In(s)

\* All that are older than the run executed are over.
OverBefore(status) ==
  status \in Ids /\ ~disordered => \A s \in Ids : s < status => s \in Over

\* Runs of the page that began at of when there were seen runs
PageLength(of, seen) ==
  LET last == FirstId + seen - 1 - of
  IN IF last < FirstId THEN 0
     ELSE IF last - FirstId < resLimit THEN last - FirstId + 1 ELSE resLimit
PageId(of, seen, i) == FirstId + seen - of - i
PageOf(runs, of, seen) ==
  /\ of \in Nat /\ seen \in 0..MaxRuns
  /\ DOMAIN runs = 1..PageLength(of, seen)
  /\ \A i \in DOMAIN runs : /\ runs[i].Id \in Ids /\ runs[i].Id = PageId(of, seen, i)
                            /\ runs[i].result \in Results

ClosureOK(c) ==
  /\ DOMAIN c = {"resStart", "refresh", "selectedRunIndex", "selectedTestKey",
                 "currentRuns", "status", "lastStart", "lastCurrentRunId",
                 "resultToken", "artifactToken", "of", "seen", "misdrawn"}
  /\ c.resStart \in Nat /\ c.refresh \in Nat
  /\ PageOf(c.currentRuns, c.of, c.seen)
  /\ c.status \in Ids \union {Null, Undefined}
  /\ c.status = Undefined => c.currentRuns = <<>>
  /\ c.lastStart \in Nat \union {Undefined}
  /\ c.misdrawn \in BOOLEAN

RowsOK(d) ==
  /\ \A i \in DOMAIN d.rows : d.rows[i].Id \in Ids
  /\ d.status # Null =>
       \A i \in DOMAIN d.rows :
         d.rows[i].icon = "tick" /\ Digits(d.rows[1].Id) <= Digits(d.status) =>
           d.rows[i].Id < d.status

DomOK(d) ==
  /\ DOMAIN d = {"rows", "gen", "status", "seen", "results", "resultsGen", "details",
                 "full", "artifacts", "detailsGen", "overdrawn"}
  /\ d.gen \in 0..opened /\ (d.gen = 0 => d.rows = <<>>)
  /\ d.resultsGen \in 0..opened /\ (d.resultsGen = 0 => d.results = <<>>)
  /\ d.status \in Ids \union {Null}
  /\ d.full \in BOOLEAN /\ d.detailsGen \in 0..opened /\ d.overdrawn \in BOOLEAN
  /\ RowsOK(d)

BrowserOK ==
  /\ opened \in 0..MaxOpens
  /\ DOMAIN closure = 1..MaxOpens
  /\ \A g \in 1..MaxOpens : /\ ClosureOK(closure[g]) /\ OverBefore(closure[g].status)
                            /\ g > opened => closure[g] = Fresh
  /\ DomOK(dom) /\ OverBefore(dom.status)
  /\ \A q \in requests : /\ q.gen \in 1..opened /\ q.start \in Nat
                         /\ PageOf(q.runs, q.start, q.seen)

\* The opening that drew the details shown compares with them, and newer ones, which
\* drew none, will draw whatever they find; ...
Shown(d) == IF d.full THEN <<d.details>> ELSE <<>>
TokensAsShown ==
  ~dom.overdrawn =>
    /\ dom.artifacts = IF dom.full THEN dom.details ELSE Null
    /\ \A g \in 1..MaxOpens :
         /\ g = dom.detailsGen => closure[g].artifactToken = Shown(dom)
         /\ g > dom.detailsGen => closure[g].artifactToken = <<Undefined>>

\* ... the rows are those of the page that the opening drew last which drew them, ...
RowsOfLast ==
  \A g \in 1..MaxOpens :
    dom.gen = g /\ ~closure[g].misdrawn =>
      /\ closure[g].lastStart = closure[g].of
      /\ dom.seen \in 0..MaxRuns
      /\ DOMAIN dom.rows = 1..PageLength(closure[g].of, dom.seen)
      /\ \A i \in DOMAIN dom.rows : dom.rows[i].Id = PageId(closure[g].of, dom.seen, i)

\* ... with the run executed that its last answer told of, ...
CurrentOfLast ==
  \A g \in 1..MaxOpens :
    dom.gen = g =>
      \A i \in DOMAIN dom.rows :
        /\ closure[g].lastCurrentRunId = dom.status /\ closure[g].status = dom.status
        /\ dom.rows[i].icon = "wait" => dom.rows[i].Id = dom.status

\* ... and the results are those of the run that is selected in the opening that
\* drew them, each opening having drawn what its own token tells.
Selected(c) == c.selectedRunIndex \in DOMAIN c.currentRuns
SelectedRun(c) == c.currentRuns[c.selectedRunIndex]
ResultsOfLast ==
  \A g \in 1..MaxOpens :
    /\ Selected(closure[g]) => closure[g].resultToken = ResultToken(SelectedRun(closure[g]))
    /\ dom.resultsGen = g => dom.results = closure[g].resultToken

ServiceInv == ServiceOK /\ (~disordered => InOrder)
IInv == ServiceInv /\ BrowserOK /\ TokensAsShown /\ RowsOfLast /\ CurrentOfLast /\ ResultsOfLast

-----------------------------------------------------------------------------
(* The service *)

(* The ids are numbers from 1 on, so that none is Null or Undefined. *)
LEMMA IdFacts ==
  /\ FirstId \in Nat \ {0} /\ MaxRuns \in Nat /\ resLimit \in Nat \ {0}
  /\ \A r \in Ids : r \in Nat \ {0}
  /\ Null \notin Ids /\ Undefined \notin Ids
  BY BoundsAssumption DEF Ids, Null, Undefined

(* The runs created are among the ids, and stay created when there are more. *)
LEMMA CreatedFacts ==
  ASSUME created \in 0..MaxRuns
  PROVE  /\ Created \subseteq Ids
         /\ \A r \in Created, s \in Ids : s < r => s \in Created
         /\ \A n \in Nat : created <= n => Created \subseteq FirstId..(FirstId + n - 1)
  BY BoundsAssumption DEF Created, Ids

(* A run becomes known when it is created; it is in no order with others yet. *)
LEMMA CreateRunKeeps ==
  ASSUME ServiceInv, CreateRun
  PROVE  ServiceInv'
<1>1. created' \in 0..MaxRuns /\ Created \subseteq Created'
  BY BoundsAssumption DEF ServiceInv, ServiceOK, CreateRun, Created
<1>2. UNCHANGED <<queue, executing, result, done, lost, disordered>>
  BY DEF CreateRun
<1>3. ServiceOK'
  BY <1>1, <1>2 DEF ServiceInv, ServiceOK, Over
<1>4. (~disordered => InOrder)'
  BY <1>2 DEF ServiceInv, InOrder, In, Waits, Over
<1>5. QED
  BY <1>3, <1>4 DEF ServiceInv

(* What Append does to the queue. *)
LEMMA AppendedQueue ==
  ASSUME queue \in Seq(Ids), NEW r \in Ids, queue' = Append(queue, r)
  PROVE  /\ queue' \in Seq(Ids)
         /\ DOMAIN queue = 1..Len(queue) /\ Len(queue) \in Nat
         /\ DOMAIN queue' = 1..(Len(queue) + 1)
         /\ \A i \in DOMAIN queue : i \in DOMAIN queue' /\ queue'[i] = queue[i] /\ i < Len(queue) + 1
         /\ Len(queue) + 1 \in DOMAIN queue' /\ queue'[Len(queue) + 1] = r
         /\ \A i \in DOMAIN queue' : i \in DOMAIN queue \/ i = Len(queue) + 1
  OBVIOUS

(* A run is queued behind all that are older: it does not overtake one unless
   disordered says so. *)
LEMMA EnqueueKeeps ==
  ASSUME ServiceInv, NEW r \in Ids, Enqueue(r)
  PROVE  ServiceInv'
<1> DEFINE n == Len(queue) + 1
           outside == Created \ (Over \union ToSet(queue) \union {executing})
<1>1. /\ r \in outside /\ queue' = Append(queue, r)
      /\ disordered' = (disordered \/ \E s \in outside : s < r)
      /\ UNCHANGED <<created, executing, result, done, lost>>
  BY DEF Enqueue
<1>2. \A s : s \in outside <=> s \in Created /\ s \notin Over /\ ~Waits(s) /\ s # executing
  BY DEF Waits, ToSet
<1>3. /\ queue' \in Seq(Ids)
      /\ \A i \in DOMAIN queue : i \in DOMAIN queue' /\ queue'[i] = queue[i] /\ i < n
      /\ n \in DOMAIN queue' /\ queue'[n] = r
      /\ \A i \in DOMAIN queue' : i \in DOMAIN queue \/ i = n
      /\ DOMAIN queue \subseteq Nat /\ n \in Nat
  BY <1>1, AppendedQueue DEF ServiceInv, ServiceOK
<1>4. r \in Created /\ r \notin Over /\ ~Waits(r) /\ r # executing
  BY <1>1, <1>2
<1>5. Created' = Created /\ Over' = Over
  BY <1>1 DEF Created, Over
<1>6. ServiceOK'
  <2>1. \A i, j \in DOMAIN queue' : i # j => queue'[i] # queue'[j]
    BY <1>3, <1>4 DEF ServiceInv, ServiceOK, Waits
  <2>2. \A i \in DOMAIN queue' : /\ queue'[i] \in Created /\ queue'[i] \notin Over
                                 /\ queue'[i] # executing
    BY <1>3, <1>4 DEF ServiceInv, ServiceOK
  <2>3. disordered' \in BOOLEAN
    BY <1>1 DEF ServiceInv, ServiceOK
  <2>4. QED
    BY <1>1, <1>3, <1>5, <2>1, <2>2, <2>3 DEF ServiceInv, ServiceOK
<1>7. ASSUME ~disordered'
      PROVE  InOrder'
  <2>1. InOrder /\ \A s \in outside : ~(s < r)
    BY <1>1, <1>7 DEF ServiceInv
  <2>2. \A s : Waits(s)' <=> Waits(s) \/ s = r
    BY <1>3 DEF Waits
  <2>3. \A s \in Ids : In(s)' <=> In(s) \/ s = r
    BY <1>1, <1>5, <2>2 DEF In
  <2>4. ASSUME NEW s \in Ids, s < r
        PROVE  In(s)
    <3>1. s \in Created /\ s \notin outside
      BY <1>4, <2>1, <2>4, CreatedFacts DEF ServiceInv, ServiceOK
    <3>2. QED
      BY <1>2, <3>1 DEF In
  <2>5. ~In(r)
    BY <1>4 DEF In
  <2>6. ASSUME NEW s \in Ids, In(s)
        PROVE  s < r
    <3>1. ~(r < s) /\ r # s
      BY <2>1, <2>5, <2>6 DEF InOrder
    <3>2. QED
      BY <3>1, IdFacts
  <2>7. \A i \in DOMAIN queue : queue[i] \in Ids /\ In(queue[i])
    BY CreatedFacts DEF ServiceInv, ServiceOK, In, Waits
  <2>8. \A i, j \in DOMAIN queue' : i < j => queue'[i] < queue'[j]
    <3>1. ASSUME NEW i \in DOMAIN queue', NEW j \in DOMAIN queue', i < j
          PROVE  queue'[i] < queue'[j]
      <4>1. i \in DOMAIN queue
        BY <1>3, <3>1
      <4>2. CASE j \in DOMAIN queue
        BY <1>3, <2>1, <3>1, <4>1, <4>2 DEF InOrder
      <4>3. CASE j = n
        BY <1>3, <2>6, <2>7, <4>1, <4>3
      <4>4. QED
        BY <1>3, <4>2, <4>3
    <3>2. QED
      BY <3>1
  <2>9. executing # Null => \A i \in DOMAIN queue' : executing < queue'[i]
    BY <1>3, <2>1, <2>6 DEF InOrder, In, ServiceInv, ServiceOK
  <2>10. \A s \in Over : /\ executing # Null => s < executing
                         /\ \A i \in DOMAIN queue' : s < queue'[i]
    <3>1. Over \subseteq Ids
      BY CreatedFacts DEF ServiceInv, ServiceOK, Over
    <3>2. QED
      BY <1>3, <2>1, <2>6, <3>1 DEF InOrder, In
  <2>11. \A s, t \in Ids : In(s)' /\ t < s => In(t)'
    BY <2>1, <2>3, <2>4 DEF InOrder
  <2>12. QED
    BY <1>1, <1>5, <2>8, <2>9, <2>10, <2>11 DEF InOrder
<1>8. QED
  BY <1>6, <1>7 DEF ServiceInv

(* What Head and Tail do to the queue. *)
LEMMA HeadOfQueue ==
  ASSUME queue \in Seq(Ids), queue # <<>>, queue' = Tail(queue)
  PROVE  /\ queue' \in Seq(Ids) /\ Head(queue) \in Ids
         /\ DOMAIN queue = 1..Len(queue) /\ Len(queue) \in Nat
         /\ 1 \in DOMAIN queue /\ Head(queue) = queue[1]
         /\ \A i \in DOMAIN queue' :
              i \in Nat /\ i + 1 \in DOMAIN queue /\ queue'[i] = queue[i + 1] /\ 1 < i + 1
         /\ \A i \in DOMAIN queue : i = 1 \/ (i - 1 \in DOMAIN queue' /\ queue'[i - 1] = queue[i])
  OBVIOUS

(* The first of the queue is taken when nothing is executed. *)
LEMMA BeginKeeps ==
  ASSUME ServiceInv, Begin
  PROVE  ServiceInv'
<1> DEFINE r == Head(queue)
<1>1. /\ executing = Null /\ queue # <<>>
      /\ executing' = r /\ queue' = Tail(queue)
      /\ UNCHANGED <<created, result, done, lost, disordered>>
  BY DEF Begin
<1>2. /\ queue' \in Seq(Ids) /\ r \in Ids
      /\ 1 \in DOMAIN queue /\ r = queue[1] /\ DOMAIN queue \subseteq Nat
      /\ \A i \in DOMAIN queue' :
           i \in Nat /\ i + 1 \in DOMAIN queue /\ queue'[i] = queue[i + 1] /\ 1 < i + 1
      /\ \A i \in DOMAIN queue : i = 1 \/ (i - 1 \in DOMAIN queue' /\ queue'[i - 1] = queue[i])
  BY <1>1, HeadOfQueue DEF ServiceInv, ServiceOK
<1> HIDE DEF r
<1>3. /\ r \in Created /\ r \notin Over /\ r # Null
      /\ \A i \in DOMAIN queue' : queue'[i] # r
  BY <1>2, IdFacts DEF ServiceInv, ServiceOK
<1>4. Created' = Created /\ Over' = Over
  BY <1>1 DEF Created, Over
<1>5. ServiceOK'
  <2>1. \A i, j \in DOMAIN queue' : i # j => queue'[i] # queue'[j]
    BY <1>2 DEF ServiceInv, ServiceOK
  <2>2. \A i \in DOMAIN queue' : queue'[i] \in Created /\ queue'[i] \notin Over
    BY <1>2 DEF ServiceInv, ServiceOK
  <2>3. QED
    BY <1>1, <1>2, <1>3, <1>4, <2>1, <2>2 DEF ServiceInv, ServiceOK
<1>6. ASSUME InOrder
      PROVE  InOrder'
  <2>1. \A s \in Ids : Waits(s) <=> Waits(s)' \/ s = r
    BY <1>2 DEF Waits
  <2>2. \A s \in Ids : In(s)' <=> In(s)
    BY <1>1, <1>4, <2>1, IdFacts DEF In
  <2>3. \A i, j \in DOMAIN queue' : i < j => queue'[i] < queue'[j]
    <3>1. ASSUME NEW i \in DOMAIN queue', NEW j \in DOMAIN queue', i < j
          PROVE  queue'[i] < queue'[j]
      <4>1. i + 1 < j + 1 /\ i + 1 \in DOMAIN queue /\ j + 1 \in DOMAIN queue
        BY <1>2, <3>1
      <4>2. queue[i + 1] < queue[j + 1]
        BY <1>6, <4>1 DEF InOrder
      <4>3. QED
        BY <1>2, <4>2
    <3>2. QED
      BY <3>1
  <2>4. \A i \in DOMAIN queue' : r < queue'[i]
    BY <1>2, <1>6 DEF InOrder
  <2>5. \A s \in Over : s < r /\ \A i \in DOMAIN queue' : s < queue'[i]
    BY <1>2, <1>6 DEF InOrder
  <2>6. \A s, t \in Ids : In(s)' /\ t < s => In(t)'
    BY <1>6, <2>2 DEF InOrder
  <2>7. QED
    BY <1>1, <1>4, <2>3, <2>4, <2>5, <2>6 DEF InOrder
<1>7. QED
  BY <1>1, <1>5, <1>6 DEF ServiceInv

(* The result of the run executed goes from none to running to ok ... *)
LEMMA ReportKeeps ==
  ASSUME ServiceInv, Report
  PROVE  ServiceInv'
<1>1. UNCHANGED <<created, queue, executing, done, lost, disordered>>
  BY DEF Report
<1>2. executing \in Ids /\ result \in [Ids -> Results]
  BY DEF Report, ServiceInv, ServiceOK
<1>3. result' \in [Ids -> Results]
  BY <1>2 DEF Report, Results
<1>4. Created' = Created /\ Over' = Over
  BY <1>1 DEF Created, Over
<1>5. ServiceOK'
  BY <1>1, <1>3, <1>4 DEF ServiceInv, ServiceOK
<1>6. (~disordered => InOrder)'
  BY <1>1, <1>4 DEF ServiceInv, InOrder, In, Waits
<1>7. QED
  BY <1>5, <1>6 DEF ServiceInv

(* ... and the run is over when the worker leaves it. *)
LEMMA FinishKeeps ==
  ASSUME ServiceInv, Finish
  PROVE  ServiceInv'
<1> DEFINE r == executing
<1>1. /\ r \in Ids /\ r # Null /\ r \in Created
      /\ executing' = Null /\ done' = done \union {r}
      /\ UNCHANGED <<created, queue, result, lost, disordered>>
  BY DEF Finish, ServiceInv, ServiceOK
<1>2. Created' = Created /\ \A s : s \in Over' <=> s \in Over \/ s = r
  BY <1>1 DEF Created, Over
<1>3. \A i \in DOMAIN queue : queue[i] \in Ids /\ queue[i] # Null /\ queue[i] # r
  BY CreatedFacts, IdFacts DEF ServiceInv, ServiceOK
<1>4. ServiceOK'
  BY <1>1, <1>2, <1>3 DEF ServiceInv, ServiceOK
<1>5. ASSUME InOrder
      PROVE  InOrder'
  <2>1. \A s \in Ids : In(s)' <=> In(s)
    BY <1>1, <1>2, IdFacts DEF In, Waits
  <2>2. \A s : s \in Over' => \A i \in DOMAIN queue : s < queue[i]
    BY <1>1, <1>2, <1>5 DEF InOrder
  <2>3. QED
    BY <1>1, <1>5, <2>1, <2>2 DEF InOrder
<1>6. QED
  BY <1>1, <1>4, <1>5 DEF ServiceInv

(* Every run there is is over once the process has ended. *)
LEMMA CrashKeepsService ==
  ASSUME ServiceInv, Crash
  PROVE  ServiceInv' /\ Over \subseteq Over'
<1>1. /\ lost' = lost \union (Created \ done) /\ queue' = <<>> /\ executing' = Null
      /\ UNCHANGED <<created, result, done, disordered>>
  BY DEF Crash
<1>2. Created' = Created /\ Created \subseteq Ids
  BY <1>1, CreatedFacts DEF Created, ServiceInv, ServiceOK
<1>3. Over \subseteq Created /\ Over' = Created
  BY <1>1 DEF Over, ServiceInv, ServiceOK
<1>4. queue' \in Seq(Ids) /\ DOMAIN queue' = {}
  BY <1>1
<1>5. ServiceOK'
  BY <1>1, <1>2, <1>4 DEF ServiceInv, ServiceOK
<1>6. InOrder'
  <2>1. \A s \in Ids : In(s)' <=> s \in Created
    BY <1>1, <1>3, <1>4, IdFacts DEF In, Waits
  <2>2. \A s \in Created, t \in Ids : t < s => t \in Created
    BY CreatedFacts DEF ServiceInv, ServiceOK
  <2>3. QED
    BY <1>1, <1>4, <2>1, <2>2 DEF InOrder
<1>7. QED
  BY <1>3, <1>5, <1>6 DEF ServiceInv

(* What is drawn stays true when the service changes: a run that is over stays so. *)
LEMMA BrowserKeeps ==
  ASSUME IInv, ServiceInv', Over \subseteq Over', ~disordered' => ~disordered,
         UNCHANGED <<opened, closure, dom>>, requests' \subseteq requests
  PROVE  IInv'
<1>1. \A status : OverBefore(status) => OverBefore(status)'
  BY DEF OverBefore
<1>2. BrowserOK'
  BY <1>1 DEF IInv, BrowserOK, DomOK
<1>3. TokensAsShown' /\ RowsOfLast' /\ CurrentOfLast' /\ ResultsOfLast'
  BY DEF IInv, TokensAsShown, RowsOfLast, CurrentOfLast, ResultsOfLast
<1>4. QED
  BY <1>2, <1>3 DEF IInv

(* A step of the service *)
LEMMA ServiceKeeps ==
  ASSUME IInv, Service
  PROVE  IInv'
<1>1. ServiceInv
  BY DEF IInv
<1>2. UNCHANGED <<opened, closure, dom>> /\ requests' = requests
  BY DEF Service, browser
<1>3. ServiceInv' /\ Over \subseteq Over' /\ (~disordered' => ~disordered)
  <2>1. CASE CreateRun
    BY <1>1, <2>1, CreateRunKeeps DEF CreateRun, Over
  <2>2. CASE Begin
    BY <1>1, <2>2, BeginKeeps DEF Begin, Over
  <2>3. CASE Report
    BY <1>1, <2>3, ReportKeeps DEF Report, Over
  <2>4. CASE Finish
    BY <1>1, <2>4, FinishKeeps DEF Finish, Over
  <2>5. CASE \E r \in Ids : Enqueue(r)
    BY <1>1, <2>5, EnqueueKeeps DEF Enqueue, Over
  <2>6. CASE Restart
    <3>1. UNCHANGED <<created, queue, executing, result, done, lost, disordered>>
      BY <2>6 DEF Restart
    <3>2. QED
      BY <1>1, <3>1 DEF ServiceInv, ServiceOK, InOrder, In, Waits, Created, Over
  <2>7. QED
    BY <2>1, <2>2, <2>3, <2>4, <2>5, <2>6 DEF Service, Worker
<1>4. QED
  BY <1>2, <1>3, BrowserKeeps

(* At the end of the process the calls under way are lost. *)
LEMMA CrashKeeps ==
  ASSUME IInv, Crash
  PROVE  IInv'
<1>1. UNCHANGED <<opened, closure, dom, disordered>> /\ requests' = {}
  BY DEF Crash
<1>2. ServiceInv' /\ Over \subseteq Over'
  BY CrashKeepsService DEF IInv
<1>3. QED
  BY <1>1, <1>2, BrowserKeeps

-----------------------------------------------------------------------------
(* Drawing *)

(* A larger id has no fewer digits. *)
LEMMA DigitsGrow ==
  ASSUME NEW a \in Nat, NEW b \in Nat, a <= b
  PROVE  Digits(a) \in Nat /\ Digits(b) \in Nat /\ Digits(a) <= Digits(b)
<1> DEFINE Below(n) == { p \in Powers : p <= n }
<1>1. PICK n \in Nat : \A p \in Powers : p \in Nat /\ p <= n
  <2>1. \A p \in Powers : p \in Nat /\ p <= 1000000
    BY SMT DEF Powers
  <2>2. QED
    BY <2>1, SMT
<1>2. Powers \in SUBSET Nat
  BY <1>1
<1>3. IsFiniteSet(Powers)
  BY <1>1, <1>2, FS_BoundedSetOfNaturals
<1>4. Below(b) \in SUBSET Powers /\ Below(a) \in SUBSET Below(b)
  BY <1>1
<1>5. IsFiniteSet(Below(b))
  BY <1>3, <1>4, FS_Subset
<1>6. IsFiniteSet(Below(a)) /\ Cardinality(Below(a)) <= Cardinality(Below(b))
  BY <1>4, <1>5, FS_Subset
<1>7. Cardinality(Below(a)) \in Nat /\ Cardinality(Below(b)) \in Nat
  BY <1>5, <1>6, FS_CardinalityType
<1>8. QED
  BY <1>6, <1>7 DEF Digits

(* A run with a tick is older than the one executed, provided that the first id of
   the page is not the longer one. *)
LEMMA TickMeansOlder ==
  ASSUME NEW runs, NEW of, NEW seen, PageOf(runs, of, seen),
         NEW current \in Ids, NEW i \in DOMAIN runs, Icon(runs, i, current) = "tick",
         Digits(runs[1].Id) <= Digits(current)
  PROVE  runs[i].Id < current
<1> DEFINE first == runs[1].Id
<1>1. /\ of \in Nat /\ seen \in Nat /\ i \in Nat /\ 1 <= i /\ 1 \in DOMAIN runs
      /\ \A j \in DOMAIN runs : j \in Nat /\ runs[j].Id \in Ids /\ runs[j].Id = FirstId + seen - of - j
      /\ \A j \in 1..(i - 1) : j \in DOMAIN runs
  BY IdFacts DEF PageOf, PageId, PageLength
<1>2. first \in Nat /\ current \in Nat /\ current # Null /\ runs[i].Id \in Nat /\ runs[i].Id <= first
  BY <1>1, IdFacts
<1>3. Digits(first) \in Nat /\ Digits(current) \in Nat
  BY <1>2, DigitsGrow
<1>4. CASE ~Queueing(runs, current)
  <2>1. ~GreaterEqual(first, current)
    BY <1>2, <1>4 DEF Queueing
  <2>2. CASE Digits(first) = Digits(current)
    BY <1>2, <1>3, <2>1, <2>2 DEF GreaterEqual
  <2>3. CASE Digits(first) < Digits(current)
    <3>1. ~(current <= first)
      BY <1>2, <1>3, <2>3, DigitsGrow
    <3>2. QED
      BY <1>2, <3>1
  <2>4. QED
    BY <1>3, <2>2, <2>3
<1>5. CASE \E j \in 1..(i - 1) : runs[j].Id = current
  <2>1. PICK j \in 1..(i - 1) : runs[j].Id = current
    BY <1>5
  <2>2. j < i /\ j \in Nat /\ runs[j].Id = FirstId + seen - of - j /\ runs[i].Id = FirstId + seen - of - i
    BY <1>1, <2>1
  <2>3. QED
    BY <1>1, <2>1, <2>2, IdFacts
<1>6. QED
  BY <1>4, <1>5 DEF Icon

\* What drawing leaves alone of a closure, ...
SameBasis(c, new) ==
  /\ DOMAIN new = DOMAIN c
  /\ new.resStart = c.resStart /\ new.refresh = c.refresh
  /\ new.currentRuns = c.currentRuns /\ new.status = c.status
  /\ new.of = c.of /\ new.seen = c.seen
  /\ new.selectedRunIndex = c.selectedRunIndex

\* ... what it does about the list: nothing, an exception, or a new one; ...
ListKept(c, d, new, doc) ==
  /\ ~Changed(c)
  /\ new.lastStart = c.lastStart /\ new.misdrawn = c.misdrawn
  /\ new.lastCurrentRunId = c.lastCurrentRunId
  /\ doc.rows = d.rows /\ doc.gen = d.gen /\ doc.status = d.status /\ doc.seen = d.seen
ListThrown(c, d, g, new, doc) ==
  /\ Throws(c)
  /\ new.lastStart = c.lastStart /\ new.misdrawn = TRUE
  /\ doc.rows = <<>> /\ doc.gen = g /\ doc.status = d.status /\ doc.seen = d.seen
ListDrawn(c, g, new, doc) ==
  /\ Changed(c) /\ ~Throws(c)
  /\ new.lastStart = c.resStart /\ new.misdrawn = (c.resStart # c.of)
  /\ new.lastCurrentRunId = c.status
  /\ doc.rows = [i \in DOMAIN c.currentRuns |->
                   [Id |-> c.currentRuns[i].Id, icon |-> Icon(c.currentRuns, i, c.status)]]
  /\ doc.gen = g /\ doc.status = c.status /\ doc.seen = c.seen

\* ... and about the details: nothing, or those of a run.
DetailsKept(c, d, new, doc) ==
  /\ new.artifactToken = c.artifactToken
  /\ doc.details = d.details /\ doc.full = d.full /\ doc.artifacts = d.artifacts
  /\ doc.detailsGen = d.detailsGen /\ doc.overdrawn = d.overdrawn
DetailsDrawn(c, d, g, new, doc, run) ==
  /\ new.artifactToken = ArtifactToken(run)
  /\ doc.details = run.Id /\ doc.full = (run.result = "ok")
  /\ doc.detailsGen = g /\ doc.overdrawn = (d.overdrawn \/ g < d.detailsGen)
  /\ doc.artifacts = IF ArtifactToken(run) = c.artifactToken THEN d.artifacts
                     ELSE IF run.result = "ok" THEN run.Id ELSE Null

\* The results are those there were, or drawn by this opening.
ResultsFrom(d, g, doc) ==
  doc.resultsGen = g \/ (doc.resultsGen = d.resultsGen /\ doc.results = d.results)

\* They are drawn if a run is selected, and another token than before is its own.
ResultsKept(c, d, new, doc) ==
  /\ new.resultToken = c.resultToken
  /\ doc.resultsGen = d.resultsGen /\ doc.results = d.results
ResultsDrawn(c, d, g, new, doc, run) ==
  /\ new.resultToken = ResultToken(run)
  /\ \/ ResultsKept(c, d, new, doc)
     \/ doc.resultsGen = g /\ doc.results = ResultToken(run)

Drawing(c, d, g, new, doc) ==
  /\ SameBasis(c, new) /\ DOMAIN doc = DOMAIN d /\ ResultsFrom(d, g, doc)
  /\ \/ ListKept(c, d, new, doc) \/ ListThrown(c, d, g, new, doc) \/ ListDrawn(c, g, new, doc)
  /\ IF Selected(c) THEN ResultsDrawn(c, d, g, new, doc, SelectedRun(c))
                    ELSE ResultsKept(c, d, new, doc)
  /\ \/ DetailsKept(c, d, new, doc)
     \/ \E i \in DOMAIN c.currentRuns : DetailsDrawn(c, d, g, new, doc, c.currentRuns[i])

(* The list is drawn, and nothing but the list, ... *)
LEMMA ListFacts ==
  ASSUME NEW c, NEW d, NEW g, ClosureOK(c), DomOK(d)
  PROVE  LET w == RefreshRunList(<<c, d>>, g)
         IN /\ SameBasis(c, w[1]) /\ DOMAIN w[2] = DOMAIN d
            /\ ListKept(c, d, w[1], w[2]) \/ ListThrown(c, d, g, w[1], w[2]) \/ ListDrawn(c, g, w[1], w[2])
            /\ DetailsKept(c, d, w[1], w[2])
            /\ ResultsKept(c, d, w[1], w[2])
<1> DEFINE w == RefreshRunList(<<c, d>>, g)
<1>1. CASE ~Changed(c)
  <2>1. w[1] = c /\ w[2] = d
    BY <1>1 DEF RefreshRunList
  <2>2. QED
    BY <1>1, <2>1 DEF SameBasis, ListKept, DetailsKept, ResultsKept
<1>2. CASE Throws(c)
  <2>1. w[1] = [c EXCEPT !.misdrawn = TRUE] /\ w[2] = [d EXCEPT !.rows = <<>>, !.gen = g]
    BY <1>2 DEF RefreshRunList, Throws
  <2> HIDE DEF w
  <2>2. /\ SameBasis(c, w[1]) /\ w[1].lastStart = c.lastStart /\ w[1].misdrawn = TRUE
        /\ w[1].artifactToken = c.artifactToken /\ w[1].resultToken = c.resultToken
    BY <2>1 DEF ClosureOK, SameBasis
  <2>3. /\ DOMAIN w[2] = DOMAIN d /\ w[2].rows = <<>> /\ w[2].gen = g /\ w[2].status = d.status
        /\ w[2].seen = d.seen /\ w[2].details = d.details /\ w[2].full = d.full
        /\ w[2].artifacts = d.artifacts /\ w[2].detailsGen = d.detailsGen
        /\ w[2].overdrawn = d.overdrawn
        /\ w[2].resultsGen = d.resultsGen /\ w[2].results = d.results
    BY <2>1 DEF DomOK
  <2>4. QED
    BY <1>2, <2>2, <2>3 DEF w, ListThrown, DetailsKept, ResultsKept
<1>3. CASE Changed(c) /\ ~Throws(c)
  <2> DEFINE rows == [i \in DOMAIN c.currentRuns |->
                   [Id |-> c.currentRuns[i].Id, icon |-> Icon(c.currentRuns, i, c.status)]]
             mis == c.resStart # c.of
  <2>1. /\ w[1] = [c EXCEPT !.lastStart = c.resStart, !.lastCurrentRunId = c.status,
                            !.misdrawn = mis]
        /\ w[2] = [d EXCEPT !.rows = rows, !.gen = g, !.status = c.status, !.seen = c.seen]
    BY <1>3 DEF RefreshRunList
  <2>2. /\ SameBasis(c, w[1]) /\ w[1].lastStart = c.resStart /\ w[1].misdrawn = mis
        /\ w[1].artifactToken = c.artifactToken /\ w[1].resultToken = c.resultToken
        /\ w[1].lastCurrentRunId = c.status
    <3> HIDE DEF w, mis
    <3>1. QED
      BY <2>1 DEF ClosureOK, SameBasis
  <2>3. /\ DOMAIN w[2] = DOMAIN d /\ w[2].rows = rows /\ w[2].gen = g /\ w[2].status = c.status
        /\ w[2].seen = c.seen /\ w[2].details = d.details /\ w[2].full = d.full
        /\ w[2].artifacts = d.artifacts /\ w[2].detailsGen = d.detailsGen
        /\ w[2].overdrawn = d.overdrawn
        /\ w[2].resultsGen = d.resultsGen /\ w[2].results = d.results
    <3> HIDE DEF w, rows
    <3>1. QED
      BY <2>1 DEF DomOK
  <2>4. QED
    BY <1>3, <2>2, <2>3 DEF ListDrawn, DetailsKept, ResultsKept
<1>4. QED
  BY <1>1, <1>2, <1>3

(* ... the results of a run, ... *)
LEMMA RunFacts ==
  ASSUME NEW c, NEW d, NEW g, NEW run, ClosureOK(c), DomOK(d)
  PROVE  LET w == RefreshRun(<<c, d>>, run, g)
         IN /\ SameBasis(c, w[1]) /\ DOMAIN w[2] = DOMAIN d
            /\ w[1].lastStart = c.lastStart /\ w[1].misdrawn = c.misdrawn
            /\ w[2].rows = d.rows /\ w[2].gen = d.gen /\ w[2].status = d.status
            /\ w[2].seen = d.seen
            /\ w[1].lastCurrentRunId = c.lastCurrentRunId
            /\ DetailsKept(c, d, w[1], w[2])
            /\ ResultsFrom(d, g, w[2]) /\ ResultsDrawn(c, d, g, w[1], w[2], run)
<1> DEFINE w == RefreshRun(<<c, d>>, run, g)
           token == ResultToken(run)
<1>1. /\ w[1] = [c EXCEPT !.resultToken = token]
      /\ \/ token = c.resultToken /\ w[2] = d
         \/ w[2] = [d EXCEPT !.resultsGen = g, !.results = token]
  BY DEF RefreshRun, ResultToken
<1> HIDE DEF w, token
<1>2. /\ SameBasis(c, w[1]) /\ w[1].lastStart = c.lastStart /\ w[1].misdrawn = c.misdrawn
      /\ w[1].artifactToken = c.artifactToken /\ w[1].resultToken = token
      /\ w[1].lastCurrentRunId = c.lastCurrentRunId
  BY <1>1 DEF ClosureOK, SameBasis
<1>3. /\ DOMAIN w[2] = DOMAIN d /\ w[2].rows = d.rows /\ w[2].gen = d.gen /\ w[2].status = d.status
      /\ w[2].seen = d.seen /\ w[2].details = d.details /\ w[2].full = d.full
      /\ w[2].artifacts = d.artifacts /\ w[2].detailsGen = d.detailsGen
      /\ w[2].overdrawn = d.overdrawn
  BY <1>1 DEF DomOK
<1>4. ResultsFrom(d, g, w[2])
  BY <1>1 DEF DomOK, ResultsFrom
<1>5. \/ token = c.resultToken /\ w[2].resultsGen = d.resultsGen /\ w[2].results = d.results
      \/ w[2].resultsGen = g /\ w[2].results = token
  BY <1>1 DEF DomOK
<1>6. ResultsDrawn(c, d, g, w[1], w[2], run)
  BY <1>2, <1>5 DEF token, ResultsDrawn, ResultsKept
<1>7. QED
  BY <1>2, <1>3, <1>4, <1>6 DEF w, DetailsKept

(* ... and the details of one. *)
LEMMA DetailsFacts ==
  ASSUME NEW c, NEW d, NEW g, NEW run, ClosureOK(c), DomOK(d), run.result \in Results
  PROVE  LET w == RefreshDetails(<<c, d>>, run, g)
         IN /\ SameBasis(c, w[1]) /\ DOMAIN w[2] = DOMAIN d
            /\ w[1].lastStart = c.lastStart /\ w[1].misdrawn = c.misdrawn
            /\ w[2].rows = d.rows /\ w[2].gen = d.gen /\ w[2].status = d.status
            /\ w[2].seen = d.seen
            /\ w[1].lastCurrentRunId = c.lastCurrentRunId
            /\ ResultsKept(c, d, w[1], w[2])
            /\ w[1].artifactToken = ArtifactToken(run)
            /\ w[2].details = run.Id /\ w[2].full = (run.result = "ok")
            /\ w[2].detailsGen = g /\ w[2].overdrawn = (d.overdrawn \/ g < d.detailsGen)
            /\ w[2].artifacts = IF ArtifactToken(run) = c.artifactToken THEN d.artifacts
                                ELSE IF run.result = "ok" THEN run.Id ELSE Null
<1> DEFINE w == RefreshDetails(<<c, d>>, run, g)
           token == ArtifactToken(run)
           full == run.result = "ok"
           over == d.overdrawn \/ g < d.detailsGen
           drawn == [d EXCEPT !.details = run.Id, !.full = full, !.detailsGen = g,
                              !.overdrawn = over]
           link == IF full THEN run.Id ELSE Null
<1>1. /\ w[1] = [c EXCEPT !.artifactToken = token]
      /\ w[2] = IF token = c.artifactToken THEN drawn ELSE [drawn EXCEPT !.artifacts = link]
  BY DEF RefreshDetails
<1> HIDE DEF w, token, full, over, link
<1>2. /\ SameBasis(c, w[1]) /\ w[1].lastStart = c.lastStart /\ w[1].misdrawn = c.misdrawn
      /\ w[1].artifactToken = token /\ w[1].resultToken = c.resultToken
      /\ w[1].lastCurrentRunId = c.lastCurrentRunId
  BY <1>1 DEF ClosureOK, SameBasis
<1>3. /\ DOMAIN drawn = DOMAIN d /\ drawn.rows = d.rows /\ drawn.gen = d.gen
      /\ drawn.status = d.status /\ drawn.seen = d.seen /\ drawn.details = run.Id
      /\ drawn.full = full /\ drawn.artifacts = d.artifacts
      /\ drawn.resultsGen = d.resultsGen /\ drawn.results = d.results
      /\ drawn.detailsGen = g /\ drawn.overdrawn = over
  BY DEF DomOK
<1> HIDE DEF drawn
<1>4. /\ DOMAIN w[2] = DOMAIN d /\ w[2].rows = d.rows /\ w[2].gen = d.gen
      /\ w[2].status = d.status /\ w[2].seen = d.seen /\ w[2].details = run.Id
      /\ w[2].full = full
      /\ w[2].resultsGen = d.resultsGen /\ w[2].results = d.results
      /\ w[2].detailsGen = g /\ w[2].overdrawn = over
      /\ w[2].artifacts = IF token = c.artifactToken THEN d.artifacts ELSE link
  BY <1>1, <1>3 DEF DomOK
<1>5. QED
  BY <1>2, <1>4 DEF w, token, full, over, link, ResultsKept

(* What is left of an answer once the list is drawn is still well formed. *)
LEMMA DrawnOK ==
  ASSUME NEW c, NEW d, NEW g, NEW new, NEW doc, ClosureOK(c), DomOK(d),
         g \in 1..opened, opened \in Nat,
         SameBasis(c, new), DOMAIN doc = DOMAIN d,
         ListKept(c, d, new, doc) \/ ListThrown(c, d, g, new, doc) \/ ListDrawn(c, g, new, doc),
         ResultsFrom(d, g, doc),
         doc.full \in BOOLEAN, doc.detailsGen \in 0..opened, doc.overdrawn \in BOOLEAN
  PROVE  ClosureOK(new) /\ DomOK(doc)
<1>1. /\ new.misdrawn \in BOOLEAN /\ new.lastStart \in Nat \union {Undefined}
  BY DEF ListKept, ListThrown, ListDrawn, ClosureOK
<1>2. ClosureOK(new)
  BY <1>1 DEF ClosureOK, SameBasis
<1>3. doc.resultsGen \in 0..opened /\ (doc.resultsGen = 0 => doc.results = <<>>)
  BY DEF ResultsFrom, DomOK
<1>4. CASE ListKept(c, d, new, doc) \/ ListThrown(c, d, g, new, doc)
  <2>1. RowsOK(doc)
    BY <1>4 DEF ListKept, ListThrown, DomOK, RowsOK
  <2>2. /\ doc.gen \in 0..opened /\ (doc.gen = 0 => doc.rows = <<>>)
        /\ doc.status \in Ids \union {Null}
    BY <1>4 DEF ListKept, ListThrown, DomOK
  <2>3. QED
    BY <1>2, <1>3, <2>1, <2>2 DEF DomOK
<1>5. CASE ListDrawn(c, g, new, doc)
  <2> DEFINE runs == c.currentRuns
  <2>1. PageOf(runs, c.of, c.seen)
    BY DEF ClosureOK
  <2>2. c.status \in Ids \union {Null}
    BY <1>5, IdFacts DEF ListDrawn, Throws, ClosureOK, Null, Undefined
  <2>3. /\ DOMAIN doc.rows = DOMAIN runs
        /\ \A i \in DOMAIN runs : /\ doc.rows[i].Id = runs[i].Id /\ runs[i].Id \in Ids
                                  /\ doc.rows[i].icon = Icon(runs, i, c.status)
    BY <1>5, <2>1 DEF ListDrawn, PageOf
  <2>4. \A i \in DOMAIN runs : 1 \in DOMAIN runs
    BY <2>1, IdFacts DEF PageOf, PageLength
  <2>5. ASSUME doc.status # Null, NEW i \in DOMAIN doc.rows, doc.rows[i].icon = "tick",
               Digits(doc.rows[1].Id) <= Digits(doc.status)
        PROVE  doc.rows[i].Id < doc.status
    <3>1. doc.status = c.status /\ c.status \in Ids
      BY <1>5, <2>2, <2>5 DEF ListDrawn
    <3>2. i \in DOMAIN runs /\ Icon(runs, i, c.status) = "tick"
          /\ Digits(runs[1].Id) <= Digits(c.status)
      BY <2>3, <2>4, <2>5, <3>1
    <3>3. runs[i].Id < c.status
      BY <2>1, <3>1, <3>2, TickMeansOlder
    <3>4. QED
      BY <2>3, <3>1, <3>2, <3>3
  <2>6. RowsOK(doc)
    BY <2>3, <2>5 DEF RowsOK
  <2>7. doc.gen = g /\ doc.status \in Ids \union {Null} /\ g # 0
    BY <1>5, <2>2 DEF ListDrawn
  <2>8. QED
    BY <1>2, <1>3, <2>6, <2>7 DEF DomOK
<1>6. QED
  BY <1>4, <1>5

(* Everything is drawn from one closure; details are drawn only after the list. *)
LEMMA DrawingFacts ==
  ASSUME NEW c, NEW d, NEW g, ClosureOK(c), DomOK(d), g \in 1..opened, opened \in Nat
  PROVE  LET w == refreshEverything(c, d, g)
         IN /\ Drawing(c, d, g, w[1], w[2])
            /\ ClosureOK(w[1]) /\ DomOK(w[2])
<1> DEFINE w == refreshEverything(c, d, g)
           list == RefreshRunList(<<c, d>>, g)
           i == c.selectedRunIndex
           run == c.currentRuns[i]
           r == RefreshRun(<<list[1], list[2]>>, run, g)
           l == RefreshDetails(<<r[1], r[2]>>, run, g)
<1>1. /\ SameBasis(c, list[1]) /\ DOMAIN list[2] = DOMAIN d
      /\ \/ ListKept(c, d, list[1], list[2]) \/ ListThrown(c, d, g, list[1], list[2])
         \/ ListDrawn(c, g, list[1], list[2])
      /\ DetailsKept(c, d, list[1], list[2])
      /\ ResultsFrom(d, g, list[2]) /\ ResultsKept(c, d, list[1], list[2])
  BY ListFacts DEF ResultsFrom, ResultsKept
<1>2. ClosureOK(list[1]) /\ DomOK(list[2])
  <2>1. list[2].full \in BOOLEAN /\ list[2].detailsGen \in 0..opened /\ list[2].overdrawn \in BOOLEAN
    BY <1>1 DEF DomOK, DetailsKept
  <2>2. QED
    BY <1>1, <2>1, DrawnOK
<1>3. CASE Throws(c) \/ i \notin DOMAIN c.currentRuns
  <2>1. w = list
    BY <1>3 DEF refreshEverything
  <2>2. ~Selected(c)
    BY <1>3 DEF Selected, Throws
  <2>3. QED
    BY <1>1, <1>2, <2>1, <2>2 DEF Drawing
<1>4. CASE ~Throws(c) /\ i \in DOMAIN c.currentRuns
  <2>1. list = <<list[1], list[2]>> /\ r = <<r[1], r[2]>>
    <3>1. list = <<list[1], list[2]>>
      BY DEF RefreshRunList
    <3>2. r = <<r[1], r[2]>>
      BY DEF RefreshRun
    <3>3. QED
      BY <3>1, <3>2
  <2>2. w = (IF c.selectedTestKey /\ run.result # "none" THEN l ELSE r)
    BY <1>4, <2>1 DEF refreshEverything
  <2>3. /\ SameBasis(list[1], r[1]) /\ DOMAIN r[2] = DOMAIN list[2]
        /\ r[1].lastStart = list[1].lastStart /\ r[1].misdrawn = list[1].misdrawn
        /\ r[2].rows = list[2].rows /\ r[2].gen = list[2].gen /\ r[2].status = list[2].status
        /\ r[2].seen = list[2].seen
        /\ r[1].lastCurrentRunId = list[1].lastCurrentRunId
        /\ DetailsKept(list[1], list[2], r[1], r[2])
        /\ ResultsFrom(list[2], g, r[2]) /\ ResultsDrawn(list[1], list[2], g, r[1], r[2], run)
    BY <1>2, RunFacts
  <2> HIDE DEF w, list, r, l, i, run
  <2>4. /\ SameBasis(c, r[1]) /\ DOMAIN r[2] = DOMAIN d
        /\ \/ ListKept(c, d, r[1], r[2]) \/ ListThrown(c, d, g, r[1], r[2])
           \/ ListDrawn(c, g, r[1], r[2])
        /\ DetailsKept(c, d, r[1], r[2])
        /\ ResultsFrom(d, g, r[2]) /\ ResultsDrawn(c, d, g, r[1], r[2], run)
    <3>1. /\ SameBasis(c, r[1]) /\ DOMAIN r[2] = DOMAIN d /\ DetailsKept(c, d, r[1], r[2])
          /\ ResultsFrom(d, g, r[2]) /\ ResultsDrawn(c, d, g, r[1], r[2], run)
      BY <1>1, <2>3 DEF SameBasis, DetailsKept, ResultsFrom, ResultsDrawn, ResultsKept
    <3>2. ListKept(c, d, list[1], list[2]) => ListKept(c, d, r[1], r[2])
      BY <2>3 DEF ListKept
    <3>3. ListThrown(c, d, g, list[1], list[2]) => ListThrown(c, d, g, r[1], r[2])
      BY <2>3 DEF ListThrown
    <3>4. ListDrawn(c, g, list[1], list[2]) => ListDrawn(c, g, r[1], r[2])
      BY <2>3 DEF ListDrawn
    <3>5. QED
      BY <1>1, <3>1, <3>2, <3>3, <3>4
  <2>5. ClosureOK(r[1]) /\ DomOK(r[2])
    <3>1. r[2].full \in BOOLEAN /\ r[2].detailsGen \in 0..opened /\ r[2].overdrawn \in BOOLEAN
      BY <1>2, <2>3 DEF DomOK, DetailsKept
    <3>2. QED
      BY <2>4, <3>1, DrawnOK
  <2>6. Selected(c) /\ run = SelectedRun(c)
    BY <1>4 DEF Selected, SelectedRun, run, i
  <2>7. CASE ~(c.selectedTestKey /\ run.result # "none")
    BY <2>2, <2>4, <2>5, <2>6, <2>7 DEF Drawing, w
  <2>8. CASE c.selectedTestKey /\ run.result # "none"
    <3>1. run.result \in Results /\ run = c.currentRuns[i]
      BY <1>4 DEF ClosureOK, PageOf, run, i
    <3>2. /\ SameBasis(r[1], l[1]) /\ DOMAIN l[2] = DOMAIN r[2]
          /\ l[1].lastStart = r[1].lastStart /\ l[1].misdrawn = r[1].misdrawn
          /\ l[2].rows = r[2].rows /\ l[2].gen = r[2].gen /\ l[2].status = r[2].status
          /\ l[2].seen = r[2].seen
          /\ l[1].lastCurrentRunId = r[1].lastCurrentRunId
          /\ ResultsKept(r[1], r[2], l[1], l[2])
          /\ l[2].detailsGen = g /\ l[2].overdrawn = (r[2].overdrawn \/ g < r[2].detailsGen)
          /\ l[1].artifactToken = ArtifactToken(run)
          /\ l[2].details = run.Id /\ l[2].full = (run.result = "ok")
          /\ l[2].artifacts = IF ArtifactToken(run) = r[1].artifactToken THEN r[2].artifacts
                              ELSE IF run.result = "ok" THEN run.Id ELSE Null
      BY <2>5, <3>1, DetailsFacts DEF l
    <3>3. /\ SameBasis(c, l[1]) /\ DOMAIN l[2] = DOMAIN d /\ ResultsFrom(d, g, l[2])
          /\ ResultsDrawn(c, d, g, l[1], l[2], run)
          /\ \/ ListKept(c, d, l[1], l[2]) \/ ListThrown(c, d, g, l[1], l[2])
             \/ ListDrawn(c, g, l[1], l[2])
      <4>1. /\ SameBasis(c, l[1]) /\ DOMAIN l[2] = DOMAIN d /\ ResultsFrom(d, g, l[2])
            /\ ResultsDrawn(c, d, g, l[1], l[2], run)
        BY <2>4, <3>2 DEF SameBasis, ResultsFrom, ResultsDrawn, ResultsKept
      <4>2. ListKept(c, d, r[1], r[2]) => ListKept(c, d, l[1], l[2])
        BY <3>2 DEF ListKept
      <4>3. ListThrown(c, d, g, r[1], r[2]) => ListThrown(c, d, g, l[1], l[2])
        BY <3>2 DEF ListThrown
      <4>4. ListDrawn(c, g, r[1], r[2]) => ListDrawn(c, g, l[1], l[2])
        BY <3>2 DEF ListDrawn
      <4>5. QED
        BY <2>4, <4>1, <4>2, <4>3, <4>4
    <3>4. DetailsDrawn(c, d, g, l[1], l[2], run)
      BY <1>4, <2>4, <3>2 DEF DetailsKept, DetailsDrawn
    <3>5. ClosureOK(l[1]) /\ DomOK(l[2])
      <4>1. l[2].full \in BOOLEAN /\ l[2].detailsGen \in 0..opened /\ l[2].overdrawn \in BOOLEAN
        BY <3>2
      <4>2. QED
        BY <3>3, <4>1, DrawnOK
    <3>6. QED
      BY <1>4, <2>2, <2>6, <2>8, <3>1, <3>3, <3>4, <3>5 DEF Drawing, w, i
  <2>9. QED
    BY <2>7, <2>8
<1>5. QED
  BY <1>3, <1>4

\* What a closure is made of before it is drawn from: an answer or a click changes
\* neither what it drew last nor, unless the page does, where that began.
Basis(g, c) ==
  /\ ClosureOK(c) /\ OverBefore(c.status)
  /\ c.lastStart = closure[g].lastStart /\ c.artifactToken = closure[g].artifactToken
  /\ c.misdrawn = closure[g].misdrawn
  /\ c.lastCurrentRunId = closure[g].lastCurrentRunId
  /\ c.resultToken = closure[g].resultToken
  /\ c.of = closure[g].of \/ c.of = c.resStart

DrawnBrowserOK ==
  /\ DOMAIN closure = 1..MaxOpens
  /\ \A g \in 1..MaxOpens : /\ ClosureOK(closure[g]) /\ OverBefore(closure[g].status)
                            /\ g > opened => closure[g] = Fresh
  /\ DomOK(dom) /\ OverBefore(dom.status)

(* Drawing keeps the closures and the document well formed, ... *)
LEMMA RefreshKeepsForm ==
  ASSUME IInv, NEW g \in 1..opened, NEW c, Basis(g, c), Refresh(g, c),
         UNCHANGED service, UNCHANGED opened
  PROVE  DrawnBrowserOK'
<1> DEFINE w == refreshEverything(c, dom, g)
<1>1. /\ opened \in Nat /\ opened <= MaxOpens /\ DOMAIN closure = 1..MaxOpens
      /\ g \in 1..MaxOpens /\ DomOK(dom) /\ ClosureOK(c) /\ MaxOpens \in Nat
  BY BoundsAssumption DEF IInv, BrowserOK, Basis
<1>2. closure' = [closure EXCEPT ![g] = w[1]] /\ dom' = w[2]
  BY DEF Refresh
<1>3. Drawing(c, dom, g, w[1], w[2]) /\ ClosureOK(w[1]) /\ DomOK(w[2])
  BY <1>1, DrawingFacts
<1> HIDE DEF w
<1>4. /\ closure'[g] = w[1] /\ DOMAIN closure' = 1..MaxOpens
      /\ \A h \in 1..MaxOpens : h # g => closure'[h] = closure[h]
  BY <1>1, <1>2
<1>5. \A s : OverBefore(s)' <=> OverBefore(s)
  BY DEF OverBefore, Over, service
<1>6. OverBefore(w[1].status)
  BY <1>3 DEF Drawing, SameBasis, Basis
<1>7. OverBefore(w[2].status)
  BY <1>3 DEF Drawing, ListKept, ListThrown, ListDrawn, Basis, IInv, BrowserOK
<1>8. DomOK(dom)'
  BY <1>2, <1>3 DEF DomOK
<1>9. ASSUME NEW h \in 1..MaxOpens
      PROVE  /\ ClosureOK(closure'[h]) /\ OverBefore(closure'[h].status)
             /\ h > opened => closure'[h] = Fresh
  <2>1. CASE h = g
    BY <1>1, <1>3, <1>4, <1>6, <2>1
  <2>2. CASE h # g
    BY <1>4, <2>2 DEF IInv, BrowserOK
  <2>3. QED
    BY <2>1, <2>2
<1>10. \A h \in 1..MaxOpens : /\ (ClosureOK(closure[h]))' /\ (OverBefore(closure[h].status))'
                              /\ (h > opened => closure[h] = Fresh)'
  <2>1. \A h : ClosureOK(closure[h])' <=> ClosureOK(closure'[h])
    BY DEF ClosureOK
  <2>2. \A h : OverBefore(closure[h].status)' <=> OverBefore(closure'[h].status)
    BY DEF OverBefore, Over, service
  <2>3. QED
    BY <1>9, <2>1, <2>2
<1>11. OverBefore(dom.status)'
  BY <1>2, <1>7 DEF OverBefore, Over, service
<1>12. QED
  BY <1>4, <1>8, <1>10, <1>11 DEF DrawnBrowserOK

(* ... and what the document shows in step with the closures that drew it. *)
LEMMA RefreshKeepsShown ==
  ASSUME IInv, NEW g \in 1..opened, NEW c, Basis(g, c), Refresh(g, c),
         UNCHANGED service, UNCHANGED opened
  PROVE  (TokensAsShown /\ RowsOfLast)'
<1> DEFINE w == refreshEverything(c, dom, g)
<1>1. /\ opened \in Nat /\ opened <= MaxOpens /\ DOMAIN closure = 1..MaxOpens
      /\ g \in 1..MaxOpens /\ DomOK(dom) /\ ClosureOK(c) /\ MaxOpens \in Nat
  BY BoundsAssumption DEF IInv, BrowserOK, Basis
<1>2. closure' = [closure EXCEPT ![g] = w[1]] /\ dom' = w[2]
  BY DEF Refresh
<1>3. Drawing(c, dom, g, w[1], w[2]) /\ ClosureOK(w[1]) /\ DomOK(w[2])
  BY <1>1, DrawingFacts
<1> HIDE DEF w
<1>4. /\ closure'[g] = w[1] /\ DOMAIN closure' = 1..MaxOpens
      /\ \A h \in 1..MaxOpens : h # g => closure'[h] = closure[h]
  BY <1>1, <1>2
<1>5. dom.detailsGen \in Nat /\ g \in Nat /\ dom.overdrawn \in BOOLEAN
  BY <1>1 DEF DomOK
<1>6. TokensAsShown /\ RowsOfLast
  BY DEF IInv
<1>7. TokensAsShown'
  <2>1. CASE DetailsKept(c, dom, w[1], w[2])
    <3>1. /\ dom'.overdrawn = dom.overdrawn /\ dom'.detailsGen = dom.detailsGen
          /\ dom'.details = dom.details /\ dom'.full = dom.full /\ dom'.artifacts = dom.artifacts
      BY <1>2, <2>1 DEF DetailsKept
    <3>2. \A h \in 1..MaxOpens : closure'[h].artifactToken = closure[h].artifactToken
      BY <1>4, <2>1 DEF DetailsKept, Basis
    <3>3. QED
      BY <1>6, <3>1, <3>2 DEF TokensAsShown, Shown
  <2>2. ASSUME NEW i \in DOMAIN c.currentRuns,
               DetailsDrawn(c, dom, g, w[1], w[2], c.currentRuns[i]), ~dom'.overdrawn
        PROVE  /\ dom'.artifacts = IF dom'.full THEN dom'.details ELSE Null
               /\ \A h \in 1..MaxOpens :
                    /\ h = dom'.detailsGen => closure'[h].artifactToken = Shown(dom')
                    /\ h > dom'.detailsGen => closure'[h].artifactToken = <<Undefined>>
    <3> DEFINE run == c.currentRuns[i]
    <3>1. run.Id \in Ids /\ run.result \in Results
      BY <1>1 DEF ClosureOK, PageOf
    <3>2. /\ w[1].artifactToken = Shown(dom') /\ Shown(dom') = ArtifactToken(run)
          /\ dom'.full = (run.result = "ok") /\ dom'.details = run.Id /\ dom'.detailsGen = g
      BY <1>2, <2>2 DEF DetailsDrawn, ArtifactToken, Shown
    <3>3. ~dom.overdrawn /\ ~(g < dom.detailsGen)
      BY <1>2, <1>5, <2>2 DEF DetailsDrawn
    <3>4. /\ dom.artifacts = IF dom.full THEN dom.details ELSE Null
          /\ \A h \in 1..MaxOpens :
               /\ h = dom.detailsGen => closure[h].artifactToken = Shown(dom)
               /\ h > dom.detailsGen => closure[h].artifactToken = <<Undefined>>
      BY <1>6, <3>3 DEF TokensAsShown
    <3>5. c.artifactToken \in {<<Undefined>>, Shown(dom)}
      <4>1. g = dom.detailsGen \/ g > dom.detailsGen
        BY <1>5, <3>3
      <4>2. c.artifactToken = closure[g].artifactToken
        BY DEF Basis
      <4>3. QED
        BY <1>1, <3>4, <4>1, <4>2
    <3>6. dom'.artifacts = IF dom'.full THEN dom'.details ELSE Null
      <4>1. CASE ArtifactToken(run) # c.artifactToken
        BY <1>2, <2>2, <4>1 DEF DetailsDrawn
      <4>2. CASE ArtifactToken(run) = c.artifactToken
        <5>1. ArtifactToken(run) # <<Undefined>>
          BY <3>1, IdFacts DEF ArtifactToken
        <5>2. Shown(dom') = Shown(dom)
          BY <3>2, <3>5, <4>2, <5>1
        <5>3. dom'.full \in BOOLEAN /\ dom.full \in BOOLEAN
          BY <1>1, <1>2, <1>3 DEF DomOK
        <5>4. dom'.artifacts = dom.artifacts
          BY <1>2, <2>2, <4>2 DEF DetailsDrawn
        <5>5. dom'.full = dom.full
          BY <5>2, <5>3 DEF Shown
        <5>6. dom.full => dom'.details = dom.details
          BY <5>2, <5>5 DEF Shown
        <5>7. QED
          BY <3>4, <5>4, <5>5, <5>6
      <4>3. QED
        BY <4>1, <4>2
    <3>7. ASSUME NEW h \in 1..MaxOpens
          PROVE  /\ h = g => closure'[h].artifactToken = Shown(dom')
                 /\ h > g => closure'[h].artifactToken = <<Undefined>>
      <4>1. CASE h = g
        BY <1>4, <1>5, <3>2, <4>1
      <4>2. CASE h # g
        <5>1. h > g => h > dom.detailsGen
          BY <1>5, <3>3
        <5>2. QED
          BY <1>4, <3>4, <4>2, <5>1
      <4>3. QED
        BY <4>1, <4>2
    <3>8. QED
      BY <3>2, <3>6, <3>7
  <2>3. ASSUME NEW i \in DOMAIN c.currentRuns,
               DetailsDrawn(c, dom, g, w[1], w[2], c.currentRuns[i])
        PROVE  TokensAsShown'
    BY <2>2, <2>3 DEF TokensAsShown, Shown
  <2>4. QED
    BY <1>3, <2>1, <2>3 DEF Drawing
<1>8. RowsOfLast'
  <2>1. ASSUME NEW h \in 1..MaxOpens, dom'.gen = h, ~closure'[h].misdrawn
        PROVE  /\ closure'[h].lastStart = closure'[h].of
               /\ dom'.seen \in 0..MaxRuns
               /\ DOMAIN dom'.rows = 1..PageLength(closure'[h].of, dom'.seen)
               /\ \A i \in DOMAIN dom'.rows : dom'.rows[i].Id = PageId(closure'[h].of, dom'.seen, i)
    <3>1. CASE h = g
      <4>1. closure'[h] = w[1] /\ w[1].of = c.of /\ ~w[1].misdrawn
        BY <1>3, <1>4, <2>1, <3>1 DEF Drawing, SameBasis
      <4>2. CASE ListKept(c, dom, w[1], w[2])
        <5>1. /\ dom.gen = g /\ ~closure[g].misdrawn /\ w[1].lastStart = closure[g].lastStart
              /\ c.lastStart = c.resStart
              /\ dom'.rows = dom.rows /\ dom'.seen = dom.seen
          BY <1>2, <2>1, <3>1, <4>1, <4>2 DEF ListKept, Basis, Changed
        <5>2. /\ closure[g].lastStart = closure[g].of
              /\ dom.seen \in 0..MaxRuns
              /\ DOMAIN dom.rows = 1..PageLength(closure[g].of, dom.seen)
              /\ \A i \in DOMAIN dom.rows : dom.rows[i].Id = PageId(closure[g].of, dom.seen, i)
          BY <1>6, <2>1, <3>1, <5>1 DEF RowsOfLast
        <5>3. c.of = closure[g].of
          BY <5>1, <5>2 DEF Basis
        <5>4. QED
          BY <4>1, <5>1, <5>2, <5>3
      <4>3. CASE ListThrown(c, dom, g, w[1], w[2])
        BY <4>1, <4>3 DEF ListThrown
      <4>4. CASE ListDrawn(c, g, w[1], w[2])
        <5>1. c.resStart = c.of /\ w[1].lastStart = c.of /\ dom'.seen = c.seen
          BY <1>2, <4>1, <4>4 DEF ListDrawn
        <5>2. /\ DOMAIN dom'.rows = DOMAIN c.currentRuns
              /\ \A i \in DOMAIN c.currentRuns : dom'.rows[i].Id = c.currentRuns[i].Id
          BY <1>2, <4>4 DEF ListDrawn
        <5>3. PageOf(c.currentRuns, c.of, c.seen)
          BY <1>1 DEF ClosureOK
        <5>4. QED
          BY <4>1, <5>1, <5>2, <5>3 DEF PageOf
      <4>5. QED
        BY <1>3, <4>2, <4>3, <4>4 DEF Drawing
    <3>2. CASE h # g
      <4>1. ListKept(c, dom, w[1], w[2])
        BY <1>2, <1>3, <2>1, <3>2 DEF Drawing, ListThrown, ListDrawn
      <4>2. dom.gen = h /\ dom'.rows = dom.rows /\ dom'.seen = dom.seen /\ closure'[h] = closure[h]
        BY <1>2, <1>4, <2>1, <3>2, <4>1 DEF ListKept
      <4>3. QED
        BY <1>6, <2>1, <4>2 DEF RowsOfLast
    <3>3. QED
      BY <3>1, <3>2
  <2>2. QED
    BY <2>1 DEF RowsOfLast, PageLength, PageId
<1>9. QED
  BY <1>7, <1>8

(* The run drawn as executed and the results drawn stay those told last. *)
LEMMA RefreshKeepsTold ==
  ASSUME IInv, NEW g \in 1..opened, NEW c, Basis(g, c), Refresh(g, c),
         UNCHANGED service, UNCHANGED opened
  PROVE  (CurrentOfLast /\ ResultsOfLast)'
<1> DEFINE w == refreshEverything(c, dom, g)
<1>1. /\ opened \in Nat /\ opened <= MaxOpens /\ DOMAIN closure = 1..MaxOpens
      /\ g \in 1..MaxOpens /\ DomOK(dom) /\ ClosureOK(c) /\ MaxOpens \in Nat
  BY BoundsAssumption DEF IInv, BrowserOK, Basis
<1>2. closure' = [closure EXCEPT ![g] = w[1]] /\ dom' = w[2]
  BY DEF Refresh
<1>3. Drawing(c, dom, g, w[1], w[2])
  BY <1>1, DrawingFacts
<1> HIDE DEF w
<1>4. /\ closure'[g] = w[1] /\ w[1].status = c.status
      /\ \A h \in 1..MaxOpens : h # g => closure'[h] = closure[h]
  BY <1>1, <1>2, <1>3 DEF Drawing, SameBasis
<1>5. CurrentOfLast /\ ResultsOfLast
  BY DEF IInv
<1>6. ASSUME NEW h \in 1..MaxOpens, dom'.gen = h, NEW i \in DOMAIN dom'.rows
      PROVE  /\ closure'[h].lastCurrentRunId = dom'.status /\ closure'[h].status = dom'.status
             /\ dom'.rows[i].icon = "wait" => dom'.rows[i].Id = dom'.status
  <2>1. CASE ListKept(c, dom, w[1], w[2])
    <3>1. /\ dom.gen = h /\ dom'.rows = dom.rows /\ dom'.status = dom.status
          /\ w[1].lastCurrentRunId = closure[g].lastCurrentRunId
          /\ c.status = closure[g].lastCurrentRunId
      BY <1>2, <1>6, <2>1 DEF ListKept, Changed, Basis
    <3>2. /\ closure[h].lastCurrentRunId = dom.status /\ closure[h].status = dom.status
          /\ dom.rows[i].icon = "wait" => dom.rows[i].Id = dom.status
      BY <1>5, <1>6, <3>1 DEF CurrentOfLast
    <3>3. QED
      BY <1>4, <3>1, <3>2
  <2>2. CASE ListThrown(c, dom, g, w[1], w[2])
    BY <1>2, <1>6, <2>2 DEF ListThrown
  <2>3. CASE ListDrawn(c, g, w[1], w[2])
    <3>1. h = g /\ dom'.status = c.status /\ w[1].lastCurrentRunId = c.status
      BY <1>2, <1>6, <2>3 DEF ListDrawn
    <3>2. /\ i \in DOMAIN c.currentRuns /\ dom'.rows[i].Id = c.currentRuns[i].Id
          /\ dom'.rows[i].icon = Icon(c.currentRuns, i, c.status)
      BY <1>2, <1>6, <2>3 DEF ListDrawn
    <3>3. Icon(c.currentRuns, i, c.status) = "wait" => c.currentRuns[i].Id = c.status
      BY DEF Icon
    <3>4. QED
      BY <1>4, <3>1, <3>2, <3>3
  <2>4. QED
    BY <1>3, <2>1, <2>2, <2>3 DEF Drawing
<1>7. ASSUME NEW h \in 1..MaxOpens
      PROVE  /\ Selected(closure'[h]) =>
                   closure'[h].resultToken = ResultToken(SelectedRun(closure'[h]))
             /\ dom'.resultsGen = h => dom'.results = closure'[h].resultToken
  <2>1. /\ Selected(closure[h]) => closure[h].resultToken = ResultToken(SelectedRun(closure[h]))
        /\ dom.resultsGen = h => dom.results = closure[h].resultToken
    BY <1>5 DEF ResultsOfLast
  <2>2. /\ Selected(w[1]) <=> Selected(c)
        /\ SelectedRun(w[1]) = SelectedRun(c)
    BY <1>3 DEF Drawing, SameBasis, Selected, SelectedRun
  <2>3. c.resultToken = closure[g].resultToken
    BY DEF Basis
  <2>4. CASE Selected(c)
    <3>1. ResultsDrawn(c, dom, g, w[1], w[2], SelectedRun(c))
      BY <1>3, <2>4 DEF Drawing
    <3>2. QED
      BY <1>2, <1>4, <2>1, <2>2, <2>3, <3>1 DEF ResultsDrawn, ResultsKept
  <2>5. CASE ~Selected(c)
    <3>1. ResultsKept(c, dom, w[1], w[2])
      BY <1>3, <2>5 DEF Drawing
    <3>2. QED
      BY <1>2, <1>4, <2>1, <2>2, <2>3, <2>5, <3>1 DEF ResultsKept
  <2>6. QED
    BY <2>4, <2>5
<1>8. CurrentOfLast'
  BY <1>6 DEF CurrentOfLast
<1>9. ResultsOfLast'
  BY <1>7 DEF ResultsOfLast, Selected, SelectedRun, ResultToken
<1>10. QED
  BY <1>8, <1>9

-----------------------------------------------------------------------------
(* Requests and the user *)

(* A call returns the runs of the page it asked for. *)
LEMMA GetRunsFacts ==
  ASSUME ServiceOK, NEW start \in Nat
  PROVE  PageOf(GetRuns(start, resLimit), start, created)
<1> DEFINE n == PageLength(start, created)
           last == FirstId + created - 1 - start
<1>1. created \in Nat /\ created <= MaxRuns /\ start \in Nat /\ last \in Int
      /\ FirstId \in Nat \ {0} /\ MaxRuns \in Nat /\ resLimit \in Nat \ {0}
  BY IdFacts DEF ServiceOK
<1>2. GetRuns(start, resLimit)
        = [i \in 1..n |-> [Id |-> last - i + 1, result |-> result[last - i + 1]]]
  BY DEF GetRuns, PageLength
<1>3. n \in Nat /\ \A i \in 1..n : i \in Nat /\ 1 <= i /\ FirstId <= last - i + 1
  BY <1>1 DEF PageLength
<1>4. \A i \in 1..n : /\ last - i + 1 \in Ids
                      /\ last - i + 1 = PageId(start, created, i)
  BY <1>1, <1>3 DEF Ids, PageId
<1>5. \A r \in Ids : result[r] \in Results
  BY DEF ServiceOK
<1>6. QED
  BY <1>1, <1>2, <1>4, <1>5 DEF PageOf

(* With one more request on its way nothing else changes. *)
LEMMA RequestKeeps ==
  ASSUME ServiceOK, NEW g, NEW start \in Nat, Request(g, start),
         \A q \in requests : /\ q.gen \in 1..opened /\ q.start \in Nat
                             /\ PageOf(q.runs, q.start, q.seen),
         opened \in Nat, opened' \in Nat, opened <= opened', g \in 1..opened'
  PROVE  \A q \in requests' : /\ q.gen \in 1..opened' /\ q.start \in Nat
                              /\ PageOf(q.runs, q.start, q.seen)
<1>1. requests' \subseteq requests \union {[gen |-> g, start |-> start,
                     runs |-> GetRuns(start, resLimit), seen |-> created]}
  BY DEF Request
<1>2. PageOf(GetRuns(start, resLimit), start, created)
  BY GetRunsFacts
<1>3. QED
  BY <1>1, <1>2

(* What the browser does changes nothing of the service. *)
LEMMA ServiceStays ==
  ASSUME IInv, UNCHANGED service
  PROVE  ServiceInv' /\ \A status : OverBefore(status)' <=> OverBefore(status)
  BY DEF service, IInv, ServiceInv, ServiceOK, InOrder, In, Waits, Created, Over, OverBefore

(* The interval asks again. *)
LEMMA TickKeeps ==
  ASSUME IInv, Tick
  PROVE  IInv'
<1>1. /\ opened > 0 /\ Request(opened, closure[opened].refresh)
      /\ UNCHANGED <<opened, closure, dom, acts>> /\ UNCHANGED service
  BY DEF Tick
<1>2. opened \in 1..MaxOpens /\ closure[opened].refresh \in Nat /\ opened \in 1..opened
  BY <1>1, BoundsAssumption DEF IInv, BrowserOK, ClosureOK
<1>3. \A q \in requests' : /\ q.gen \in 1..opened' /\ q.start \in Nat
                           /\ PageOf(q.runs, q.start, q.seen)
  BY <1>1, <1>2, RequestKeeps DEF IInv, ServiceInv, BrowserOK
<1>4. BrowserOK'
  BY <1>1, <1>3, ServiceStays DEF IInv, BrowserOK, DomOK
<1>5. TokensAsShown' /\ RowsOfLast' /\ CurrentOfLast' /\ ResultsOfLast'
  BY <1>1 DEF IInv, TokensAsShown, RowsOfLast, CurrentOfLast, ResultsOfLast
<1>6. QED
  BY <1>1, <1>4, <1>5, ServiceStays DEF IInv

(* The view is opened: its closure is a fresh one, which has drawn nothing. *)
LEMMA OpenViewKeeps ==
  ASSUME IInv, OpenView
  PROVE  IInv'
<1> DEFINE g == opened + 1
<1>1. /\ opened < MaxOpens /\ opened' = g /\ Request(g, 0)
      /\ UNCHANGED <<closure, dom>> /\ UNCHANGED service
  BY DEF OpenView
<1>2. opened \in Nat /\ opened' \in 0..MaxOpens /\ g \in 1..opened' /\ opened < g /\ MaxOpens \in Nat
  BY <1>1, BoundsAssumption DEF IInv, BrowserOK
<1>3. \A q \in requests' : /\ q.gen \in 1..opened' /\ q.start \in Nat
                           /\ PageOf(q.runs, q.start, q.seen)
  <2>1. /\ ServiceOK /\ 0 \in Nat
        /\ \A q \in requests : /\ q.gen \in 1..opened /\ q.start \in Nat
                               /\ PageOf(q.runs, q.start, q.seen)
    BY DEF IInv, ServiceInv, BrowserOK
  <2>2. opened' \in Nat /\ opened <= opened'
    BY <1>1, <1>2
  <2> HIDE DEF g
  <2>3. QED
    BY <1>1, <1>2, <2>1, <2>2, RequestKeeps
<1>4. \A h \in 1..MaxOpens : /\ h > opened' => closure[h] = Fresh
                             /\ h = opened' => h > opened
  BY <1>1, <1>2 DEF IInv, BrowserOK
<1>5. DomOK(dom)'
  BY <1>1, <1>2 DEF IInv, BrowserOK, DomOK
<1>6. BrowserOK'
  BY <1>1, <1>2, <1>3, <1>4, <1>5, ServiceStays DEF IInv, BrowserOK
<1>7. TokensAsShown' /\ RowsOfLast' /\ CurrentOfLast' /\ ResultsOfLast'
  BY <1>1 DEF IInv, TokensAsShown, RowsOfLast, CurrentOfLast, ResultsOfLast
<1>8. QED
  BY <1>1, <1>6, <1>7, ServiceStays DEF IInv

(* Another page is asked for, and, when it is a later one, resStart changed. *)
LEMMA SwitchRunPageKeeps ==
  ASSUME IInv, NEW start \in Nat, NEW c,
         c = closure[opened] \/ c = [closure[opened] EXCEPT !.resStart = start],
         SwitchRunPage(c, start)
  PROVE  IInv'
<1> DEFINE old == closure[opened]
           new == [c EXCEPT !.refresh = start]
<1>1. /\ opened > 0 /\ Request(opened, start)
      /\ closure' = [closure EXCEPT ![opened] = new]
      /\ UNCHANGED <<opened, dom>> /\ UNCHANGED service
  BY DEF SwitchRunPage
<1>2. /\ opened \in 1..MaxOpens /\ opened \in 1..opened /\ opened \in Nat
      /\ ClosureOK(old) /\ OverBefore(old.status)
      /\ DOMAIN closure = 1..MaxOpens
  BY <1>1, BoundsAssumption DEF IInv, BrowserOK
<1>3. \A q \in requests' : /\ q.gen \in 1..opened' /\ q.start \in Nat
                           /\ PageOf(q.runs, q.start, q.seen)
  BY <1>1, <1>2, RequestKeeps DEF IInv, ServiceInv, BrowserOK
<1>4. /\ DOMAIN new = DOMAIN old /\ new.refresh = start /\ new.resStart \in Nat
      /\ new.currentRuns = old.currentRuns /\ new.status = old.status
      /\ new.of = old.of /\ new.seen = old.seen /\ new.lastStart = old.lastStart
      /\ new.artifactToken = old.artifactToken /\ new.misdrawn = old.misdrawn
      /\ new.lastCurrentRunId = old.lastCurrentRunId /\ new.resultToken = old.resultToken
      /\ new.selectedRunIndex = old.selectedRunIndex
  <2> HIDE DEF old
  <2>1. c = old \/ c = [old EXCEPT !.resStart = start]
    BY DEF old
  <2>2. QED
    BY <1>2, <2>1 DEF ClosureOK
<1>5. ClosureOK(new) /\ OverBefore(new.status)
  <2> HIDE DEF old, new
  <2>1. QED
    BY <1>2, <1>4 DEF ClosureOK
<1> HIDE DEF new
<1>6. /\ closure'[opened] = new /\ DOMAIN closure' = 1..MaxOpens
      /\ \A h \in 1..MaxOpens : h # opened => closure'[h] = closure[h]
  BY <1>1, <1>2
<1>7. \A h \in 1..MaxOpens : /\ closure'[h].lastStart = closure[h].lastStart
                             /\ closure'[h].artifactToken = closure[h].artifactToken
                             /\ closure'[h].misdrawn = closure[h].misdrawn
                             /\ closure'[h].of = closure[h].of
                             /\ closure'[h].lastCurrentRunId = closure[h].lastCurrentRunId
                             /\ closure'[h].status = closure[h].status
                             /\ closure'[h].resultToken = closure[h].resultToken
                             /\ closure'[h].selectedRunIndex = closure[h].selectedRunIndex
                             /\ closure'[h].currentRuns = closure[h].currentRuns
  BY <1>4, <1>6
<1>8. \A h \in 1..MaxOpens : /\ ClosureOK(closure'[h]) /\ OverBefore(closure'[h].status)
                             /\ h > opened => closure'[h] = Fresh
  BY <1>2, <1>5, <1>6 DEF IInv, BrowserOK
<1>9. BrowserOK'
  <2>1. DomOK(dom)' /\ OverBefore(dom.status)'
    BY <1>1, ServiceStays DEF IInv, BrowserOK, DomOK
  <2>2. \A h \in 1..MaxOpens : /\ ClosureOK(closure[h])' /\ OverBefore(closure[h].status)'
                               /\ (h > opened => closure[h] = Fresh)'
    <3>1. \A h : ClosureOK(closure[h])' <=> ClosureOK(closure'[h])
      BY DEF ClosureOK
    <3>2. \A h : OverBefore(closure[h].status)' <=> OverBefore(closure'[h].status)
      BY <1>1, ServiceStays DEF OverBefore, service, Over
    <3>3. QED
      BY <1>1, <1>8, <3>1, <3>2
  <2>3. QED
    BY <1>1, <1>3, <1>6, <2>1, <2>2 DEF IInv, BrowserOK
<1>10. TokensAsShown' /\ RowsOfLast'
  BY <1>1, <1>7 DEF IInv, TokensAsShown, Shown, RowsOfLast
<1>11. CurrentOfLast'
  BY <1>1, <1>7 DEF IInv, CurrentOfLast
<1>12. ResultsOfLast'
  BY <1>1, <1>7 DEF IInv, ResultsOfLast, Selected, SelectedRun, ResultToken
<1>13. QED
  BY <1>1, <1>9, <1>10, <1>11, <1>12, ServiceStays DEF IInv

(* Drawing keeps the invariant, whichever opening draws. *)
LEMMA RefreshKeeps ==
  ASSUME IInv, NEW g \in 1..opened, NEW c, Basis(g, c), Refresh(g, c),
         UNCHANGED service, UNCHANGED opened, requests' \subseteq requests
  PROVE  IInv'
<1>1. DrawnBrowserOK'
  BY RefreshKeepsForm
<1>2. BrowserOK'
  BY <1>1 DEF IInv, BrowserOK, DrawnBrowserOK
<1>3. TokensAsShown' /\ RowsOfLast' /\ CurrentOfLast' /\ ResultsOfLast'
  BY RefreshKeepsShown, RefreshKeepsTold
<1>4. QED
  BY <1>2, <1>3, ServiceStays DEF IInv

(* An answer brings another page and the run executed now, before which all are done. *)
LEMMA AnsweredKeeps ==
  ASSUME IInv, NEW q \in requests, Answered(q)
  PROVE  IInv'
<1> DEFINE g == q.gen
           old == closure[g]
           c == [old EXCEPT !.resStart = q.start, !.currentRuns = q.runs,
                            !.status = executing, !.of = q.start, !.seen = q.seen]
<1>1. /\ requests' = requests \ {q} /\ Refresh(g, c)
      /\ UNCHANGED opened /\ UNCHANGED service
  BY DEF Answered
<1>2. /\ g \in 1..opened /\ g \in 1..MaxOpens /\ opened \in Nat
      /\ q.start \in Nat /\ PageOf(q.runs, q.start, q.seen)
      /\ ClosureOK(old)
  BY BoundsAssumption DEF IInv, BrowserOK
<1>3. /\ DOMAIN c = DOMAIN old /\ c.resStart = q.start /\ c.refresh = old.refresh
      /\ c.currentRuns = q.runs /\ c.status = executing
      /\ c.of = q.start /\ c.seen = q.seen /\ c.lastStart = old.lastStart
      /\ c.artifactToken = old.artifactToken /\ c.misdrawn = old.misdrawn
      /\ c.lastCurrentRunId = old.lastCurrentRunId /\ c.resultToken = old.resultToken
  <2> HIDE DEF old
  <2>1. QED
    BY <1>2 DEF ClosureOK
<1>4. executing \in Ids \union {Null} /\ executing # Undefined
  BY IdFacts DEF IInv, ServiceInv, ServiceOK, Null, Undefined
<1>5. OverBefore(executing)
  <2>1. ASSUME executing \in Ids, ~disordered, NEW s \in Ids, s < executing
        PROVE  s \in Over
    <3>1. In(s) /\ executing # Null
      BY <2>1, IdFacts DEF IInv, ServiceInv, InOrder, In
    <3>2. ~Waits(s)
      <4>1. ASSUME NEW i \in DOMAIN queue
            PROVE  queue[i] # s
        <5>1. executing < queue[i] /\ queue[i] \in Ids
          BY <2>1, <3>1, <4>1, CreatedFacts DEF IInv, ServiceInv, InOrder, ServiceOK
        <5>2. QED
          BY <2>1, <5>1, IdFacts
      <4>2. QED
        BY <4>1 DEF Waits
    <3>3. s # executing
      BY <2>1, IdFacts
    <3>4. QED
      BY <3>1, <3>2, <3>3 DEF In
  <2>2. QED
    BY <2>1 DEF OverBefore
<1>6. Basis(g, c)
  <2> HIDE DEF c
  <2>1. ClosureOK(c)
    BY <1>2, <1>3, <1>4 DEF ClosureOK
  <2>2. QED
    BY <1>3, <1>5, <2>1 DEF Basis
<1> HIDE DEF c, g, old
<1>7. QED
  BY <1>1, <1>2, <1>6, RefreshKeeps

(* A click changes only what is selected. *)
LEMMA ClickFacts ==
  ASSUME IInv, NEW g \in 1..MaxOpens, NEW i,
         NEW c, \/ c = [closure[g] EXCEPT !.selectedRunIndex = i]
                \/ c = [closure[g] EXCEPT !.selectedTestKey = i]
  PROVE  Basis(g, c)
<1> DEFINE old == closure[g]
<1>1. ClosureOK(old) /\ OverBefore(old.status)
  BY DEF IInv, BrowserOK
<1>2. c = [old EXCEPT !.selectedRunIndex = i] \/ c = [old EXCEPT !.selectedTestKey = i]
  OBVIOUS
<1> HIDE DEF old
<1>3. /\ DOMAIN c = DOMAIN old /\ c.resStart = old.resStart /\ c.refresh = old.refresh
      /\ c.currentRuns = old.currentRuns /\ c.status = old.status
      /\ c.of = old.of /\ c.seen = old.seen /\ c.lastStart = old.lastStart
      /\ c.artifactToken = old.artifactToken /\ c.misdrawn = old.misdrawn
      /\ c.lastCurrentRunId = old.lastCurrentRunId /\ c.resultToken = old.resultToken
  BY <1>1, <1>2 DEF ClosureOK
<1>4. ClosureOK(c) /\ OverBefore(c.status)
  BY <1>1, <1>3 DEF ClosureOK
<1>5. QED
  BY <1>3, <1>4 DEF Basis, old

(* A click on a run is one in the opening that drew the list. *)
LEMMA ClickRunKeeps ==
  ASSUME IInv, NEW i \in 1..resLimit, ClickRun(i)
  PROVE  IInv'
<1> DEFINE g == dom.gen
           c == [closure[g] EXCEPT !.selectedRunIndex = i]
<1>1. /\ i \in DOMAIN dom.rows /\ Refresh(g, c)
      /\ UNCHANGED <<opened, requests>> /\ UNCHANGED service
  BY DEF ClickRun
<1>2. g \in 1..opened /\ g \in 1..MaxOpens
  BY <1>1, BoundsAssumption DEF IInv, BrowserOK, DomOK
<1>3. Basis(g, c)
  BY <1>2, ClickFacts
<1> HIDE DEF c
<1>4. QED
  BY <1>1, <1>2, <1>3, RefreshKeeps

(* A click on a result is one in the opening that drew the results. *)
LEMMA ClickResultKeeps ==
  ASSUME IInv, ClickResult
  PROVE  IInv'
<1> DEFINE g == dom.resultsGen
           c == [closure[g] EXCEPT !.selectedTestKey = TRUE]
<1>1. /\ dom.results # <<>> /\ Refresh(g, c)
      /\ UNCHANGED <<opened, requests>> /\ UNCHANGED service
  BY DEF ClickResult
<1>2. g \in 1..opened /\ g \in 1..MaxOpens
  BY <1>1, BoundsAssumption DEF IInv, BrowserOK, DomOK
<1>3. Basis(g, c)
  BY <1>2, ClickFacts
<1> HIDE DEF c
<1>4. QED
  BY <1>1, <1>2, <1>3, RefreshKeeps

-----------------------------------------------------------------------------
(* At first there are no runs, and the view was not opened. *)
LEMMA InitIInv == Init => IInv
<1> SUFFICES ASSUME Init
             PROVE  IInv
  OBVIOUS
<1>1. /\ created = 0 /\ queue = <<>> /\ executing = Null
      /\ result = [r \in Ids |-> "none"] /\ done = {} /\ lost = {} /\ disordered = FALSE
  BY DEF Init
<1>2. ServiceOK /\ InOrder
  <2>1. /\ created \in 0..MaxRuns /\ queue \in Seq(Ids) /\ DOMAIN queue = {}
        /\ result \in [Ids -> Results] /\ Over = {}
    BY <1>1, IdFacts DEF Results, Over
  <2>2. disordered \in BOOLEAN
    BY <1>1
  <2>3. \A r \in Ids : ~In(r)
    BY <1>1, <2>1, IdFacts DEF In, Waits
  <2>4. ServiceOK
    BY <1>1, <2>1, <2>2 DEF ServiceOK
  <2>5. InOrder
    BY <1>1, <2>1, <2>3 DEF InOrder
  <2>6. QED
    BY <2>4, <2>5
<1>3. /\ ClosureOK(Fresh) /\ Fresh.artifactToken = <<Undefined>>
      /\ Fresh.status = Undefined /\ Fresh.currentRuns = <<>>
  <2>1. PageOf(<<>>, 0, 0)
    BY IdFacts DEF PageOf, PageLength
  <2>2. QED
    BY <2>1 DEF Fresh, ClosureOK
<1>4. /\ opened = 0 /\ DOMAIN closure = 1..MaxOpens /\ \A g \in 1..MaxOpens : closure[g] = Fresh
      /\ requests = {}
  BY DEF Init
<1>5. /\ DomOK(dom) /\ dom.status = Null /\ dom.artifacts = Null /\ dom.full = FALSE
      /\ dom.gen = 0 /\ dom.detailsGen = 0 /\ dom.resultsGen = 0
  BY <1>4 DEF Init, DomOK, RowsOK
<1>6. BrowserOK
  <2>1. OverBefore(Undefined) /\ OverBefore(Null)
    BY IdFacts DEF OverBefore
  <2>2. opened \in 0..MaxOpens
    BY <1>4, BoundsAssumption
  <2>3. QED
    BY <1>3, <1>4, <1>5, <2>1, <2>2 DEF BrowserOK
<1>7. TokensAsShown /\ RowsOfLast /\ CurrentOfLast /\ ResultsOfLast
  <2>1. \A g \in 1..MaxOpens : g # 0
    BY BoundsAssumption
  <2>2. ~Selected(Fresh)
    BY <1>3 DEF Selected
  <2>3. QED
    BY <1>3, <1>4, <1>5, <2>1, <2>2
    DEF TokensAsShown, RowsOfLast, CurrentOfLast, ResultsOfLast
<1>8. QED
  BY <1>2, <1>6, <1>7 DEF IInv, ServiceInv

(* Every step keeps the invariant. *)
LEMMA NextIInv == IInv /\ [Next]_vars => IInv'
<1> SUFFICES ASSUME IInv, [Next]_vars
             PROVE  IInv'
  OBVIOUS
<1>1. CASE Service
  BY <1>1, ServiceKeeps
<1>2. CASE Answer
  BY <1>2, AnsweredKeeps DEF Answer
<1>3. CASE Tick
  BY <1>3, TickKeeps
<1>4. CASE OpenView
  BY <1>4, OpenViewKeeps
<1>5. CASE NextPage
  <2> DEFINE start == closure[opened].resStart + resLimit
             c == [closure[opened] EXCEPT !.resStart = start]
  <2>1. opened > 0 /\ SwitchRunPage(c, start)
    BY <1>5 DEF NextPage
  <2>2. opened \in 1..MaxOpens
    BY <2>1, BoundsAssumption DEF IInv, BrowserOK
  <2>3. closure[opened].resStart \in Nat
    BY <2>2 DEF IInv, BrowserOK, ClosureOK
  <2>4. start \in Nat
    BY <2>3, IdFacts
  <2> HIDE DEF start
  <2>5. QED
    BY <2>1, <2>4, SwitchRunPageKeeps
<1>6. CASE PreviousPage
  <2> DEFINE start == closure[opened].resStart - resLimit
             to == IF start < 0 THEN 0 ELSE start
  <2>1. opened > 0 /\ SwitchRunPage(closure[opened], to)
    BY <1>6 DEF PreviousPage
  <2>2. opened \in 1..MaxOpens
    BY <2>1, BoundsAssumption DEF IInv, BrowserOK
  <2>3. closure[opened].resStart \in Nat
    BY <2>2 DEF IInv, BrowserOK, ClosureOK
  <2>4. to \in Nat
    BY <2>3, IdFacts
  <2> HIDE DEF to
  <2>5. QED
    BY <2>1, <2>4, SwitchRunPageKeeps
<1>7. CASE ClickResult
  BY <1>7, ClickResultKeeps
<1>8. CASE \E i \in 1..resLimit : ClickRun(i)
  BY <1>8, ClickRunKeeps
<1>9. CASE Crash
  BY <1>9, CrashKeeps
<1>10. CASE UNCHANGED vars
  <2>1. /\ UNCHANGED <<opened, closure, dom, disordered>> /\ requests' = requests
        /\ Over' = Over /\ UNCHANGED service
    BY <1>10 DEF vars, service, browser, Over
  <2>2. QED
    BY <2>1, ServiceStays, BrowserKeeps
<1>11. QED
  BY <1>1, <1>2, <1>3, <1>4, <1>5, <1>6, <1>7, <1>8, <1>9, <1>10 DEF Next, User

(* The service's states are those above, and what the browser holds is always well
   formed, whatever is answered, clicked or opened, and in whatever order. *)
LEMMA IInvHolds == Spec => []IInv
<1>1. QED
  BY InitIInv, NextIInv, PTL DEF Spec

(* The artifacts offered are those of the details shown, for any number of runs, pages,
   openings and clicks, and wherever the process ends: until an earlier opening draws
   details where a newer one had drawn them. *)
THEOREM ArtifactsAsShownHolds == Spec => []ArtifactsAsShown
<1>1. IInv => ArtifactsAsShown
  BY DEF IInv, TokensAsShown, ArtifactsAsShown
<1>2. QED
  BY <1>1, IInvHolds, PTL

(* A tick means that the run is over, done or lost with an ended process, for any ids
   and pages, when a run was being executed as the list was drawn, the page's first id
   is not the longer one, and no run was queued before an older one. *)
THEOREM TickMeansOverHolds == Spec => []TickMeansOver
<1>1. ASSUME IInv
      PROVE  TickMeansOver
  <2>1. ASSUME NEW i \in DOMAIN dom.rows, dom.rows[i].icon = "tick", dom.status # Null,
               ~disordered, Digits(dom.rows[1].Id) <= Digits(dom.status)
        PROVE  dom.rows[i].Id \in Over
    <3>1. dom.rows[i].Id \in Ids /\ dom.rows[i].Id < dom.status /\ dom.status \in Ids
      BY <1>1, <2>1 DEF IInv, BrowserOK, DomOK, RowsOK
    <3>2. QED
      BY <1>1, <2>1, <3>1 DEF IInv, BrowserOK, OverBefore
  <2>2. QED
    BY <2>1 DEF TickMeansOver
<1>2. IInv => TickMeansOver
  BY <1>1
<1>3. QED
  BY <1>2, IInvHolds, PTL

(* The rows are those of the page that a click takes the results from, for pages of
   any length, any openings, and answers in any order, except when only a run was
   added since they were drawn, and misdrawn. *)
THEOREM RowsOfPageHolds == Spec => []RowsOfPage
<1>1. ASSUME IInv, dom.gen > 0, ~closure[dom.gen].misdrawn, dom.seen = closure[dom.gen].seen
      PROVE  [i \in DOMAIN dom.rows |-> dom.rows[i].Id]
               = [i \in DOMAIN closure[dom.gen].currentRuns |-> closure[dom.gen].currentRuns[i].Id]
  <2> DEFINE c == closure[dom.gen]
  <2>1. dom.gen \in 1..MaxOpens
    BY <1>1, BoundsAssumption DEF IInv, BrowserOK, DomOK
  <2>2. PageOf(c.currentRuns, c.of, c.seen)
    BY <1>1, <2>1 DEF IInv, BrowserOK, ClosureOK
  <2>3. /\ DOMAIN dom.rows = 1..PageLength(c.of, c.seen)
        /\ \A i \in DOMAIN dom.rows : dom.rows[i].Id = PageId(c.of, c.seen, i)
    BY <1>1, <2>1 DEF IInv, RowsOfLast
  <2>4. /\ DOMAIN dom.rows = DOMAIN c.currentRuns
        /\ \A i \in DOMAIN dom.rows : dom.rows[i].Id = c.currentRuns[i].Id
    BY <2>2, <2>3 DEF PageOf
  <2>5. QED
    BY <2>4
<1>2. IInv => RowsOfPage
  BY <1>1 DEF RowsOfPage
<1>3. QED
  BY <1>2, IInvHolds, PTL

(* The run drawn as executed and the results drawn are those that the last answer told,
   in whichever opening drew them, for any runs, pages and openings, and wherever the
   process ends. *)
THEOREM DrawnAsToldHolds == Spec => []DrawnAsTold
<1>1. ASSUME IInv, dom.gen > 0, NEW i \in DOMAIN dom.rows, dom.rows[i].icon = "wait"
      PROVE  dom.rows[i].Id = closure[dom.gen].status
  <2>1. dom.gen \in 1..MaxOpens
    BY <1>1, BoundsAssumption DEF IInv, BrowserOK, DomOK
  <2>2. QED
    BY <1>1, <2>1 DEF IInv, CurrentOfLast
<1>2. ASSUME IInv, dom.resultsGen > 0, Selected(closure[dom.resultsGen])
      PROVE  dom.results = ResultToken(SelectedRun(closure[dom.resultsGen]))
  <2>1. dom.resultsGen \in 1..MaxOpens
    BY <1>2, BoundsAssumption DEF IInv, BrowserOK, DomOK
  <2>2. QED
    BY <1>2, <2>1 DEF IInv, ResultsOfLast
<1>3. IInv => DrawnAsTold
  BY <1>1, <1>2 DEF DrawnAsTold, Selected, SelectedRun, ResultToken
<1>4. QED
  BY <1>3, IInvHolds, PTL
=============================================================================
