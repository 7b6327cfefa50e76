--------------------------- MODULE TestInvocation ---------------------------
(* The run queue and its worker thread (TestVisorService/Impl/
   TestInvocationManager.cs), with the callers that enqueue, the web threads
   that save and delete test plans while the worker reads them
   (TestPlanRepository over RedisTestRepository), and the end and restart of
   the process. What executing a plan does to the virtual machines and the
   results is the subject of other modules. *)
EXTENDS Naturals, Sequences, SequencesExt

CONSTANTS Callers,       \* threads that call EnqueueTestPlan
          Plans,         \* ids of test plans
          NoPlan,        \* null in SystemStatus.CurrentTestPlan
          HangingPlans,  \* plans whose script never returns
          MaxRuns,       \* bound: runs created
          MaxCrashes     \* bound: ends of the process from outside

ASSUME BoundsAssumption == MaxRuns \in Nat /\ MaxCrashes \in Nat
ASSUME PlansAssumption == NoPlan \notin Plans /\ HangingPlans \subseteq Plans

Runs == 1..MaxRuns
NoRun == 0

VARIABLES
  up,        \* the process is running
  crashes,   \* how often it was ended from outside
  lastRun,   \* Redis' RunIdCounter
  planOf,    \* the plan a run was created for
  issued,    \* issued[c]: run c has created and not yet put in the queue
  queue,     \* the list of delegates
  pc,        \* where the worker is
  job,       \* run of the delegate the worker has taken, or NoRun
  stat,      \* the delegate's own SystemStatus
  status,    \* CurrentSystemStatus, the copy that readers get
  code,      \* testPlanCode: "none", "whole" or "torn"
  indexed,   \* plans in the repository's index
  file,      \* what is on disk under the name the index gives
  editing,   \* editing[p]: how far the web threads changing p have come
  \* history
  returned,  \* runs whose EnqueueTestPlan has returned
  before,    \* before[r]: the runs in "returned" when r was created
  began,     \* runs in the order the worker took them
  finished,  \* runs whose delegate returned
  lost       \* runs in memory when the process went down

persistent == <<lastRun, planOf>>
queueVars == <<issued, queue, returned, before>>
workerVars == <<pc, job, stat, status, code, began, finished>>
planVars == <<indexed, file, editing>>
processVars == <<up, crashes, lost>>
vars == <<processVars, persistent, queueVars, workerVars, planVars>>

Micro == {"null", "Initializing Test Plan", "Running Test Plan",
          "Cleaning Up Snapshots"}
SystemStatus == [plan : Plans \union {NoPlan},
                 run : Runs \union {NoRun},
                 micro : Micro]
IdleStatus == [plan |-> NoPlan, run |-> NoRun, micro |-> "null"]

Init ==
  /\ up = TRUE /\ crashes = 0 /\ lost = {}
  /\ lastRun = 0 /\ planOf = [r \in Runs |-> NoPlan]
  /\ issued = [c \in Callers |-> NoRun]
  /\ queue = <<>> /\ returned = {} /\ before = [r \in Runs |-> {}]
  /\ pc = "waiting" /\ job = NoRun /\ code = "none"
  /\ stat = IdleStatus /\ status = IdleStatus
  /\ began = <<>> /\ finished = {}
  /\ indexed = Plans /\ file = [p \in Plans |-> "saved"]
  /\ editing = [p \in Plans |-> {}]

-----------------------------------------------------------------------------
(* EnqueueTestPlan: the run gets its id before the lock on the queue is
   taken, so two callers can enter the queue against the order of the ids. *)
NewRunTwice == lastRun + 2   \* mutant: the counter incremented once more
NewRun == lastRun + 1

CreateRun(c, p) ==
  /\ up
  /\ issued[c] = NoRun
  /\ lastRun < MaxRuns
  /\ lastRun' = NewRun
  /\ planOf' = [planOf EXCEPT ![lastRun'] = p]
  /\ issued' = [issued EXCEPT ![c] = lastRun']
  /\ before' = [before EXCEPT ![lastRun'] = returned]
  /\ UNCHANGED <<queue, returned, workerVars, planVars, processVars>>

PutFirst(r) == <<r>> \o queue   \* mutant: the wrong end of the list
PutOver(r) == <<r>>             \* mutant: an Add without the lock, overwriting
Put(r) == Append(queue, r)

Enqueue(c) ==
  /\ up
  /\ issued[c] # NoRun
  /\ queue' = Put(issued[c])
  /\ returned' = returned \union {issued[c]}
  /\ issued' = [issued EXCEPT ![c] = NoRun]
  /\ UNCHANGED <<before, persistent, workerVars, planVars, processVars>>

-----------------------------------------------------------------------------
(* The process ends: an exception nothing catches on the worker thread, or
   from outside. What is in memory goes with it; a file being written stays
   as far as it got. *)
Held == {issued[c] : c \in Callers} \ {NoRun}
Queued == ToSet(queue)
InHand == {job} \ {NoRun}
InMemory == Held \union Queued \union InHand

GoDown ==
  /\ up' = FALSE
  /\ lost' = lost \union InMemory
  /\ issued' = [c \in Callers |-> NoRun] /\ queue' = <<>>
  /\ pc' = "waiting" /\ job' = NoRun /\ code' = "none"
  /\ stat' = IdleStatus /\ status' = IdleStatus
  /\ file' = [p \in Plans |-> IF file[p] = "writing" THEN "torn" ELSE file[p]]
  /\ editing' = [p \in Plans |-> {}]
  /\ UNCHANGED <<persistent, returned, before, began, finished, indexed>>

Crash ==
  /\ up
  /\ crashes < MaxCrashes
  /\ crashes' = crashes + 1
  /\ GoDown

\* A start of the service: CheckIndex drops the entries that have no file.
Restart ==
  /\ ~up
  /\ up' = TRUE
  /\ indexed' = {p \in indexed : file[p] # "missing"}
  /\ UNCHANGED <<crashes, lost, persistent, queueVars, workerVars, file,
                 editing>>

-----------------------------------------------------------------------------
(* The worker thread. *)
At(l) == up /\ pc = l
UpdateStatus(s) == status' = s

\* WaitForAction
Rest == Tail(queue)

Dequeue ==
  /\ At("waiting")
  /\ queue # <<>>
  /\ job' = Head(queue) /\ queue' = Rest
  /\ began' = Append(began, Head(queue))
  /\ pc' = "dequeued"
  /\ UNCHANGED <<stat, status, code, finished, issued, returned, before,
                 persistent, planVars, processVars>>

BeginRun ==
  /\ At("dequeued")
  /\ stat' = [plan |-> planOf[job], run |-> job,
              micro |-> "Initializing Test Plan"]
  /\ UpdateStatus(stat')
  /\ pc' = "lookup"
  /\ UNCHANGED <<job, code, began, finished, queueVars, persistent, planVars,
                 processVars>>

\* ReadTestPlan finds the file's name in the index ...
LookupPlan ==
  /\ At("lookup")
  /\ planOf[job] \in indexed
  /\ pc' = "opening"
  /\ UNCHANGED <<job, stat, status, code, began, finished, queueVars,
                 persistent, planVars, processVars>>

\* ... then opens it, which needs a file that nobody is writing.
ReadableShared == {"saved", "torn", "writing"}   \* mutant: writer shares its file
Readable == {"saved", "torn"}

OpenPlan ==
  /\ At("opening")
  /\ file[planOf[job]] \in Readable
  /\ code' = IF file[planOf[job]] = "saved" THEN "whole" ELSE "torn"
  /\ pc' = "loaded"
  /\ UNCHANGED <<job, stat, status, began, finished, queueVars, persistent,
                 planVars, processVars>>

StartScript ==
  /\ At("loaded")
  /\ stat' = [stat EXCEPT !.micro = "Running Test Plan"]
  /\ UpdateStatus(stat')
  /\ pc' = "running"
  /\ UNCHANGED <<job, code, began, finished, queueVars, persistent, planVars,
                 processVars>>

\* Execute returns, or throws an exception that is printed.
EndScript ==
  /\ At("running")
  /\ planOf[job] \notin HangingPlans
  /\ stat' = [stat EXCEPT !.micro = "Cleaning Up Snapshots"]
  /\ UpdateStatus(stat')
  /\ pc' = "cleaning"
  /\ UNCHANGED <<job, code, began, finished, queueVars, persistent, planVars,
                 processVars>>

CleanUp ==
  /\ At("cleaning")
  /\ pc' = "clearing"
  /\ UNCHANGED <<job, stat, status, code, began, finished, queueVars,
                 persistent, planVars, processVars>>

\* The delegate's own status is reset a field at a time. What is published is
\* a clone, so it does not follow.
SeenAliased(s) == s   \* mutant: UpdateStatus without Clone
SeenAfterChange(s) == status

ClearField ==
  /\ At("clearing")
  /\ stat # IdleStatus
  /\ stat' = IF stat.plan # NoPlan THEN [stat EXCEPT !.plan = NoPlan]
             ELSE IF stat.run # NoRun THEN [stat EXCEPT !.run = NoRun]
             ELSE IdleStatus
  /\ status' = SeenAfterChange(stat')
  /\ UNCHANGED <<pc, job, code, began, finished, queueVars,
                 persistent, planVars, processVars>>

EndRun ==
  /\ At("clearing")
  /\ stat = IdleStatus
  /\ UpdateStatus(stat)
  /\ finished' = finished \union {job}
  /\ job' = NoRun /\ code' = "none"
  /\ pc' = "waiting"
  /\ UNCHANGED <<stat, began, queueVars, persistent, planVars, processVars>>

(* What throws outside the try block: a plan that is not in the index or whose
   file is missing or being written, the runner's constructor, CleanUp (which
   Dispose then calls again while the exception is on its way). *)
UncaughtSilent == FALSE   \* mutant: the exception ends the thread unnoticed
Uncaught ==
  \/ pc = "lookup" /\ planOf[job] \notin indexed
  \/ pc = "opening" /\ file[planOf[job]] \notin Readable
  \/ pc \in {"loaded", "cleaning"}

WorkerDies == up /\ Uncaught /\ GoDown /\ UNCHANGED crashes

-----------------------------------------------------------------------------
(* SetSource and Delete, from the web threads; one of each per plan at a time. *)
EmptyForWrite(p) ==
  /\ up
  /\ p \in indexed
  /\ editing[p] \intersect {"emptied", "writing"} = {}
  /\ file' = [file EXCEPT ![p] = "missing"]
  /\ editing' = [editing EXCEPT ![p] = @ \union {"emptied"}]
  /\ UNCHANGED <<indexed, queueVars, persistent, workerVars, processVars>>

OpenForWrite(p) ==
  /\ up
  /\ "emptied" \in editing[p]
  /\ file' = [file EXCEPT ![p] = "writing"]
  /\ editing' = [editing EXCEPT ![p] = (@ \ {"emptied"}) \union {"writing"}]
  /\ UNCHANGED <<indexed, queueVars, persistent, workerVars, processVars>>

\* A file deleted under its writer stays deleted.
CloseWritten(p) ==
  /\ up
  /\ "writing" \in editing[p]
  /\ file' = [file EXCEPT ![p] = IF @ = "writing" THEN "saved" ELSE @]
  /\ editing' = [editing EXCEPT ![p] = @ \ {"writing"}]
  /\ UNCHANGED <<indexed, queueVars, persistent, workerVars, processVars>>

UnindexPlan(p) ==
  /\ up
  /\ p \in indexed
  /\ indexed' = indexed \ {p}
  /\ editing' = [editing EXCEPT ![p] = @ \union {"deleting"}]
  /\ UNCHANGED <<file, queueVars, persistent, workerVars, processVars>>

DeletePlanFile(p) ==
  /\ up
  /\ "deleting" \in editing[p]
  /\ file' = [file EXCEPT ![p] = "missing"]
  /\ editing' = [editing EXCEPT ![p] = @ \ {"deleting"}]
  /\ UNCHANGED <<indexed, queueVars, persistent, workerVars, processVars>>

-----------------------------------------------------------------------------
Worker == \/ Dequeue \/ BeginRun \/ LookupPlan \/ OpenPlan \/ StartScript
          \/ EndScript \/ CleanUp \/ ClearField \/ EndRun

Editor == \E p \in Plans :
            \/ EmptyForWrite(p) \/ OpenForWrite(p) \/ CloseWritten(p)
            \/ UnindexPlan(p) \/ DeletePlanFile(p)

Next ==
  \/ \E c \in Callers : (\E p \in Plans : CreateRun(c, p)) \/ Enqueue(c)
  \/ Worker \/ WorkerDies
  \/ Editor
  \/ Crash \/ Restart

Spec == Init /\ [][Next]_vars

(* The worker is a thread the scheduler runs; a caller inside EnqueueTestPlan
   only takes a lock nobody keeps. Nothing says a user saves again, that the
   process is restarted or that it goes down, save that a throwing worker
   takes it down. *)
FairSpec ==
  /\ Spec
  /\ WF_vars(Worker \/ WorkerDies)
  /\ \A c \in Callers : WF_vars(Enqueue(c))

-----------------------------------------------------------------------------
(* The types; ids are given out without gaps, each for a plan, and the worker has
   a run in hand exactly when it is not waiting. *)
TypeOK ==
  /\ up \in BOOLEAN /\ crashes \in Nat /\ lost \subseteq Runs
  /\ lastRun \in 0..MaxRuns /\ planOf \in [Runs -> Plans \union {NoPlan}]
  /\ \A r \in Runs : r > lastRun <=> planOf[r] = NoPlan
  /\ issued \in [Callers -> Runs \union {NoRun}]
  /\ queue \in Seq(Runs) /\ returned \subseteq Runs
  /\ before \in [Runs -> SUBSET Runs]
  /\ pc \in {"waiting", "dequeued", "lookup", "opening", "loaded", "running",
             "cleaning", "clearing"}
  /\ job \in IF pc = "waiting" THEN {NoRun} ELSE Runs
  /\ code \in {"none", "whole", "torn"}
  /\ stat \in SystemStatus /\ status \in SystemStatus
  /\ began \in Seq(Runs) /\ finished \subseteq Runs
  /\ indexed \subseteq Plans
  /\ file \in [Plans -> {"saved", "torn", "missing", "writing"}]
  /\ editing \in [Plans -> SUBSET {"emptied", "writing", "deleting"}]

(* Runs begin in the order their calls were made: a run whose EnqueueTestPlan
   had returned before another run was even created begins before it. (Calls
   that overlap may go either way: the id is taken outside the lock.) *)
CallOrder ==
  \A i, j \in DOMAIN began : began[i] \in before[began[j]] => i < j

(* No run executes twice, across restarts too. *)
AtMostOnce == IsInjective(began)

(* Every run that was created is in exactly one place: held by its caller,
   queued, executing, finished, or lost with a process that went down. A run
   is never dropped or duplicated between the threads. *)
Accounted ==
  /\ 1..lastRun = Held \union Queued \union InHand \union finished \union lost
  /\ Held \intersect (Queued \union InHand \union finished \union lost) = {}
  /\ Queued \intersect (InHand \union finished \union lost) = {}
  /\ InHand \intersect (finished \union lost) = {}
  /\ finished \intersect lost = {}
  /\ IsInjective(queue)
  /\ \A c, d \in Callers : issued[c] = issued[d] => c = d \/ issued[c] = NoRun

(* What GetCurrentStatus returns is never a mixture: it names the run the
   worker has in hand together with that run's plan, or nothing at all. The
   comment on UpdateStatus calls it atomic; the copy it stores is what makes
   it so, since the delegate goes on changing its own. *)
StatusNamesJob ==
  \/ status = IdleStatus /\ pc \in {"waiting", "dequeued"}
  \/ /\ job # NoRun /\ pc \notin {"waiting", "dequeued"}
     /\ status.run = job /\ status.plan = planOf[job]
     /\ status.micro # "null"

(* The worker executes the source of a complete save, or one cut short by an
   end of the process, never one that a web thread is in the middle of. *)
WholeSource ==
  code = "torn" => crashes > 0 \/ lost # {}

(* A client that saw run r as the current run and then sees anything else
   knows that r is over, finished or lost; r is never shown again. *)
StatusEndsWithRun ==
  [][\A r \in Runs : status.run = r /\ status'.run # r =>
        status' = IdleStatus /\ r \in finished' \union lost']_vars

(* Every run that was put in the queue is finished or lost with the process in
   the end, unless a script that never returns has the worker. *)
Stuck == up /\ pc = "running" /\ planOf[job] \in HangingPlans
EveryRunServed ==
  \A r \in Runs :
    (\E c \in Callers : issued[c] = r) ~> (r \in finished \union lost \/ Stuck)

(* The list, its lock and the worker implement RunService. *)
Service ==
  INSTANCE RunService WITH
    asked <- Held,
    answered <- returned, earlier <- before, waiting <- Queued,
    serving <- job, done <- finished, gone <- lost
ServiceSpec == Service!Spec
=============================================================================
