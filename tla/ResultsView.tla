---------------------------- MODULE ResultsView ----------------------------
(* The page of test results (results.js, with divList.js). Every second it asks
   for a page of runs, then for the status of the service, and redraws from both
   answers what it finds changed: the list of runs, the results of the selected
   one, the details and artifacts of the selected result. Every opening of the
   view starts anew with a closure of its own; what it draws on is the document's.
   Answers come in any order. *)
EXTENDS Integers, Sequences, SequencesExt, FiniteSets

CONSTANTS FirstId,     \* id of the first run created here
          MaxRuns,     \* bound: runs created
          resLimit,    \* runs in a page, 10 in the code
          MaxStart,    \* bound: where the last page begins
          MaxOpens,    \* bound: openings of the view
          MaxActs,     \* bound: what the user does, openings included (a next page
                       \* counts as two), and ends of the process
          MaxInFlight, \* bound: requests not answered yet
          MaxBehind    \* bound: those among which the interval makes another

ASSUME BoundsAssumption ==
  /\ {FirstId, resLimit, MaxOpens, MaxInFlight, MaxBehind} \subseteq Nat \ {0}
  /\ {MaxRuns, MaxStart, MaxActs} \subseteq Nat

Powers == {10, 100, 1000, 10000, 100000, 1000000}
ASSUME DigitsAssumption == FirstId + MaxRuns <= 10000000   \* bound: seven digits

Ids == FirstId..(FirstId + MaxRuns - 1)
Null == 0
Undefined == -1

VARIABLES
  \* in the service
  created,    \* how many runs there are
  queue,      \* the worker's queue
  executing,  \* CurrentTestRun
  result,     \* result[r]: of the one test of run r; "none", "running", or "ok"
  done,       \* runs the worker has ended
  lost,       \* runs there were when the process ended, and were not done
  up,         \* whether the process runs
  \* in the browser
  opened,     \* openings so far; the newest closure
  closure,    \* closure[g]: the variables of opening g
  dom,        \* the document
  requests,
  acts,       \* bound
  \* history variables
  disordered  \* a run got into the queue before one with a lower id

service == <<created, queue, executing, result, done, lost, up, disordered>>
browser == <<opened, closure, dom, requests, acts>>
vars == <<service, browser>>

Fresh == [resStart |-> 0, refresh |-> 0, selectedRunIndex |-> Undefined,
          selectedTestKey |-> FALSE, currentRuns |-> <<>>, status |-> Undefined,
          lastStart |-> Undefined, lastCurrentRunId |-> Undefined,
          resultToken |-> <<"null">>, artifactToken |-> <<Undefined>>,
          of |-> 0, seen |-> 0,   \* where currentRuns begin, and how many there were
          misdrawn |-> FALSE]     \* the list was filled with runs of another page, or
                                  \* left empty by an exception

Init ==
  /\ created = 0 /\ queue = <<>> /\ executing = Null
  /\ result = [r \in Ids |-> "none"] /\ done = {} /\ lost = {}
  /\ up = TRUE /\ disordered = FALSE
  /\ opened = 0 /\ closure = [g \in 1..MaxOpens |-> Fresh]
  /\ requests = {} /\ acts = 0
  /\ dom = [rows |-> <<>>, gen |-> 0, status |-> Null, seen |-> 0,
            results |-> <<>>, resultsGen |-> 0,
            details |-> Null, full |-> FALSE, artifacts |-> Null,
            detailsGen |-> 0, overdrawn |-> FALSE]   \* of the details, by an earlier
                                                     \* opening than drew them last

-----------------------------------------------------------------------------
(* The service: what TestInvocation and ResultStore are about, as far as the page
   can see it *)
Created == FirstId..(FirstId + created - 1)
Over == done \union lost

CreateRun ==
  /\ up /\ created < MaxRuns /\ created' = created + 1
  /\ UNCHANGED <<queue, executing, result, done, lost, up, disordered>>

Enqueue(r) ==
  LET outside == Created \ (Over \union ToSet(queue) \union {executing})
  IN /\ r \in outside /\ queue' = Append(queue, r)
     /\ disordered' = (disordered \/ \E s \in outside : s < r)
     /\ UNCHANGED <<created, executing, result, done, lost, up>>

Begin ==
  /\ executing = Null /\ queue # <<>>
  /\ executing' = Head(queue) /\ queue' = Tail(queue)
  /\ UNCHANGED <<created, result, done, lost, up, disordered>>

\* The result is created before the test and is set after it, unless that threw.
Report ==
  /\ executing # Null
  /\ \/ result[executing] = "none" /\ result' = [result EXCEPT ![executing] = "running"]
     \/ result[executing] = "running" /\ result' = [result EXCEPT ![executing] = "ok"]
  /\ UNCHANGED <<created, queue, executing, done, lost, up, disordered>>

Finish ==
  /\ executing # Null
  /\ executing' = Null /\ done' = done \union {executing}
  /\ UNCHANGED <<created, queue, result, lost, up, disordered>>

Worker == Begin \/ Report \/ Finish

\* The queue is in memory, the runs are in the database.
Crash ==
  /\ up /\ up' = FALSE /\ acts < MaxActs /\ acts' = acts + 1
  /\ lost' = lost \union (Created \ done) /\ queue' = <<>> /\ executing' = Null
  /\ requests' = {}
  /\ UNCHANGED <<created, result, done, disordered, opened, closure, dom>>

Restart ==
  /\ ~up /\ up' = TRUE
  /\ UNCHANGED <<created, queue, executing, result, done, lost, disordered>>

GetRuns(start, limit) ==   \* the newest first
  LET last == FirstId + created - 1 - start
  IN [i \in 1..(IF last < FirstId THEN 0 ELSE IF last - FirstId < limit
                THEN last - FirstId + 1 ELSE limit) |->
        [Id |-> last - i + 1, result |-> result[last - i + 1]]]

-----------------------------------------------------------------------------
(* Drawing. The operators take and return a pair of a closure and the document. *)
Digits(id) == 1 + Cardinality({ p \in Powers : p <= id })
\* ids are strings
GreaterEqual(a, b) ==
  CASE Digits(a) = Digits(b) -> a >= b
    [] Digits(a) < Digits(b) -> a > b \div 10^(Digits(b) - Digits(a))
    [] OTHER -> a \div 10^(Digits(a) - Digits(b)) >= b

QueueingAfter(runs, current) ==   \* mutant: > for >=
  current # Null /\ GreaterEqual(runs[1].Id, current) /\ runs[1].Id # current
Queueing(runs, current) == current # Null /\ GreaterEqual(runs[1].Id, current)

\* Newer runs than the one being executed are waiting, older ones are done.
Icon(runs, i, current) ==
  IF Queueing(runs, current) /\ ~\E j \in 1..(i - 1) : runs[j].Id = current
  THEN IF runs[i].Id = current THEN "wait" ELSE "pause"
  ELSE "tick"

ChangedStatus(c) == c.status # c.lastCurrentRunId   \* mutant: not the page
Changed(c) == c.resStart # c.lastStart \/ c.status # c.lastCurrentRunId

\* runs[0].Id is an exception when there are no runs but one is being executed.
Throws(c) == Changed(c) /\ c.status # Null /\ c.currentRuns = <<>>

RefreshRunList(w, g) ==
  LET c == w[1] IN
  IF ~Changed(c) THEN w
  ELSE IF Throws(c) THEN <<[c EXCEPT !.misdrawn = TRUE],
                           [w[2] EXCEPT !.rows = <<>>, !.gen = g]>>
  ELSE << [c EXCEPT !.lastStart = c.resStart, !.lastCurrentRunId = c.status,
                    !.misdrawn = c.resStart # c.of],
          [w[2] EXCEPT !.rows = [i \in DOMAIN c.currentRuns |->
                         [Id |-> c.currentRuns[i].Id,
                          icon |-> Icon(c.currentRuns, i, c.status)]],
                       !.gen = g, !.status = c.status, !.seen = c.seen] >>

\* The list is drawn again only if its token is another one.
ResultTokenOfId(run) ==   \* mutant: no result
  IF run.result = "none" THEN <<>> ELSE <<"running", run.Id>>
ResultToken(run) == IF run.result = "none" THEN <<>> ELSE <<run.result, run.Id>>

RefreshRun(w, run, g) ==
  LET token == ResultToken(run)
  IN << [w[1] EXCEPT !.resultToken = token],
        IF token = w[1].resultToken THEN w[2]
        ELSE [w[2] EXCEPT !.resultsGen = g, !.results =
                IF run.result = "none" THEN <<>> ELSE <<run.result, run.Id>>] >>

TokenOfIndex(run) == IF run.result = "ok" THEN <<0>> ELSE <<>>   \* mutant: no run id
ArtifactToken(run) == IF run.result = "ok" THEN <<run.Id>> ELSE <<>>

RefreshDetails(w, run, g) ==
  LET token == ArtifactToken(run)
      full == run.result = "ok"
      drawn == [w[2] EXCEPT !.details = run.Id, !.full = full, !.detailsGen = g,
                  !.overdrawn = w[2].overdrawn \/ g < w[2].detailsGen]
  IN << [w[1] EXCEPT !.artifactToken = token],
        IF token = w[1].artifactToken THEN drawn
        ELSE [drawn EXCEPT !.artifacts = IF full THEN run.Id ELSE Null] >>

refreshEverything(c, d, g) ==
  LET list == RefreshRunList(<<c, d>>, g)
      i == c.selectedRunIndex
      run == c.currentRuns[i]
      results == RefreshRun(list, run, g)
  IN IF Throws(c) \/ i \notin DOMAIN c.currentRuns THEN list
     ELSE IF c.selectedTestKey /\ run.result # "none" THEN RefreshDetails(results, run, g)
     ELSE results

Refresh(g, c) ==
  LET w == refreshEverything(c, dom, g)
  IN closure' = [closure EXCEPT ![g] = w[1]] /\ dom' = w[2]

-----------------------------------------------------------------------------
(* Requests *)
Request(g, start) ==   \* GetTestResults is served at once: it could be asked later
  /\ Cardinality(requests) < MaxInFlight
  /\ requests' = IF ~up THEN requests
                 ELSE requests \union {[gen |-> g, start |-> start,
                        runs |-> GetRuns(start, resLimit), seen |-> created]}

\* The second answer, which is drawn from at once
Answered(q) ==
  /\ requests' = requests \ {q}
  /\ Refresh(q.gen, [closure[q.gen] EXCEPT !.resStart = q.start, !.currentRuns = q.runs,
                       !.status = executing, !.of = q.start, !.seen = q.seen])
  /\ UNCHANGED <<opened, acts, service>>

Answer == up /\ \E q \in requests : Answered(q)

\* setInterval; the one of the last opening was cleared.
Tick ==
  /\ opened > 0 /\ Cardinality(requests) < MaxBehind
  /\ Request(opened, closure[opened].refresh)
  /\ UNCHANGED <<opened, closure, dom, acts, service>>

-----------------------------------------------------------------------------
(* The user *)
OpenView ==
  /\ opened < MaxOpens /\ opened' = opened + 1
  /\ Request(opened', 0)
  /\ UNCHANGED <<closure, dom, service>>

SwitchRunPage(c, start) ==
  /\ opened > 0 /\ Request(opened, start)
  /\ closure' = [closure EXCEPT ![opened] = [c EXCEPT !.refresh = start]]
  /\ UNCHANGED <<opened, dom, service>>

\* resStart is changed before the answer comes.
NextPage ==
  LET start == closure[opened].resStart + resLimit
  IN /\ opened > 0 /\ start <= MaxStart
     /\ SwitchRunPage([closure[opened] EXCEPT !.resStart = start], start)

PreviousPage ==
  LET start == closure[opened].resStart - resLimit
  IN opened > 0 /\ SwitchRunPage(closure[opened], IF start < 0 THEN 0 ELSE start)

ClickRun(i) ==
  /\ i \in DOMAIN dom.rows
  /\ Refresh(dom.gen, [closure[dom.gen] EXCEPT !.selectedRunIndex = i])
  /\ UNCHANGED <<opened, requests, service>>

ClickResult ==
  /\ dom.results # <<>>
  /\ Refresh(dom.resultsGen, [closure[dom.resultsGen] EXCEPT !.selectedTestKey = TRUE])
  /\ UNCHANGED <<opened, requests, service>>

-----------------------------------------------------------------------------
User ==
  \/ /\ acts < MaxActs /\ acts' = acts + 1
     /\ \/ OpenView \/ PreviousPage \/ ClickResult
        \/ \E i \in 1..resLimit : ClickRun(i)
  \/ acts + 1 < MaxActs /\ acts' = acts + 2 /\ NextPage

Service == (CreateRun \/ Worker \/ Restart \/ \E r \in Ids : Enqueue(r))
           /\ UNCHANGED browser

Next ==
  \/ Service \/ Crash \/ Answer \/ Tick \/ User

Spec == Init /\ [][Next]_vars

-----------------------------------------------------------------------------
(* The artifacts that can be downloaded are those of the result whose details are
   shown, however runs and results are selected while they change, and whichever
   openings draw: except after an earlier opening drew details where a newer one had
   drawn them, in which case the code leaves the artifacts of the one run under the
   details of the other (each opening compares with what it drew itself). *)
ArtifactsAsShown ==
  ~dom.overdrawn => dom.artifacts = IF dom.full THEN dom.details ELSE Null

(* A tick says that the run is not waiting and not being executed, which the page
   infers from the run's place in the list: it is done, or was lost with a process
   that ended before it was done, which the page cannot tell. Provided that one was
   being executed when the list was drawn, that the first id has no more digits than
   that one's, and that no run got into the queue before one with a lower id. *)
TickMeansOver ==
  \A i \in DOMAIN dom.rows :
    LET r == dom.rows[i]
    IN r.icon = "tick" /\ dom.status # Null /\ ~disordered
       /\ Digits(dom.rows[1].Id) <= Digits(dom.status) => r.Id \in Over

(* The rows are those of the page that a click on one takes the run from, in the
   opening that drew them, so that it shows the run it was made on. Except when only
   a run was added, as the list is not drawn again then (seen); and misdrawn: after a
   click before the next page has come, which draws the old page as the new one, and
   after a page without runs while one is executed, which is an exception. *)
RowsOfPage ==
  dom.gen > 0 =>
    LET c == closure[dom.gen]
    IN ~c.misdrawn /\ dom.seen = c.seen =>
         [i \in DOMAIN dom.rows |-> dom.rows[i].Id]
           = [i \in DOMAIN c.currentRuns |-> c.currentRuns[i].Id]

(* Neither a run that has ended nor a test that has a result stays drawn as going on
   once that was told: the run drawn as executed, and the list of results, are what
   the last answer told to the opening that drew them, of the run selected by then,
   although each is drawn again only when that opening finds something changed.
   (When an earlier opening drew them last, the newest, which alone goes on asking,
   leaves them until it finds a change of its own. A page without a run at the selected
   place leaves the results as they were. A test that never gets a result, as it threw
   or as the process ended, stays drawn as running, and answers go on telling it.) *)
DrawnAsTold ==
  /\ dom.gen > 0 =>
       \A i \in DOMAIN dom.rows :
         dom.rows[i].icon = "wait" => dom.rows[i].Id = closure[dom.gen].status
  /\ dom.resultsGen > 0 =>
       LET c == closure[dom.resultsGen]
           run == c.currentRuns[c.selectedRunIndex]
       IN c.selectedRunIndex \in DOMAIN c.currentRuns =>
            dom.results = IF run.result = "none" THEN <<>> ELSE <<run.result, run.Id>>
=============================================================================
