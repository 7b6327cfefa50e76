----------------------------- MODULE RunService -----------------------------
(* What TestVisor promises about test runs, without saying how: a caller asks
   for a run and gets its id back, one run executes at a time, a run begins
   only when no run whose request had been answered before its own request is
   still waiting, and every run that was asked for is finished, lost with the
   process, or still somewhere in the service. TestInvocation implements it
   with a list under a lock and one worker thread. *)
EXTENDS Naturals

CONSTANT Runs,   \* ids of runs
         NoRun   \* serving no run

VARIABLES asked,     \* requested, the call that asks has not returned
          answered,  \* runs whose call has returned
          earlier,   \* earlier[r]: the runs already answered when r was asked
          waiting,   \* accepted, not begun
          serving,   \* the run being executed, or NoRun
          done,      \* executed to the end
          gone       \* lost when the process went down

rvars == <<asked, answered, earlier, waiting, serving, done, gone>>

Known == asked \union waiting \union done \union gone \union {serving}

Init ==
  /\ asked = {} /\ answered = {} /\ waiting = {} /\ done = {} /\ gone = {}
  /\ earlier = [r \in Runs |-> {}]
  /\ serving = NoRun

Ask(r) ==
  /\ r \notin Known
  /\ asked' = asked \union {r}
  /\ earlier' = [earlier EXCEPT ![r] = answered]
  /\ UNCHANGED <<answered, waiting, serving, done, gone>>

Answer(r) ==
  /\ r \in asked
  /\ asked' = asked \ {r}
  /\ answered' = answered \union {r}
  /\ waiting' = waiting \union {r}
  /\ UNCHANGED <<earlier, serving, done, gone>>

Serve(r) ==
  /\ serving = NoRun
  /\ r \in waiting
  /\ earlier[r] \intersect waiting = {}
  /\ waiting' = waiting \ {r}
  /\ serving' = r
  /\ UNCHANGED <<asked, answered, earlier, done, gone>>

Complete ==
  /\ serving # NoRun
  /\ done' = done \union {serving}
  /\ serving' = NoRun
  /\ UNCHANGED <<asked, answered, earlier, waiting, gone>>

GoDown ==
  /\ gone' = gone \union asked \union waiting \union ({serving} \ {NoRun})
  /\ asked' = {} /\ waiting' = {} /\ serving' = NoRun
  /\ UNCHANGED <<answered, earlier, done>>

Next ==
  \/ \E r \in Runs : Ask(r) \/ Answer(r) \/ Serve(r)
  \/ Complete
  \/ GoDown

Spec == Init /\ [][Next]_rvars
=============================================================================
