----------------------------- MODULE PlanRunner -----------------------------
(* What executing test plans does to the virtual machines: the calls a script
   makes through JSTestRunner, CallableTest and SnapshotFunction (VMTestLib/JS),
   VirtualboxMachine and SnapshotManager below them (VMLib/VM/Virtualbox), and
   the standalone tests that run beside the worker on threads of their own
   (TestVisorService/Impl/TestPlans.cs). The hypervisor is external: a machine
   is on or off, has a disk and snapshots of it, and one running machine at a
   time has the host port through which every agent is reached. *)
EXTENDS Naturals, Sequences

CONSTANTS Machines,
          NoMachine,
          Reverting,   \* machines that have a snapshot named TEST_INIT
          Standalone,  \* machines used by standalone tests (empty: none run)
          Testers,     \* the threads of standalone tests
          MaxRuns,     \* bound: plans executed
          MaxCalls,    \* bound: calls a script makes
          MaxUpsets    \* bound: standalone tests, and VBoxManage commands that
                       \* fail, together

ASSUME MachinesAssumption == NoMachine \notin Machines /\ Reverting \subseteq Machines
                             /\ Standalone \subseteq Reverting
ASSUME TestersAssumption == "worker" \notin Testers /\ "nobody" \notin Testers
ASSUME BoundsAssumption == {MaxRuns, MaxCalls, MaxUpsets} \subseteq Nat

Threads == {"worker"} \union Testers
Solo == 0                      \* the mark of standalone tests on a disk
InitSnapshot == 0
Nobody == "nobody"

VARIABLES
  \* the hypervisor
  power,      \* machines that are on
  disk,       \* disk[m]: the runs whose tests wrote to it
  snapshots,  \* snapshots[m]: contents of its snapshots, by id
  port,       \* the machine that has host port 9002, or NoMachine
  faults,     \* commands that have failed
  faultRun,   \* run during which the last one failed
  \* the program
  listed,     \* SnapshotManager's dictionary: ids it knows of each machine
  driverLock, \* lock(driver): a thread, or Nobody
  thread,     \* thread[t]: where it is, on which machine, with which snapshot
  run,        \* runs begun
  calls,      \* calls the present script has made
  used,       \* usedMachines
  taken,      \* snapshots behind CleanupSnapshots, newest first
  todo,       \* used machines CleanUp has not come to
  solos,      \* standalone tests begun
  missed,     \* history: threads whose present Start had its check or shutdown fail
  blind       \* history: machines whose snapshot list once failed to load

hypervisor == <<power, disk, snapshots, port, faults, faultRun>>
scriptVars == <<run, calls, used, taken, todo>>
listVars == <<listed, blind>>
lockVars == <<driverLock, missed>>
vars == <<hypervisor, listVars, lockVars, thread, scriptVars, solos>>

Idle == [pc |-> "idle", m |-> NoMachine, snap |-> InitSnapshot, next |-> "idle"]

\* TEST_INIT, the machine as its owner prepared it
OwnSnapshots(m) == [i \in (IF m \in Reverting THEN {InitSnapshot} ELSE {}) |-> {}]

Init ==
  /\ power = {} /\ port = NoMachine /\ faults = 0 /\ faultRun = 0
  /\ disk = [m \in Machines |-> {}]
  /\ snapshots = [m \in Machines |-> OwnSnapshots(m)]
  /\ listed = [m \in Machines |-> DOMAIN snapshots[m]] /\ blind = {} /\ solos = 0
  /\ driverLock = Nobody /\ missed = {} /\ thread = [t \in Threads |-> Idle]
  /\ run = 0 /\ calls = 0 /\ used = {} /\ taken = <<>> /\ todo = {}

Goto(t, pc) == thread' = [thread EXCEPT ![t].pc = pc]

\* VBoxManage: a command that fails has no effect, and nobody looks.
Succeeds == UNCHANGED <<faults, faultRun>>
Fails ==
  /\ faults + solos < MaxUpsets
  /\ faults' = faults + 1 /\ faultRun' = run

-----------------------------------------------------------------------------
(* VirtualboxMachine.Start, the same for both threads. *)
Unlocked == TRUE   \* mutant: Start without lock(driver)
LockFree == driverLock = Nobody

\* When "list runningvms" fails the machine is taken to be off.
EnterStart(t) ==
  /\ thread[t].pc = "start"
  /\ LockFree
  /\ driverLock' = t
  /\ \/ /\ Succeeds /\ missed' = missed \ {t}
        /\ Goto(t, IF thread[t].m \in power THEN "off" ELSE "restore")
     \/ Fails /\ missed' = missed \union {t} /\ Goto(t, "restore")
  /\ UNCHANGED <<power, disk, snapshots, port, listVars, solos, scriptVars>>

PowerOff(m) ==
  \/ /\ Succeeds
     /\ power' = power \ {m}
     /\ port' = IF port = m THEN NoMachine ELSE port
     /\ UNCHANGED <<disk, snapshots>>
  \/ Fails /\ UNCHANGED <<power, port, disk, snapshots>>

StopFirst(t) ==
  /\ thread[t].pc = "off"
  /\ PowerOff(thread[t].m)
  /\ missed' = IF Succeeds THEN missed ELSE missed \union {t}
  /\ Goto(t, "restore")
  /\ UNCHANGED <<listVars, solos, driverLock, scriptVars>>

\* A machine that is on, or has no such snapshot, cannot be restored.
AsItIs(m, s) == disk[m]   \* mutant: the machine is started without a restore
Restored(m, s) == snapshots[m][s]

RestoreSnapshot(t) ==
  LET m == thread[t].m
      s == thread[t].snap
      works == m \notin power /\ s \in DOMAIN snapshots[m]
  IN /\ thread[t].pc = "restore"
     /\ \/ /\ Succeeds
           /\ disk' = IF works THEN [disk EXCEPT ![m] = Restored(m, s)] ELSE disk
        \/ Fails /\ UNCHANGED disk
     /\ Goto(t, "boot")
     /\ UNCHANGED <<power, snapshots, port, listVars, solos, lockVars, scriptVars>>

\* The host port goes to the first machine that asks for it while it is free.
Boot(t) ==
  LET m == thread[t].m
  IN /\ thread[t].pc = "boot"
     /\ \/ /\ Succeeds
           /\ power' = power \union {m}
           /\ port' = IF port = NoMachine /\ m \notin power THEN m ELSE port
        \/ Fails /\ UNCHANGED <<power, port>>
     /\ driverLock' = Nobody /\ UNCHANGED missed
     /\ Goto(t, thread[t].next)
     /\ UNCHANGED <<disk, snapshots, listVars, solos, scriptVars>>

-----------------------------------------------------------------------------
(* The worker: a plan is a script that calls tests, Snapshot() and Restore()
   in any order, and ends or throws. *)
worker == thread["worker"]
Ready == worker.pc = "ready"

BeginRun ==
  /\ worker.pc = "idle"
  /\ run < MaxRuns
  /\ run' = run + 1 /\ calls' = 0 /\ used' = {} /\ taken' = <<>>
  /\ Goto("worker", "ready")
  /\ UNCHANGED <<hypervisor, listVars, solos, lockVars, todo>>

\* PossiblyInitializeMachine, on the way to "next"
NeedsRevert(m) == m \notin used /\ InitSnapshot \in listed[m]
Prepare(m, next) ==
  /\ Ready
  /\ calls < MaxCalls
  /\ calls' = calls + 1
  /\ used' = used \union {m}
  /\ thread' = [thread EXCEPT !["worker"] =
       [pc |-> IF NeedsRevert(m) THEN "start" ELSE next,
        m |-> m, snap |-> InitSnapshot, next |-> next]]
  /\ UNCHANGED <<hypervisor, listVars, solos, lockVars, run, taken, todo>>

CallTest(m) == Prepare(m, "test")
CallSnapshot(m) == Prepare(m, "snapshot")

\* What a test writes goes to the machine that answers on the port, if any.
TestOn(mark) ==
  disk' = IF port = NoMachine THEN disk ELSE [disk EXCEPT ![port] = @ \union {mark}]

RunTest ==
  /\ worker.pc = "test"
  /\ TestOn(run)
  /\ Goto("worker", "ready")
  /\ UNCHANGED <<power, snapshots, port, faults, faultRun, listVars, solos,
                 lockVars, scriptVars>>

(* LoadSnapshots empties the dictionary before it runs "snapshot list"; when
   that fails the dictionary stays empty. *)
Reload(m) ==
  /\ listed' = [listed EXCEPT ![m] = DOMAIN snapshots'[m]]
  /\ UNCHANGED blind
ReloadFails(m) ==
  /\ listed' = [listed EXCEPT ![m] = {}]
  /\ blind' = blind \union {m}

(* MakeSnapshot throws when the new snapshot is not in the dictionary: it could
   not be taken, or the list could not be read, and then it is not chained. *)
Untracked(m, s) == taken   \* mutant: the snapshot is not chained for cleanup
Track(m, s) == <<[m |-> m, snap |-> s]>> \o taken
WithSnapshot(m, s) ==
  [snapshots EXCEPT ![m] =
     [i \in DOMAIN @ \union {s} |-> IF i = s THEN disk[m] ELSE @[i]]]

\* An exception of a call ends the script; the run catches it and cleans up.
Uncaught == "idle"   \* mutant: the clean-up is skipped when the script throws
AfterThrow == "ending"

TakeSnapshot ==
  LET m == worker.m
      s == (run - 1) * MaxCalls + calls
  IN /\ worker.pc = "snapshot"
     /\ \/ /\ Succeeds
           /\ snapshots' = WithSnapshot(m, s)
           /\ Reload(m)
           /\ taken' = Track(m, s)
           /\ Goto("worker", "ready")
        \/ /\ Fails
           /\ \/ snapshots' = snapshots /\ Reload(m)
              \/ snapshots' = WithSnapshot(m, s) /\ ReloadFails(m)
           /\ Goto("worker", AfterThrow) /\ UNCHANGED taken
     /\ UNCHANGED <<power, disk, port, lockVars, run, calls, used, todo, solos>>

CallRestore(i) ==
  /\ Ready
  /\ calls < MaxCalls
  /\ i \in DOMAIN taken
  /\ calls' = calls + 1
  /\ thread' = [thread EXCEPT !["worker"] =
       [pc |-> "start", m |-> taken[i].m, snap |-> taken[i].snap, next |-> "ready"]]
  /\ UNCHANGED <<hypervisor, listVars, solos, lockVars, run, used, taken, todo>>

\* The script ends, or throws between calls or from inside a test.
EndScript ==
  /\ worker.pc \in {"ready", "test"}
  /\ Goto("worker", "ending") \/ Goto("worker", AfterThrow)
  /\ UNCHANGED <<hypervisor, listVars, solos, lockVars, scriptVars>>

-----------------------------------------------------------------------------
(* JSTestRunner.CleanUp: every used machine in turn is reverted, ALL snapshots
   the plan took are deleted, and the machine is shut down. *)
StartCleanUp ==
  /\ worker.pc = "ending"
  /\ todo' = used
  /\ Goto("worker", "cleaning")
  /\ UNCHANGED <<hypervisor, listVars, solos, lockVars, run, calls, used, taken>>

CleanNext(m) ==
  /\ worker.pc = "cleaning"
  /\ m \in todo
  /\ todo' = todo \ {m}
  /\ thread' = [thread EXCEPT !["worker"] =
       [pc |-> IF InitSnapshot \in listed[m] THEN "start" ELSE "drop",
        m |-> m, snap |-> InitSnapshot, next |-> "drop"]]
  /\ UNCHANGED <<hypervisor, listVars, solos, lockVars, run, calls, used, taken>>

TakenOn(m) == {taken[i].snap : i \in {j \in DOMAIN taken : taken[j].m = m}}

Drop(keep) ==
  snapshots' = [m \in Machines |->
    [i \in DOMAIN snapshots[m] \ (TakenOn(m) \ keep) |-> snapshots[m][i]]]

\* Each deletion is followed by a LoadSnapshots of its machine.
DropSnapshots ==
  LET touched == {taken[i].m : i \in DOMAIN taken}
      reloaded == [m \in Machines |-> IF m \in touched THEN DOMAIN snapshots'[m]
                                                       ELSE listed[m]]
  IN /\ worker.pc = "drop"
     /\ taken = <<>> \/ LockFree
     /\ \/ Succeeds /\ Drop({}) /\ listed' = reloaded /\ UNCHANGED blind
        \/ /\ Fails
           /\ \/ /\ \E i \in DOMAIN taken : Drop({taken[i].snap})
                 /\ listed' = reloaded /\ UNCHANGED blind
              \/ \E m \in touched :
                   /\ Drop({})
                   /\ listed' = [reloaded EXCEPT ![m] = {}]
                   /\ blind' = blind \union {m}
     /\ Goto("worker", "shutdown")
     /\ UNCHANGED <<power, disk, port, lockVars, scriptVars, solos>>

\* Shutdown does not take the driver's lock.
ShutdownMachine ==
  /\ worker.pc = "shutdown"
  /\ PowerOff(worker.m)
  /\ Goto("worker", "cleaning")
  /\ UNCHANGED <<listVars, solos, lockVars, scriptVars>>

EndCleanUp ==
  /\ worker.pc = "cleaning"
  /\ todo = {}
  /\ used' = {}
  /\ thread' = [thread EXCEPT !["worker"] = Idle]
  /\ UNCHANGED <<hypervisor, listVars, solos, lockVars, run, calls, taken, todo>>

-----------------------------------------------------------------------------
(* RunStandaloneTest, on a thread of its own; it throws at once when the
   dictionary has no TEST_INIT, or is being filled. *)
SoloBegin(t, m) ==
  /\ thread[t].pc = "idle"
  /\ faults + solos < MaxUpsets
  /\ m \in Standalone
  /\ InitSnapshot \in listed[m]
  /\ solos' = solos + 1
  /\ thread' = [thread EXCEPT ![t] =
       [pc |-> "start", m |-> m, snap |-> InitSnapshot, next |-> "test"]]
  /\ UNCHANGED <<hypervisor, listVars, lockVars, scriptVars>>

SoloTest(t) ==
  /\ thread[t].pc = "test"
  /\ TestOn(Solo)
  /\ thread' = [thread EXCEPT ![t] = Idle]
  /\ UNCHANGED <<power, snapshots, port, faults, faultRun, listVars, solos,
                 lockVars, scriptVars>>

-----------------------------------------------------------------------------
Starting(t) == EnterStart(t) \/ StopFirst(t) \/ RestoreSnapshot(t) \/ Boot(t)

Script == \/ \E m \in Machines : CallTest(m) \/ CallSnapshot(m)
          \/ \E i \in 1..MaxCalls : CallRestore(i)

CleaningUp == \/ StartCleanUp \/ (\E m \in Machines : CleanNext(m))
              \/ DropSnapshots \/ ShutdownMachine \/ EndCleanUp

Worker == Starting("worker") \/ RunTest \/ TakeSnapshot \/ EndScript \/ CleaningUp

Tester(t) == Starting(t) \/ SoloTest(t) \/ \E m \in Machines : SoloBegin(t, m)

Next == BeginRun \/ Script \/ Worker \/ \E t \in Testers : Tester(t)

Spec == Init /\ [][Next]_vars

(* The program's own threads are scheduled and a VBoxManage command returns; a
   script or a test, which is somebody else's, may go on for ever. *)
FairSpec == /\ Spec /\ WF_vars(Starting("worker") \/ CleaningUp)
            /\ \A t \in Testers : WF_vars(Starting(t))

-----------------------------------------------------------------------------
(* When a script's call reaches a machine that has a TEST_INIT, nothing that an
   earlier run did is left on its disk, as long as no VBoxManage command has
   failed during this run, the machine's snapshots have never failed to be
   listed, and no standalone test has come between (other failures in earlier
   runs heal). And when nothing has failed at all and the run uses no second
   machine, the test runs on the machine the script named: all agents are
   reached through one port of the host. *)
Reaches(m) == worker.pc \in {"test", "snapshot"} /\ worker.m = m
Isolation ==
  \A m \in Reverting : Reaches(m) /\ solos = 0 =>
    /\ (faults = 0 \/ faultRun < run) /\ m \notin blind => disk[m] \subseteq {run}
    /\ faults = 0 /\ used = {m} => port = m

(* When a run is over its machines are off, none of its snapshots remain and
   TEST_INIT is what it was, however the script ended, unless a VBoxManage
   command failed or a standalone test, which shuts nothing down, used them. *)
CleanBetweenRuns ==
  worker.pc = "idle" /\ faults = 0 /\ solos = 0 =>
    /\ power = {}
    /\ \A m \in Machines : snapshots[m] = OwnSnapshots(m)

(* The lock keeps two Starts apart, whichever threads are in them: when one
   comes to restore the disk the machine is off, so no other Start has booted it
   since this one found or made it so; unless the commands with which this one
   looks and stops it failed, which Start does not notice. *)
RestoredWhileOff ==
  \A t \in Threads : thread[t].pc = "restore" /\ t \notin missed =>
    thread[t].m \notin power

(* Nobody waits for the driver's lock for ever, and a script that ends or throws
   at any point, before, within or after its first Start, has all its machines
   cleaned up in the end, whatever other threads start and whichever commands
   fail. (A script or a test that never ends keeps its machines.) *)
InStart(t) == thread[t].pc \in {"start", "off", "restore", "boot"}
EveryCleanUpEnds ==
  /\ \A t \in Threads : InStart(t) ~> ~InStart(t)
  /\ (used # {} /\ worker.pc \in {"ending", "idle"}) ~> (used = {} /\ worker.pc = "idle")
=============================================================================
