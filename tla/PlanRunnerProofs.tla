-------------------------- MODULE PlanRunnerProofs --------------------------
(* Proofs about PlanRunner, for any machines, any threads of standalone tests and
   any bounds on runs, calls, standalone tests and failed commands. *)
EXTENDS PlanRunner, TLAPS

Starts == {"start", "off", "restore", "boot"}
Locked == {"off", "restore", "boot"}
Positions == {"idle", "ready", "test", "snapshot", "ending", "cleaning", "drop", "shutdown"}
Contents == SUBSET Nat
SnapshotSets == UNION {[D -> Contents] : D \in SUBSET Nat}
ThreadStates == [pc : Starts \union Positions, m : Machines \union {NoMachine},
                 snap : Nat, next : {"idle", "ready", "test", "snapshot", "drop"}]
Chained == [m : Machines, snap : Nat]

TypeOK ==
  /\ power \subseteq Machines /\ port \in Machines \union {NoMachine}
  /\ faults \in Nat /\ faultRun \in Nat
  /\ disk \in [Machines -> Contents]
  /\ snapshots \in [Machines -> SnapshotSets]
  /\ listed \in [Machines -> SUBSET Nat] /\ blind \subseteq Machines
  /\ driverLock \in Threads \union {Nobody} /\ missed \subseteq Threads
  /\ thread \in [Threads -> ThreadStates]
  /\ \A t \in Threads : thread[t].pc \in Starts \union {"snapshot", "drop", "shutdown"} =>
       thread[t].m \in Machines
  /\ run \in Nat /\ calls \in Nat /\ solos \in Nat
  /\ used \subseteq Machines /\ todo \subseteq Machines
  /\ taken \in Seq(Chained)

\* lock(driver) is held from the check that the machine is on to its boot.
LockHeld ==
  /\ \A t \in Threads : driverLock = t <=> thread[t].pc \in Locked
  /\ solos = 0 => \A t \in Testers : thread[t].pc = "idle"

\* Within the lock a machine found or made off stays so, unless the commands
\* of this very Start failed.
FineRun == solos = 0 /\ (faults = 0 \/ faultRun < run)
FineStart(t) == t \notin missed \/ faults = 0 \/ (t = "worker" /\ FineRun)
StaysOff ==
  /\ \A t \in Threads :
       thread[t].pc \in {"restore", "boot"} /\ FineStart(t) => thread[t].m \notin power
  /\ port \in power \union {NoMachine}

\* Where the worker is: within a script, or cleaning up after it.
InScript == \/ worker.pc \in {"ready", "test", "snapshot", "ending"}
            \/ worker.pc \in Starts /\ worker.next # "drop"
InCleanUp == \/ worker.pc \in {"cleaning", "drop", "shutdown"}
             \/ worker.pc \in Starts /\ worker.next = "drop"
OnMachine == worker.pc \in Starts \union {"test", "snapshot"}
Counted ==
  /\ worker.pc # "idle" => run > 0
  /\ worker.next \in {"idle", "ready", "drop"} \/ calls > 0
  /\ worker.pc = "snapshot" => calls > 0
  /\ worker.pc # "idle" => \A i \in DOMAIN taken : taken[i].m \in used
  /\ InScript /\ OnMachine => worker.m \in used
  /\ InCleanUp => todo \subseteq used
  /\ worker.pc \in Starts => worker.next # "idle"
  /\ worker.pc = "idle" => worker.next = "idle"

\* TEST_INIT is there to go back to, whatever fails.
InitKept ==
  /\ \A i \in DOMAIN taken : taken[i].snap > 0
  /\ \A m \in Reverting :
       /\ InitSnapshot \in DOMAIN snapshots[m] /\ snapshots[m][InitSnapshot] = {}
       /\ InitSnapshot \in listed[m] \/ m \in blind
  /\ blind # {} => faults > 0

\* What a run without failures leaves on, and which snapshots there are.
OwnIds(m) == IF m \in Reverting THEN {InitSnapshot} ELSE {}
OwnOnly == \A m \in Machines : DOMAIN snapshots[m] = OwnIds(m)
OnOnly ==
  /\ worker.pc = "idle" => power = {}
  /\ InScript => power \subseteq used
  /\ InCleanUp => power \subseteq todo \union (IF worker.pc = "cleaning" THEN {}
                                                                        ELSE {worker.m})
Known ==
  /\ \A m \in Machines : DOMAIN snapshots[m] \subseteq OwnIds(m) \union TakenOn(m)
  /\ worker.pc \in {"idle", "shutdown"} => OwnOnly
  /\ worker.pc = "cleaning" => todo = used \/ OwnOnly
NothingFailed == faults = 0 /\ solos = 0
LeftBehind == NothingFailed => OnOnly /\ Known

\* Only this run has written to the machines it uses, and to their snapshots.
Trusted(m) == m \in Reverting /\ m \notin blind
Pending(m) == worker.pc \in {"start", "off", "restore"} /\ worker.m = m
              /\ worker.snap = InitSnapshot
OfThisRun ==
  FineRun /\ InScript =>
    /\ \A m \in used : Trusted(m) /\ ~Pending(m) => disk[m] \subseteq {run}
    /\ \A i \in DOMAIN taken :
         LET m == taken[i].m
             s == taken[i].snap
         IN Trusted(m) /\ s \in DOMAIN snapshots[m] => snapshots[m][s] \subseteq {run}
    /\ worker.pc \in {"start", "off", "restore"} /\ Trusted(worker.m)
       /\ worker.snap \in DOMAIN snapshots[worker.m] =>
         snapshots[worker.m][worker.snap] \subseteq {run}

\* The one machine a run uses has the port, outside of its restarts.
OnThePort ==
  NothingFailed /\ worker.pc \in {"ready", "test", "snapshot"} =>
    \A m \in Reverting : used = {m} => port = m

IInv == /\ TypeOK /\ LockHeld /\ StaysOff /\ Counted /\ InitKept
        /\ LeftBehind /\ OfThisRun /\ OnThePort

USE MachinesAssumption, TestersAssumption, BoundsAssumption
USE DEF lockVars, AfterThrow, Starts, Locked, Positions, InitSnapshot, worker, Ready, Nobody

-----------------------------------------------------------------------------
(* The threads are the worker's and those of standalone tests. *)
LEMMA ThreadFacts ==
  /\ "worker" \in Threads /\ Nobody \notin Threads
  /\ \A t : t \in Testers <=> t \in Threads /\ t # "worker"
  BY DEF Threads

USE ThreadFacts

(* A function from ids to contents is a set of snapshots, and conversely. *)
LEMMA SnapshotSetFacts ==
  /\ \A f \in SnapshotSets : /\ DOMAIN f \subseteq Nat
                             /\ f \in [DOMAIN f -> Contents]
  /\ \A D \in SUBSET Nat : \A f \in [D -> Contents] : f \in SnapshotSets
  BY DEF SnapshotSets

(* Going to another step changes nothing else of the threads. *)
LEMMA GotoFacts ==
  ASSUME TypeOK, NEW t \in Threads, NEW pc \in Starts \union Positions, Goto(t, pc)
  PROVE  /\ thread' \in [Threads -> ThreadStates]
         /\ thread'[t].pc = pc /\ thread'[t].m = thread[t].m
         /\ thread'[t].snap = thread[t].snap /\ thread'[t].next = thread[t].next
         /\ \A u \in Threads \ {t} : thread'[u] = thread[u]
<1>1. thread \in [Threads -> ThreadStates] /\ thread[t] \in ThreadStates
  BY DEF TypeOK
<1>2. thread' = [thread EXCEPT ![t] = [thread[t] EXCEPT !.pc = pc]]
  BY DEF Goto
<1>3. /\ [thread[t] EXCEPT !.pc = pc] \in ThreadStates
      /\ [thread[t] EXCEPT !.pc = pc].pc = pc
      /\ [thread[t] EXCEPT !.pc = pc].m = thread[t].m
      /\ [thread[t] EXCEPT !.pc = pc].snap = thread[t].snap
      /\ [thread[t] EXCEPT !.pc = pc].next = thread[t].next
  BY <1>1 DEF ThreadStates
<1>4. QED
  BY <1>1, <1>2, <1>3

(* A new snapshot: its content, and what it leaves alone. *)
LEMMA WithSnapshotFacts ==
  ASSUME TypeOK, NEW m \in Machines, NEW s \in Nat, snapshots' = WithSnapshot(m, s)
  PROVE  /\ snapshots' \in [Machines -> SnapshotSets]
         /\ DOMAIN snapshots'[m] = DOMAIN snapshots[m] \union {s}
         /\ snapshots'[m][s] = disk[m]
         /\ \A i \in DOMAIN snapshots[m] : i # s => snapshots'[m][i] = snapshots[m][i]
         /\ \A n \in Machines \ {m} : snapshots'[n] = snapshots[n]
<1> DEFINE f == [i \in DOMAIN snapshots[m] \union {s} |->
                   IF i = s THEN disk[m] ELSE snapshots[m][i]]
<1>1. /\ snapshots \in [Machines -> SnapshotSets] /\ disk[m] \in Contents
      /\ DOMAIN snapshots[m] \subseteq Nat /\ snapshots[m] \in [DOMAIN snapshots[m] -> Contents]
  BY SnapshotSetFacts DEF TypeOK
<1>2. snapshots' = [snapshots EXCEPT ![m] = f]
  BY DEF WithSnapshot
<1>3. f \in [DOMAIN snapshots[m] \union {s} -> Contents]
  BY <1>1
<1>4. f \in SnapshotSets
  BY <1>1, <1>3, SnapshotSetFacts
<1>5. snapshots'[m] = f /\ \A n \in Machines \ {m} : snapshots'[n] = snapshots[n]
  BY <1>1, <1>2
<1>6. snapshots' \in [Machines -> SnapshotSets]
  BY <1>1, <1>2, <1>4
<1>7. QED
  BY <1>3, <1>5, <1>6

(* Deleting what the run took, but for "keep". *)
LEMMA DropFacts ==
  ASSUME TypeOK, NEW keep, Drop(keep)
  PROVE  /\ snapshots' \in [Machines -> SnapshotSets]
         /\ \A m \in Machines :
              /\ DOMAIN snapshots'[m] = DOMAIN snapshots[m] \ (TakenOn(m) \ keep)
              /\ \A i \in DOMAIN snapshots'[m] : snapshots'[m][i] = snapshots[m][i]
<1> DEFINE D(m) == DOMAIN snapshots[m] \ (TakenOn(m) \ keep)
           f(m) == [i \in D(m) |-> snapshots[m][i]]
<1>1. snapshots' = [m \in Machines |-> f(m)]
  BY DEF Drop
<1>2. ASSUME NEW m \in Machines
      PROVE  D(m) \in SUBSET Nat /\ f(m) \in [D(m) -> Contents]
  BY SnapshotSetFacts DEF TypeOK
<1>3. \A m \in Machines : f(m) \in SnapshotSets
  BY <1>2, SnapshotSetFacts
<1>4. snapshots' \in [Machines -> SnapshotSets]
  BY <1>1, <1>3
<1>5. ASSUME NEW m \in Machines
      PROVE  /\ DOMAIN snapshots'[m] = D(m)
             /\ \A i \in DOMAIN snapshots'[m] : snapshots'[m][i] = snapshots[m][i]
  BY <1>1
<1>6. QED
  BY <1>4, <1>5

(* Chaining a snapshot adds it to those taken and keeps the others. *)
LEMMA TrackFacts ==
  ASSUME TypeOK, NEW m \in Machines, NEW s \in Nat, taken' = Track(m, s)
  PROVE  /\ taken' \in Seq(Chained)
         /\ \A j \in DOMAIN taken' : \/ taken'[j].m = m /\ taken'[j].snap = s
                                     \/ \E i \in DOMAIN taken : taken'[j] = taken[i]
         /\ \A i \in DOMAIN taken : \E j \in DOMAIN taken' : taken'[j] = taken[i]
         /\ \E j \in DOMAIN taken' : taken'[j].m = m /\ taken'[j].snap = s
<1> DEFINE e == [m |-> m, snap |-> s]
<1>1. e \in Chained /\ e.m = m /\ e.snap = s
  BY DEF Chained
<1>2. taken \in Seq(Chained) /\ <<e>> \in Seq(Chained) /\ taken' = <<e>> \o taken
  BY <1>1 DEF TypeOK, Track
<1> HIDE DEF e
<1>3. /\ taken' \in Seq(Chained)
      /\ DOMAIN taken = 1..Len(taken) /\ Len(taken) \in Nat
      /\ DOMAIN taken' = 1..(Len(taken) + 1)
      /\ taken'[1] = e
      /\ \A i \in 1..Len(taken) : taken'[i + 1] = taken[i]
  BY <1>2
<1>4. ASSUME NEW j \in 1..(Len(taken) + 1), j # 1
      PROVE  j - 1 \in 1..Len(taken) /\ taken'[j] = taken[j - 1]
  <2>1. j - 1 \in 1..Len(taken) /\ (j - 1) + 1 = j
    BY <1>3, <1>4
  <2>2. QED
    BY <1>3, <2>1
<1>5. /\ 1 \in 1..(Len(taken) + 1)
      /\ \A i \in 1..Len(taken) : i + 1 \in 1..(Len(taken) + 1)
  BY <1>3
<1>6. ASSUME NEW j \in DOMAIN taken'
      PROVE  \/ taken'[j].m = m /\ taken'[j].snap = s
             \/ \E i \in DOMAIN taken : taken'[j] = taken[i]
  <2>1. CASE j = 1
    BY <1>1, <1>3, <2>1
  <2>2. CASE j # 1
    <3>1. j - 1 \in DOMAIN taken /\ taken'[j] = taken[j - 1]
      BY <1>3, <1>4, <1>6, <2>2
    <3>2. QED
      BY <3>1
  <2>3. QED
    BY <2>1, <2>2
<1>7. \A i \in DOMAIN taken : \E j \in DOMAIN taken' : taken'[j] = taken[i]
  BY <1>3, <1>5
<1>8. QED
  BY <1>1, <1>3, <1>5, <1>6, <1>7

(* The snapshots taken on a machine are those of the chain. *)
LEMMA TakenOnFacts ==
  \A m, s : s \in TakenOn(m) <=> \E i \in DOMAIN taken : taken[i].m = m /\ taken[i].snap = s
  BY DEF TakenOn

(* At first every machine is off, as its owner prepared it. *)
LEMMA InitHolds == Init => IInv
<1> SUFFICES ASSUME Init
             PROVE  IInv
  OBVIOUS
<1>1. ASSUME NEW m \in Machines
      PROVE  /\ snapshots[m] \in SnapshotSets /\ DOMAIN snapshots[m] = OwnIds(m)
             /\ \A i \in DOMAIN snapshots[m] : snapshots[m][i] = {}
  <2> DEFINE D == OwnIds(m)
  <2>1. snapshots[m] = [i \in D |-> {}] /\ D \in SUBSET Nat
    BY DEF Init, OwnSnapshots, OwnIds
  <2>2. snapshots[m] \in [D -> Contents]
    BY <2>1 DEF Contents
  <2>3. QED
    BY <2>1, <2>2, SnapshotSetFacts
<1>2. snapshots \in [Machines -> SnapshotSets] /\ disk \in [Machines -> Contents]
  BY <1>1 DEF Init, Contents
<1>3. listed = [m \in Machines |-> DOMAIN snapshots[m]]
  BY DEF Init
<1>4. listed \in [Machines -> SUBSET Nat]
  BY <1>1, <1>3, SnapshotSetFacts
<1>5. thread \in [Threads -> ThreadStates] /\ \A t \in Threads : thread[t] = Idle
  BY DEF Init, Idle, ThreadStates
<1>6. taken \in Seq(Chained) /\ DOMAIN taken = {}
  BY DEF Init
<1>7. TypeOK
  BY <1>2, <1>4, <1>5, <1>6 DEF Init, TypeOK, Idle
<1>8. LockHeld /\ StaysOff /\ Counted
  BY <1>5, <1>6 DEF Init, Idle, LockHeld, StaysOff, Counted, InScript, InCleanUp, OnMachine
<1>9. InitKept
  <2>1. \A m \in Machines : listed[m] = DOMAIN snapshots[m]
    BY <1>3
  <2>2. QED
    BY <1>1, <1>6, <2>1 DEF Init, InitKept, OwnIds
<1>10. LeftBehind
  BY <1>1, <1>5 DEF Init, Idle, LeftBehind, OnOnly, Known, OwnOnly, InScript, InCleanUp
<1>11. OfThisRun /\ OnThePort
  BY <1>5 DEF Idle, OfThisRun, OnThePort, InScript
<1>12. QED
  BY <1>7, <1>8, <1>9, <1>10, <1>11 DEF IInv

(* Every variable keeps its type; a machine is named wherever one is needed. *)
LEMMA NextType == TypeOK /\ Counted /\ [Next]_vars => TypeOK'
<1> SUFFICES ASSUME TypeOK, Counted, [Next]_vars
             PROVE  TypeOK'
  OBVIOUS
<1> USE DEF hypervisor, scriptVars, listVars, Succeeds, Fails
<1>0. CASE UNCHANGED vars
  BY <1>0 DEF TypeOK, vars
<1>1. ASSUME NEW t \in Threads, Starting(t)
      PROVE  TypeOK'
  <2>1. thread[t].m \in Machines /\ thread[t].next \in Positions
        /\ thread[t].next # "shutdown"
    BY <1>1 DEF TypeOK, ThreadStates, Starting, EnterStart, StopFirst, RestoreSnapshot, Boot
  <2>2. CASE EnterStart(t)
    <3>1. thread' \in [Threads -> ThreadStates] /\ thread'[t].m \in Machines
          /\ \A u \in Threads \ {t} : thread'[u] = thread[u]
      BY <2>1, <2>2, GotoFacts DEF EnterStart
    <3>2. faults' \in Nat /\ faultRun' \in Nat /\ missed' \subseteq Threads
      BY <2>2 DEF TypeOK, EnterStart
    <3>3. driverLock' = t
          /\ UNCHANGED <<power, port, disk, snapshots, listed, blind, solos>>
          /\ UNCHANGED <<run, calls, used, taken, todo>>
      BY <2>2 DEF EnterStart
    <3>4. QED
      BY <3>1, <3>2, <3>3 DEF TypeOK
  <2>3. CASE StopFirst(t)
    BY <2>1, <2>3, GotoFacts DEF TypeOK, StopFirst, PowerOff
  <2>4. CASE RestoreSnapshot(t)
    <3>1. disk' \in [Machines -> Contents]
      BY <2>1, <2>4, SnapshotSetFacts DEF TypeOK, RestoreSnapshot, Restored
    <3>2. QED
      BY <2>1, <2>4, <3>1, GotoFacts DEF TypeOK, RestoreSnapshot
  <2>5. CASE Boot(t)
    <3>1. thread' \in [Threads -> ThreadStates] /\ thread'[t].m \in Machines
          /\ \A u \in Threads \ {t} : thread'[u] = thread[u]
      BY <2>1, <2>5, GotoFacts DEF Boot
    <3>2. power' \subseteq Machines /\ port' \in Machines \union {NoMachine}
          /\ faults' \in Nat /\ faultRun' \in Nat
      BY <2>1, <2>5 DEF TypeOK, Boot
    <3>3. driverLock' = Nobody /\ missed' = missed
          /\ UNCHANGED <<disk, snapshots, listed, blind, run, calls, used, taken, todo, solos>>
      BY <2>5 DEF Boot
    <3>4. QED
      BY <3>1, <3>2, <3>3 DEF TypeOK
  <2>6. QED
    BY <1>1, <2>2, <2>3, <2>4, <2>5 DEF Starting
<1>2. CASE BeginRun
  BY <1>2, GotoFacts DEF TypeOK, BeginRun
<1>3. ASSUME NEW m \in Machines, NEW next \in {"test", "snapshot"}, Prepare(m, next)
      PROVE  TypeOK'
  <2>1. thread' \in [Threads -> ThreadStates] /\ thread'["worker"].m = m
        /\ \A u \in Testers : thread'[u] = thread[u]
    BY <1>3 DEF TypeOK, Prepare, ThreadStates
  <2>2. calls' \in Nat /\ used' \subseteq Machines
    BY <1>3 DEF TypeOK, Prepare
  <2>3. QED
    BY <1>3, <2>1, <2>2 DEF TypeOK, Prepare
<1>4. ASSUME NEW i \in DOMAIN taken, CallRestore(i)
      PROVE  TypeOK'
  <2>1. taken[i] \in Chained
    BY <1>4 DEF TypeOK
  <2>2. taken[i].m \in Machines /\ taken[i].snap \in Nat
    BY <2>1 DEF Chained
  <2>3. thread' \in [Threads -> ThreadStates] /\ thread'["worker"].m = taken[i].m
        /\ \A u \in Testers : thread'[u] = thread[u]
    BY <1>4, <2>2 DEF TypeOK, CallRestore, ThreadStates
  <2>4. QED
    BY <1>4, <2>2, <2>3 DEF TypeOK, CallRestore
<1>5. CASE RunTest \/ EndScript \/ StartCleanUp
  <2>1. disk' \in [Machines -> Contents]
    BY <1>5 DEF TypeOK, RunTest, TestOn, EndScript, StartCleanUp, Contents
  <2>2. CASE RunTest
    BY <2>1, <2>2, GotoFacts DEF TypeOK, RunTest
  <2>3. CASE EndScript
    BY <2>3, GotoFacts DEF TypeOK, EndScript
  <2>4. CASE StartCleanUp
    BY <2>4, GotoFacts DEF TypeOK, StartCleanUp
  <2>5. QED
    BY <1>5, <2>2, <2>3, <2>4
<1>6. CASE TakeSnapshot
  <2> DEFINE m == worker.m
             s == (run - 1) * MaxCalls + calls
  <2>1. m \in Machines /\ run - 1 \in Nat
    BY <1>6 DEF TypeOK, TakeSnapshot, Counted
  <2>2. \A a, b, c \in Nat : a * b + c \in Nat
    OBVIOUS
  <2>3. s \in Nat
    BY <2>1, <2>2 DEF TypeOK
  <2>4. snapshots' = snapshots \/ snapshots' = WithSnapshot(m, s)
    BY <1>6 DEF TakeSnapshot
  <2>5. snapshots' \in [Machines -> SnapshotSets]
    BY <2>1, <2>3, <2>4, WithSnapshotFacts DEF TypeOK
  <2>6. DOMAIN snapshots'[m] \subseteq Nat
    BY <2>1, <2>5, SnapshotSetFacts
  <2>7. listed' \in [Machines -> SUBSET Nat] /\ blind' \subseteq Machines
    <3>1. /\ listed' \in {[listed EXCEPT ![m] = DOMAIN snapshots'[m]],
                          [listed EXCEPT ![m] = {}]}
          /\ blind' \in {blind, blind \union {m}}
      BY <1>6 DEF TakeSnapshot, Reload, ReloadFails
    <3>2. QED
      BY <2>1, <2>6, <3>1 DEF TypeOK
  <2>8. taken' \in Seq(Chained)
    <3>1. taken' = taken \/ taken' = Track(m, s)
      BY <1>6 DEF TakeSnapshot
    <3>2. QED
      BY <2>1, <2>3, <3>1, TrackFacts DEF TypeOK
  <2>9. thread' \in [Threads -> ThreadStates] /\ thread'["worker"].pc \in {"ready", "ending"}
        /\ \A u \in Testers : thread'[u] = thread[u]
    BY <1>6, GotoFacts DEF TakeSnapshot
  <2>10. faults' \in Nat /\ faultRun' \in Nat
         /\ UNCHANGED <<power, disk, port, lockVars, run, calls, used, todo, solos>>
    BY <1>6 DEF TypeOK, TakeSnapshot
  <2>11. QED
    BY <2>5, <2>7, <2>8, <2>9, <2>10 DEF TypeOK
<1>7. ASSUME NEW m \in Machines, CleanNext(m)
      PROVE  TypeOK'
  <2>1. thread' \in [Threads -> ThreadStates] /\ thread'["worker"].m = m
        /\ \A u \in Testers : thread'[u] = thread[u]
    BY <1>7 DEF TypeOK, CleanNext, ThreadStates
  <2>2. QED
    BY <1>7, <2>1 DEF TypeOK, CleanNext
<1>8. CASE DropSnapshots
  <2>1. snapshots' \in [Machines -> SnapshotSets]
    BY <1>8, DropFacts DEF DropSnapshots
  <2>2. \A m \in Machines : DOMAIN snapshots'[m] \subseteq Nat
    BY <2>1, SnapshotSetFacts
  <2>3. listed' \in [Machines -> SUBSET Nat]
    <3> DEFINE touched == {taken[i].m : i \in DOMAIN taken}
               reloaded == [m \in Machines |-> IF m \in touched THEN DOMAIN snapshots'[m]
                                                                ELSE listed[m]]
    <3>1. listed' = reloaded \/ \E m \in touched : listed' = [reloaded EXCEPT ![m] = {}]
      BY <1>8 DEF DropSnapshots
    <3>2. reloaded \in [Machines -> SUBSET Nat]
      BY <2>2 DEF TypeOK
    <3>3. QED
      BY <3>1, <3>2
  <2>4. blind' \subseteq Machines
    <3>1. ASSUME NEW i \in DOMAIN taken
          PROVE  taken[i].m \in Machines
      <4>1. taken[i] \in Chained
        BY <3>1 DEF TypeOK
      <4>2. QED
        BY <4>1 DEF Chained
    <3>2. QED
      BY <1>8, <3>1 DEF TypeOK, DropSnapshots
  <2>5. thread' \in [Threads -> ThreadStates] /\ thread'["worker"].pc = "shutdown"
        /\ thread'["worker"].m = worker.m /\ \A u \in Testers : thread'[u] = thread[u]
    BY <1>8, GotoFacts DEF DropSnapshots
  <2>6. worker.m \in Machines
    BY <1>8 DEF TypeOK, DropSnapshots
  <2>7. faults' \in Nat /\ faultRun' \in Nat
        /\ UNCHANGED <<power, disk, port, lockVars, run, calls, used, taken, todo, solos>>
    BY <1>8 DEF TypeOK, DropSnapshots
  <2>8. QED
    BY <2>1, <2>3, <2>4, <2>5, <2>6, <2>7 DEF TypeOK
<1>9. CASE ShutdownMachine
  BY <1>9, GotoFacts DEF TypeOK, ShutdownMachine, PowerOff
<1>10. CASE EndCleanUp
  <2>1. thread' \in [Threads -> ThreadStates] /\ thread'["worker"].pc = "idle"
        /\ \A u \in Testers : thread'[u] = thread[u]
    BY <1>10 DEF TypeOK, EndCleanUp, ThreadStates, Idle
  <2>2. QED
    BY <1>10, <2>1 DEF TypeOK, EndCleanUp
<1>11. ASSUME NEW t \in Testers, NEW m \in Machines, SoloBegin(t, m)
      PROVE  TypeOK'
  <2>1. thread' \in [Threads -> ThreadStates] /\ thread'[t].m = m
        /\ \A u \in Threads \ {t} : thread'[u] = thread[u]
    BY <1>11 DEF TypeOK, SoloBegin, ThreadStates
  <2>2. QED
    BY <1>11, <2>1 DEF TypeOK, SoloBegin
<1>12. ASSUME NEW t \in Testers, SoloTest(t)
      PROVE  TypeOK'
  <2>1. thread' \in [Threads -> ThreadStates] /\ thread'[t].pc = "idle"
        /\ \A u \in Threads \ {t} : thread'[u] = thread[u]
    BY <1>12 DEF TypeOK, SoloTest, ThreadStates, Idle
  <2>2. disk' \in [Machines -> Contents]
    BY <1>12 DEF TypeOK, SoloTest, TestOn, Contents, Solo
  <2>3. QED
    BY <1>12, <2>1, <2>2 DEF TypeOK, SoloTest
<1>13. QED
  BY <1>0, <1>1, <1>2, <1>3, <1>4, <1>5, <1>6, <1>7, <1>8, <1>9, <1>10, <1>11, <1>12
  DEF Next, Script, Worker, CleaningUp, Tester, CallTest, CallSnapshot, CallRestore

-----------------------------------------------------------------------------
(* The worker's steps outside Start neither need the lock's holder nor touch
   it; they are the only ones that change what a script keeps. *)
OtherWorker == \/ BeginRun \/ Script \/ RunTest \/ TakeSnapshot \/ EndScript
               \/ CleaningUp

(* Every step is one of those, one of Start's or a standalone test's. *)
LEMMA Steps ==
  Next => \/ OtherWorker \/ (\E t \in Threads : Starting(t))
          \/ \E t \in Testers : SoloTest(t) \/ \E m \in Machines : SoloBegin(t, m)
  BY DEF Next, Worker, Tester, OtherWorker

(* They leave the lock and the standalone tests alone. *)
LEMMA OtherWorkerFacts ==
  ASSUME TypeOK, OtherWorker
  PROVE  /\ worker.pc \in Positions /\ thread'["worker"].pc \notin Locked
         /\ \A u \in Testers : thread'[u] = thread[u]
         /\ UNCHANGED <<lockVars, solos>>
<1>1. ASSUME NEW pc \in Positions, Goto("worker", pc)
      PROVE  thread'["worker"].pc \notin Locked /\ \A u \in Testers : thread'[u] = thread[u]
  BY <1>1, GotoFacts
<1>2. thread \in [Threads -> ThreadStates]
  BY DEF TypeOK
<1>3. CASE \/ BeginRun \/ RunTest \/ TakeSnapshot \/ EndScript
           \/ StartCleanUp \/ DropSnapshots \/ ShutdownMachine
  BY <1>1, <1>3 DEF BeginRun, RunTest, TakeSnapshot, EndScript, StartCleanUp, DropSnapshots,
                    ShutdownMachine
<1>4. CASE Script
  BY <1>2, <1>4 DEF Script, CallTest, CallSnapshot, CallRestore, Prepare
<1>5. CASE (\E m \in Machines : CleanNext(m)) \/ EndCleanUp
  BY <1>2, <1>5 DEF CleanNext, EndCleanUp, Idle
<1>6. QED
  BY <1>3, <1>4, <1>5 DEF OtherWorker, CleaningUp

(* Start takes the lock first and gives it back last. *)
LEMMA StartingFacts ==
  ASSUME TypeOK, NEW t \in Threads, Starting(t)
  PROVE  /\ thread[t].pc \in Starts
         /\ \A u \in Threads \ {t} : thread'[u] = thread[u]
         /\ thread'[t].m = thread[t].m /\ thread'[t].snap = thread[t].snap
         /\ thread'[t].next = thread[t].next
         /\ UNCHANGED <<snapshots, listVars, scriptVars, solos>>
         /\ EnterStart(t) => thread'[t].pc \in {"off", "restore"}
         /\ StopFirst(t) => thread'[t].pc = "restore"
         /\ RestoreSnapshot(t) => thread'[t].pc = "boot"
         /\ Boot(t) => thread'[t].pc = thread[t].next
<1>0. thread[t].next \in Positions
  BY DEF TypeOK, ThreadStates
<1>1. CASE EnterStart(t)
  BY <1>1, GotoFacts DEF EnterStart, StopFirst, RestoreSnapshot, Boot
<1>2. CASE StopFirst(t)
  BY <1>2, GotoFacts DEF EnterStart, StopFirst, RestoreSnapshot, Boot, PowerOff
<1>3. CASE RestoreSnapshot(t)
  BY <1>3, GotoFacts DEF EnterStart, StopFirst, RestoreSnapshot, Boot
<1>4. CASE Boot(t)
  BY <1>0, <1>4, GotoFacts DEF EnterStart, StopFirst, RestoreSnapshot, Boot
<1>5. QED
  BY <1>1, <1>2, <1>3, <1>4 DEF Starting

(* Of all threads one at most is inside Start. *)
LEMMA NextLock == IInv /\ [Next]_vars => LockHeld'
<1> SUFFICES ASSUME IInv, [Next]_vars
             PROVE  LockHeld'
  OBVIOUS
<1>t. TypeOK /\ LockHeld
  BY DEF IInv
<1>0. CASE UNCHANGED vars
  BY <1>t, <1>0 DEF LockHeld, vars
<1>1. CASE OtherWorker
  BY <1>t, <1>1, OtherWorkerFacts DEF LockHeld
<1>2. ASSUME NEW t \in Threads, Starting(t)
      PROVE  LockHeld'
  <2>1. thread[t].next \in Positions /\ (t # "worker" => solos # 0) /\ solos' = solos
    BY <1>t, <1>2, StartingFacts DEF LockHeld, TypeOK, ThreadStates
  <2>2. CASE EnterStart(t)
    BY <1>t, <1>2, <2>1, <2>2, StartingFacts DEF LockHeld, EnterStart, LockFree
  <2>3. CASE StopFirst(t) \/ RestoreSnapshot(t)
    BY <1>t, <1>2, <2>1, <2>3, StartingFacts DEF LockHeld, StopFirst, RestoreSnapshot
  <2>4. CASE Boot(t)
    BY <1>t, <1>2, <2>1, <2>4, StartingFacts DEF LockHeld, Boot
  <2>5. QED
    BY <1>2, <2>2, <2>3, <2>4 DEF Starting
<1>3. ASSUME NEW t \in Testers, NEW m \in Machines, SoloBegin(t, m)
      PROVE  LockHeld'
  <2>1. /\ thread'[t].pc = "start" /\ thread[t].pc = "idle"
        /\ \A u \in Threads \ {t} : thread'[u] = thread[u]
        /\ driverLock' = driverLock /\ solos' = solos + 1
    BY <1>t, <1>3 DEF SoloBegin, TypeOK
  <2>2. QED
    BY <1>t, <2>1 DEF LockHeld, TypeOK
<1>4. ASSUME NEW t \in Testers, SoloTest(t)
      PROVE  LockHeld'
  <2>1. /\ thread'[t].pc = "idle" /\ thread[t].pc = "test"
        /\ \A u \in Threads \ {t} : thread'[u] = thread[u]
        /\ driverLock' = driverLock /\ solos' = solos
    BY <1>t, <1>4 DEF SoloTest, TypeOK, Idle
  <2>2. QED
    BY <1>t, <2>1 DEF LockHeld
<1>5. QED
  BY <1>0, <1>1, <1>2, <1>3, <1>4, Steps

(* A machine that Start has found or made off stays off until Start boots it. *)
LEMMA NextOff == IInv /\ [Next]_vars => StaysOff'
<1> SUFFICES ASSUME IInv, [Next]_vars
             PROVE  StaysOff'
  OBVIOUS
<1>t. TypeOK /\ LockHeld /\ StaysOff
  BY DEF IInv
<1> USE DEF Succeeds, Fails
<1>0. CASE UNCHANGED vars
  BY <1>t, <1>0 DEF StaysOff, FineStart, FineRun, vars, hypervisor, scriptVars
<1>1. CASE OtherWorker
  <2>1. /\ power' \subseteq power /\ (faults' = 0 => faults = 0)
        /\ missed' = missed /\ port' \in power' \union {NoMachine}
    <3>0. missed' = missed
      BY <1>t, <1>1, OtherWorkerFacts
    <3>1. CASE ShutdownMachine
      BY <1>t, <3>0, <3>1 DEF ShutdownMachine, PowerOff, TypeOK, StaysOff
    <3>2. CASE TakeSnapshot
      BY <1>t, <3>0, <3>2 DEF TakeSnapshot, TypeOK, StaysOff
    <3>3. CASE DropSnapshots
      BY <1>t, <3>0, <3>3 DEF DropSnapshots, TypeOK, StaysOff
    <3>4. CASE UNCHANGED <<power, faults, port>>
      BY <1>t, <3>0, <3>4 DEF StaysOff
    <3>5. QED
      BY <1>1, <3>1, <3>2, <3>3, <3>4
      DEF OtherWorker, CleaningUp, BeginRun, Script, CallTest, CallSnapshot, Prepare,
          CallRestore, RunTest, EndScript, StartCleanUp, CleanNext, EndCleanUp, hypervisor
  <2>2. QED
    BY <1>t, <1>1, <2>1, OtherWorkerFacts DEF StaysOff, FineStart
<1>2. ASSUME NEW t \in Threads, Starting(t)
      PROVE  StaysOff'
  <2>1. UNCHANGED <<solos, run>>
    BY <1>t, <1>2, StartingFacts DEF scriptVars
  <2>2. CASE EnterStart(t)
    <3>1. \A u \in Threads \ {t} : thread'[u].pc \notin {"restore", "boot"}
      BY <1>t, <1>2, <2>2, StartingFacts DEF LockHeld, EnterStart, LockFree
    <3>2. \/ Succeeds /\ (thread'[t].pc = "restore" => thread[t].m \notin power)
          \/ Fails /\ t \in missed'
      BY <1>t, <2>2, GotoFacts DEF EnterStart
    <3>3. UNCHANGED <<power, port>>
      BY <2>2 DEF EnterStart
    <3>4. QED
      BY <1>t, <1>2, <2>1, <2>2, <3>1, <3>2, <3>3, StartingFacts
      DEF StaysOff, FineStart, FineRun, TypeOK
  <2>3. CASE ~EnterStart(t)
    <3>1. thread[t].pc \in Locked
      BY <1>2, <2>3 DEF Starting, StopFirst, RestoreSnapshot, Boot
    <3>2. \A u \in Threads \ {t} : thread'[u].pc \notin {"restore", "boot"}
      BY <1>t, <1>2, <3>1, StartingFacts DEF LockHeld
    <3>3. CASE StopFirst(t)
      <4>1. \/ /\ power' = power \ {thread[t].m}
               /\ port' = (IF port = thread[t].m THEN NoMachine ELSE port)
            \/ /\ UNCHANGED <<power, port>> /\ faults' = faults + 1 /\ faultRun' = run
               /\ t \in missed'
        BY <1>t, <3>3 DEF StopFirst, PowerOff, TypeOK
      <4>2. thread'[t].pc = "restore" /\ thread'[t].m = thread[t].m
        BY <1>t, <1>2, <3>3, StartingFacts
      <4>3. faults' # 0 \/ power' = power \ {thread[t].m}
        BY <1>t, <4>1 DEF TypeOK
      <4>4. FineStart(t)' => thread[t].m \notin power'
        BY <1>t, <2>1, <4>1, <4>3 DEF FineStart, FineRun, TypeOK
      <4>5. port' \in power' \union {NoMachine}
        BY <1>t, <4>1 DEF StaysOff
      <4>6. QED
        BY <3>2, <4>2, <4>4, <4>5 DEF StaysOff
    <3>4. CASE RestoreSnapshot(t)
      BY <1>t, <1>2, <2>1, <3>2, <3>4, StartingFacts
      DEF RestoreSnapshot, StaysOff, FineStart, FineRun, TypeOK
    <3>5. CASE Boot(t)
      <4>1. thread'[t].pc \notin {"restore", "boot"}
        BY <1>t, <1>2, <3>5, StartingFacts DEF TypeOK, ThreadStates
      <4>2. port' \in power' \union {NoMachine}
        BY <1>t, <3>5 DEF Boot, StaysOff
      <4>3. QED
        BY <3>2, <4>1, <4>2 DEF StaysOff
    <3>6. QED
      BY <1>2, <2>3, <3>3, <3>4, <3>5 DEF Starting
  <2>4. QED
    BY <2>2, <2>3
<1>3. ASSUME NEW t \in Testers, NEW m \in Machines, SoloBegin(t, m)
      PROVE  StaysOff'
  BY <1>t, <1>3 DEF SoloBegin, StaysOff, FineStart, FineRun, TypeOK, hypervisor, scriptVars
<1>4. ASSUME NEW t \in Testers, SoloTest(t)
      PROVE  StaysOff'
  <2>1. thread'[t].pc = "idle" /\ \A u \in Threads \ {t} : thread'[u] = thread[u]
    BY <1>t, <1>4 DEF SoloTest, TypeOK, Idle
  <2>2. UNCHANGED <<power, port, faults, faultRun, missed, run, solos>>
    BY <1>4 DEF SoloTest, scriptVars
  <2>3. QED
    BY <1>t, <2>1, <2>2 DEF StaysOff, FineStart, FineRun
<1>5. QED
  BY <1>0, <1>1, <1>2, <1>3, <1>4, Steps

(* The script's own bookkeeping: counters, used machines, chained snapshots. *)
LEMMA NextCounted == IInv /\ [Next]_vars => Counted'
<1> SUFFICES ASSUME IInv, [Next]_vars
             PROVE  Counted'
  OBVIOUS
<1>t. TypeOK /\ LockHeld /\ Counted
  BY DEF IInv
<1> USE DEF InScript, InCleanUp, OnMachine
<1>w. thread \in [Threads -> ThreadStates] /\ thread["worker"] \in ThreadStates
  BY <1>t DEF TypeOK
<1>0. CASE UNCHANGED <<thread["worker"], scriptVars>>
  BY <1>t, <1>0 DEF Counted, scriptVars
<1>1. CASE Starting("worker")
  <2>1. /\ worker.pc \in Starts /\ worker.next # "idle"
        /\ worker'.m = worker.m /\ worker'.next = worker.next
        /\ worker'.pc \in Starts \/ worker'.pc = worker.next
        /\ UNCHANGED <<run, calls, used, taken, todo>>
    BY <1>t, <1>1, StartingFacts DEF Starting, Counted, scriptVars
  <2>2. worker.next \in {"ready", "test", "snapshot", "drop"}
    BY <1>w, <2>1 DEF ThreadStates
  <2>3. QED
    BY <1>t, <2>1, <2>2 DEF Counted
<1>2. CASE BeginRun
  <2>1. /\ worker.pc = "idle" /\ worker'.pc = "ready" /\ worker'.next = worker.next
        /\ run' = run + 1 /\ taken' = <<>>
    BY <1>t, <1>2, GotoFacts DEF BeginRun
  <2>2. QED
    BY <1>t, <2>1 DEF Counted, TypeOK
<1>3. ASSUME NEW m \in Machines, NEW next \in {"test", "snapshot"}, Prepare(m, next)
      PROVE  Counted'
  <2>1. /\ worker.pc = "ready" /\ worker'.pc \in {"start", next} /\ worker'.m = m
        /\ worker'.next = next /\ calls' = calls + 1 /\ used' = used \union {m}
        /\ UNCHANGED <<run, taken, todo>>
    BY <1>w, <1>3 DEF Prepare
  <2>2. QED
    BY <1>t, <2>1 DEF Counted, TypeOK
<1>4. ASSUME NEW i \in DOMAIN taken, CallRestore(i)
      PROVE  Counted'
  <2>1. /\ worker.pc = "ready" /\ worker'.pc = "start" /\ worker'.m = taken[i].m
        /\ worker'.next = "ready" /\ calls' = calls + 1
        /\ UNCHANGED <<run, used, taken, todo>>
    BY <1>w, <1>4 DEF CallRestore
  <2>2. QED
    BY <1>t, <2>1 DEF Counted, TypeOK
<1>5. CASE RunTest \/ EndScript
  <2>1. /\ worker.pc \in {"test", "ready"} /\ worker'.pc \in {"ready", "ending"}
        /\ worker'.next = worker.next /\ UNCHANGED <<run, calls, used, taken, todo>>
    BY <1>t, <1>5, GotoFacts DEF RunTest, EndScript, scriptVars
  <2>2. QED
    BY <1>t, <2>1 DEF Counted
<1>6. CASE TakeSnapshot
  <2>1. /\ worker.pc = "snapshot" /\ worker'.pc \in {"ready", "ending"}
        /\ worker'.next = worker.next /\ UNCHANGED <<run, calls, used, todo>>
        /\ taken' = taken \/ taken' = Track(worker.m, (run - 1) * MaxCalls + calls)
    BY <1>t, <1>6, GotoFacts DEF TakeSnapshot
  <2>2. /\ worker.m \in Machines /\ worker.m \in used /\ run - 1 \in Nat
        /\ (run - 1) * MaxCalls + calls \in Nat
    <3>1. \A a, b, c \in Nat : a * b + c \in Nat
      OBVIOUS
    <3>2. worker.m \in Machines /\ run - 1 \in Nat /\ worker.m \in used
      BY <1>t, <2>1 DEF TypeOK, Counted
    <3>3. QED
      BY <1>t, <3>1, <3>2 DEF TypeOK
  <2>3. \A j \in DOMAIN taken' : taken'[j].m \in used
    BY <1>t, <2>1, <2>2, TrackFacts DEF Counted
  <2>4. QED
    BY <1>t, <2>1, <2>3 DEF Counted
<1>7. CASE StartCleanUp
  <2>1. /\ worker.pc = "ending" /\ worker'.pc = "cleaning" /\ worker'.next = worker.next
        /\ todo' = used /\ UNCHANGED <<run, calls, used, taken>>
    BY <1>t, <1>7, GotoFacts DEF StartCleanUp
  <2>2. QED
    BY <1>t, <2>1 DEF Counted
<1>8. ASSUME NEW m \in Machines, CleanNext(m)
      PROVE  Counted'
  <2>1. /\ worker.pc = "cleaning" /\ worker'.pc \in {"start", "drop"}
        /\ worker'.next = "drop" /\ todo' \subseteq todo
        /\ UNCHANGED <<run, calls, used, taken>>
    BY <1>w, <1>8 DEF CleanNext
  <2>2. QED
    BY <1>t, <2>1 DEF Counted
<1>9. CASE DropSnapshots \/ ShutdownMachine
  <2>1. /\ worker.pc \in {"drop", "shutdown"} /\ worker'.pc \in {"shutdown", "cleaning"}
        /\ worker'.next = worker.next /\ UNCHANGED <<run, calls, used, taken, todo>>
    BY <1>t, <1>9, GotoFacts DEF DropSnapshots, ShutdownMachine, scriptVars
  <2>2. QED
    BY <1>t, <2>1 DEF Counted
<1>10. CASE EndCleanUp
  <2>1. worker'.pc = "idle" /\ worker'.next = "idle"
    BY <1>w, <1>10 DEF EndCleanUp, Idle
  <2>2. QED
    BY <2>1 DEF Counted
<1>11. ASSUME NEW t \in Testers, Tester(t)
       PROVE  Counted'
  <2>1. thread'["worker"] = thread["worker"]
    BY <1>w, <1>t, <1>11, StartingFacts DEF Tester, SoloTest, SoloBegin
  <2>2. UNCHANGED scriptVars
    BY <1>t, <1>11, StartingFacts DEF Tester, SoloTest, SoloBegin
  <2>3. QED
    BY <1>0, <2>1, <2>2
<1>12. QED
  BY <1>0, <1>1, <1>2, <1>3, <1>4, <1>5, <1>6, <1>7, <1>8, <1>9, <1>10, <1>11
  DEF Next, Script, Worker, CleaningUp, CallTest, CallSnapshot, CallRestore, vars

(* The ids of a run's snapshots are not TEST_INIT's. *)
LEMMA OwnId ==
  ASSUME TypeOK, Counted, worker.pc = "snapshot"
  PROVE  (run - 1) * MaxCalls + calls \in Nat /\ (run - 1) * MaxCalls + calls > 0
<1>1. \A a, b, c \in Nat : a * b + c \in Nat /\ (c > 0 => a * b + c > 0)
  OBVIOUS
<1>2. run - 1 \in Nat /\ calls \in Nat /\ calls > 0
  BY DEF TypeOK, Counted
<1>3. QED
  BY <1>1, <1>2

(* TEST_INIT is never deleted nor overwritten. *)
LEMMA NextInitKept == IInv /\ [Next]_vars => InitKept'
<1> SUFFICES ASSUME IInv, [Next]_vars
             PROVE  InitKept'
  OBVIOUS
<1>t. TypeOK /\ Counted /\ InitKept /\ TypeOK'
  BY NextType DEF IInv
<1> USE DEF Succeeds, Fails, listVars, hypervisor, scriptVars
<1>0. ASSUME UNCHANGED <<snapshots, listed, blind, taken>>, faults' >= faults
      PROVE  InitKept'
  BY <1>t, <1>0 DEF InitKept, TypeOK
<1>1. CASE TakeSnapshot
  <2> DEFINE m == worker.m
             s == (run - 1) * MaxCalls + calls
  <2>1. worker.pc = "snapshot" /\ m \in Machines /\ s \in Nat /\ s > 0
    BY <1>t, <1>1, OwnId DEF TakeSnapshot, TypeOK
  <2> HIDE DEF s
  <2>2. /\ snapshots' = snapshots \/ snapshots' = WithSnapshot(m, s)
        /\ taken' = taken \/ taken' = Track(m, s)
        /\ \/ listed' = [listed EXCEPT ![m] = DOMAIN snapshots'[m]] /\ blind' = blind
              /\ (faults' = faults \/ faults' = faults + 1)
           \/ /\ listed' = [listed EXCEPT ![m] = {}] /\ blind' = blind \union {m}
              /\ faults' = faults + 1
    BY <1>1 DEF TakeSnapshot, Reload, ReloadFails, s
  <2>3. \A n \in Reverting : InitSnapshot \in DOMAIN snapshots'[n]
                            /\ snapshots'[n][InitSnapshot] = {}
    BY <1>t, <2>1, <2>2, WithSnapshotFacts DEF InitKept
  <2>4. \A j \in DOMAIN taken' : taken'[j].snap > 0
    BY <1>t, <2>1, <2>2, TrackFacts DEF InitKept
  <2>5. \A n \in Reverting : InitSnapshot \in listed'[n] \/ n \in blind'
    BY <1>t, <2>1, <2>2, <2>3 DEF InitKept, TypeOK
  <2>6. blind' # {} => faults' > 0
    BY <1>t, <2>2 DEF InitKept, TypeOK
  <2>7. QED
    BY <2>3, <2>4, <2>5, <2>6 DEF InitKept
<1>2. CASE DropSnapshots
  <2> DEFINE touched == {taken[i].m : i \in DOMAIN taken}
             reloaded == [m \in Machines |-> IF m \in touched THEN DOMAIN snapshots'[m]
                                                              ELSE listed[m]]
  <2>1. PICK keep : Drop(keep)
    BY <1>2 DEF DropSnapshots
  <2>2. \A n \in Reverting : InitSnapshot \notin TakenOn(n)
    BY <1>t, TakenOnFacts DEF InitKept
  <2>3. \A n \in Reverting : InitSnapshot \in DOMAIN snapshots'[n]
                            /\ snapshots'[n][InitSnapshot] = {}
    BY <1>t, <2>1, <2>2, DropFacts DEF InitKept
  <2>4. /\ taken' = taken
        /\ \/ listed' = reloaded /\ blind' = blind /\ (faults' = faults \/ faults' = faults + 1)
           \/ \E m \in touched : /\ listed' = [reloaded EXCEPT ![m] = {}]
                                 /\ blind' = blind \union {m} /\ faults' = faults + 1
    BY <1>2 DEF DropSnapshots
  <2>5. \A n \in Reverting : InitSnapshot \in reloaded[n] \/ n \in blind
    BY <1>t, <2>3 DEF InitKept
  <2>6. \A n \in Reverting : InitSnapshot \in listed'[n] \/ n \in blind'
    BY <2>4, <2>5
  <2>7. blind' # {} => faults' > 0
    BY <1>t, <2>4 DEF InitKept, TypeOK
  <2>8. QED
    BY <1>t, <2>3, <2>4, <2>6, <2>7 DEF InitKept
<1>3. CASE BeginRun
  BY <1>t, <1>3 DEF BeginRun, InitKept
<1>4. ASSUME NEW t \in Threads, Starting(t)
      PROVE  InitKept'
  <2>1. faults' >= faults
    BY <1>t, <1>4 DEF Starting, EnterStart, StopFirst, PowerOff, RestoreSnapshot, Boot, TypeOK
  <2>2. QED
    BY <1>0, <1>t, <1>4, <2>1, StartingFacts
<1>5. CASE ShutdownMachine
  BY <1>0, <1>t, <1>5 DEF ShutdownMachine, PowerOff, TypeOK
<1>6. CASE UNCHANGED <<snapshots, listed, blind, taken, faults>>
  BY <1>0, <1>t, <1>6 DEF TypeOK
<1>7. QED
  BY <1>1, <1>2, <1>3, <1>4, <1>5, <1>6, Steps
  DEF OtherWorker, CleaningUp, Script, CallTest, CallSnapshot, Prepare, CallRestore, RunTest,
      EndScript, StartCleanUp, CleanNext, EndCleanUp, SoloTest, SoloBegin, vars

(* While no standalone test has begun, the worker alone moves. *)
LEMMA WorkerAlone ==
  ASSUME TypeOK, LockHeld, [Next]_vars, solos' = 0
  PROVE  /\ UNCHANGED vars \/ OtherWorker \/ Starting("worker")
         /\ solos = 0
         /\ faults' = faults \/ (faults' = faults + 1 /\ faultRun' = run)
         /\ faults' = faults => faultRun' = faultRun
<1>1. UNCHANGED vars \/ OtherWorker \/ Starting("worker")
  <2>1. \A t \in Threads : Starting(t) => solos' = solos
    BY StartingFacts
  <2>2. \A t \in Testers : ~Starting(t)
    BY <2>1, StartingFacts DEF LockHeld
  <2>3. \A t \in Testers : ~SoloTest(t) /\ ~(\E m \in Machines : SoloBegin(t, m))
    BY DEF LockHeld, SoloTest, SoloBegin, TypeOK
  <2>4. QED
    BY <2>2, <2>3, Steps
<1>2. solos = 0
  BY <1>1, OtherWorkerFacts, StartingFacts DEF vars
<1>3. \/ UNCHANGED <<faults, faultRun>>
      \/ faults' = faults + 1 /\ faultRun' = run
  BY <1>1
  DEF vars, hypervisor, Succeeds, Fails, Starting, EnterStart, StopFirst, PowerOff,
      RestoreSnapshot, Boot, OtherWorker, CleaningUp, BeginRun, Script, CallTest, CallSnapshot,
      Prepare, CallRestore, RunTest, TakeSnapshot, EndScript, StartCleanUp, CleanNext,
      DropSnapshots, ShutdownMachine, EndCleanUp
<1>4. QED
  BY <1>1, <1>2, <1>3 DEF TypeOK

(* Without failures: every machine that is on will be shut down by the clean-up
   under way or to come, and every snapshot of the run will be deleted by it. *)
LEMMA NextLeftBehind == IInv /\ [Next]_vars => LeftBehind'
<1> SUFFICES ASSUME IInv, [Next]_vars, NothingFailed'
             PROVE  (OnOnly /\ Known)'
  BY DEF LeftBehind
<1>t. TypeOK /\ LockHeld /\ Counted /\ InitKept
  BY DEF IInv
<1> USE DEF Succeeds, Fails, InScript, InCleanUp, OnMachine
<1>w. thread \in [Threads -> ThreadStates] /\ thread["worker"] \in ThreadStates
  BY <1>t DEF TypeOK
<1>s. UNCHANGED vars \/ OtherWorker \/ Starting("worker")
  BY <1>t, WorkerAlone DEF NothingFailed
<1>f. faults = 0 /\ faults' = faults /\ solos = 0
  BY <1>t, WorkerAlone DEF NothingFailed, TypeOK
<1>i. OnOnly /\ Known
  BY <1>f DEF IInv, LeftBehind, NothingFailed
<1>0. CASE UNCHANGED vars
  BY <1>i, <1>0 DEF OnOnly, Known, OwnOnly, TakenOn, vars, hypervisor, scriptVars
<1>k. ASSUME UNCHANGED <<snapshots, taken>>
      PROVE  /\ \A m \in Machines : DOMAIN snapshots'[m] \subseteq OwnIds(m) \union TakenOn(m)'
             /\ OwnOnly' <=> OwnOnly
  BY <1>i, <1>k DEF Known, OwnOnly, TakenOn
<1>1. CASE Starting("worker")
  <2>1. /\ worker.pc \in Starts /\ worker.m \in Machines
        /\ worker'.m = worker.m /\ worker'.next = worker.next
        /\ worker'.pc \in Starts \/ worker'.pc = worker.next
        /\ UNCHANGED <<snapshots, run, calls, used, taken, todo>>
    BY <1>t, <1>1, StartingFacts DEF Starting, scriptVars, TypeOK
  <2>2. worker.next \in {"ready", "test", "snapshot", "drop"}
    BY <1>t, <1>w, <2>1 DEF Counted, ThreadStates
  <2>3. power' \subseteq power \union {worker.m}
    BY <1>1 DEF Starting, EnterStart, StopFirst, PowerOff, RestoreSnapshot, Boot
  <2>4. QED
    BY <1>i, <1>t, <1>k, <2>1, <2>2, <2>3 DEF OnOnly, Known, Counted
<1>2. CASE BeginRun
  <2>1. /\ worker.pc = "idle" /\ worker'.pc = "ready" /\ used' = {} /\ taken' = <<>>
        /\ UNCHANGED <<power, snapshots>>
    BY <1>t, <1>2, GotoFacts DEF BeginRun, hypervisor
  <2>2. \A m \in Machines : DOMAIN snapshots'[m] = OwnIds(m)
    BY <1>i, <2>1 DEF Known, OwnOnly
  <2>3. QED
    BY <1>i, <2>1, <2>2 DEF OnOnly, Known
<1>3. ASSUME NEW m \in Machines, NEW next \in {"test", "snapshot"}, Prepare(m, next)
      PROVE  (OnOnly /\ Known)'
  <2>1. /\ worker.pc = "ready" /\ worker'.pc \in {"start", next}
        /\ worker'.next = next /\ used' = used \union {m}
        /\ UNCHANGED <<power, snapshots, taken>>
    BY <1>w, <1>3 DEF Prepare, hypervisor
  <2>2. QED
    BY <1>i, <1>k, <2>1 DEF OnOnly, Known
<1>4. ASSUME NEW i \in DOMAIN taken, CallRestore(i)
      PROVE  (OnOnly /\ Known)'
  <2>1. /\ worker.pc = "ready" /\ worker'.pc = "start" /\ worker'.next = "ready"
        /\ UNCHANGED <<power, snapshots, used, taken>>
    BY <1>w, <1>4 DEF CallRestore, hypervisor
  <2>2. QED
    BY <1>i, <1>k, <2>1 DEF OnOnly, Known
<1>5. CASE RunTest \/ EndScript
  <2>1. /\ worker.pc \in {"test", "ready"} /\ worker'.pc \in {"ready", "ending"}
        /\ UNCHANGED <<power, snapshots, used, taken>>
    BY <1>t, <1>5, GotoFacts DEF RunTest, EndScript, scriptVars, hypervisor
  <2>2. QED
    BY <1>i, <1>k, <2>1 DEF OnOnly, Known
<1>6. CASE TakeSnapshot
  <2>0. /\ worker.pc = "snapshot" /\ worker.m \in Machines
        /\ (run - 1) * MaxCalls + calls \in Nat
    BY <1>t, <1>6, OwnId DEF TakeSnapshot, TypeOK
  <2>1. PICK m \in Machines, s \in Nat : m = worker.m /\ s = (run - 1) * MaxCalls + calls
    BY <2>0
  <2>2. /\ snapshots' = WithSnapshot(m, s) /\ taken' = Track(m, s)
        /\ worker'.pc = "ready" /\ UNCHANGED <<power, used>>
    BY <1>t, <1>6, <1>f, <2>1, GotoFacts DEF TakeSnapshot, TypeOK
  <2>3. \A n \in Machines : \A x \in TakenOn(n) : x \in TakenOn(n)'
    BY <1>t, <2>1, <2>2, TrackFacts DEF TakenOn
  <2>4. s \in TakenOn(m)'
    <3>1. PICK j \in DOMAIN taken' : taken'[j].m = m /\ taken'[j].snap = s
      BY <1>t, <2>1, <2>2, TrackFacts
    <3>2. QED
      BY <3>1 DEF TakenOn
  <2>5. ASSUME NEW n \in Machines
        PROVE  DOMAIN snapshots'[n] \subseteq OwnIds(n) \union TakenOn(n)'
    <3>1. DOMAIN snapshots[n] \subseteq OwnIds(n) \union TakenOn(n)'
      BY <1>i, <2>3 DEF Known
    <3>2. DOMAIN snapshots'[n] \subseteq DOMAIN snapshots[n] \union (IF n = m THEN {s} ELSE {})
      BY <1>t, <2>1, <2>2, WithSnapshotFacts
    <3>3. QED
      BY <2>4, <3>1, <3>2
  <2>6. QED
    BY <1>i, <2>0, <2>2, <2>5 DEF OnOnly, Known
<1>7. CASE StartCleanUp
  <2>1. /\ worker.pc = "ending" /\ worker'.pc = "cleaning"
        /\ todo' = used /\ UNCHANGED <<power, snapshots, used, taken>>
    BY <1>t, <1>7, GotoFacts DEF StartCleanUp, hypervisor
  <2>2. QED
    BY <1>i, <1>k, <2>1 DEF OnOnly, Known
<1>8. ASSUME NEW m \in Machines, CleanNext(m)
      PROVE  (OnOnly /\ Known)'
  <2>1. /\ worker.pc = "cleaning" /\ worker'.pc \in {"start", "drop"} /\ worker'.m = m
        /\ worker'.next = "drop" /\ todo' = todo \ {m}
        /\ UNCHANGED <<power, snapshots, used, taken>>
    BY <1>w, <1>8 DEF CleanNext, hypervisor
  <2>2. QED
    BY <1>i, <1>k, <2>1 DEF OnOnly, Known
<1>9. CASE DropSnapshots
  <2>1. /\ worker.pc = "drop" /\ worker'.pc = "shutdown" /\ worker'.m = worker.m
        /\ Drop({}) /\ UNCHANGED <<power, used, taken, todo>>
    BY <1>t, <1>9, <1>f, GotoFacts DEF DropSnapshots, scriptVars, TypeOK
  <2>2. \A n \in Machines : DOMAIN snapshots'[n] = DOMAIN snapshots[n] \ TakenOn(n)
    BY <1>t, <2>1, DropFacts
  <2>3. \A n \in Machines : OwnIds(n) \subseteq DOMAIN snapshots[n] \ TakenOn(n)
    BY <1>t, TakenOnFacts DEF OwnIds, InitKept
  <2>4. OwnOnly'
    BY <1>i, <2>2, <2>3 DEF Known, OwnOnly
  <2>5. QED
    BY <1>i, <2>1, <2>4 DEF OnOnly, Known, OwnOnly
<1>10. CASE ShutdownMachine
  <2>1. /\ worker.pc = "shutdown" /\ worker'.pc = "cleaning" /\ worker'.m = worker.m
        /\ power' = power \ {worker.m} /\ UNCHANGED <<snapshots, used, taken, todo>>
    BY <1>t, <1>10, <1>f, GotoFacts DEF ShutdownMachine, PowerOff, scriptVars, TypeOK
  <2>2. QED
    BY <1>i, <1>k, <2>1 DEF OnOnly, Known
<1>11. CASE EndCleanUp
  <2>1. /\ worker.pc = "cleaning" /\ worker'.pc = "idle" /\ todo = {}
        /\ UNCHANGED <<power, snapshots, taken>>
    BY <1>w, <1>11 DEF EndCleanUp, Idle, hypervisor
  <2>2. used = {} => taken = <<>>
    <3>1. used = {} => DOMAIN taken = {}
      BY <1>t, <2>1 DEF Counted
    <3>2. QED
      BY <1>t, <3>1 DEF TypeOK
  <2>3. used = {} => OwnOnly
    <3>1. ASSUME used = {}, NEW m \in Machines
          PROVE  TakenOn(m) = {}
      BY <2>2, <3>1, TakenOnFacts
    <3>2. \A m \in Machines : OwnIds(m) \subseteq DOMAIN snapshots[m]
      BY <1>t DEF OwnIds, InitKept
    <3>3. QED
      BY <1>i, <3>1, <3>2 DEF Known, OwnOnly
  <2>4. QED
    BY <1>i, <1>k, <2>1, <2>3 DEF OnOnly, Known
<1>12. QED
  BY <1>0, <1>s, <1>1, <1>2, <1>3, <1>4, <1>5, <1>6, <1>7, <1>8, <1>9, <1>10, <1>11
  DEF OtherWorker, CleaningUp, Script, CallTest, CallSnapshot, CallRestore

(* In a run without failures, what is on the machines it has prepared, and in
   the snapshots it took of them, comes from this run. *)
LEMMA NextOfThisRun == IInv /\ [Next]_vars => OfThisRun'
<1> SUFFICES ASSUME IInv, [Next]_vars, FineRun', InScript'
             PROVE  OfThisRun'
  BY DEF OfThisRun
<1>t. TypeOK /\ LockHeld /\ StaysOff /\ Counted /\ InitKept
  BY DEF IInv
<1> USE DEF InScript, OnMachine
<1>w. thread \in [Threads -> ThreadStates] /\ thread["worker"] \in ThreadStates
  BY <1>t DEF TypeOK
<1>s. /\ UNCHANGED vars \/ OtherWorker \/ Starting("worker")
      /\ solos = 0
      /\ faults' = faults \/ (faults' = faults + 1 /\ faultRun' = run)
      /\ faults' = faults => faultRun' = faultRun
  BY <1>t, WorkerAlone DEF FineRun
<1>0. CASE BeginRun
  <2>1. worker'.pc = "ready" /\ used' = {} /\ taken' = <<>>
    BY <1>t, <1>0, GotoFacts DEF BeginRun
  <2>2. QED
    BY <2>1 DEF OfThisRun
<1>f. ASSUME run' = run
      PROVE  FineRun /\ UNCHANGED <<faults, faultRun>>
  BY <1>s, <1>t, <1>f DEF FineRun, TypeOK
<1>i. ASSUME FineRun, InScript
      PROVE  /\ \A m \in used : Trusted(m) /\ ~Pending(m) => disk[m] \subseteq {run}
             /\ \A i \in DOMAIN taken :
                  LET m == taken[i].m
                      s == taken[i].snap
                  IN Trusted(m) /\ s \in DOMAIN snapshots[m] => snapshots[m][s] \subseteq {run}
             /\ worker.pc \in {"start", "off", "restore"} /\ Trusted(worker.m)
                /\ worker.snap \in DOMAIN snapshots[worker.m] =>
                  snapshots[worker.m][worker.snap] \subseteq {run}
  BY <1>i DEF IInv, OfThisRun
<1>1. CASE UNCHANGED vars
  BY <1>1, <1>f, <1>i
  DEF OfThisRun, Trusted, Pending, vars, hypervisor, scriptVars, listVars
<1>2. CASE Starting("worker")
  <2>1. /\ worker.pc \in Starts /\ worker.m \in Machines
        /\ worker'.m = worker.m /\ worker'.next = worker.next /\ worker'.snap = worker.snap
        /\ worker'.pc \in Starts \/ worker'.pc = worker.next
        /\ UNCHANGED <<snapshots, listed, blind, run, calls, used, taken, todo>>
    BY <1>t, <1>2, StartingFacts DEF Starting, scriptVars, listVars, TypeOK
  <2>2. FineRun /\ UNCHANGED <<faults, faultRun>>
    BY <1>f, <2>1
  <2>3. worker.next # "drop" /\ InScript
    BY <2>1
  <2>4. CASE RestoreSnapshot("worker")
    <3>1. /\ worker.pc = "restore" /\ worker'.pc = "boot" /\ worker.m \notin power
      BY <1>t, <2>2, <2>4, StartingFacts, <1>2 DEF RestoreSnapshot, StaysOff, FineStart
    <3>2. disk' = IF worker.snap \in DOMAIN snapshots[worker.m]
                  THEN [disk EXCEPT ![worker.m] = snapshots[worker.m][worker.snap]] ELSE disk
      BY <1>t, <2>2, <2>4, <3>1 DEF RestoreSnapshot, Restored, Fails, TypeOK
    <3>3. ASSUME NEW n \in used, Trusted(n)
          PROVE  disk'[n] \subseteq {run}
      <4>1. n \in Machines
        BY <1>t DEF TypeOK
      <4>2. CASE n # worker.m
        BY <1>i, <1>t, <2>2, <2>3, <3>2, <3>3, <4>1, <4>2 DEF Pending, TypeOK
      <4>3. CASE n = worker.m /\ worker.snap \in DOMAIN snapshots[n]
        BY <1>i, <1>t, <2>2, <2>3, <3>1, <3>2, <3>3, <4>1, <4>3 DEF TypeOK
      <4>4. CASE n = worker.m /\ worker.snap \notin DOMAIN snapshots[n]
        <5>1. ~Pending(n)
          BY <1>t, <3>3, <4>4 DEF Pending, Trusted, InitKept
        <5>2. QED
          BY <1>i, <2>2, <2>3, <3>2, <3>3, <4>4, <5>1
      <4>5. QED
        BY <4>2, <4>3, <4>4
    <3>4. QED
      BY <1>i, <2>1, <2>2, <2>3, <3>1, <3>3 DEF OfThisRun, Trusted
  <2>5. CASE ~RestoreSnapshot("worker")
    <3>1. /\ disk' = disk
          /\ \A n \in Machines : Pending(n) => Pending(n)'
          /\ worker'.pc \in {"start", "off", "restore"} => worker.pc \in {"start", "off", "restore"}
      BY <1>2, <2>1, <2>2, <2>5, <1>w, <1>t, StartingFacts
      DEF Starting, EnterStart, StopFirst, PowerOff, Boot, Pending, ThreadStates, Succeeds,
          Fails, TypeOK
    <3>2. \A n \in used : n \in Machines
      BY <1>t DEF TypeOK
    <3>3. QED
      BY <1>i, <2>1, <2>2, <2>3, <3>1, <3>2 DEF OfThisRun, Trusted
  <2>6. QED
    BY <2>4, <2>5
<1>3. ASSUME NEW m \in Machines, NEW next \in {"test", "snapshot"}, Prepare(m, next)
      PROVE  OfThisRun'
  <2>1. /\ worker.pc = "ready" /\ worker'.m = m /\ worker'.snap = InitSnapshot
        /\ worker'.pc = (IF NeedsRevert(m) THEN "start" ELSE next)
        /\ used' = used \union {m}
        /\ UNCHANGED <<disk, snapshots, listed, blind, run, taken>>
    BY <1>w, <1>3 DEF Prepare, hypervisor, listVars
  <2>2. FineRun /\ InScript
    BY <1>f, <2>1
  <2>3. ASSUME NEW n \in used', Trusted(n), ~Pending(n)'
        PROVE  disk[n] \subseteq {run}
    <3>1. n \in used
      BY <1>t, <2>1, <2>3 DEF NeedsRevert, Pending, Trusted, InitKept
    <3>2. QED
      BY <1>i, <2>1, <2>2, <2>3, <3>1 DEF Pending
  <2>4. Trusted(m) => snapshots[m][InitSnapshot] = {}
    BY <1>t DEF Trusted, InitKept
  <2>5. QED
    BY <1>i, <2>1, <2>2, <2>3, <2>4 DEF OfThisRun, Trusted
<1>4. ASSUME NEW i \in DOMAIN taken, CallRestore(i)
      PROVE  OfThisRun'
  <2>1. /\ worker.pc = "ready" /\ worker'.pc = "start" /\ worker'.m = taken[i].m
        /\ worker'.snap = taken[i].snap
        /\ UNCHANGED <<disk, snapshots, blind, run, used, taken>>
    BY <1>w, <1>4 DEF CallRestore, hypervisor, listVars
  <2>2. FineRun /\ InScript
    BY <1>f, <2>1
  <2>3. \A n \in used : ~Pending(n)
    BY <2>1 DEF Pending
  <2>4. QED
    BY <1>i, <2>1, <2>2, <2>3 DEF OfThisRun, Trusted
<1>5. CASE RunTest \/ EndScript
  <2>1. /\ worker.pc \in {"test", "ready"} /\ worker'.pc \in {"ready", "ending"}
        /\ UNCHANGED <<snapshots, blind, run, used, taken>>
    BY <1>t, <1>5, GotoFacts DEF RunTest, EndScript, scriptVars, hypervisor, listVars
  <2>2. FineRun /\ InScript
    BY <1>f, <2>1
  <2>3. \A n \in Machines : disk'[n] \subseteq disk[n] \union {run}
    BY <1>t, <1>5 DEF RunTest, TestOn, EndScript, hypervisor, TypeOK
  <2>4. \A n \in used : n \in Machines /\ ~Pending(n)
    BY <1>t, <2>1 DEF Pending, TypeOK
  <2>5. QED
    BY <1>i, <2>1, <2>2, <2>3, <2>4 DEF OfThisRun, Trusted
<1>6. CASE TakeSnapshot
  <2>0. /\ worker.pc = "snapshot" /\ worker.m \in Machines /\ worker.m \in used
        /\ (run - 1) * MaxCalls + calls \in Nat
    BY <1>t, <1>6, OwnId DEF TakeSnapshot, TypeOK, Counted
  <2>1. PICK m \in Machines, s \in Nat : m = worker.m /\ s = (run - 1) * MaxCalls + calls
    BY <2>0
  <2>2. FineRun /\ InScript /\ UNCHANGED <<faults, faultRun>>
    BY <1>f, <1>6, <2>0 DEF TakeSnapshot
  <2>3. /\ snapshots' = WithSnapshot(m, s) /\ taken' = Track(m, s)
        /\ worker'.pc = "ready" /\ UNCHANGED <<disk, blind, run, used>>
    BY <1>t, <1>6, <2>1, <2>2, GotoFacts DEF TakeSnapshot, Reload, Fails, TypeOK
  <2>4. \A n \in used : ~Pending(n)
    BY <2>0 DEF Pending
  <2>5. Trusted(m) => disk[m] \subseteq {run}
    BY <1>i, <2>0, <2>1, <2>2, <2>4
  <2>6. ASSUME NEW j \in DOMAIN taken', Trusted(taken'[j].m),
               taken'[j].snap \in DOMAIN snapshots'[taken'[j].m]
        PROVE  snapshots'[taken'[j].m][taken'[j].snap] \subseteq {run}
    <3>1. CASE taken'[j].m = m /\ taken'[j].snap = s
      BY <1>t, <2>3, <2>5, <2>6, <3>1, WithSnapshotFacts
    <3>2. CASE \E i \in DOMAIN taken : taken'[j] = taken[i]
      <4>1. PICK i \in DOMAIN taken : taken'[j] = taken[i]
        BY <3>2
      <4>2. taken[i].m \in Machines
        BY <1>t, <2>0 DEF Counted, TypeOK
      <4>3. CASE taken[i].m = m /\ taken[i].snap = s
        BY <3>1, <4>1, <4>3
      <4>4. CASE ~(taken[i].m = m /\ taken[i].snap = s)
        <5>1. /\ taken[i].snap \in DOMAIN snapshots[taken[i].m]
              /\ snapshots'[taken[i].m][taken[i].snap] = snapshots[taken[i].m][taken[i].snap]
          BY <1>t, <2>3, <2>6, <4>1, <4>2, <4>4, WithSnapshotFacts
        <5>2. QED
          BY <1>i, <2>2, <2>6, <4>1, <5>1
      <4>5. QED
        BY <4>3, <4>4
    <3>3. QED
      BY <1>t, <2>3, <3>1, <3>2, TrackFacts
  <2>7. QED
    BY <1>i, <2>2, <2>3, <2>4, <2>6 DEF OfThisRun, Trusted
<1>7. CASE \/ StartCleanUp \/ (\E m \in Machines : CleanNext(m))
           \/ DropSnapshots \/ ShutdownMachine \/ EndCleanUp
  <2>1. ~InScript'
    <3>1. CASE StartCleanUp \/ DropSnapshots \/ ShutdownMachine
      BY <1>t, <3>1, GotoFacts DEF StartCleanUp, DropSnapshots, ShutdownMachine
    <3>2. CASE \E m \in Machines : CleanNext(m)
      BY <1>w, <3>2 DEF CleanNext
    <3>3. CASE EndCleanUp
      BY <1>w, <3>3 DEF EndCleanUp, Idle
    <3>4. QED
      BY <1>7, <3>1, <3>2, <3>3
  <2>2. QED
    BY <2>1
<1>8. QED
  BY <1>1, <1>s, <1>2, <1>0, <1>3, <1>4, <1>5, <1>6, <1>7
  DEF OtherWorker, CleaningUp, Script, CallTest, CallSnapshot, CallRestore

(* Without failures: a run that uses one machine finds it on the port whenever
   it is not being restarted. *)
LEMMA NextOnThePort == IInv /\ [Next]_vars => OnThePort'
<1> SUFFICES ASSUME IInv, [Next]_vars, NothingFailed',
                    worker'.pc \in {"ready", "test", "snapshot"},
                    NEW m \in Reverting, used' = {m}
             PROVE  port' = m
  BY DEF OnThePort
<1>t. TypeOK /\ LockHeld /\ StaysOff /\ Counted /\ InitKept
  BY DEF IInv
<1> USE DEF Succeeds, Fails, InScript, InCleanUp, OnMachine
<1>w. thread \in [Threads -> ThreadStates] /\ thread["worker"] \in ThreadStates
  BY <1>t DEF TypeOK
<1>s. UNCHANGED vars \/ OtherWorker \/ Starting("worker")
  BY <1>t, WorkerAlone DEF NothingFailed
<1>f. faults = 0 /\ faults' = faults /\ solos = 0 /\ NothingFailed
  BY <1>t, WorkerAlone DEF NothingFailed, TypeOK
<1>i. worker.pc \in {"ready", "test", "snapshot"} /\ used = {m} => port = m
  BY <1>f DEF IInv, OnThePort
<1>0. CASE UNCHANGED vars
  BY <1>0, <1>i DEF vars, hypervisor, scriptVars
<1>1. CASE Starting("worker")
  <2>1. /\ worker.pc \in Starts
        /\ worker'.pc \in Starts \/ worker'.pc = worker.next
        /\ EnterStart("worker") => worker'.pc \in {"off", "restore"}
        /\ StopFirst("worker") => worker'.pc = "restore"
        /\ RestoreSnapshot("worker") => worker'.pc = "boot"
        /\ UNCHANGED used
    BY <1>t, <1>1, StartingFacts DEF Starting, scriptVars
  <2>2. Boot("worker")
    BY <1>1, <2>1 DEF Starting
  <2>3. worker.pc = "boot" /\ worker.next # "drop"
    BY <1>t, <2>2, StartingFacts, <1>1 DEF Boot
  <2>4. worker.m = m /\ power \subseteq {m}
    BY <1>t, <1>f, <2>1, <2>3 DEF Counted, IInv, LeftBehind, OnOnly
  <2>5. m \notin power /\ port = NoMachine
    BY <1>t, <1>f, <2>3, <2>4 DEF StaysOff, FineStart
  <2>6. QED
    BY <1>f, <2>2, <2>4, <2>5, <1>t DEF Boot, TypeOK
<1>2. CASE BeginRun
  BY <1>2 DEF BeginRun
<1>3. ASSUME NEW n \in Machines, NEW next \in {"test", "snapshot"}, Prepare(n, next)
      PROVE  port' = m
  <2>1. /\ worker.pc = "ready" /\ ~NeedsRevert(n) /\ used' = used \union {n}
        /\ port' = port
    BY <1>w, <1>3 DEF Prepare, hypervisor
  <2>2. n \in used
    BY <1>t, <1>f, <2>1 DEF NeedsRevert, InitKept
  <2>3. QED
    BY <1>i, <2>1, <2>2
<1>4. ASSUME NEW i \in DOMAIN taken, CallRestore(i)
      PROVE  port' = m
  BY <1>w, <1>4 DEF CallRestore
<1>5. CASE RunTest \/ TakeSnapshot
  BY <1>i, <1>5 DEF RunTest, TakeSnapshot, scriptVars
<1>6. CASE \/ EndScript \/ StartCleanUp \/ (\E n \in Machines : CleanNext(n))
           \/ DropSnapshots \/ ShutdownMachine \/ EndCleanUp
  <2>1. CASE EndScript \/ StartCleanUp \/ DropSnapshots \/ ShutdownMachine
    BY <1>t, <2>1, GotoFacts DEF EndScript, StartCleanUp, DropSnapshots, ShutdownMachine
  <2>2. CASE \E n \in Machines : CleanNext(n)
    BY <1>w, <2>2 DEF CleanNext
  <2>3. CASE EndCleanUp
    BY <1>w, <2>3 DEF EndCleanUp, Idle
  <2>4. QED
    BY <1>6, <2>1, <2>2, <2>3
<1>7. QED
  BY <1>0, <1>s, <1>1, <1>2, <1>3, <1>4, <1>5, <1>6
  DEF OtherWorker, CleaningUp, Script, CallTest, CallSnapshot, CallRestore

-----------------------------------------------------------------------------
(* The inductive invariant holds in every state of every behaviour. *)
THEOREM InvariantHolds == Spec => []IInv
<1>1. IInv /\ [Next]_vars => IInv'
  BY NextType, NextLock, NextOff, NextCounted, NextInitKept, NextLeftBehind,
     NextOfThisRun, NextOnThePort DEF IInv
<1>2. QED
  BY InitHolds, <1>1, PTL DEF Spec

(* A Start whose own check and shutdown succeeded restores a disk only while its
   machine is off (RestoredWhileOff), whatever other commands fail: the driver's
   lock is held from the check that it is to the boot. *)
THEOREM RestoredWhileOffHolds == Spec => []RestoredWhileOff
<1>1. IInv => RestoredWhileOff
  BY DEF IInv, StaysOff, FineStart, RestoredWhileOff
<1>2. QED
  BY <1>1, InvariantHolds, PTL

(* Between runs without failures the machines are off and as their owner
   prepared them (CleanBetweenRuns), however many runs, calls and machines. *)
THEOREM CleanBetweenRunsHolds == Spec => []CleanBetweenRuns
<1>1. ASSUME IInv, worker.pc = "idle", faults = 0, solos = 0
      PROVE  power = {} /\ \A m \in Machines : snapshots[m] = OwnSnapshots(m)
  <2>1. power = {} /\ OwnOnly
    BY <1>1 DEF IInv, LeftBehind, NothingFailed, OnOnly, Known
  <2>2. ASSUME NEW m \in Machines
        PROVE  snapshots[m] = OwnSnapshots(m)
    <3>1. DOMAIN snapshots[m] = OwnIds(m) /\ snapshots[m] \in [DOMAIN snapshots[m] -> Contents]
      BY <1>1, <2>1, SnapshotSetFacts DEF OwnOnly, IInv, TypeOK
    <3>2. \A i \in OwnIds(m) : snapshots[m][i] = {}
      BY <1>1 DEF OwnIds, IInv, InitKept
    <3>3. OwnSnapshots(m) = [i \in OwnIds(m) |-> {}]
      BY DEF OwnSnapshots, OwnIds
    <3>4. QED
      BY <3>1, <3>2, <3>3
  <2>3. QED
    BY <2>1, <2>2
<1>2. IInv => CleanBetweenRuns
  BY <1>1 DEF CleanBetweenRuns
<1>3. QED
  BY <1>2, InvariantHolds, PTL

(* A call that reaches a machine finds nothing of earlier runs on its disk, and
   the machine it named on the port when the run uses no other (Isolation). *)
THEOREM IsolationHolds == Spec => []Isolation
<1>1. ASSUME IInv, NEW m \in Reverting, Reaches(m), solos = 0
      PROVE  /\ (faults = 0 \/ faultRun < run) /\ m \notin blind => disk[m] \subseteq {run}
             /\ faults = 0 /\ used = {m} => port = m
  <2>1. worker.pc \in {"test", "snapshot"} /\ worker.m = m /\ m \in used /\ InScript
    BY <1>1 DEF IInv, Counted, Reaches, InScript, OnMachine
  <2>2. (faults = 0 \/ faultRun < run) /\ m \notin blind => disk[m] \subseteq {run}
    BY <1>1, <2>1 DEF IInv, OfThisRun, FineRun, Trusted, Pending
  <2>3. faults = 0 /\ used = {m} => port = m
    BY <1>1, <2>1 DEF IInv, OnThePort, NothingFailed
  <2>4. QED
    BY <2>2, <2>3
<1>2. IInv => Isolation
  BY <1>1 DEF Isolation
<1>3. QED
  BY <1>2, InvariantHolds, PTL
=============================================================================
