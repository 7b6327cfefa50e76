---------------------------- MODULE TestRepository ----------------------------
(* The store of tests: resources with an index in Redis and a file each
   (Storage/RedisTestRepository.cs), the list of tests that each driver keeps as
   a blob (VMTestLib/TestDrivers), and the copy of both lists in memory
   (TestDriverManager.cs). Two programs use it on the same Redis: the web server
   (Visor), whose only HTTP thread takes uploads while the runs' threads read
   tests, and the command line (TestVisorService/Program.cs). Each may end at
   any step. Redis, which executes a command at a time, and its lock, which
   outlives its holder, are external, and so is the file system. *)
EXTENDS Naturals, Sequences, SequencesExt

CONSTANTS Procs,        \* the programs
          Web,          \* the one that runs the tests
          Names,        \* names of tests
          Uploads,      \* what users upload: program, kind of test, name
          NoName,
          MaxInstalls,  \* bound: uploads, over both
          MaxTests,     \* bound: tests run
          MaxCrashes    \* bound: ends of a program

ASSUME ProcsAssumption ==
  Web \in Procs /\ {"nobody", "dead"} \cap Procs = {} /\ NoName \notin Names
ASSUME BoundsAssumption == {MaxInstalls, MaxTests, MaxCrashes} \subseteq Nat

Kinds == {"batch", "downloader"}   \* BatchFileDriver, FileDownloader
ASSUME UploadsAssumption == Uploads \subseteq Procs \X Kinds \X Names

Versions == 1..MaxInstalls         \* uploads, numbered as they begin
Nothing == 0                       \* no entry, no file
Empty == MaxInstalls + 1           \* a file created or emptied
Partial == MaxInstalls + 2         \* a file whose writing has begun
Contents == Versions \union {Nothing, Empty, Partial}
Nobody == "nobody"
Dead == "dead"                     \* the lock of a program that has ended

VARIABLES
  \* Redis: the batch driver's repository (the downloader has no resources),
  \* and a blob for each driver
  index,    \* index[n]: the number of the resource's file
  counter, lock,
  blob,     \* blob[k]: the driver's tests
  \* the disk
  file,     \* file[i]: the version in file i, for the numbers given out
  \* the programs
  proc,     \* start or upload under way: step, test, version, file, what was read
  listed,   \* TestDriverManager.Tests
  \* bounds and history
  installs, tests, crashes,
  latest,   \* latest[n]: the version last written in full
  broken,   \* names whose upload broke off, or was found without its file
  raced,    \* drivers whose list two programs have changed at a time
  clashed,  \* names that two programs have uploaded at a time
  done,     \* tests whose upload was reported to be complete
  ran       \* the test run last, and the version it was run from

redis == <<index, counter, lock, blob>>
bounds == <<installs, tests, crashes>>
history == <<latest, broken, raced, clashed, done, ran>>
vars == <<redis, file, proc, listed, bounds, history>>

Off == [pc |-> "off", kind |-> "batch", name |-> NoName, ver |-> Nothing,
        at |-> Nothing, list |-> <<>>, todo |-> {}]
Idle == [Off EXCEPT !.pc = "idle"]
NoTest == [name |-> NoName, got |-> Nothing, torn |-> FALSE]

Init ==
  /\ index = [n \in Names |-> Nothing] /\ counter = 0 /\ lock = Nobody
  /\ blob = [k \in Kinds |-> <<>>]
  /\ file = <<>>
  /\ proc = [p \in Procs |-> Off] /\ listed = [p \in Procs |-> {}]
  /\ installs = 0 /\ tests = 0 /\ crashes = 0
  /\ latest = [n \in Names |-> Nothing] /\ broken = {} /\ raced = {} /\ clashed = {}
  /\ done = {} /\ ran = NoTest

Writing == {"lockIndex", "setIndex", "unlock", "create", "empty", "open", "copy", "params"}
Uploading(n) == \E p \in Procs : proc[p].name = n /\ proc[p].kind = "batch" /\
                                 proc[p].pc \in Writing

Removing(n) == \E p \in Procs : proc[p].pc = "remove" /\ proc[p].name = n

\* A step of p's thread, after which its state is next.
Step(p, from, next) ==
  /\ proc[p].pc = from
  /\ proc' = [proc EXCEPT ![p] = next]
  /\ UNCHANGED <<bounds, clashed, ran>>

Goes(p, to) == [proc[p] EXCEPT !.pc = to]

-----------------------------------------------------------------------------
(* A program starts: CheckIndex, then RefreshTests. *)
Start(p) ==
  /\ Step(p, "off", Goes(p, "lockCheck"))
  /\ UNCHANGED <<redis, file, listed, latest, broken, raced, done>>

LockForCheck(p) ==
  /\ lock = Nobody /\ lock' = p
  /\ Step(p, "lockCheck",
          [Goes(p, "check") EXCEPT !.todo = {n \in Names : index[n] # Nothing}])
  /\ UNCHANGED <<index, counter, blob, file, listed, latest, broken, raced, done>>

\* Whether there is a file is asked for the entries read at first.
Indexed(n) == TRUE   \* mutant: every entry is removed
Missing(n) == file[index[n]] = Nothing

CheckEntry(p, n) ==
  /\ n \in proc[p].todo
  /\ Step(p, "check", [proc[p] EXCEPT !.todo = @ \ {n}, !.name = n,
                                      !.pc = IF Missing(n) THEN "remove" ELSE "check"])
  /\ broken' = IF Missing(n) /\ Uploading(n) THEN broken \union {n} ELSE broken
  /\ UNCHANGED <<redis, file, listed, latest, raced, done>>

RemoveEntry(p) ==
  /\ Step(p, "remove", Goes(p, "check"))
  /\ index' = [index EXCEPT ![proc[p].name] = Nothing]
  /\ UNCHANGED <<counter, lock, blob, file, listed, latest, broken, raced, done>>

Kept == lock   \* mutant: the lock is not released
Released == Nobody

EndCheck(p) ==
  /\ proc[p].todo = {}
  /\ Step(p, "check", [Off EXCEPT !.pc = "refresh"])
  /\ lock' = Released
  /\ UNCHANGED <<index, counter, blob, file, listed, latest, broken, raced, done>>

-----------------------------------------------------------------------------
(* CreateTest: InstallTest of the driver, then RefreshTests. *)
BeginInstall(p, k, n) ==
  /\ proc[p].pc = "idle" /\ <<p, k, n>> \in Uploads /\ installs < MaxInstalls
  /\ installs' = installs + 1
  /\ proc' = [proc EXCEPT ![p] =
       [Idle EXCEPT !.pc = IF k = "batch" THEN "lockIndex" ELSE "load",
                    !.kind = k, !.name = n, !.ver = installs + 1]]
  /\ clashed' = IF k = "batch" /\ Uploading(n) THEN clashed \union {n} ELSE clashed
  /\ UNCHANGED <<redis, file, listed, tests, crashes, latest, broken, raced, done, ran>>

\* The HTTP server answers an exception with status 500; the command line does
\* not catch it, and ends.
Fail(p, from) ==
  /\ Step(p, from, IF p = Web THEN Idle ELSE Off)
  /\ listed' = IF p = Web THEN listed ELSE [listed EXCEPT ![p] = {}]
  /\ UNCHANGED <<redis, file, latest, raced, done>>

LockIndex(p) ==
  /\ lock = Nobody /\ lock' = p
  /\ Step(p, "lockIndex", Goes(p, "setIndex"))
  /\ UNCHANGED <<index, counter, blob, file, listed, latest, broken, raced, done>>

\* An entry of the same name is replaced, and its file stays.
NextFile(c) == c + 1

SetIndex(p) ==
  /\ Step(p, "setIndex", [Goes(p, "unlock") EXCEPT !.at = NextFile(counter)])
  /\ counter' = NextFile(counter)
  /\ index' = [index EXCEPT ![proc[p].name] = counter']
  /\ file' = Append(file, Nothing)
  /\ UNCHANGED <<lock, blob, listed, latest, broken, raced, done>>

UnlockIndex(p) ==
  /\ Step(p, "unlock", Goes(p, "create"))
  /\ lock' = Released
  /\ UNCHANGED <<index, counter, blob, file, listed, latest, broken, raced, done>>

CreateFile(p) ==
  /\ Step(p, "create", Goes(p, "empty"))
  /\ file' = [file EXCEPT ![proc[p].at] = Empty]
  /\ UNCHANGED <<redis, listed, latest, broken, raced, done>>

\* Write deletes the file that the index names now, and opens it anew; its
\* contents are shared with nobody in the same program until it is closed.
EmptyFile(p) ==
  LET f == index[proc[p].name] IN
  /\ Step(p, "empty", [Goes(p, "open") EXCEPT !.at = f])
  /\ f # Nothing
  /\ file' = [file EXCEPT ![f] = Nothing]
  /\ UNCHANGED <<redis, listed, latest, broken, raced, done>>

OpenFile(p) ==
  /\ Step(p, "open", Goes(p, "copy"))
  /\ file' = [file EXCEPT ![proc[p].at] = Partial]
  /\ UNCHANGED <<redis, listed, latest, broken, raced, done>>

\* The other program may have deleted it meanwhile, if it uploads the same name.
CloseFile(p) ==
  /\ Step(p, "copy", Goes(p, "params"))
  /\ file' = [file EXCEPT ![proc[p].at] = IF @ = Nothing THEN @ ELSE proc[p].ver]
  /\ UNCHANGED <<redis, listed, latest, broken, raced, done>>

\* The file is read again for its REM TESTPARAM lines.
There(n) == index[n] # Nothing /\ file[index[n]] # Nothing

ReadParameters(p) ==
  LET n == proc[p].name IN
  /\ Step(p, "params", Goes(p, "load"))
  /\ There(n)
  /\ latest' = [latest EXCEPT ![n] = proc[p].ver]
  /\ broken' = IF Removing(n) THEN broken ELSE broken \ {n}
  /\ UNCHANGED <<redis, file, listed, raced, done>>

\* "Resource has been removed from the index", or its file is not there.
RemovedMeanwhile(p) ==
  /\ \/ Fail(p, "empty") /\ index[proc[p].name] = Nothing
     \/ Fail(p, "params") /\ ~There(proc[p].name)
  /\ broken' = broken \union {proc[p].name}

\* The blob is read, changed in memory and stored: two Redis commands.
LoadList(p) ==
  LET k == proc[p].kind IN
  /\ k = "batch" \/ proc[p].name \notin ToSet(blob[k])
  /\ Step(p, "load", [Goes(p, "store") EXCEPT !.list = blob[k]])
  /\ raced' = IF \E q \in Procs \ {p} : proc[q].pc = "store" /\ proc[q].kind = k
              THEN raced \union {k} ELSE raced
  /\ UNCHANGED <<redis, file, listed, latest, broken, done>>

\* "Test already exists", of the downloader only.
AlreadyExists(p) ==
  /\ proc[p].kind = "downloader"
  /\ proc[p].name \in ToSet(blob["downloader"])
  /\ Fail(p, "load")
  /\ UNCHANGED broken

Alone(list, n) == <<n>>   \* mutant: added to a new list
Added(list, n) == Append(list, n)

StoreList(p) ==
  /\ Step(p, "store", Goes(p, "refresh"))
  /\ blob' = [blob EXCEPT ![proc[p].kind] = Added(proc[p].list, proc[p].name)]
  /\ UNCHANGED <<index, counter, lock, file, listed, latest, broken, raced, done>>

Found == UNION {{k} \X ToSet(blob[k]) : k \in Kinds}

Refresh(p) ==
  LET test == <<proc[p].kind, proc[p].name>> IN
  /\ test[2] = NoName \/ test \in Found
  /\ Step(p, "refresh", Idle)
  /\ listed' = [listed EXCEPT ![p] = Found]
  /\ done' = done \union ({test} \intersect Found)
  /\ UNCHANGED <<redis, file, latest, broken, raced>>

\* CreateTest looks for the new test in the list, and throws if it is gone.
NotFound(p) ==
  /\ proc[p].name # NoName /\ <<proc[p].kind, proc[p].name>> \notin Found
  /\ Fail(p, "refresh")
  /\ UNCHANGED broken

-----------------------------------------------------------------------------
(* RunTest of a listed test, by the worker or a standalone test's thread. A
   file that this program is writing cannot be opened; one that the other is
   writing can. A resource missing from the index or the disk fails the test. *)
Exists(f) == file[f] # Nothing   \* mutant: a file being written can be opened
Readable(f) ==
  file[f] # Nothing /\ ~(proc[Web].pc = "copy" /\ proc[Web].at = f)

RunTest(n) ==
  /\ proc[Web].pc # "off" /\ tests < MaxTests
  /\ <<"batch", n>> \in listed[Web]
  /\ tests' = tests + 1
  /\ ran' = IF index[n] # Nothing /\ Readable(index[n])
            THEN [name |-> n, got |-> file[index[n]],
                  torn |-> n \in broken \union clashed \/ \E p \in Procs \ {Web} :
                                             proc[p].pc = "copy" /\ proc[p].name = n]
            ELSE NoTest
  /\ UNCHANGED <<redis, file, proc, listed, installs, crashes, latest, broken, raced,
                 clashed, done>>

(* A program ends. What it had in memory is gone, what it stored and its lock
   stay. *)
Crash(p) ==
  /\ proc[p].pc # "off" /\ crashes < MaxCrashes
  /\ crashes' = crashes + 1
  /\ proc' = [proc EXCEPT ![p] = Off]
  /\ listed' = [listed EXCEPT ![p] = {}]
  /\ lock' = IF lock = p THEN Dead ELSE lock
  /\ broken' = IF proc[p].kind = "batch" /\ proc[p].pc \in Writing
               THEN broken \union {proc[p].name} ELSE broken
  /\ UNCHANGED <<index, counter, blob, file, installs, tests, latest, raced, clashed,
                 done, ran>>

Thread(p) ==
  \/ LockForCheck(p) \/ (\E n \in Names : CheckEntry(p, n)) \/ RemoveEntry(p)
  \/ EndCheck(p) \/ LockIndex(p) \/ SetIndex(p) \/ UnlockIndex(p) \/ CreateFile(p)
  \/ EmptyFile(p) \/ OpenFile(p) \/ CloseFile(p) \/ ReadParameters(p)
  \/ RemovedMeanwhile(p) \/ LoadList(p) \/ AlreadyExists(p) \/ StoreList(p)
  \/ Refresh(p) \/ NotFound(p)

Next ==
  \/ \E p \in Procs : Start(p) \/ Thread(p) \/ Crash(p)
  \/ \E p \in Procs, k \in Kinds, n \in Names : BeginInstall(p, k, n)
  \/ \E n \in Names : RunTest(n)

Spec == Init /\ [][Next]_vars

\* The programs' threads are scheduled, and poll for the lock. Nothing says that
\* a user comes or a program is started.
FairSpec == Spec /\ \A p \in Procs : WF_vars(Thread(p))

-----------------------------------------------------------------------------
(* A test in the batch driver's list has its resource, and it is the version
   installed last; except while another version is uploaded, or when that was
   broken off: a program that ended, or one that started meanwhile and found
   the entry without its file; and except for names that both programs have
   uploaded at a time, which then write into one file. *)
ListedHasLatest ==
  \A n \in ToSet(blob["batch"]) \ (broken \union clashed) :
    \/ Uploading(n) \/ Removing(n)
    \/ index[n] # Nothing /\ file[index[n]] = latest[n]

(* No test is run from a file half written, except one that the other program
   is writing, that an end of the program left so or that both have uploaded. *)
NoTornTest == ran.got = Partial => ran.torn

(* A test whose upload was reported to be complete is in its driver's list
   from then on, unless both programs have changed that list at a time. *)
InstalledStaysListed ==
  \A t \in done : t[1] \notin raced => t[2] \in ToSet(blob[t[1]])

(* A start and an upload come to an end, unless a program has ended inside the
   index's lock, which nobody frees. *)
EveryoneProceeds ==
  \A p \in Procs :
    proc[p].pc \notin {"off", "idle"} ~> (proc[p].pc \in {"off", "idle"} \/ lock = Dead)
=============================================================================
