----------------------------- MODULE ResultStore -----------------------------
(* What is kept of one test run (Storage/RedisResultCollection.cs): the set of
   its test keys and their results in Redis, and for every key a bin with a
   counter and infos in Redis and the artifacts in a directory. The worker
   writes them while the run's script executes, web threads list and download
   them, DeleteRun removes them, and the process may end at any step; Redis and
   the disk stay. Runs share nothing of this. Redis, which executes one command
   at a time, and its locks, which outlive their holder, are external. *)
EXTENDS Naturals, Sequences, SequencesExt

CONSTANTS Keys,        \* keys the script gives its tests
          ErrorKey,    \* "Error", under which a script's exception is stored
          NoKey,
          MaxPuts,     \* bound: artifacts, over all tests
          MaxWork,     \* bound: tests the script calls, and artifacts, together
          MaxReads,    \* bound: requests of web users for lists and artifacts
          MaxDeletes,  \* bound: calls of DeleteRun
          MaxCrashes   \* bound: ends of the process

ASSUME KeysAssumption == ErrorKey \notin Keys /\ NoKey \notin Keys \union {ErrorKey}
ASSUME BoundsAssumption == {MaxPuts, MaxWork, MaxReads, MaxDeletes, MaxCrashes} \subseteq Nat

AllKeys == Keys \union {ErrorKey}
Artifacts == 1..MaxPuts        \* artifacts, numbered as they are made
Nothing == 0
Partial == MaxPuts + 1         \* a file whose writing has begun
Nobody == "nobody"
Dead == "dead"                 \* a lock whose holder went down with the process

VARIABLES
  \* Redis
  keySet,    \* the run's set of test keys
  result,    \* keys that have a TestResult
  counter,   \* counter[k]: the ArtifactCounter of k's bin, 0 when absent
  info,      \* info[k][n]: the artifact its nth info describes, or Nothing
  runLock,   \* who has the run's lock
  binLock,   \* binLock[k]: who has the lock of k's bin
  \* the disk
  dir,       \* keys that have a directory
  file,      \* file[k][i]: what is in file i of it
  \* the process
  up,
  worker,    \* the run's script: step, key of the test
  deleter,   \* DeleteRun: step, keys read, keys to do, key and counter at hand
  viewer,    \* a web user: step, key, list in the browser, position clicked
  \* bounds and history
  tests, puts, reads, deletes, crashes,
  over,      \* the run has ended, or the process under it
  early,     \* a DeleteRun has come before that
  opened,    \* the last download: the artifact listed, the content got
  threw      \* a DeleteRun has thrown an exception

redis == <<keySet, result, counter, info>>
disk == <<dir, file>>
bounds == <<tests, puts, reads, deletes, crashes>>
history == <<over, early, opened, threw>>
vars == <<redis, runLock, binLock, disk, up, worker, deleter, viewer, bounds, history>>

NoDelete == [pc |-> "idle", keys |-> {}, todo |-> {}, key |-> NoKey, n |-> 0]
NoView == [pc |-> "idle", key |-> NoKey, list |-> <<>>, at |-> 0]

Init ==
  /\ keySet = {} /\ result = {} /\ runLock = Nobody
  /\ counter = [k \in AllKeys |-> 0] /\ binLock = [k \in AllKeys |-> Nobody]
  /\ info = [k \in AllKeys |-> [n \in Artifacts |-> Nothing]]
  /\ dir = {} /\ file = [k \in AllKeys |-> [i \in 0..MaxPuts |-> Nothing]]
  /\ up = TRUE /\ worker = [pc |-> "script", key |-> NoKey]
  /\ deleter = NoDelete /\ viewer = NoView
  /\ tests = 0 /\ puts = 0 /\ reads = 0 /\ deletes = 0 /\ crashes = 0
  /\ over = FALSE /\ early = FALSE /\ threw = FALSE
  /\ opened = [listed |-> Nothing, got |-> Nothing]

-----------------------------------------------------------------------------
(* The worker: CreateResultBin, any number of PutArtifacts, SetResult. *)
Work(from, to) ==
  /\ up /\ worker.pc = from
  /\ worker' = [worker EXCEPT !.pc = to]
  /\ UNCHANGED <<up, runLock, deleter, viewer, reads, deletes, crashes, early, opened,
                 threw>>

AddedLate(k) == keySet   \* mutant: the key is added with the result only
Added(k) == keySet \union {k}

AddTestKey(k) ==
  /\ up /\ worker.pc = "script" /\ tests + puts < MaxWork
  /\ worker' = [pc |-> "makeDir", key |-> k]
  /\ keySet' = Added(k)
  /\ tests' = tests + 1
  /\ UNCHANGED <<result, counter, info, runLock, binLock, disk, up, deleter, viewer,
                 puts, reads, deletes, crashes, history>>

MakeDir ==
  /\ Work("makeDir", "testing")
  /\ dir' = dir \union {worker.key}
  /\ UNCHANGED <<redis, binLock, file, tests, puts, over>>

LockBin ==
  /\ Work("testing", "count")
  /\ puts < MaxPuts /\ tests + puts < MaxWork
  /\ binLock[worker.key] = Nobody
  /\ binLock' = [binLock EXCEPT ![worker.key] = "worker"]
  /\ UNCHANGED <<redis, disk, tests, puts, over>>

CountArtifact ==
  /\ Work("count", "info")
  /\ counter' = [counter EXCEPT ![worker.key] = @ + 1]
  /\ puts' = puts + 1
  /\ UNCHANGED <<keySet, result, info, binLock, disk, tests, over>>

SetArtifactInfo ==
  /\ Work("info", "open")
  /\ info' = [info EXCEPT ![worker.key][counter[worker.key]] = puts]
  /\ UNCHANGED <<keySet, result, counter, binLock, disk, tests, puts, over>>

\* The file's number is the info's less one. Without the directory this
\* throws, the lock is released and the test has failed.
SameNumber(n) == n   \* mutant: files numbered like the infos
FileNumber(n) == n - 1

OpenArtifact ==
  /\ Work("open", "copy")
  /\ worker.key \in dir
  /\ file' = [file EXCEPT ![worker.key][FileNumber(counter[worker.key])] = Partial]
  /\ UNCHANGED <<redis, binLock, dir, tests, puts, over>>

OpenThrows ==
  /\ Work("open", "addResult")
  /\ worker.key \notin dir
  /\ binLock' = [binLock EXCEPT ![worker.key] = Nobody]
  /\ UNCHANGED <<redis, disk, tests, puts, over>>

CopyArtifact ==
  /\ Work("copy", "testing")
  /\ file' = [file EXCEPT ![worker.key][FileNumber(counter[worker.key])] =
                IF worker.key \in dir THEN puts ELSE @]
  /\ binLock' = [binLock EXCEPT ![worker.key] = Nobody]
  /\ UNCHANGED <<redis, dir, tests, puts, over>>

\* The test ends or throws; a script's exception is a result without a bin.
EndTest ==
  /\ Work("testing", "addResult")
  /\ UNCHANGED <<redis, binLock, disk, tests, puts, over>>

ScriptThrows ==
  /\ up /\ worker.pc \in {"script", "testing"}
  /\ worker' = [pc |-> "addResult", key |-> ErrorKey]
  /\ UNCHANGED <<redis, runLock, binLock, disk, up, deleter, viewer, bounds, history>>

AddResultKey ==
  /\ Work("addResult", "setResult")
  /\ keySet' = keySet \union {worker.key}
  /\ UNCHANGED <<result, counter, info, binLock, disk, tests, puts, over>>

SetResult ==
  /\ Work("setResult", IF worker.key = ErrorKey THEN "done" ELSE "script")
  /\ result' = result \union {worker.key}
  /\ over' = (over \/ worker.key = ErrorKey)
  /\ UNCHANGED <<keySet, counter, info, binLock, disk, tests, puts>>

EndScript ==
  /\ up /\ worker.pc \in {"script", "testing"}
  /\ worker' = [pc |-> "done", key |-> NoKey]
  /\ over' = TRUE
  /\ UNCHANGED <<redis, runLock, binLock, disk, up, deleter, viewer, bounds, early,
                 opened, threw>>

-----------------------------------------------------------------------------
(* DeleteRun: the run's lock, then one bin after the other under its lock. *)
DeleteStep(from, to) ==
  /\ up /\ deleter.pc = from
  /\ deleter' = [deleter EXCEPT !.pc = to]
  /\ UNCHANGED <<up, worker, viewer, bounds, over, early, opened>>

AskDelete ==
  /\ up /\ deleter.pc \in {"idle", "returned"} /\ deletes < MaxDeletes
  /\ deleter' = [NoDelete EXCEPT !.pc = "lock"]
  /\ deletes' = deletes + 1
  /\ early' = (early \/ ~over)
  /\ UNCHANGED <<redis, runLock, binLock, disk, up, worker, viewer, tests, puts, reads,
                 crashes, over, opened, threw>>

LockRun ==
  /\ up /\ deleter.pc = "lock"
  /\ runLock = Nobody
  /\ runLock' = "deleter"
  /\ deleter' = [deleter EXCEPT !.pc = "bins", !.keys = keySet, !.todo = keySet]
  /\ UNCHANGED <<redis, binLock, disk, up, worker, viewer, bounds, history>>

LockOldBin(k) ==
  /\ up /\ deleter.pc = "bins"
  /\ k \in deleter.todo
  /\ binLock[k] = Nobody
  /\ binLock' = [binLock EXCEPT ![k] = "deleter"]
  /\ deleter' = [deleter EXCEPT !.pc = "infos", !.key = k, !.n = counter[k],
                                !.todo = @ \ {k}]
  /\ UNCHANGED <<redis, runLock, disk, up, worker, viewer, bounds, history>>

\* Infos are numbered from 1; Enumerable.Range(0, n) is 0..n-1.
Erased(n) == 0..(n - 1)

RemoveInfos ==
  /\ DeleteStep("infos", "counter")
  /\ info' = [info EXCEPT ![deleter.key] =
                [n \in Artifacts |-> IF n \in Erased(deleter.n) THEN Nothing ELSE @[n]]]
  /\ UNCHANGED <<keySet, result, counter, runLock, binLock, disk, threw>>

RemoveCounter ==
  /\ DeleteStep("counter", "files")
  /\ counter' = [counter EXCEPT ![deleter.key] = 0]
  /\ UNCHANGED <<keySet, result, info, runLock, binLock, disk, threw>>

RemoveFiles ==
  /\ DeleteStep("files", "dir")
  /\ file' = [file EXCEPT ![deleter.key] =
                [i \in 0..MaxPuts |-> IF i \in Erased(deleter.n) THEN Nothing ELSE @[i]]]
  /\ binLock' = [binLock EXCEPT ![deleter.key] = Nobody]
  /\ UNCHANGED <<redis, runLock, dir, threw>>

\* Directory.Delete throws when there is none, and DeleteRun ends there.
RemoveDir ==
  /\ DeleteStep("dir", "bins")
  /\ deleter.key \in dir
  /\ dir' = dir \ {deleter.key}
  /\ file' = [file EXCEPT ![deleter.key] = [i \in 0..MaxPuts |-> Nothing]]
  /\ UNCHANGED <<redis, runLock, binLock, threw>>

RemoveDirThrows ==
  /\ DeleteStep("dir", "idle")
  /\ deleter.key \notin dir
  /\ runLock' = Nobody /\ threw' = TRUE
  /\ UNCHANGED <<redis, binLock, disk>>

RemoveResults ==
  /\ DeleteStep("bins", "keys")
  /\ deleter.todo = {}
  /\ result' = result \ deleter.keys
  /\ UNCHANGED <<keySet, counter, info, runLock, binLock, disk, threw>>

RemoveKeys ==
  /\ DeleteStep("keys", "returned")
  /\ keySet' = {} /\ runLock' = Nobody
  /\ UNCHANGED <<result, counter, info, binLock, disk, threw>>

-----------------------------------------------------------------------------
(* A web user: GetArtifacts and ReadArtifact take the bin's lock, do all their
   reading under it and give it back. The list stays in the browser; an
   artifact is asked for by its position in it (Visor/Results.cs). *)
View(next) ==
  /\ up
  /\ viewer' = next
  /\ UNCHANGED <<redis, runLock, disk, up, worker, deleter, tests, puts, deletes,
                 crashes, over, early, threw>>

\* The call reads the set of keys before it lists their artifacts.
AskList(k) ==
  /\ viewer.pc \in {"idle", "listed"}
  /\ reads < MaxReads /\ reads' = reads + 1
  /\ k \in keySet
  /\ View([NoView EXCEPT !.pc = "listing", !.key = k])
  /\ UNCHANGED <<binLock, opened>>

LockToRead(from, to) ==
  /\ viewer.pc = from
  /\ binLock[viewer.key] = Nobody
  /\ binLock' = [binLock EXCEPT ![viewer.key] = "viewer"]
  /\ View([viewer EXCEPT !.pc = to])
  /\ UNCHANGED <<reads, opened>>

LockToList == LockToRead("listing", "list")
LockToOpen == LockToRead("opening", "open")
UnlockRead == binLock' = [binLock EXCEPT ![viewer.key] = Nobody]

\* The infos that are there, in the order of their numbers
Listed(k) ==
  LET there == {n \in 1..counter[k] : info[k][n] # Nothing}
      place(n) == Cardinality({m \in there : m <= n})
  IN [i \in 1..Cardinality(there) |-> info[k][CHOOSE n \in there : place(n) = i]]

List ==
  /\ viewer.pc = "list"
  /\ View([viewer EXCEPT !.pc = "listed", !.list = Listed(viewer.key)])
  /\ UnlockRead
  /\ UNCHANGED <<reads, opened>>

AskArtifact(i) ==
  /\ viewer.pc = "listed"
  /\ i \in DOMAIN viewer.list
  /\ reads < MaxReads /\ reads' = reads + 1
  /\ View([viewer EXCEPT !.pc = "opening", !.at = i])
  /\ UNCHANGED <<binLock, opened>>

\* File.OpenRead throws without the file; the lock is given back all the same.
ReadArtifact ==
  LET got == file[viewer.key][viewer.at - 1]
  IN /\ viewer.pc = "open"
     /\ opened' = IF got = Nothing THEN opened
                  ELSE [listed |-> viewer.list[viewer.at], got |-> got]
     /\ View([viewer EXCEPT !.pc = "listed"])
     /\ UnlockRead
     /\ UNCHANGED reads

-----------------------------------------------------------------------------
(* The process goes down: the locks in Redis stay taken. At the next start
   ForceUnlock removes those of the bins in the run's set of keys. *)
Orphaned(holder) == IF holder = Nobody THEN Nobody ELSE Dead

Crash ==
  /\ up /\ crashes < MaxCrashes
  /\ crashes' = crashes + 1
  /\ up' = FALSE /\ over' = TRUE
  /\ runLock' = Orphaned(runLock)
  /\ binLock' = [k \in AllKeys |-> Orphaned(binLock[k])]
  /\ worker' = [pc |-> "done", key |-> NoKey] /\ deleter' = NoDelete
  /\ viewer' = [viewer EXCEPT !.pc = CASE @ \in {"listing", "list"} -> "idle"
                                       [] @ \in {"opening", "open"} -> "listed"
                                       [] OTHER -> @]
  /\ UNCHANGED <<redis, disk, tests, puts, reads, deletes, early, opened, threw>>

RunLockOnly == {}   \* mutant: the bins' locks are left
Freed == keySet

Restart ==
  /\ ~up /\ up' = TRUE
  /\ runLock' = Nobody
  /\ binLock' = [k \in AllKeys |-> IF k \in Freed THEN Nobody ELSE binLock[k]]
  /\ UNCHANGED <<redis, disk, worker, deleter, viewer, bounds, history>>

-----------------------------------------------------------------------------
Putting == CountArtifact \/ SetArtifactInfo \/ OpenArtifact \/ OpenThrows \/ CopyArtifact

Worker == \/ \E k \in Keys : AddTestKey(k)
          \/ MakeDir \/ LockBin \/ Putting \/ EndTest
          \/ ScriptThrows \/ AddResultKey \/ SetResult \/ EndScript

Deleter == \/ LockRun \/ (\E k \in AllKeys : LockOldBin(k))
           \/ RemoveInfos \/ RemoveCounter \/ RemoveFiles
           \/ RemoveDir \/ RemoveDirThrows \/ RemoveResults \/ RemoveKeys

Reading == LockToList \/ List \/ LockToOpen \/ ReadArtifact

Viewer == \/ \E k \in AllKeys : AskList(k)
          \/ \E i \in Artifacts : AskArtifact(i)
          \/ Reading

Next == Worker \/ AskDelete \/ Deleter \/ Viewer \/ Crash \/ Restart

Spec == Init /\ [][Next]_vars

(* The threads inside the process are scheduled; a lock of Redis is polled
   for. Nothing says that a script, a user or a restart comes. *)
FairSpec == Spec /\ WF_vars(Putting) /\ WF_vars(Deleter) /\ WF_vars(Reading)

-----------------------------------------------------------------------------
(* What a user downloads from a position of a list is the artifact that was
   listed there, whole, although the infos are numbered from 1 and the files
   from 0, missing infos are skipped, and the worker may be adding to the bin.
   After an end of the process the last one may be cut short. (Excepted are a
   DeleteRun of a run still executing, which starts the numbers anew, and one
   the end of the process cuts short: the infos it has removed shift the list.) *)
ArtifactAsListed ==
  opened.listed # Nothing /\ ~early /\ (deletes = 0 \/ crashes = 0) =>
    opened.got = opened.listed \/ (crashes > 0 /\ opened.got = Partial)

(* Whatever is stored of a run is under a key of its set, without which it
   could be neither displayed nor deleted, wherever the process ends, also
   between the steps of a DeleteRun, which empties the set last. Excepted are
   runs that a DeleteRun came to before they were over: their script goes on
   storing. Of the infos, the one that DeleteRun leaves of each bin is excepted
   (DeleteWorks finds it). *)
Reachable ==
  ~early => \A k \in AllKeys \ keySet :
    /\ k \notin result \union dir
    /\ counter[k] = 0
    /\ \A m, n \in Artifacts : info[k][m] # Nothing /\ info[k][n] # Nothing => m = n
    /\ deletes = 0 => \A n \in Artifacts : info[k][n] = Nothing

(* Nobody waits for ever for a lock, neither a reader nor DeleteRun, wherever
   the process ended before: at the start the locks of all keys in the set are
   removed. Excepted is a reader of a key that a DeleteRun has taken out of the
   set and that is asked for from an older list: when the process ends while such
   a key's lock is held, nobody will ever remove it. *)
Stranded(k) == binLock[k] = Dead /\ k \notin keySet
Waiting == viewer.pc \in {"listing", "opening"}
NobodyWaitsForever ==
  /\ Waiting ~> (~Waiting \/ Stranded(viewer.key))
  /\ (deleter.pc \in {"lock", "bins"}) ~> (deleter.pc \notin {"lock", "bins"})

(* "Delete a run and everything associated" (RedisResultCollection.cs:294): of a
   run that is over nothing is left in Redis when DeleteRun has returned, and
   DeleteRun does return: it throws no exception. *)
DeleteWorks ==
  ~early => /\ ~threw
            /\ deleter.pc = "returned" =>
                 /\ keySet = {} /\ result = {}
                 /\ \A k \in AllKeys : /\ counter[k] = 0
                                       /\ \A n \in Artifacts : info[k][n] = Nothing
=============================================================================
