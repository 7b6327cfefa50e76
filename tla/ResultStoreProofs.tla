-------------------------- MODULE ResultStoreProofs --------------------------
(* Proofs about ResultStore, for any keys and any bounds: how many tests,
   artifacts, downloads, calls of DeleteRun and ends of the process there are. *)
EXTENDS ResultStore, FiniteSetTheorems, TLAPS

Holding == {"count", "info", "open", "copy"}
Testing == Holding \union {"testing"}
Erasing == {"infos", "counter", "files"}
Deleting == Erasing \union {"bins", "dir", "keys"}
Holders == {Nobody, Dead, "worker", "deleter", "viewer"}
Looking == {"listed", "opening", "open"}
WorkerStates ==
  [pc : Testing \union {"script", "makeDir", "addResult", "setResult", "done"},
   key : AllKeys \union {NoKey}]
DeleterStates ==
  [pc : Deleting \union {"idle", "lock", "returned"}, keys : SUBSET AllKeys,
   todo : SUBSET AllKeys, key : AllKeys \union {NoKey}, n : Nat]
\* The list is what Listed makes of the infos; see Viewed.
ViewerOK ==
  /\ viewer.pc \in Looking \union {"idle", "listing", "list"}
  /\ viewer.key \in AllKeys \union {NoKey}
  /\ viewer = [pc |-> viewer.pc, key |-> viewer.key, list |-> viewer.list, at |-> viewer.at]

TypeOK ==
  /\ keySet \subseteq AllKeys /\ result \subseteq AllKeys /\ dir \subseteq AllKeys
  /\ counter \in [AllKeys -> 0..MaxPuts]
  /\ info \in [AllKeys -> [Artifacts -> Artifacts \union {Nothing}]]
  /\ file \in [AllKeys -> [0..MaxPuts -> Artifacts \union {Nothing, Partial}]]
  /\ binLock \in [AllKeys -> Holders]
  /\ worker \in WorkerStates /\ deleter \in DeleterStates /\ ViewerOK
  /\ up \in BOOLEAN /\ over \in BOOLEAN /\ early \in BOOLEAN
  /\ deletes \in Nat /\ crashes \in Nat /\ puts \in 0..MaxPuts

\* Who is at what, and that there are numbers left for what is made
Positions ==
  /\ worker.pc \in Testing \union {"makeDir"} => worker.key \in Keys
  /\ worker.pc \in {"addResult", "setResult"} => worker.key \in AllKeys
  /\ worker.pc = "count" => puts < MaxPuts
  /\ worker.pc \in {"info", "open", "copy"} => counter[worker.key] # 0
  /\ \A k \in AllKeys : counter[k] <= puts
  /\ deleter.pc \in Erasing \union {"dir"} => deleter.key \in AllKeys
  /\ viewer.pc # "idle" => viewer.key \in AllKeys
  /\ viewer.pc \in {"opening", "open"} => viewer.at \in DOMAIN viewer.list

\* A DeleteRun that does not come early comes to a run that is over.
Order ==
  /\ over => worker.pc = "done"
  /\ deleter.pc # "idle" => deletes # 0
  /\ ~early /\ deletes # 0 => over
  /\ crashes # 0 => over
  /\ ~up => deleter.pc = "idle" /\ viewer.pc \in {"idle", "listed"} /\ over

LockHeld ==
  /\ worker.pc \in Holding => binLock[worker.key] = "worker"
  /\ deleter.pc \in Erasing => binLock[deleter.key] = "deleter"
  /\ viewer.pc \in {"list", "open"} => binLock[viewer.key] = "viewer"

-----------------------------------------------------------------------------
\* What the worker has stored, while nothing was deleted
InHand(k) == worker.key = k /\ worker.pc \in {"info", "open", "copy"}
Fresh ==
  deletes = 0 =>
    /\ worker.pc \in Testing => worker.key \in dir
    /\ worker.pc \in {"open", "copy"} => info[worker.key][counter[worker.key]] = puts
    /\ worker.pc \in {"info", "open"} => file[worker.key][counter[worker.key] - 1] = Nothing
    /\ \A k \in AllKeys, n \in Artifacts :
         n > counter[k] => info[k][n] = Nothing /\ file[k][n - 1] = Nothing

Sure == ~early /\ (deletes = 0 \/ crashes = 0)
\* An artifact and its file, but for the last one that may not be there in full
Stored(k, n) ==
  \/ info[k][n] # Nothing /\ file[k][n - 1] = info[k][n]
  \/ /\ n = counter[k] /\ (InHand(k) \/ crashes # 0)
     /\ file[k][n - 1] \in {Nothing, Partial}
Numbered ==
  Sure => \A k \in AllKeys : ~(deleter.pc = "counter" /\ deleter.key = k) =>
    \A n \in 1..counter[k] : Stored(k, n)

\* What a list in the browser leads to
Viewed ==
  Sure /\ viewer.pc \in Looking =>
    \A i \in DOMAIN viewer.list :
      /\ i \in Artifacts
      /\ \/ file[viewer.key][i - 1] \in {viewer.list[i], Nothing}
         \/ crashes # 0 /\ file[viewer.key][i - 1] = Partial
      /\ deletes = 0 => i <= counter[viewer.key]
      /\ deletes = 0 /\ InHand(viewer.key) => i < counter[viewer.key]

-----------------------------------------------------------------------------
Few(k) == \A m, n \in Artifacts : info[k][m] # Nothing /\ info[k][n] # Nothing => m = n
Gone(k) == k \notin dir /\ counter[k] = 0 /\ Few(k)

\* Infos are numbered to the counter, or one is left from a DeleteRun.
Leftover ==
  ~early => \A k \in AllKeys :
    \/ \A n \in Artifacts : info[k][n] # Nothing => n <= counter[k]
    \/ counter[k] = 0 /\ Few(k)

\* The key that the worker is at is in the set.
KeyKnown ==
  ~early /\ worker.pc \in Testing \union {"makeDir", "setResult"} => worker.key \in keySet

\* How far a DeleteRun is
Progress ==
  ~early /\ deleter.pc \in Deleting =>
    /\ deleter.keys = keySet
    /\ \A k \in keySet \ deleter.todo :
         k # deleter.key \/ deleter.pc \in {"bins", "keys"} => Gone(k)
    /\ deleter.pc \in {"infos", "counter"} => deleter.n = counter[deleter.key]
    /\ deleter.pc = "counter" => Few(deleter.key)
    /\ deleter.pc \in {"files", "dir"} => counter[deleter.key] = 0 /\ Few(deleter.key)
    /\ deleter.pc = "keys" => deleter.todo = {} /\ result \cap keySet = {}

IInv == /\ TypeOK /\ Positions /\ Order /\ LockHeld /\ Fresh /\ Numbered /\ Viewed
        /\ Leftover /\ KeyKnown /\ Progress /\ Reachable /\ ArtifactAsListed

USE KeysAssumption, BoundsAssumption
USE DEF Holding, Testing, Erasing, Deleting, Holders, Looking, Nothing, Nobody, Dead, AllKeys

-----------------------------------------------------------------------------
\* One entry of a function, or of a function of functions, is replaced.
Entry(f, g, k, v) == \A j \in AllKeys : g[j] = IF j = k THEN v ELSE f[j]
Cell(f, g, S, k, n, v) ==
  \A j \in AllKeys, m \in S : g[j][m] = IF j = k /\ m = n THEN v ELSE f[j][m]
Moves(from, to) ==
  /\ worker.pc = from /\ worker' \in WorkerStates
  /\ worker'.pc = to /\ worker'.key = worker.key
Runs(from, to) ==
  /\ deleter.pc = from /\ deleter' \in DeleterStates /\ deleter'.pc = to
  /\ deleter'.keys = deleter.keys /\ deleter'.todo = deleter.todo
  /\ deleter'.key = deleter.key /\ deleter'.n = deleter.n

(* Replacing an entry leaves the others: the locks of the bins, ... *)
LEMMA LockEntry ==
  ASSUME TypeOK, NEW k \in AllKeys, NEW v \in Holders,
         binLock' = [binLock EXCEPT ![k] = v]
  PROVE  /\ binLock' \in [AllKeys -> Holders]
         /\ Entry(binLock, binLock', k, v)
<1>1. binLock \in [AllKeys -> Holders]
  BY DEF TypeOK
<1>2. QED
  BY <1>1 DEF Entry

(* ... their counters, ... *)
LEMMA CounterEntry ==
  ASSUME TypeOK, NEW k \in AllKeys, NEW v \in 0..MaxPuts,
         counter' = [counter EXCEPT ![k] = v]
  PROVE  counter' \in [AllKeys -> 0..MaxPuts] /\ Entry(counter, counter', k, v)
<1>1. counter \in [AllKeys -> 0..MaxPuts]
  BY DEF TypeOK
<1>2. QED
  BY <1>1 DEF Entry

(* ... infos ... *)
LEMMA InfoCell ==
  ASSUME TypeOK, NEW k \in AllKeys, NEW n \in Artifacts, NEW v \in Artifacts,
         info' = [info EXCEPT ![k][n] = v]
  PROVE  /\ info' \in [AllKeys -> [Artifacts -> Artifacts \union {Nothing}]]
         /\ Cell(info, info', Artifacts, k, n, v)
<1>1. info \in [AllKeys -> [Artifacts -> Artifacts \union {Nothing}]]
  BY DEF TypeOK
<1>2. QED
  BY <1>1 DEF Cell

(* ... and files. *)
LEMMA FileCell ==
  ASSUME TypeOK, NEW k \in AllKeys, NEW i \in 0..MaxPuts,
         NEW v \in Artifacts \union {Nothing, Partial},
         file' = [file EXCEPT ![k][i] = v]
  PROVE  /\ file' \in [AllKeys -> [0..MaxPuts -> Artifacts \union {Nothing, Partial}]]
         /\ Cell(file, file', 0..MaxPuts, k, i, v)
<1>1. file \in [AllKeys -> [0..MaxPuts -> Artifacts \union {Nothing, Partial}]]
  BY DEF TypeOK
<1>2. QED
  BY <1>1 DEF Cell

(* A step of the worker changes where it is. *)
LEMMA WorkFacts ==
  ASSUME TypeOK, NEW from, NEW to, Work(from, to),
         to \in Testing \union {"script", "makeDir", "addResult", "setResult", "done"}
  PROVE  /\ up /\ Moves(from, to)
         /\ UNCHANGED <<up, runLock, deleter, viewer, reads, deletes, crashes, early, opened,
                        threw>>
<1>1. worker \in WorkerStates
  BY DEF TypeOK
<1>2. QED
  BY <1>1 DEF Work, Moves, WorkerStates

(* What the steps of the worker do. *)
LEMMA WorkerSteps ==
  ASSUME TypeOK, Positions
  PROVE  /\ \A k \in Keys : AddTestKey(k) =>
              /\ worker.pc = "script" /\ worker' \in WorkerStates
              /\ worker'.pc = "makeDir" /\ worker'.key = k /\ keySet' = keySet \union {k}
         /\ MakeDir => Moves("makeDir", "testing") /\ dir' = dir \union {worker.key}
         /\ LockBin =>
              /\ Moves("testing", "count") /\ puts < MaxPuts /\ worker.key \in Keys
              /\ binLock' \in [AllKeys -> Holders]
              /\ Entry(binLock, binLock', worker.key, "worker") /\ binLock[worker.key] = Nobody
         /\ CountArtifact =>
              /\ Moves("count", "info") /\ puts' = puts + 1 /\ worker.key \in Keys
              /\ counter' \in [AllKeys -> 0..MaxPuts]
              /\ Entry(counter, counter', worker.key, counter[worker.key] + 1)
         /\ SetArtifactInfo =>
              /\ Moves("info", "open") /\ worker.key \in Keys
              /\ info' \in [AllKeys -> [Artifacts -> Artifacts \union {Nothing}]]
              /\ Cell(info, info', Artifacts, worker.key, counter[worker.key], puts)
         /\ OpenArtifact =>
              /\ Moves("open", "copy") /\ worker.key \in Keys \cap dir
              /\ file' \in [AllKeys -> [0..MaxPuts -> Artifacts \union {Nothing, Partial}]]
              /\ Cell(file, file', 0..MaxPuts, worker.key, counter[worker.key] - 1, Partial)
         /\ OpenThrows =>
              /\ Moves("open", "addResult") /\ worker.key \in Keys \ dir
              /\ binLock' \in [AllKeys -> Holders]
              /\ Entry(binLock, binLock', worker.key, Nobody)
         /\ CopyArtifact =>
              /\ Moves("copy", "testing") /\ worker.key \in Keys
              /\ file' \in [AllKeys -> [0..MaxPuts -> Artifacts \union {Nothing, Partial}]]
              /\ \E v \in {puts, file[worker.key][counter[worker.key] - 1]} :
                   /\ worker.key \in dir => v = puts
                   /\ Cell(file, file', 0..MaxPuts, worker.key, counter[worker.key] - 1, v)
              /\ binLock' \in [AllKeys -> Holders]
              /\ Entry(binLock, binLock', worker.key, Nobody)
         /\ EndTest => Moves("testing", "addResult")
         /\ ScriptThrows =>
              /\ worker.pc \in {"script", "testing"} /\ worker' \in WorkerStates
              /\ worker'.pc = "addResult" /\ worker'.key = ErrorKey
         /\ AddResultKey =>
              /\ Moves("addResult", "setResult") /\ keySet' = keySet \union {worker.key}
         /\ SetResult =>
              /\ result' = result \union {worker.key} /\ worker.key \in AllKeys
              /\ \/ Moves("setResult", "done") /\ over'
                 \/ Moves("setResult", "script") /\ over' = over
         /\ EndScript =>
              /\ worker.pc \in {"script", "testing"} /\ worker' \in WorkerStates
              /\ worker'.pc = "done" /\ worker'.key = NoKey /\ over'
<1>1. /\ counter \in [AllKeys -> 0..MaxPuts] /\ puts \in 0..MaxPuts
      /\ info \in [AllKeys -> [Artifacts -> Artifacts \union {Nothing}]]
      /\ file \in [AllKeys -> [0..MaxPuts -> Artifacts \union {Nothing, Partial}]]
      /\ binLock \in [AllKeys -> Holders]
      /\ worker \in WorkerStates
  BY DEF TypeOK
<1>2. /\ worker.pc \in Testing \union {"makeDir"} => worker.key \in Keys
      /\ worker.pc \in {"addResult", "setResult"} => worker.key \in AllKeys
      /\ worker.pc = "count" => puts < MaxPuts
      /\ worker.pc \in {"info", "open", "copy"} => counter[worker.key] # 0
      /\ \A k \in AllKeys : counter[k] <= puts
  BY DEF Positions
<1>3. \A k \in Keys : AddTestKey(k) =>
        /\ worker.pc = "script" /\ worker' \in WorkerStates
        /\ worker'.pc = "makeDir" /\ worker'.key = k /\ keySet' = keySet \union {k}
  BY DEF AddTestKey, Added, WorkerStates
<1>4. MakeDir => Moves("makeDir", "testing") /\ dir' = dir \union {worker.key}
  BY WorkFacts DEF MakeDir
<1>5. LockBin =>
        /\ Moves("testing", "count") /\ puts < MaxPuts /\ worker.key \in Keys
        /\ binLock' \in [AllKeys -> Holders]
        /\ Entry(binLock, binLock', worker.key, "worker") /\ binLock[worker.key] = Nobody
  BY <1>1, <1>2, WorkFacts, LockEntry DEF LockBin, Moves
<1>6. ASSUME CountArtifact
      PROVE  /\ Moves("count", "info") /\ puts' = puts + 1 /\ worker.key \in Keys
             /\ counter' \in [AllKeys -> 0..MaxPuts]
             /\ Entry(counter, counter', worker.key, counter[worker.key] + 1)
  <2>1. Moves("count", "info") /\ puts' = puts + 1 /\ worker.key \in Keys
    BY <1>2, <1>6, WorkFacts DEF CountArtifact, Moves
  <2>2. counter[worker.key] + 1 \in 0..MaxPuts
    BY <1>1, <1>2, <2>1 DEF Moves
  <2>3. counter' = [counter EXCEPT ![worker.key] = counter[worker.key] + 1]
    BY <1>6 DEF CountArtifact
  <2>4. QED
    BY <2>1, <2>2, <2>3, CounterEntry
<1>7. ASSUME SetArtifactInfo
      PROVE  /\ Moves("info", "open") /\ worker.key \in Keys
             /\ info' \in [AllKeys -> [Artifacts -> Artifacts \union {Nothing}]]
             /\ Cell(info, info', Artifacts, worker.key, counter[worker.key], puts)
  <2>1. Moves("info", "open") /\ worker.key \in Keys
    BY <1>2, <1>7, WorkFacts DEF SetArtifactInfo, Moves
  <2>2. counter[worker.key] \in Artifacts /\ puts \in Artifacts
    BY <1>1, <1>2, <2>1 DEF Moves, Artifacts
  <2>3. QED
    BY <1>7, <2>1, <2>2, InfoCell DEF SetArtifactInfo
<1>8. ASSUME worker.pc \in {"info", "open", "copy"}
      PROVE  counter[worker.key] - 1 \in 0..MaxPuts /\ puts \in Artifacts
  BY <1>1, <1>2, <1>8 DEF Artifacts
<1>9. ASSUME OpenArtifact
      PROVE  /\ Moves("open", "copy") /\ worker.key \in Keys \cap dir
             /\ file' \in [AllKeys -> [0..MaxPuts -> Artifacts \union {Nothing, Partial}]]
             /\ Cell(file, file', 0..MaxPuts, worker.key, counter[worker.key] - 1, Partial)
  <2>1. Moves("open", "copy") /\ worker.key \in Keys \cap dir
    BY <1>2, <1>9, WorkFacts DEF OpenArtifact, Moves
  <2>2. file' = [file EXCEPT ![worker.key][counter[worker.key] - 1] = Partial]
    BY <1>9 DEF OpenArtifact, FileNumber
  <2>3. counter[worker.key] - 1 \in 0..MaxPuts
    BY <1>8, <2>1 DEF Moves
  <2>4. QED
    BY <2>1, <2>2, <2>3, FileCell
<1>10. OpenThrows =>
         /\ Moves("open", "addResult") /\ worker.key \in Keys \ dir
         /\ binLock' \in [AllKeys -> Holders]
         /\ Entry(binLock, binLock', worker.key, Nobody)
  BY <1>1, <1>2, WorkFacts, LockEntry DEF OpenThrows, Moves
<1>11. ASSUME CopyArtifact
       PROVE  /\ Moves("copy", "testing") /\ worker.key \in Keys
              /\ file' \in [AllKeys -> [0..MaxPuts -> Artifacts \union {Nothing, Partial}]]
              /\ \E v \in {puts, file[worker.key][counter[worker.key] - 1]} :
                   /\ worker.key \in dir => v = puts
                   /\ Cell(file, file', 0..MaxPuts, worker.key, counter[worker.key] - 1, v)
              /\ binLock' \in [AllKeys -> Holders]
              /\ Entry(binLock, binLock', worker.key, Nobody)
  <2>1. Moves("copy", "testing") /\ worker.key \in Keys
    BY <1>2, <1>11, WorkFacts DEF CopyArtifact, Moves
  <2>2. counter[worker.key] - 1 \in 0..MaxPuts /\ puts \in Artifacts
    BY <1>8, <2>1 DEF Moves
  <2>3. PICK v \in {puts, file[worker.key][counter[worker.key] - 1]} :
          /\ worker.key \in dir => v = puts
          /\ file' = [file EXCEPT ![worker.key][counter[worker.key] - 1] = v]
    BY <1>11 DEF CopyArtifact, FileNumber
  <2>4. v \in Artifacts \union {Nothing, Partial}
    BY <1>1, <2>1, <2>2
  <2>5. /\ file' \in [AllKeys -> [0..MaxPuts -> Artifacts \union {Nothing, Partial}]]
        /\ Cell(file, file', 0..MaxPuts, worker.key, counter[worker.key] - 1, v)
    BY <2>1, <2>2, <2>3, <2>4, FileCell
  <2>6. /\ binLock' \in [AllKeys -> Holders]
        /\ Entry(binLock, binLock', worker.key, Nobody)
    BY <1>11, <2>1, LockEntry DEF CopyArtifact
  <2>7. QED
    BY <2>1, <2>3, <2>5, <2>6
<1>12. EndTest => Moves("testing", "addResult")
  BY WorkFacts DEF EndTest
<1>13. ScriptThrows =>
         /\ worker.pc \in {"script", "testing"} /\ worker' \in WorkerStates
         /\ worker'.pc = "addResult" /\ worker'.key = ErrorKey
  BY DEF ScriptThrows, WorkerStates
<1>14. AddResultKey => Moves("addResult", "setResult") /\ keySet' = keySet \union {worker.key}
  BY WorkFacts DEF AddResultKey
<1>15. ASSUME SetResult
       PROVE  /\ result' = result \union {worker.key} /\ worker.key \in AllKeys
              /\ \/ Moves("setResult", "done") /\ over'
                 \/ Moves("setResult", "script") /\ over' = over
  <2>1. PICK to \in {"done", "script"} :
          Work("setResult", to) /\ (to = "done" <=> worker.key = ErrorKey)
    BY <1>15 DEF SetResult
  <2>2. Moves("setResult", to)
    BY <2>1, WorkFacts
  <2>3. over \in BOOLEAN /\ over' = (over \/ worker.key = ErrorKey)
    BY <1>15 DEF SetResult, TypeOK
  <2>4. QED
    BY <1>2, <1>15, <2>1, <2>2, <2>3 DEF SetResult, Moves
<1>16. EndScript =>
         /\ worker.pc \in {"script", "testing"} /\ worker' \in WorkerStates
         /\ worker'.pc = "done" /\ worker'.key = NoKey /\ over'
  BY DEF EndScript, WorkerStates
<1>17. QED
  BY <1>3, <1>4, <1>5, <1>6, <1>7, <1>9, <1>10, <1>11, <1>12, <1>13, <1>14, <1>15, <1>16

\* Entries of an entry are emptied.
Cleared(f, g, S, k, E) ==
  \A j \in AllKeys, m \in S : g[j][m] = IF j = k /\ m \in E THEN Nothing ELSE f[j][m]

(* A step of DeleteRun changes where it is. *)
LEMMA DeleteFacts ==
  ASSUME TypeOK, NEW from, NEW to, DeleteStep(from, to),
         to \in Deleting \union {"idle", "returned"}
  PROVE  /\ up /\ Runs(from, to)
         /\ UNCHANGED <<up, worker, viewer, bounds, over, early, opened>>
<1>1. deleter \in DeleterStates
  BY DEF TypeOK
<1>2. QED
  BY <1>1 DEF DeleteStep, Runs, DeleterStates

(* What the steps of DeleteRun do. *)
LEMMA DeleterSteps ==
  ASSUME TypeOK, Positions
  PROVE  /\ AskDelete =>
              /\ deleter.pc \in {"idle", "returned"} /\ deletes' = deletes + 1
              /\ deleter' \in DeleterStates /\ deleter'.pc = "lock"
              /\ early' = (early \/ ~over)
         /\ LockRun =>
              /\ deleter.pc = "lock" /\ deleter' \in DeleterStates /\ deleter'.pc = "bins"
              /\ deleter'.keys = keySet /\ deleter'.todo = keySet
         /\ \A k \in AllKeys : LockOldBin(k) =>
              /\ deleter.pc = "bins" /\ k \in deleter.todo /\ binLock[k] = Nobody
              /\ deleter' \in DeleterStates /\ deleter'.pc = "infos"
              /\ deleter'.keys = deleter.keys /\ deleter'.todo = deleter.todo \ {k}
              /\ deleter'.key = k /\ deleter'.n = counter[k]
              /\ binLock' \in [AllKeys -> Holders]
              /\ Entry(binLock, binLock', k, "deleter")
         /\ RemoveInfos =>
              /\ Runs("infos", "counter") /\ deleter.key \in AllKeys
              /\ info' \in [AllKeys -> [Artifacts -> Artifacts \union {Nothing}]]
              /\ Cleared(info, info', Artifacts, deleter.key, 0..(deleter.n - 1))
         /\ RemoveCounter =>
              /\ Runs("counter", "files") /\ deleter.key \in AllKeys
              /\ counter' \in [AllKeys -> 0..MaxPuts]
              /\ Entry(counter, counter', deleter.key, 0)
         /\ RemoveFiles =>
              /\ Runs("files", "dir") /\ deleter.key \in AllKeys
              /\ file' \in [AllKeys -> [0..MaxPuts -> Artifacts \union {Nothing, Partial}]]
              /\ Cleared(file, file', 0..MaxPuts, deleter.key, 0..(deleter.n - 1))
              /\ binLock' \in [AllKeys -> Holders]
              /\ Entry(binLock, binLock', deleter.key, Nobody)
         /\ RemoveDir =>
              /\ Runs("dir", "bins") /\ deleter.key \in AllKeys
              /\ dir' = dir \ {deleter.key}
              /\ file' \in [AllKeys -> [0..MaxPuts -> Artifacts \union {Nothing, Partial}]]
              /\ Cleared(file, file', 0..MaxPuts, deleter.key, 0..MaxPuts)
         /\ RemoveDirThrows => Runs("dir", "idle")
         /\ RemoveResults =>
              /\ Runs("bins", "keys") /\ deleter.todo = {} /\ result' = result \ deleter.keys
         /\ RemoveKeys => Runs("keys", "returned") /\ keySet' = {}
<1>1. /\ counter \in [AllKeys -> 0..MaxPuts] /\ keySet \subseteq AllKeys
      /\ info \in [AllKeys -> [Artifacts -> Artifacts \union {Nothing}]]
      /\ file \in [AllKeys -> [0..MaxPuts -> Artifacts \union {Nothing, Partial}]]
      /\ deleter \in DeleterStates
  BY DEF TypeOK
<1>2. deleter.pc \in Erasing \union {"dir"} => deleter.key \in AllKeys
  BY DEF Positions
<1>3. ASSUME AskDelete
      PROVE  /\ deleter.pc \in {"idle", "returned"} /\ deletes' = deletes + 1
             /\ deleter' \in DeleterStates /\ deleter'.pc = "lock"
             /\ early' = (early \/ ~over)
  <2>1. NoDelete \in DeleterStates
    BY DEF NoDelete, DeleterStates
  <2>2. deleter' = [NoDelete EXCEPT !.pc = "lock"]
    BY <1>3 DEF AskDelete
  <2>3. deleter' \in DeleterStates /\ deleter'.pc = "lock"
    BY <2>2 DEF NoDelete, DeleterStates
  <2>4. QED
    BY <1>3, <2>3 DEF AskDelete
<1>4. LockRun =>
        /\ deleter.pc = "lock" /\ deleter' \in DeleterStates /\ deleter'.pc = "bins"
        /\ deleter'.keys = keySet /\ deleter'.todo = keySet
  BY <1>1 DEF LockRun, DeleterStates
<1>5. ASSUME NEW k \in AllKeys, LockOldBin(k)
      PROVE  /\ deleter.pc = "bins" /\ k \in deleter.todo /\ binLock[k] = Nobody
             /\ deleter' \in DeleterStates /\ deleter'.pc = "infos"
             /\ deleter'.keys = deleter.keys /\ deleter'.todo = deleter.todo \ {k}
             /\ deleter'.key = k /\ deleter'.n = counter[k]
             /\ binLock' \in [AllKeys -> Holders]
             /\ Entry(binLock, binLock', k, "deleter")
  <2>1. counter[k] \in Nat
    BY <1>1
  <2>2. /\ deleter' \in DeleterStates /\ deleter'.pc = "infos"
        /\ deleter'.keys = deleter.keys /\ deleter'.todo = deleter.todo \ {k}
        /\ deleter'.key = k /\ deleter'.n = counter[k]
    BY <1>1, <1>5, <2>1 DEF LockOldBin, DeleterStates
  <2>3. QED
    BY <1>5, <2>2, LockEntry DEF LockOldBin
<1>6. ASSUME RemoveInfos
      PROVE  /\ Runs("infos", "counter") /\ deleter.key \in AllKeys
             /\ info' \in [AllKeys -> [Artifacts -> Artifacts \union {Nothing}]]
             /\ Cleared(info, info', Artifacts, deleter.key, 0..(deleter.n - 1))
  <2>1. Runs("infos", "counter") /\ deleter.key \in AllKeys
    BY <1>2, <1>6, DeleteFacts DEF RemoveInfos, Runs
  <2> DEFINE left == [n \in Artifacts |-> IF n \in 0..(deleter.n - 1) THEN Nothing
                                          ELSE info[deleter.key][n]]
  <2>2. /\ left \in [Artifacts -> Artifacts \union {Nothing}]
        /\ \A n \in Artifacts : left[n] = IF n \in 0..(deleter.n - 1) THEN Nothing
                                          ELSE info[deleter.key][n]
    BY <1>1, <2>1
  <2>3. info' = [info EXCEPT ![deleter.key] = left]
    BY <1>6 DEF RemoveInfos, Erased
  <2> HIDE DEF left
  <2>4. QED
    BY <1>1, <2>1, <2>2, <2>3 DEF Cleared
<1>7. ASSUME RemoveCounter
      PROVE  /\ Runs("counter", "files") /\ deleter.key \in AllKeys
             /\ counter' \in [AllKeys -> 0..MaxPuts]
             /\ Entry(counter, counter', deleter.key, 0)
  <2>1. Runs("counter", "files") /\ deleter.key \in AllKeys /\ 0 \in 0..MaxPuts
    BY <1>2, <1>7, DeleteFacts DEF RemoveCounter, Runs
  <2>2. QED
    BY <1>7, <2>1, CounterEntry DEF RemoveCounter
<1>8. ASSUME RemoveFiles
      PROVE  /\ Runs("files", "dir") /\ deleter.key \in AllKeys
             /\ file' \in [AllKeys -> [0..MaxPuts -> Artifacts \union {Nothing, Partial}]]
             /\ Cleared(file, file', 0..MaxPuts, deleter.key, 0..(deleter.n - 1))
             /\ binLock' \in [AllKeys -> Holders]
             /\ Entry(binLock, binLock', deleter.key, Nobody)
  <2>1. Runs("files", "dir") /\ deleter.key \in AllKeys
    BY <1>2, <1>8, DeleteFacts DEF RemoveFiles, Runs
  <2> DEFINE left == [i \in 0..MaxPuts |-> IF i \in 0..(deleter.n - 1) THEN Nothing
                                           ELSE file[deleter.key][i]]
  <2>2. /\ left \in [0..MaxPuts -> Artifacts \union {Nothing, Partial}]
        /\ \A i \in 0..MaxPuts : left[i] = IF i \in 0..(deleter.n - 1) THEN Nothing
                                           ELSE file[deleter.key][i]
    BY <1>1, <2>1
  <2>3. /\ file' = [file EXCEPT ![deleter.key] = left]
        /\ binLock' = [binLock EXCEPT ![deleter.key] = Nobody]
    BY <1>8 DEF RemoveFiles, Erased
  <2> HIDE DEF left
  <2>4. /\ file' \in [AllKeys -> [0..MaxPuts -> Artifacts \union {Nothing, Partial}]]
        /\ Cleared(file, file', 0..MaxPuts, deleter.key, 0..(deleter.n - 1))
    BY <1>1, <2>1, <2>2, <2>3 DEF Cleared
  <2>5. QED
    BY <2>1, <2>3, <2>4, LockEntry
<1>9. ASSUME RemoveDir
      PROVE  /\ Runs("dir", "bins") /\ deleter.key \in AllKeys
             /\ dir' = dir \ {deleter.key}
             /\ file' \in [AllKeys -> [0..MaxPuts -> Artifacts \union {Nothing, Partial}]]
             /\ Cleared(file, file', 0..MaxPuts, deleter.key, 0..MaxPuts)
  <2>1. Runs("dir", "bins") /\ deleter.key \in AllKeys /\ dir' = dir \ {deleter.key}
    BY <1>2, <1>9, DeleteFacts DEF RemoveDir, Runs
  <2> DEFINE left == [i \in 0..MaxPuts |-> Nothing]
  <2>2. /\ left \in [0..MaxPuts -> Artifacts \union {Nothing, Partial}]
        /\ \A i \in 0..MaxPuts : left[i] = Nothing
    OBVIOUS
  <2>3. file' = [file EXCEPT ![deleter.key] = left]
    BY <1>9 DEF RemoveDir
  <2> HIDE DEF left
  <2>4. QED
    BY <1>1, <2>1, <2>2, <2>3 DEF Cleared
<1>10. RemoveDirThrows => Runs("dir", "idle")
  BY DeleteFacts DEF RemoveDirThrows
<1>11. RemoveResults =>
         Runs("bins", "keys") /\ deleter.todo = {} /\ result' = result \ deleter.keys
  BY DeleteFacts DEF RemoveResults
<1>12. RemoveKeys => Runs("keys", "returned") /\ keySet' = {}
  BY DeleteFacts DEF RemoveKeys
<1>13. QED
  BY <1>3, <1>4, <1>5, <1>6, <1>7, <1>8, <1>9, <1>10, <1>11, <1>12

(* What the steps of a user do. *)
LEMMA ViewerSteps ==
  ASSUME TypeOK, Positions
  PROVE  /\ \A k \in AllKeys : AskList(k) => ViewerOK' /\ viewer'.pc = "listing" /\ viewer'.key = k
         /\ LockToList \/ LockToOpen =>
              /\ \/ LockToList /\ viewer.pc = "listing" /\ viewer'.pc = "list"
                 \/ LockToOpen /\ viewer.pc = "opening" /\ viewer'.pc = "open"
              /\ ViewerOK' /\ viewer'.key = viewer.key
              /\ viewer'.list = viewer.list /\ viewer'.at = viewer.at
              /\ binLock' \in [AllKeys -> Holders]
              /\ Entry(binLock, binLock', viewer.key, "viewer") /\ binLock[viewer.key] = Nobody
         /\ List =>
              /\ viewer.pc = "list"
              /\ ViewerOK' /\ viewer'.pc = "listed" /\ viewer'.key = viewer.key
              /\ viewer'.list = Listed(viewer.key)
         /\ \A i \in Artifacts : AskArtifact(i) =>
              /\ viewer.pc = "listed" /\ i \in DOMAIN viewer.list
              /\ ViewerOK' /\ viewer'.pc = "opening" /\ viewer'.key = viewer.key
              /\ viewer'.list = viewer.list /\ viewer'.at = i
         /\ ReadArtifact =>
              /\ viewer.pc = "open"
              /\ ViewerOK' /\ viewer'.pc = "listed" /\ viewer'.key = viewer.key
              /\ viewer'.list = viewer.list
         /\ List \/ ReadArtifact =>
              binLock' \in [AllKeys -> Holders] /\ Entry(binLock, binLock', viewer.key, Nobody)
<1>1. ViewerOK /\ (viewer.pc # "idle" => viewer.key \in AllKeys)
  BY DEF TypeOK, Positions
<1>2. \A k \in AllKeys : AskList(k) => ViewerOK' /\ viewer'.pc = "listing" /\ viewer'.key = k
  BY DEF AskList, View, NoView, ViewerOK
<1>3. ASSUME NEW l, viewer' = [viewer EXCEPT !.pc = "listed", !.list = l]
      PROVE  /\ ViewerOK' /\ viewer'.pc = "listed" /\ viewer'.key = viewer.key
             /\ viewer'.list = l
  BY <1>1, <1>3 DEF ViewerOK
<1>4. ASSUME NEW i, viewer' = [viewer EXCEPT !.pc = "opening", !.at = i]
      PROVE  /\ ViewerOK' /\ viewer'.pc = "opening" /\ viewer'.key = viewer.key
             /\ viewer'.list = viewer.list /\ viewer'.at = i
  BY <1>1, <1>4 DEF ViewerOK
<1>5. List =>
        /\ viewer.pc = "list"
        /\ ViewerOK' /\ viewer'.pc = "listed" /\ viewer'.key = viewer.key
        /\ viewer'.list = Listed(viewer.key)
  BY <1>3 DEF List, View
<1>6. \A i \in Artifacts : AskArtifact(i) =>
        /\ viewer.pc = "listed" /\ i \in DOMAIN viewer.list
        /\ ViewerOK' /\ viewer'.pc = "opening" /\ viewer'.key = viewer.key
        /\ viewer'.list = viewer.list /\ viewer'.at = i
  BY <1>4 DEF AskArtifact, View
<1>7. ReadArtifact =>
        /\ viewer.pc = "open"
        /\ ViewerOK' /\ viewer'.pc = "listed" /\ viewer'.key = viewer.key
        /\ viewer'.list = viewer.list
  BY <1>1 DEF ReadArtifact, View, ViewerOK
<1>8. ASSUME NEW from \in {"listing", "opening"}, NEW to \in {"list", "open"}, LockToRead(from, to)
      PROVE  /\ viewer.pc = from /\ viewer'.pc = to /\ ViewerOK' /\ viewer'.key = viewer.key
             /\ viewer'.list = viewer.list /\ viewer'.at = viewer.at
             /\ binLock' \in [AllKeys -> Holders]
             /\ Entry(binLock, binLock', viewer.key, "viewer") /\ binLock[viewer.key] = Nobody
  <2>1. viewer.pc = from /\ binLock[viewer.key] = Nobody /\ viewer' = [viewer EXCEPT !.pc = to]
    BY <1>8 DEF LockToRead, View
  <2>2. /\ binLock' \in [AllKeys -> Holders]
        /\ Entry(binLock, binLock', viewer.key, "viewer")
    BY <1>1, <1>8, <2>1, LockEntry DEF LockToRead
  <2>3. /\ viewer'.pc = to /\ ViewerOK' /\ viewer'.key = viewer.key
        /\ viewer'.list = viewer.list /\ viewer'.at = viewer.at
    BY <1>1, <2>1 DEF ViewerOK
  <2>4. QED
    BY <2>1, <2>2, <2>3
<1>9. List \/ ReadArtifact =>
        binLock' \in [AllKeys -> Holders] /\ Entry(binLock, binLock', viewer.key, Nobody)
  <2>1. List \/ ReadArtifact => UnlockRead
    BY DEF List, ReadArtifact
  <2>2. QED
    BY <1>1, <1>5, <1>7, <2>1, LockEntry DEF UnlockRead
<1>10. QED
  BY <1>2, <1>5, <1>6, <1>7, <1>8, <1>9 DEF LockToList, LockToOpen

(* What an end and a start of the process do. *)
LEMMA ProcessSteps ==
  ASSUME TypeOK
  PROVE  /\ Crash =>
              /\ worker' \in WorkerStates /\ worker'.pc = "done"
              /\ deleter' \in DeleterStates /\ deleter'.pc = "idle"
              /\ binLock' \in [AllKeys -> Holders]
              /\ ViewerOK' /\ viewer'.key = viewer.key /\ viewer'.list = viewer.list
              /\ viewer'.pc # "idle" => viewer'.pc = "listed" /\ viewer.pc \in Looking
         /\ Restart => binLock' \in [AllKeys -> Holders]
<1>1. ViewerOK /\ binLock \in [AllKeys -> Holders]
  BY DEF TypeOK
<1>2. ASSUME Crash
      PROVE  /\ worker' \in WorkerStates /\ worker'.pc = "done"
             /\ deleter' \in DeleterStates /\ deleter'.pc = "idle"
             /\ binLock' \in [AllKeys -> Holders]
  BY <1>1, <1>2 DEF Crash, WorkerStates, NoDelete, DeleterStates, Orphaned
<1>3. ASSUME Crash
      PROVE  /\ ViewerOK' /\ viewer'.key = viewer.key /\ viewer'.list = viewer.list
             /\ viewer'.pc # "idle" =>
                  viewer'.pc = "listed" /\ viewer.pc \in Looking
  <2>1. viewer' = [viewer EXCEPT !.pc = CASE viewer.pc \in {"listing", "list"} -> "idle"
                                          [] viewer.pc \in {"opening", "open"} -> "listed"
                                          [] OTHER -> viewer.pc]
    BY <1>3 DEF Crash
  <2>2. CASE viewer.pc \in {"listing", "list"}
    BY <1>1, <2>1, <2>2 DEF ViewerOK
  <2>3. CASE viewer.pc \in {"opening", "open"}
    BY <1>1, <2>1, <2>3 DEF ViewerOK
  <2>4. CASE viewer.pc \in {"idle", "listed"}
    <3>1. viewer' = [viewer EXCEPT !.pc = viewer.pc]
      BY <2>1, <2>4
    <3>2. viewer' = viewer
      BY <1>1, <3>1 DEF ViewerOK
    <3>3. QED
      BY <1>1, <2>4, <3>2 DEF ViewerOK
  <2>5. QED
    BY <1>1, <2>2, <2>3, <2>4 DEF ViewerOK
<1>4. Restart => binLock' \in [AllKeys -> Holders]
  BY <1>1 DEF Restart
<1>5. QED
  BY <1>2, <1>3, <1>4

-----------------------------------------------------------------------------
(* Before anything happens. *)
LEMMA InitHolds == Init => IInv
<1> SUFFICES ASSUME Init
             PROVE  IInv
  OBVIOUS
<1>1. TypeOK
  <2>1. worker \in WorkerStates /\ deleter \in DeleterStates /\ ViewerOK
    BY DEF Init, WorkerStates, DeleterStates, NoDelete, ViewerOK, NoView
  <2>2. /\ counter \in [AllKeys -> 0..MaxPuts] /\ puts \in 0..MaxPuts
        /\ info \in [AllKeys -> [Artifacts -> Artifacts \union {Nothing}]]
        /\ binLock \in [AllKeys -> Holders]
    BY DEF Init
  <2>3. file \in [AllKeys -> [0..MaxPuts -> Artifacts \union {Nothing, Partial}]]
    BY DEF Init
  <2>4. /\ keySet \subseteq AllKeys /\ result \subseteq AllKeys /\ dir \subseteq AllKeys
        /\ deletes \in Nat /\ crashes \in Nat
    BY DEF Init
  <2>5. up \in BOOLEAN /\ over \in BOOLEAN /\ early \in BOOLEAN
    BY DEF Init
  <2>6. QED
    BY <2>1, <2>2, <2>3, <2>4, <2>5 DEF TypeOK
<1>2. Positions /\ Order /\ LockHeld
  BY DEF Init, Positions, Order, LockHeld, NoDelete, NoView
<1>3. \A k \in AllKeys : counter[k] = 0 /\ \A n \in Artifacts : info[k][n] = Nothing
  BY DEF Init
<1>4. Fresh
  <2>1. ASSUME NEW k \in AllKeys, NEW n \in Artifacts
        PROVE  file[k][n - 1] = Nothing
    <3>1. n - 1 \in 0..MaxPuts
      BY DEF Artifacts
    <3>2. QED
      BY <3>1 DEF Init
  <2>2. worker.pc = "script"
    BY DEF Init
  <2>3. QED
    BY <1>3, <2>1, <2>2 DEF Fresh
<1>5. Numbered /\ Viewed
  BY <1>3 DEF Init, Numbered, Viewed, NoView
<1>6. Leftover /\ KeyKnown /\ Progress /\ Reachable
  BY <1>3 DEF Init, Leftover, KeyKnown, Progress, NoDelete, Reachable
<1>7. ArtifactAsListed
  BY DEF Init, ArtifactAsListed
<1>8. QED
  BY <1>1, <1>2, <1>4, <1>5, <1>6, <1>7 DEF IInv

(* While the worker is not done, no run is over: if a DeleteRun has come, it
   has come early. *)
LEMMA AtWork ==
  ASSUME TypeOK, Order, worker.pc # "done"
  PROVE  /\ over = FALSE /\ crashes = 0 /\ up
         /\ early \/ (deletes = 0 /\ deleter.pc = "idle")
  BY DEF TypeOK, Order

-----------------------------------------------------------------------------
(* What the steps leave alone. *)
LEMMA WorkerFrame ==
  ASSUME Worker
  PROVE  /\ up /\ UNCHANGED <<up, deleter, viewer, deletes, crashes, early, opened>>
         /\ ~CountArtifact => UNCHANGED <<counter, puts>>
         /\ ~SetArtifactInfo => UNCHANGED info
         /\ ~OpenArtifact /\ ~CopyArtifact => UNCHANGED file
         /\ ~MakeDir => UNCHANGED dir
         /\ ~(\E k \in Keys : AddTestKey(k)) /\ ~AddResultKey => UNCHANGED keySet
         /\ ~SetResult => UNCHANGED result
         /\ ~SetResult /\ ~EndScript => UNCHANGED over
         /\ ~LockBin /\ ~OpenThrows /\ ~CopyArtifact => UNCHANGED binLock
  BY DEF Worker, Putting, AddTestKey, MakeDir, LockBin, CountArtifact, SetArtifactInfo,
         OpenArtifact, OpenThrows, CopyArtifact, EndTest, ScriptThrows, AddResultKey, SetResult,
         EndScript, Work, redis, disk, bounds, history

(* DeleteRun leaves the worker, the user and the bounds alone. *)
LEMMA DeleterFrame ==
  ASSUME Deleter
  PROVE  /\ up
         /\ UNCHANGED <<up, worker, viewer, puts, deletes, crashes, over, early, opened>>
         /\ ~RemoveInfos => UNCHANGED info
         /\ ~RemoveCounter => UNCHANGED counter
         /\ ~RemoveFiles /\ ~RemoveDir => UNCHANGED file
         /\ ~RemoveDir => UNCHANGED dir
         /\ ~RemoveResults => UNCHANGED result
         /\ ~RemoveKeys => UNCHANGED keySet
         /\ ~(\E k \in AllKeys : LockOldBin(k)) /\ ~RemoveFiles => UNCHANGED binLock
  BY DEF Deleter, LockRun, LockOldBin, RemoveInfos, RemoveCounter, RemoveFiles, RemoveDir,
         RemoveDirThrows, RemoveResults, RemoveKeys, DeleteStep, redis, disk, bounds, history

(* A user, a request to delete and an end or a start of the process change
   nothing of what is stored. *)
LEMMA OtherFrames ==
  /\ Viewer =>
       /\ up
       /\ UNCHANGED <<redis, disk, up, worker, deleter, puts, deletes, crashes, over, early>>
       /\ ~Reading => UNCHANGED binLock
       /\ ~ReadArtifact => UNCHANGED opened
  /\ AskDelete =>
       /\ up
       /\ UNCHANGED <<redis, binLock, disk, up, worker, viewer, puts, crashes, over, opened>>
  /\ Crash =>
       /\ up /\ up' = FALSE /\ over' = TRUE /\ crashes' = crashes + 1
       /\ UNCHANGED <<redis, disk, puts, deletes, early, opened>>
  /\ Restart =>
       /\ up' = TRUE /\ ~up
       /\ UNCHANGED <<redis, disk, worker, deleter, viewer, puts, deletes, crashes, over, early,
                      opened>>
  BY DEF Viewer, Reading, AskList, LockToList, LockToOpen, LockToRead, List, AskArtifact,
         ReadArtifact, View, AskDelete, Crash, Restart, bounds, history

(* The types of what is stored and of what is under way. *)
LEMMA NextType == ASSUME TypeOK, Positions, Next PROVE TypeOK'
<1>1. CASE Worker
  <2>1. worker' \in WorkerStates
    BY <1>1, WorkerSteps DEF Worker, Putting, Moves
  <2>2. /\ counter' \in [AllKeys -> 0..MaxPuts] /\ puts' \in 0..MaxPuts
        /\ info' \in [AllKeys -> [Artifacts -> Artifacts \union {Nothing}]]
    <3>1. CASE CountArtifact
      <4>1. worker.pc = "count" /\ puts' = puts + 1 /\ counter' \in [AllKeys -> 0..MaxPuts]
        BY <3>1, WorkerSteps DEF Moves
      <4>2. ~SetArtifactInfo
        BY <4>1, WorkerSteps DEF Moves
      <4>3. UNCHANGED info
        BY <1>1, <4>2, WorkerFrame
      <4>4. QED
        BY <4>1, <4>3 DEF TypeOK, Positions
    <3>2. CASE ~CountArtifact
      BY <1>1, <3>2, WorkerFrame, WorkerSteps DEF TypeOK
    <3>3. QED
      BY <3>1, <3>2
  <2>3. file' \in [AllKeys -> [0..MaxPuts -> Artifacts \union {Nothing, Partial}]]
    BY <1>1, WorkerFrame, WorkerSteps DEF TypeOK
  <2>4. binLock' \in [AllKeys -> Holders]
    BY <1>1, WorkerFrame, WorkerSteps DEF TypeOK
  <2>5. keySet' \subseteq AllKeys
    <3>1. CASE AddResultKey
      BY <3>1, WorkerSteps DEF Moves, TypeOK, Positions
    <3>2. CASE \E k \in Keys : AddTestKey(k)
      BY <3>2, WorkerSteps DEF TypeOK
    <3>3. QED
      BY <1>1, <3>1, <3>2, WorkerFrame DEF TypeOK
  <2>6. result' \subseteq AllKeys
    BY <1>1, WorkerFrame, WorkerSteps DEF TypeOK
  <2>7. dir' \subseteq AllKeys
    <3>1. CASE MakeDir
      BY <3>1, WorkerSteps DEF Moves, TypeOK, Positions
    <3>2. QED
      BY <1>1, <3>1, WorkerFrame DEF TypeOK
  <2>8. over' \in BOOLEAN
    BY <1>1, WorkerFrame DEF TypeOK, SetResult, EndScript
  <2>9. QED
    BY <1>1, <2>1, <2>2, <2>3, <2>4, <2>5, <2>6, <2>7, <2>8, WorkerFrame DEF TypeOK, ViewerOK
<1>2. CASE Deleter
  <2>1. deleter' \in DeleterStates
    BY <1>2, DeleterSteps DEF Deleter, Runs
  <2>2. info' \in [AllKeys -> [Artifacts -> Artifacts \union {Nothing}]]
    BY <1>2, DeleterFrame, DeleterSteps DEF TypeOK
  <2>3. counter' \in [AllKeys -> 0..MaxPuts]
    BY <1>2, DeleterFrame, DeleterSteps DEF TypeOK
  <2>4. file' \in [AllKeys -> [0..MaxPuts -> Artifacts \union {Nothing, Partial}]]
    BY <1>2, DeleterFrame, DeleterSteps DEF TypeOK
  <2>5. binLock' \in [AllKeys -> Holders]
    BY <1>2, DeleterFrame, DeleterSteps DEF TypeOK
  <2>6. keySet' \subseteq AllKeys /\ dir' \subseteq AllKeys /\ result' \subseteq AllKeys
    BY <1>2, DeleterFrame, DeleterSteps DEF TypeOK
  <2>7. QED
    BY <1>2, <2>1, <2>2, <2>3, <2>4, <2>5, <2>6, DeleterFrame DEF TypeOK, ViewerOK
<1>3. CASE Viewer
  <2>1. ViewerOK'
    BY <1>3, ViewerSteps DEF Viewer, Reading
  <2>2. binLock' \in [AllKeys -> Holders]
    BY <1>3, ViewerSteps, OtherFrames DEF Reading, TypeOK
  <2>3. QED
    BY <1>3, <2>1, <2>2, OtherFrames DEF TypeOK, redis, disk
<1>4. CASE AskDelete
  <2>1. deleter' \in DeleterStates
    BY <1>4, DeleterSteps
  <2>2. deletes' \in Nat
    BY <1>4 DEF AskDelete, TypeOK
  <2>3. early' \in BOOLEAN
    BY <1>4 DEF AskDelete
  <2>4. QED
    BY <1>4, <2>1, <2>2, <2>3, OtherFrames DEF TypeOK, ViewerOK, redis, disk
<1>5. CASE Crash
  <2>1. up' \in BOOLEAN /\ over' \in BOOLEAN
    BY <1>5 DEF Crash
  <2>2. crashes' \in Nat
    BY <1>5 DEF Crash, TypeOK
  <2>3. /\ worker' \in WorkerStates /\ deleter' \in DeleterStates /\ ViewerOK'
        /\ binLock' \in [AllKeys -> Holders]
    BY <1>5, ProcessSteps
  <2>4. UNCHANGED <<redis, disk, puts, deletes, early>>
    BY <1>5, OtherFrames
  <2>5. QED
    BY <2>1, <2>2, <2>3, <2>4 DEF TypeOK, redis, disk
<1>6. CASE Restart
  BY <1>6, OtherFrames, ProcessSteps DEF TypeOK, ViewerOK, redis, disk
<1>7. QED
  BY <1>1, <1>2, <1>3, <1>4, <1>5, <1>6 DEF Next

(* Where the threads are, and that numbers do not run out. *)
LEMMA NextPositions == ASSUME TypeOK, Positions, LockHeld, Next PROVE Positions'
<1>1. /\ worker.pc \in Testing \union {"makeDir"} => worker.key \in Keys
      /\ worker.pc \in {"addResult", "setResult"} => worker.key \in AllKeys
      /\ worker.pc = "count" => puts < MaxPuts
      /\ worker.pc \in {"info", "open", "copy"} => counter[worker.key] # 0
      /\ \A k \in AllKeys : counter[k] <= puts
      /\ deleter.pc \in Erasing \union {"dir"} => deleter.key \in AllKeys
      /\ viewer.pc # "idle" => viewer.key \in AllKeys
      /\ viewer.pc \in {"opening", "open"} => viewer.at \in DOMAIN viewer.list
      /\ counter \in [AllKeys -> 0..MaxPuts] /\ puts \in 0..MaxPuts
  BY DEF Positions, TypeOK
<1>2. CASE Worker
  <2>1. /\ worker'.pc \in Testing \union {"makeDir"} => worker'.key \in Keys
        /\ worker'.pc \in {"addResult", "setResult"} => worker'.key \in AllKeys
    BY <1>1, <1>2, WorkerSteps DEF Worker, Putting, Moves
  <2>2. /\ worker'.pc = "count" => puts' < MaxPuts
        /\ worker'.pc \in {"info", "open", "copy"} => counter'[worker'.key] # 0
        /\ \A k \in AllKeys : counter'[k] <= puts'
    <3>1. CASE CountArtifact
      <4>1. /\ worker'.pc = "info" /\ worker'.key = worker.key /\ worker.key \in AllKeys
            /\ puts' = puts + 1
            /\ \A k \in AllKeys : counter'[k] = IF k = worker.key THEN counter[k] + 1
                                                ELSE counter[k]
        BY <3>1, WorkerSteps DEF Moves, Entry
      <4>2. QED
        BY <1>1, <4>1
    <3>2. CASE ~CountArtifact
      <4>1. UNCHANGED <<counter, puts>>
        BY <1>2, <3>2, WorkerFrame
      <4>2. worker'.pc = "count" => puts < MaxPuts
        BY <1>2, <3>2, WorkerSteps DEF Worker, Putting, Moves
      <4>3. worker'.pc \in {"info", "open", "copy"} =>
              worker.pc \in {"info", "open", "copy"} /\ worker'.key = worker.key
        BY <1>2, <3>2, WorkerSteps DEF Worker, Putting, Moves
      <4>4. QED
        BY <1>1, <4>1, <4>2, <4>3
    <3>3. QED
      BY <3>1, <3>2
  <2>3. UNCHANGED <<deleter, viewer>>
    BY <1>2, WorkerFrame
  <2>4. QED
    BY <1>1, <2>1, <2>2, <2>3 DEF Positions
<1>3. CASE Deleter
  <2>1. UNCHANGED <<worker, viewer, puts>>
    BY <1>3, DeleterFrame
  <2>2. deleter'.pc \in Erasing \union {"dir"} => deleter'.key \in AllKeys
    BY <1>1, <1>3, DeleterSteps DEF Deleter, Runs
  <2>3. UNCHANGED counter \/ RemoveCounter
    BY <1>3, DeleterFrame
  <2>4. CASE RemoveCounter
    <3>1. /\ deleter.pc = "counter" /\ deleter.key \in AllKeys
          /\ \A k \in AllKeys : counter'[k] = IF k = deleter.key THEN 0 ELSE counter[k]
      BY <2>4, DeleterSteps DEF Runs, Entry
    <3>2. worker.pc \in {"info", "open", "copy"} => worker.key # deleter.key
      BY <3>1 DEF LockHeld
    <3>3. QED
      BY <1>1, <2>1, <2>2, <3>1, <3>2 DEF Positions
  <2>5. CASE UNCHANGED counter
    BY <1>1, <2>1, <2>2, <2>5 DEF Positions
  <2>6. QED
    BY <2>3, <2>4, <2>5
<1>4. CASE Viewer
  <2>1. UNCHANGED <<worker, deleter, puts, counter>>
    BY <1>4, OtherFrames DEF redis
  <2>2. /\ viewer'.pc # "idle" => viewer'.key \in AllKeys
        /\ viewer'.pc \in {"opening", "open"} => viewer'.at \in DOMAIN viewer'.list
    BY <1>1, <1>4, ViewerSteps DEF Viewer, Reading
  <2>3. QED
    BY <1>1, <2>1, <2>2 DEF Positions
<1>5. CASE AskDelete
  <2>1. UNCHANGED <<worker, viewer, puts, counter>> /\ deleter'.pc = "lock"
    BY <1>5, OtherFrames, DeleterSteps DEF redis
  <2>2. QED
    BY <1>1, <2>1 DEF Positions
<1>6. CASE Crash
  <2>1. /\ worker'.pc = "done" /\ deleter'.pc = "idle" /\ UNCHANGED <<puts, counter>>
        /\ viewer'.key = viewer.key /\ viewer'.pc \notin {"opening", "open"}
        /\ viewer'.pc # "idle" => viewer.pc # "idle"
    BY <1>6, OtherFrames, ProcessSteps DEF redis
  <2>2. QED
    BY <1>1, <2>1 DEF Positions
<1>7. CASE Restart
  <2>1. UNCHANGED <<worker, deleter, viewer, puts, counter>>
    BY <1>7, OtherFrames DEF redis
  <2>2. QED
    BY <1>1, <2>1 DEF Positions
<1>8. QED
  BY <1>2, <1>3, <1>4, <1>5, <1>6, <1>7 DEF Next

(* A DeleteRun that comes early is known for one. *)
LEMMA NextOrder == ASSUME TypeOK, Positions, Order, Next PROVE Order'
<1>1. CASE Worker
  <2>1. worker.pc # "done"
    BY <1>1, WorkerSteps DEF Worker, Putting, Moves
  <2>2. over = FALSE /\ crashes = 0 /\ up /\ (early \/ (deletes = 0 /\ deleter.pc = "idle"))
    BY <2>1, AtWork
  <2>3. over' => worker'.pc = "done"
    BY <1>1, <2>2, WorkerFrame, WorkerSteps DEF Moves
  <2>4. UNCHANGED <<up, deleter, deletes, crashes, early>>
    BY <1>1, WorkerFrame
  <2>5. QED
    BY <2>2, <2>3, <2>4 DEF Order
<1>2. CASE Deleter
  <2>1. deleter.pc # "idle"
    BY <1>2, DeleterSteps DEF Deleter, Runs
  <2>2. UNCHANGED <<up, worker, deletes, crashes, over, early>> /\ up
    BY <1>2, DeleterFrame
  <2>3. QED
    BY <2>1, <2>2 DEF Order
<1>3. CASE Viewer
  <2>1. up /\ UNCHANGED <<up, worker, deleter, deletes, crashes, over, early>>
    BY <1>3, OtherFrames
  <2>2. QED
    BY <2>1 DEF Order
<1>4. CASE AskDelete
  <2>1. /\ deletes' = deletes + 1 /\ early' = (early \/ ~over) /\ up
        /\ UNCHANGED <<up, worker, crashes, over>>
    BY <1>4, DeleterSteps, OtherFrames
  <2>2. deletes' # 0
    BY <2>1 DEF TypeOK
  <2>3. QED
    BY <2>1, <2>2 DEF Order
<1>5. CASE Crash
  <2>1. /\ worker'.pc = "done" /\ deleter'.pc = "idle" /\ over' = TRUE
        /\ viewer'.pc \in {"idle", "listed"}
    BY <1>5, ProcessSteps, OtherFrames
  <2>2. QED
    BY <2>1 DEF Order
<1>6. CASE Restart
  <2>1. UNCHANGED <<worker, deleter, deletes, crashes, over, early>> /\ up' = TRUE
    BY <1>6, OtherFrames
  <2>2. QED
    BY <2>1 DEF Order
<1>7. QED
  BY <1>1, <1>2, <1>3, <1>4, <1>5, <1>6 DEF Next

(* A bin is written and erased under its lock. *)
LEMMA NextLock == ASSUME TypeOK, Positions, Order, LockHeld, Next PROVE LockHeld'
<1>1. /\ worker.pc \in Holding => binLock[worker.key] = "worker" /\ worker.key \in AllKeys
      /\ deleter.pc \in Erasing => binLock[deleter.key] = "deleter" /\ deleter.key \in AllKeys
      /\ viewer.pc \in {"list", "open"} =>
           binLock[viewer.key] = "viewer" /\ viewer.key \in AllKeys
  BY DEF LockHeld, Positions
<1>2. CASE LockBin
  <2>1. /\ Moves("testing", "count") /\ worker.key \in AllKeys /\ binLock[worker.key] = Nobody
        /\ \A k \in AllKeys : binLock'[k] = IF k = worker.key THEN "worker" ELSE binLock[k]
    BY <1>2, WorkerSteps DEF Entry
  <2>2. UNCHANGED <<deleter, viewer>>
    BY <1>2 DEF LockBin, Work
  <2>3. QED
    BY <1>1, <2>1, <2>2 DEF LockHeld, Moves
<1>3. CASE OpenThrows \/ CopyArtifact
  <2>1. /\ worker.pc \in Holding /\ worker'.pc \notin Holding /\ worker.key \in AllKeys
        /\ \A k \in AllKeys : binLock'[k] = IF k = worker.key THEN Nobody ELSE binLock[k]
    BY <1>3, WorkerSteps DEF Entry, Moves
  <2>2. UNCHANGED <<deleter, viewer>>
    BY <1>3 DEF OpenThrows, CopyArtifact, Work
  <2>3. QED
    BY <1>1, <2>1, <2>2 DEF LockHeld
<1>4. CASE Worker /\ ~(LockBin \/ OpenThrows \/ CopyArtifact)
  <2>1. UNCHANGED <<binLock, deleter, viewer>>
    BY <1>4, WorkerFrame
  <2>2. worker'.pc \in Holding => worker.pc \in Holding /\ worker'.key = worker.key
    BY <1>4, WorkerSteps DEF Worker, Putting, Moves
  <2>3. QED
    BY <1>1, <2>1, <2>2 DEF LockHeld
<1>5. CASE \E k \in AllKeys : LockOldBin(k)
  <2>1. PICK k \in AllKeys : LockOldBin(k)
    BY <1>5
  <2>2. /\ binLock[k] = Nobody /\ deleter'.key = k
        /\ \A j \in AllKeys : binLock'[j] = IF j = k THEN "deleter" ELSE binLock[j]
    BY <2>1, DeleterSteps DEF Entry
  <2>3. UNCHANGED <<worker, viewer>>
    BY <2>1 DEF LockOldBin
  <2>4. QED
    BY <1>1, <2>2, <2>3 DEF LockHeld
<1>6. CASE RemoveFiles
  <2>1. /\ deleter.pc \in Erasing /\ deleter'.pc \notin Erasing /\ deleter.key \in AllKeys
        /\ \A k \in AllKeys : binLock'[k] = IF k = deleter.key THEN Nobody ELSE binLock[k]
    BY <1>6, DeleterSteps DEF Entry, Runs
  <2>2. UNCHANGED <<worker, viewer>>
    BY <1>6 DEF RemoveFiles, DeleteStep
  <2>3. QED
    BY <1>1, <2>1, <2>2 DEF LockHeld
<1>7. CASE Deleter /\ ~(\E k \in AllKeys : LockOldBin(k)) /\ ~RemoveFiles
  <2>1. UNCHANGED <<binLock, worker, viewer>>
    BY <1>7, DeleterFrame
  <2>2. deleter'.pc \in Erasing => deleter.pc \in Erasing /\ deleter'.key = deleter.key
    BY <1>7, DeleterSteps DEF Deleter, Runs
  <2>3. QED
    BY <1>1, <2>1, <2>2 DEF LockHeld
<1>8. CASE LockToList \/ LockToOpen
  <2>1. /\ binLock[viewer.key] = Nobody /\ viewer'.key = viewer.key /\ viewer.key \in AllKeys
        /\ \A k \in AllKeys : binLock'[k] = IF k = viewer.key THEN "viewer" ELSE binLock[k]
    BY <1>8, ViewerSteps DEF Entry, Positions
  <2>2. UNCHANGED <<worker, deleter>>
    BY <1>8, OtherFrames DEF Viewer, Reading
  <2>3. QED
    BY <1>1, <2>1, <2>2 DEF LockHeld
<1>9. CASE List \/ ReadArtifact
  <2>1. /\ viewer.pc \in {"list", "open"} /\ viewer'.pc = "listed"
        /\ \A k \in AllKeys : binLock'[k] = IF k = viewer.key THEN Nobody ELSE binLock[k]
    BY <1>9, ViewerSteps DEF Entry
  <2>2. UNCHANGED <<worker, deleter>>
    BY <1>9, OtherFrames DEF Viewer, Reading
  <2>3. QED
    BY <1>1, <2>1, <2>2 DEF LockHeld
<1>10. CASE Viewer /\ ~Reading
  <2>1. UNCHANGED <<binLock, worker, deleter>>
    BY <1>10, OtherFrames
  <2>2. viewer'.pc \in {"listing", "opening"}
    BY <1>10, ViewerSteps DEF Viewer
  <2>3. QED
    BY <1>1, <2>1, <2>2 DEF LockHeld
<1>11. CASE AskDelete
  <2>1. UNCHANGED <<binLock, worker, viewer>> /\ deleter'.pc = "lock"
    BY <1>11, OtherFrames, DeleterSteps
  <2>2. QED
    BY <1>1, <2>1 DEF LockHeld
<1>12. CASE Crash
  BY <1>12, ProcessSteps DEF LockHeld
<1>13. CASE Restart
  <2>1. /\ worker.pc = "done" /\ deleter.pc = "idle" /\ UNCHANGED <<worker, deleter, viewer>>
        /\ viewer.pc \notin {"list", "open"}
    BY <1>13, OtherFrames DEF Order
  <2>2. QED
    BY <2>1 DEF LockHeld
<1>14. QED
  BY <1>2, <1>3, <1>4, <1>5, <1>6, <1>7, <1>8, <1>9, <1>10, <1>11, <1>12, <1>13 DEF Next, Viewer, Reading

-----------------------------------------------------------------------------
(* What the worker has stored, while there was no DeleteRun. *)
LEMMA NextFresh == ASSUME TypeOK, Positions, Order, LockHeld, Fresh, Next PROVE Fresh'
<1> SUFFICES ASSUME deletes' = 0
             PROVE  /\ worker'.pc \in Testing => worker'.key \in dir'
                    /\ worker'.pc \in {"open", "copy"} =>
                         info'[worker'.key][counter'[worker'.key]] = puts'
                    /\ worker'.pc \in {"info", "open"} =>
                         file'[worker'.key][counter'[worker'.key] - 1] = Nothing
                    /\ \A k \in AllKeys, n \in Artifacts : n > counter'[k] =>
                         info'[k][n] = Nothing /\ file'[k][n - 1] = Nothing
  BY DEF Fresh
<1>1. deletes = 0
  <2>1. CASE AskDelete
    BY <2>1 DEF AskDelete, TypeOK
  <2>2. QED
    BY <2>1, WorkerFrame, DeleterFrame, OtherFrames DEF Next
<1>2. /\ worker.pc \in Testing => worker.key \in dir
      /\ worker.pc \in {"open", "copy"} => info[worker.key][counter[worker.key]] = puts
      /\ worker.pc \in {"info", "open"} => file[worker.key][counter[worker.key] - 1] = Nothing
      /\ \A k \in AllKeys, n \in Artifacts :
           n > counter[k] => info[k][n] = Nothing /\ file[k][n - 1] = Nothing
  BY <1>1 DEF Fresh
<1>3. /\ worker.pc \in Testing \union {"makeDir"} => worker.key \in AllKeys
      /\ worker.pc \in {"info", "open", "copy"} =>
           /\ counter[worker.key] \in Artifacts /\ counter[worker.key] - 1 \in 0..MaxPuts
           /\ puts \in Artifacts
      /\ worker.pc = "count" => puts < MaxPuts
      /\ \A k \in AllKeys : counter[k] \in 0..MaxPuts /\ counter[k] <= puts
      /\ puts \in 0..MaxPuts
      /\ \A n \in Artifacts : n - 1 \in 0..MaxPuts /\ n \in Nat
  BY DEF TypeOK, Positions, Artifacts
<1>4. CASE MakeDir
  <2>1. Moves("makeDir", "testing") /\ dir' = dir \union {worker.key}
    BY <1>4, WorkerSteps
  <2>2. UNCHANGED <<counter, info, file>>
    BY <1>4 DEF MakeDir, redis
  <2>3. QED
    BY <1>2, <2>1, <2>2 DEF Moves
<1>5. CASE CountArtifact
  <2>1. /\ Moves("count", "info") /\ puts' = puts + 1
        /\ \A k \in AllKeys : counter'[k] = IF k = worker.key THEN counter[k] + 1 ELSE counter[k]
    BY <1>5, WorkerSteps DEF Entry
  <2>2. UNCHANGED <<dir, info, file>>
    BY <1>5 DEF CountArtifact, disk
  <2>3. counter[worker.key] + 1 \in Artifacts /\ counter'[worker.key] = counter[worker.key] + 1
    BY <1>3, <2>1 DEF Moves, Artifacts
  <2>4. file[worker.key][counter'[worker.key] - 1] = Nothing
    BY <1>2, <1>3, <2>1, <2>3 DEF Moves
  <2>5. \A k \in AllKeys, n \in Artifacts : n > counter'[k] => n > counter[k]
    BY <1>3, <2>1
  <2>6. QED
    BY <1>2, <2>1, <2>2, <2>4, <2>5 DEF Moves
<1>6. CASE SetArtifactInfo
  <2>1. /\ Moves("info", "open") /\ UNCHANGED <<counter, puts, dir, file>>
        /\ \A k \in AllKeys, n \in Artifacts :
             info'[k][n] = IF k = worker.key /\ n = counter[worker.key] THEN puts ELSE info[k][n]
    BY <1>6, WorkerSteps DEF Cell, SetArtifactInfo, disk
  <2>2. worker.key \in AllKeys /\ counter[worker.key] \in Artifacts
    BY <1>3, <2>1 DEF Moves
  <2>3. info'[worker.key][counter[worker.key]] = puts
    BY <2>1, <2>2
  <2>4. \A k \in AllKeys, n \in Artifacts : n > counter[k] => info'[k][n] = info[k][n]
    BY <1>3, <2>1
  <2>5. QED
    BY <1>2, <2>1, <2>3, <2>4 DEF Moves
<1>7. CASE OpenArtifact \/ CopyArtifact
  <2>1. PICK v : Cell(file, file', 0..MaxPuts, worker.key, counter[worker.key] - 1, v)
    BY <1>7, WorkerSteps
  <2>2. /\ UNCHANGED <<counter, puts, dir, info>> /\ worker.pc \in {"open", "copy"}
        /\ worker'.key = worker.key /\ worker'.pc \in {"copy", "testing"}
    BY <1>7, WorkerSteps DEF OpenArtifact, CopyArtifact, redis, Moves
  <2>3. \A k \in AllKeys, n \in Artifacts : n > counter[k] => file'[k][n - 1] = file[k][n - 1]
    BY <1>3, <2>1 DEF Cell
  <2>4. QED
    BY <1>2, <2>2, <2>3
<1>8. CASE Worker /\ ~(MakeDir \/ CountArtifact \/ SetArtifactInfo \/ OpenArtifact \/ CopyArtifact)
  <2>1. UNCHANGED <<counter, puts, info, file, dir>>
    BY <1>8, WorkerFrame
  <2>2. /\ worker'.pc \in Testing => worker.pc \in Testing /\ worker'.key = worker.key
        /\ worker'.pc \notin {"info", "open", "copy"}
    BY <1>8, WorkerSteps DEF Worker, Putting, Moves
  <2>3. QED
    BY <1>2, <2>1, <2>2
<1>9. CASE Deleter
  BY <1>1, <1>9, DeleterSteps DEF Order, Deleter, Runs
<1>10. CASE Viewer \/ Restart
  <2>1. UNCHANGED <<counter, puts, info, file, dir, worker>>
    BY <1>10, OtherFrames DEF redis, disk
  <2>2. QED
    BY <1>2, <2>1
<1>11. CASE AskDelete
  BY <1>11, DeleterSteps DEF TypeOK
<1>12. CASE Crash
  <2>1. UNCHANGED <<counter, puts, info, file, dir>> /\ worker'.pc = "done"
    BY <1>12, OtherFrames, ProcessSteps DEF redis, disk
  <2>2. QED
    BY <1>2, <2>1
<1>13. QED
  BY <1>4, <1>5, <1>6, <1>7, <1>8, <1>9, <1>10, <1>11, <1>12 DEF Next

(* A list shows the infos of a bin in the order of their numbers: there is
   none missing but the last. *)
LEMMA ListedFacts ==
  ASSUME TypeOK, LockHeld, Numbered, Sure, NEW k \in AllKeys, binLock[k] = "viewer"
  PROVE  /\ ~InHand(k)
         /\ \A i \in DOMAIN Listed(k) :
              /\ i \in 1..counter[k] /\ Listed(k)[i] = info[k][i]
              /\ \/ file[k][i - 1] \in {info[k][i], Nothing}
                 \/ crashes # 0 /\ file[k][i - 1] = Partial
<1> DEFINE c == counter[k]
           there == {n \in 1..c : info[k][n] # Nothing}
           place(n) == Cardinality({x \in there : x <= n})
<1>1. ~InHand(k) /\ ~(deleter.pc = "counter" /\ deleter.key = k) /\ c \in Nat
  BY DEF LockHeld, InHand, TypeOK
<1>2. \A n \in 1..c :
        \/ info[k][n] # Nothing /\ file[k][n - 1] = info[k][n]
        \/ n = c /\ crashes # 0 /\ file[k][n - 1] \in {Nothing, Partial}
  BY <1>1 DEF Numbered, Stored
<1> DEFINE m == IF c # 0 /\ info[k][c] = Nothing THEN c - 1 ELSE c
<1>3. m \in Nat /\ m <= c /\ there = 1..m
  <2>1. \A n \in 1..c : n # c => n \in there
    BY <1>2
  <2>2. CASE c # 0 /\ info[k][c] = Nothing
    <3>1. m = c - 1 /\ c \notin there /\ c - 1 \in Nat
      BY <1>1, <2>2
    <3>2. QED
      BY <1>1, <2>1, <3>1
  <2>3. CASE c # 0 /\ info[k][c] # Nothing
    BY <1>1, <2>1, <2>3
  <2>4. CASE c = 0
    BY <2>4
  <2>5. QED
    BY <2>2, <2>3, <2>4
<1> HIDE DEF m, c, there
<1>4. Cardinality(there) = m
  <2>1. 1 \in Int /\ m \in Int
    BY <1>3
  <2>2. Cardinality(1..m) = IF 1 > m THEN 0 ELSE m - 1 + 1
    BY <2>1, FS_Interval
  <2>3. QED
    BY <1>3, <2>2
<1>5. ASSUME NEW n \in there
      PROVE  place(n) = n
  <2>1. n \in 1..m /\ {x \in there : x <= n} = 1..n
    BY <1>3
  <2>2. Cardinality(1..n) = n
    BY <1>3, <2>1, FS_Interval
  <2>3. QED
    BY <2>1, <2>2
<1> HIDE DEF place
<1>6. ASSUME NEW i \in 1..m
      PROVE  (CHOOSE n \in there : place(n) = i) = i
  <2>1. i \in there /\ place(i) = i
    BY <1>3, <1>5
  <2>2. PICK j : j = CHOOSE n \in there : place(n) = i
    OBVIOUS
  <2>3. j \in there /\ place(j) = i
    BY <2>1, <2>2
  <2>4. QED
    BY <1>5, <2>2, <2>3
<1>7. Listed(k) = [i \in 1..m |-> info[k][CHOOSE n \in there : place(n) = i]]
  <2>1. Listed(k) = [i \in 1..Cardinality(there) |-> info[k][CHOOSE n \in there : place(n) = i]]
    BY DEF Listed, there, place, c
  <2>2. QED
    BY <1>4, <2>1
<1>8. ASSUME NEW i \in 1..m
      PROVE  Listed(k)[i] = info[k][i] /\ i \in 1..c
  <2>1. Listed(k)[i] = info[k][CHOOSE n \in there : place(n) = i]
    BY <1>7, <1>8
  <2>2. i \in 1..c
    BY <1>1, <1>3, <1>8
  <2>3. QED
    BY <1>6, <1>8, <2>1, <2>2
<1>9. DOMAIN Listed(k) = 1..m
  BY <1>7
<1>10. QED
  BY <1>1, <1>2, <1>8, <1>9 DEF c

(* The excepted does not end. *)
LEMMA SureBefore == ASSUME TypeOK, Positions, Next, Sure' PROVE Sure
<1>1. UNCHANGED <<early, deletes>> \/ AskDelete
  BY WorkerFrame, DeleterFrame, OtherFrames DEF Next
<1>2. UNCHANGED crashes \/ Crash
  BY WorkerFrame, DeleterFrame, OtherFrames DEF Next
<1>3. AskDelete => (early => early') /\ deletes' # 0
  BY DeleterSteps DEF TypeOK
<1>4. Crash => crashes' # 0
  BY OtherFrames DEF TypeOK
<1>5. QED
  BY <1>1, <1>2, <1>3, <1>4 DEF Sure

(* Every number up to a bin's counter has its info and its file. *)
LEMMA NextNumbered ==
  ASSUME TypeOK, Positions, Order, LockHeld, Fresh, Numbered, Progress, Next
  PROVE  Numbered'
<1> SUFFICES ASSUME Sure', NEW k \in AllKeys, ~(deleter'.pc = "counter" /\ deleter'.key = k),
                    NEW n \in 1..counter'[k]
             PROVE  Stored(k, n)'
  BY DEF Numbered
<1>1. Sure
  BY SureBefore
<1>2. /\ ~early /\ (deletes = 0 \/ crashes = 0)
      /\ \A j \in AllKeys : ~(deleter.pc = "counter" /\ deleter.key = j) =>
           \A m \in 1..counter[j] :
             \/ info[j][m] # Nothing /\ file[j][m - 1] = info[j][m]
             \/ /\ m = counter[j] /\ (InHand(j) \/ crashes # 0)
                /\ file[j][m - 1] \in {Nothing, Partial}
  BY <1>1 DEF Sure, Numbered, Stored
<1>3. /\ worker.pc \in Testing \union {"makeDir"} => worker.key \in AllKeys
      /\ worker.pc \in {"info", "open", "copy"} =>
           counter[worker.key] \in Artifacts /\ puts \in Artifacts
      /\ counter \in [AllKeys -> 0..MaxPuts] /\ counter[k] \in Nat
  BY DEF TypeOK, Positions, Artifacts
<1>4. CASE Worker
  <2>1. worker.pc # "done"
    BY <1>4, WorkerSteps DEF Worker, Putting, Moves
  <2>2. crashes = 0 /\ deletes = 0 /\ deleter.pc = "idle"
    BY <1>2, <2>1, AtWork
  <2>3. /\ worker.pc \in Testing => worker.key \in dir
        /\ worker.pc \in {"open", "copy"} => info[worker.key][counter[worker.key]] = puts
        /\ worker.pc \in {"info", "open"} => file[worker.key][counter[worker.key] - 1] = Nothing
        /\ \A j \in AllKeys, m \in Artifacts : m > counter[j] => file[j][m - 1] = Nothing
    BY <2>2 DEF Fresh
  <2>4. \A m \in 1..counter[k] :
          \/ info[k][m] # Nothing /\ file[k][m - 1] = info[k][m]
          \/ m = counter[k] /\ InHand(k) /\ file[k][m - 1] \in {Nothing, Partial}
    BY <1>2, <2>2
  <2>5. CASE CountArtifact
    <3>1. /\ Moves("count", "info") /\ UNCHANGED <<info, file>>
          /\ counter' \in [AllKeys -> 0..MaxPuts]
          /\ \A j \in AllKeys : counter'[j] = IF j = worker.key THEN counter[j] + 1 ELSE counter[j]
      BY <2>5, WorkerSteps DEF CountArtifact, disk, Entry
    <3>2. ~InHand(k) /\ worker.key \in AllKeys
      BY <1>3, <3>1 DEF InHand, Moves
    <3>3. CASE n \in 1..counter[k]
      BY <2>4, <3>1, <3>2, <3>3 DEF Stored
    <3>4. CASE n \notin 1..counter[k]
      <4>1. k = worker.key /\ n = counter[k] + 1 /\ n = counter'[k]
        BY <1>3, <3>1, <3>2, <3>4
      <4>2. n \in Artifacts /\ n > counter[k]
        BY <1>3, <3>1, <4>1 DEF Artifacts
      <4>3. file'[k][n - 1] = Nothing
        BY <2>3, <3>1, <4>2
      <4>4. InHand(k)'
        BY <3>1, <4>1 DEF InHand, Moves
      <4>5. QED
        BY <4>1, <4>3, <4>4 DEF Stored
    <3>5. QED
      BY <3>3, <3>4
  <2>6. CASE SetArtifactInfo
    <3>1. /\ Moves("info", "open") /\ UNCHANGED <<counter, file>>
          /\ \A j \in AllKeys, m \in Artifacts :
               info'[j][m] = IF j = worker.key /\ m = counter[worker.key] THEN puts ELSE info[j][m]
      BY <2>6, WorkerSteps DEF Cell, SetArtifactInfo, disk
    <3>2. n \in Artifacts /\ n \in 1..counter[k]
      BY <1>3, <3>1 DEF Artifacts
    <3>3. InHand(k) => InHand(k)' /\ k = worker.key
      BY <3>1 DEF InHand, Moves
    <3>4. CASE k = worker.key /\ n = counter[k]
      BY <2>3, <3>1, <3>4 DEF Stored, Moves, InHand
    <3>5. CASE ~(k = worker.key /\ n = counter[k])
      BY <2>4, <3>1, <3>2, <3>3, <3>5 DEF Stored
    <3>6. QED
      BY <3>4, <3>5
  <2>7. CASE OpenArtifact \/ CopyArtifact
    <3>1. PICK v :
            /\ Cell(file, file', 0..MaxPuts, worker.key, counter[worker.key] - 1, v)
            /\ \/ Moves("open", "copy") /\ v = Partial
               \/ Moves("copy", "testing") /\ (worker.key \in dir => v = puts)
      BY <2>7, WorkerSteps
    <3>2. UNCHANGED <<counter, info>>
      BY <2>7 DEF OpenArtifact, CopyArtifact, redis
    <3>3. n \in 1..counter[k] /\ n - 1 \in 0..MaxPuts /\ counter[worker.key] \in Nat
      BY <1>3, <3>1, <3>2 DEF Artifacts, Moves
    <3>4. file'[k][n - 1] = IF k = worker.key /\ n = counter[worker.key] THEN v ELSE file[k][n - 1]
      BY <3>1, <3>3 DEF Cell
    <3>5. CASE k = worker.key /\ n = counter[k]
      <4>1. CASE Moves("open", "copy") /\ v = Partial
        BY <3>2, <3>4, <3>5, <4>1 DEF Stored, InHand, Moves
      <4>2. CASE Moves("copy", "testing") /\ (worker.key \in dir => v = puts)
        <5>1. v = puts /\ info[k][n] = puts /\ puts # Nothing
          BY <1>3, <2>3, <3>5, <4>2 DEF Moves, Artifacts
        <5>2. QED
          BY <3>2, <3>4, <3>5, <5>1 DEF Stored
      <4>3. QED
        BY <3>1, <4>1, <4>2
    <3>6. CASE ~(k = worker.key /\ n = counter[k])
      BY <2>4, <3>2, <3>3, <3>4, <3>6 DEF Stored, InHand
    <3>7. QED
      BY <3>5, <3>6
  <2>8. CASE OpenThrows
    BY <2>3, <2>8, WorkerSteps DEF Moves
  <2>9. CASE ~Putting
    <3>1. ~(worker.pc \in {"info", "open", "copy"})
      BY <1>4, <2>9, WorkerSteps DEF Worker, Moves
    <3>2. UNCHANGED <<counter, info, file>>
      BY <1>4, <2>9, WorkerFrame DEF Putting
    <3>3. QED
      BY <2>4, <3>1, <3>2 DEF Stored, InHand
  <2>10. QED
    BY <2>5, <2>6, <2>7, <2>8, <2>9 DEF Putting
<1>5. CASE Deleter
  <2>1. deleter.pc # "idle"
    BY <1>5, DeleterSteps DEF Deleter, Runs
  <2>2. crashes = 0 /\ over /\ worker.pc = "done"
    BY <1>2, <2>1 DEF Order
  <2>3. UNCHANGED worker
    BY <1>5, DeleterFrame
  <2>4. ASSUME ~(deleter.pc = "counter" /\ deleter.key = k), n \in 1..counter[k]
        PROVE  info[k][n] # Nothing /\ file[k][n - 1] = info[k][n]
    BY <1>2, <2>2, <2>4 DEF InHand
  <2>5. CASE RemoveInfos
    <3>1. /\ Runs("infos", "counter") /\ UNCHANGED <<counter, file>>
          /\ \A j \in AllKeys, m \in Artifacts : j # deleter.key => info'[j][m] = info[j][m]
      BY <2>5, DeleterSteps DEF RemoveInfos, disk, Cleared
    <3>2. k # deleter.key /\ n \in 1..counter[k] /\ n \in Artifacts
      BY <1>3, <3>1 DEF Runs, Artifacts
    <3>3. QED
      BY <2>4, <3>1, <3>2 DEF Stored
  <2>6. CASE RemoveCounter
    <3>1. /\ \A j \in AllKeys : counter'[j] = IF j = deleter.key THEN 0 ELSE counter[j]
          /\ UNCHANGED <<info, file>>
      BY <2>6, DeleterSteps DEF RemoveCounter, disk, Entry
    <3>2. k # deleter.key
      BY <3>1
    <3>3. QED
      BY <2>4, <3>1, <3>2 DEF Stored
  <2>7. CASE RemoveFiles \/ RemoveDir
    <3>1. /\ deleter.pc \in {"files", "dir"} /\ UNCHANGED <<counter, info>>
          /\ \A j \in AllKeys, i \in 0..MaxPuts : j # deleter.key => file'[j][i] = file[j][i]
      BY <2>7, DeleterSteps DEF RemoveFiles, RemoveDir, redis, Cleared, Runs
    <3>2. k # deleter.key
      <4>1. counter[deleter.key] = 0
        BY <1>2, <3>1 DEF Progress
      <4>2. QED
        BY <3>1, <4>1
    <3>3. n \in 1..counter[k] /\ n - 1 \in 0..MaxPuts
      BY <1>3, <3>1
    <3>4. QED
      BY <2>4, <3>1, <3>2, <3>3 DEF Stored
  <2>8. CASE ~(RemoveInfos \/ RemoveCounter \/ RemoveFiles \/ RemoveDir)
    <3>1. UNCHANGED <<counter, info, file>>
      BY <1>5, <2>8, DeleterFrame
    <3>2. deleter.pc # "counter"
      BY <1>5, <2>8, DeleterSteps DEF Deleter, Runs
    <3>3. QED
      BY <2>4, <3>1, <3>2 DEF Stored
  <2>9. QED
    BY <2>5, <2>6, <2>7, <2>8
<1>6. CASE Viewer \/ Restart
  <2>1. UNCHANGED <<counter, info, file, worker, deleter, crashes>>
    BY <1>6, OtherFrames DEF redis, disk
  <2>2. QED
    BY <1>2, <2>1 DEF Stored, InHand
<1>7. CASE AskDelete
  <2>1. UNCHANGED <<counter, info, file, worker, crashes>> /\ deleter.pc # "counter"
    BY <1>7, OtherFrames, DeleterSteps DEF redis, disk
  <2>2. QED
    BY <1>2, <2>1 DEF Stored, InHand
<1>8. CASE Crash
  <2>1. UNCHANGED <<counter, info, file, deletes>> /\ crashes' = crashes + 1
    BY <1>8, OtherFrames DEF redis, disk
  <2>2. crashes' # 0 /\ deletes = 0 /\ deleter.pc # "counter"
    BY <2>1 DEF TypeOK, Sure, Order
  <2>3. QED
    BY <1>2, <2>1, <2>2 DEF Stored
<1>9. QED
  BY <1>4, <1>5, <1>6, <1>7, <1>8 DEF Next

(* A position of a list leads to what was listed there, or to nothing. *)
LEMMA NextViewed ==
  ASSUME TypeOK, Positions, Order, LockHeld, Numbered, Viewed, Next
  PROVE  Viewed'
<1> SUFFICES ASSUME Sure', viewer'.pc \in Looking, NEW i \in DOMAIN viewer'.list
             PROVE  /\ i \in Artifacts
                    /\ \/ file'[viewer'.key][i - 1] \in {viewer'.list[i], Nothing}
                       \/ crashes' # 0 /\ file'[viewer'.key][i - 1] = Partial
                    /\ deletes' = 0 => i <= counter'[viewer'.key]
                    /\ deletes' = 0 /\ InHand(viewer.key)' => i < counter'[viewer'.key]
  BY DEF Viewed
<1>1. Sure
  BY SureBefore
<1>2. ASSUME viewer.pc \in Looking, i \in DOMAIN viewer.list
      PROVE  /\ i \in Artifacts /\ i - 1 \in 0..MaxPuts /\ i \in Nat
             /\ \/ file[viewer.key][i - 1] \in {viewer.list[i], Nothing}
                \/ crashes # 0 /\ file[viewer.key][i - 1] = Partial
             /\ deletes = 0 => i <= counter[viewer.key]
             /\ deletes = 0 /\ InHand(viewer.key) => i < counter[viewer.key]
  BY <1>1, <1>2 DEF Viewed, Artifacts
<1>3. viewer.pc # "idle" => viewer.key \in AllKeys /\ counter[viewer.key] \in Nat
  BY DEF TypeOK, Positions
<1>4. CASE Worker
  <2>1. viewer' = viewer /\ UNCHANGED <<deletes, crashes>>
    BY <1>4, WorkerFrame
  <2>2. worker.pc # "done"
    BY <1>4, WorkerSteps DEF Worker, Putting, Moves
  <2>3. crashes = 0 /\ deletes = 0
    BY <1>1, <2>2, AtWork DEF Sure
  <2>4. /\ file[viewer.key][i - 1] \in {viewer.list[i], Nothing} /\ i <= counter[viewer.key]
        /\ InHand(viewer.key) => i < counter[viewer.key]
        /\ i \in Artifacts /\ i - 1 \in 0..MaxPuts /\ i \in Nat
        /\ viewer.key \in AllKeys /\ counter[viewer.key] \in Nat
    BY <1>2, <1>3, <2>1, <2>3
  <2>5. file'[viewer.key][i - 1] = file[viewer.key][i - 1]
    <3>1. CASE OpenArtifact \/ CopyArtifact
      <4>1. PICK v : Cell(file, file', 0..MaxPuts, worker.key, counter[worker.key] - 1, v)
        BY <3>1, WorkerSteps
      <4>2. worker.pc \in {"open", "copy"}
        BY <3>1, WorkerSteps DEF Moves
      <4>3. viewer.key = worker.key => i < counter[worker.key] /\ counter[worker.key] \in Nat
        BY <2>4, <4>2 DEF InHand
      <4>4. ~(viewer.key = worker.key /\ i - 1 = counter[worker.key] - 1)
        BY <2>4, <4>3
      <4>5. QED
        BY <2>4, <4>1, <4>4 DEF Cell
    <3>2. CASE ~(OpenArtifact \/ CopyArtifact)
      BY <1>4, <3>2, WorkerFrame
    <3>3. QED
      BY <3>1, <3>2
  <2>6. i <= counter'[viewer.key] /\ (InHand(viewer.key)' => i < counter'[viewer.key])
    <3>1. CASE CountArtifact
      <4>1. \A j \in AllKeys : counter'[j] = IF j = worker.key THEN counter[j] + 1 ELSE counter[j]
        BY <3>1, WorkerSteps DEF Entry
      <4>2. worker'.key = worker.key
        BY <3>1, WorkerSteps DEF Moves
      <4>3. QED
        BY <2>1, <2>4, <4>1, <4>2 DEF InHand
    <3>2. CASE ~CountArtifact
      <4>1. UNCHANGED counter
        BY <1>4, <3>2, WorkerFrame
      <4>2. InHand(viewer.key)' => InHand(viewer.key)
        BY <1>4, <2>1, <3>2, WorkerSteps DEF Worker, Putting, Moves, InHand
      <4>3. QED
        BY <2>4, <4>1, <4>2
    <3>3. QED
      BY <3>1, <3>2
  <2>7. QED
    BY <2>1, <2>4, <2>5, <2>6
<1>5. CASE Deleter
  <2>1. viewer' = viewer /\ UNCHANGED <<deletes, crashes>>
    BY <1>5, DeleterFrame
  <2>2. deletes # 0
    BY <1>5, DeleterSteps DEF Deleter, Runs, Order
  <2>3. /\ i \in Artifacts /\ i - 1 \in 0..MaxPuts /\ viewer.key \in AllKeys
        /\ \/ file[viewer.key][i - 1] \in {viewer.list[i], Nothing}
           \/ crashes # 0 /\ file[viewer.key][i - 1] = Partial
    BY <1>2, <1>3, <2>1
  <2>4. file'[viewer.key][i - 1] \in {file[viewer.key][i - 1], Nothing}
    <3>1. CASE RemoveFiles
      <4>1. Cleared(file, file', 0..MaxPuts, deleter.key, 0..(deleter.n - 1))
        BY <3>1, DeleterSteps
      <4>2. QED
        BY <2>3, <4>1 DEF Cleared
    <3>2. CASE RemoveDir
      <4>1. Cleared(file, file', 0..MaxPuts, deleter.key, 0..MaxPuts)
        BY <3>2, DeleterSteps
      <4>2. QED
        BY <2>3, <4>1 DEF Cleared
    <3>3. CASE ~(RemoveFiles \/ RemoveDir)
      BY <1>5, <3>3, DeleterFrame
    <3>4. QED
      BY <3>1, <3>2, <3>3
  <2>5. QED
    BY <2>1, <2>2, <2>3, <2>4
<1>6. CASE List
  <2>1. /\ binLock[viewer.key] = "viewer" /\ viewer'.key = viewer.key /\ viewer.pc # "idle"
        /\ viewer'.list = Listed(viewer.key)
    BY <1>6, ViewerSteps DEF LockHeld
  <2>2. UNCHANGED <<counter, file, worker, crashes>>
    BY <1>6, OtherFrames DEF Viewer, Reading, redis, disk
  <2>3. /\ ~InHand(viewer.key)
        /\ i \in 1..counter[viewer.key] /\ viewer'.list[i] = info[viewer.key][i]
        /\ \/ file[viewer.key][i - 1] \in {info[viewer.key][i], Nothing}
           \/ crashes # 0 /\ file[viewer.key][i - 1] = Partial
    BY <1>1, <1>3, <2>1, ListedFacts
  <2>4. i \in Artifacts /\ i <= counter[viewer.key]
    BY <1>3, <2>1, <2>3 DEF TypeOK, Artifacts
  <2>5. QED
    BY <2>1, <2>2, <2>3, <2>4 DEF InHand
<1>7. CASE Viewer /\ ~List
  <2>1. /\ viewer.pc \in Looking
        /\ viewer'.key = viewer.key /\ viewer'.list = viewer.list
    BY <1>7, ViewerSteps DEF Viewer, Reading
  <2>2. UNCHANGED <<counter, file, worker, deletes, crashes>>
    BY <1>7, OtherFrames DEF redis, disk
  <2>3. QED
    BY <1>2, <2>1, <2>2 DEF InHand
<1>8. CASE AskDelete
  <2>1. deletes' # 0
    BY <1>8, DeleterSteps DEF TypeOK
  <2>2. UNCHANGED <<file, viewer, crashes>>
    BY <1>8, OtherFrames DEF disk
  <2>3. QED
    BY <1>2, <2>1, <2>2
<1>9. CASE Crash
  <2>1. /\ viewer.pc \in Looking /\ worker'.pc = "done"
        /\ viewer'.key = viewer.key /\ viewer'.list = viewer.list
    BY <1>9, ProcessSteps
  <2>2. UNCHANGED <<counter, file, deletes>> /\ crashes' = crashes + 1
    BY <1>9, OtherFrames DEF redis, disk
  <2>3. crashes' # 0
    BY <2>2 DEF TypeOK
  <2>4. QED
    BY <1>2, <2>1, <2>2, <2>3 DEF InHand
<1>10. CASE Restart
  <2>1. UNCHANGED <<counter, file, worker, viewer, deletes, crashes>>
    BY <1>10, OtherFrames DEF redis, disk
  <2>2. QED
    BY <1>2, <2>1 DEF InHand
<1>11. QED
  BY <1>4, <1>5, <1>6, <1>7, <1>8, <1>9, <1>10 DEF Next, Viewer, Reading

(* What is downloaded is what was listed. *)
LEMMA NextAsListed ==
  ASSUME TypeOK, Positions, Viewed, ArtifactAsListed, Next
  PROVE  ArtifactAsListed'
<1> SUFFICES ASSUME opened'.listed # Nothing, Sure'
             PROVE  \/ opened'.got = opened'.listed
                    \/ crashes' > 0 /\ opened'.got = Partial
  BY DEF ArtifactAsListed, Sure
<1>1. Sure
  BY SureBefore
<1>2. opened.listed # Nothing => opened.got = opened.listed \/ (crashes # 0 /\ opened.got = Partial)
  BY <1>1 DEF ArtifactAsListed, Sure
<1>3. crashes' \in Nat /\ (crashes # 0 => crashes' # 0)
  BY WorkerFrame, DeleterFrame, OtherFrames DEF Next, TypeOK
<1>4. CASE opened' = opened
  BY <1>2, <1>3, <1>4
<1>5. CASE ReadArtifact
  <2>1. viewer.pc = "open"
    BY <1>5, ViewerSteps
  <2>2. viewer.at \in DOMAIN viewer.list
    BY <2>1 DEF Positions
  <2>3. \/ file[viewer.key][viewer.at - 1] \in {viewer.list[viewer.at], Nothing}
        \/ crashes # 0 /\ file[viewer.key][viewer.at - 1] = Partial
    BY <1>1, <2>1, <2>2 DEF Viewed
  <2>4. \/ opened' = opened
        \/ /\ file[viewer.key][viewer.at - 1] # Nothing
           /\ opened' = [listed |-> viewer.list[viewer.at],
                         got |-> file[viewer.key][viewer.at - 1]]
    BY <1>5 DEF ReadArtifact
  <2>5. QED
    BY <1>3, <1>4, <2>3, <2>4
<1>6. opened' = opened \/ ReadArtifact
  BY WorkerFrame, DeleterFrame, OtherFrames DEF Next
<1>7. QED
  BY <1>4, <1>5, <1>6

-----------------------------------------------------------------------------
(* A DeleteRun only takes away. *)
LEMMA DeleterTakes ==
  ASSUME TypeOK, Positions, Deleter
  PROVE  /\ dir' \subseteq dir /\ result' \subseteq result
         /\ \A k \in AllKeys : counter'[k] \in {counter[k], 0}
         /\ \A k \in AllKeys, n \in Artifacts : info'[k][n] \in {info[k][n], Nothing}
<1>1. dir' \subseteq dir /\ result' \subseteq result
  BY DeleterFrame, DeleterSteps
<1>2. \A k \in AllKeys : counter'[k] \in {counter[k], 0}
  <2>1. CASE RemoveCounter
    BY <2>1, DeleterSteps DEF Entry
  <2>2. CASE ~RemoveCounter
    BY <2>2, DeleterFrame
  <2>3. QED
    BY <2>1, <2>2
<1>3. \A k \in AllKeys, n \in Artifacts : info'[k][n] \in {info[k][n], Nothing}
  <2>1. CASE RemoveInfos
    BY <2>1, DeleterSteps DEF Cleared
  <2>2. CASE ~RemoveInfos
    BY <2>2, DeleterFrame
  <2>3. QED
    BY <2>1, <2>2
<1>4. QED
  BY <1>1, <1>2, <1>3

(* A bin with few infos stays one when some are taken away. *)
LEMMA FewStay ==
  ASSUME NEW k, Few(k), \A n \in Artifacts : info'[k][n] \in {info[k][n], Nothing}
  PROVE  Few(k)'
  BY DEF Few

(* A DeleteRun that does not come early finds the worker done. *)
LEMMA DeleteLate ==
  ASSUME TypeOK, Positions, Order, Next, ~early'
  PROVE  /\ ~early
         /\ deletes # 0 => worker.pc = "done" /\ ~Worker
         /\ Deleter => deletes # 0 /\ worker.pc = "done"
         /\ Worker => deletes = 0 /\ deletes' = 0 /\ deleter'.pc = "idle"
<1>1. ~early
  BY WorkerFrame, DeleterFrame, OtherFrames, DeleterSteps DEF Next
<1>2. Worker => worker.pc # "done"
  BY WorkerSteps DEF Worker, Putting, Moves
<1>3. Deleter => deleter.pc # "idle"
  BY DeleterSteps DEF Deleter, Runs
<1>4. Worker => UNCHANGED <<deletes, deleter>>
  BY WorkerFrame
<1>5. QED
  BY <1>1, <1>2, <1>3, <1>4, AtWork DEF Order

(* Infos are numbered to the counter, or one is left. *)
LEMMA NextLeftover ==
  ASSUME TypeOK, Positions, Order, Fresh', Leftover, Progress, Next
  PROVE  Leftover'
<1> SUFFICES ASSUME ~early', NEW k \in AllKeys
             PROVE  \/ \A n \in Artifacts : info'[k][n] # Nothing => n <= counter'[k]
                    \/ counter'[k] = 0 /\ Few(k)'
  BY DEF Leftover
<1>1. /\ ~early
      /\ \/ \A n \in Artifacts : info[k][n] # Nothing => n <= counter[k]
         \/ counter[k] = 0 /\ Few(k)
  BY DeleteLate DEF Leftover
<1>2. CASE Worker
  <2>1. \A n \in Artifacts : n > counter'[k] => info'[k][n] = Nothing
    BY <1>2, DeleteLate DEF Fresh
  <2>2. counter'[k] \in 0..MaxPuts
    BY NextType DEF TypeOK
  <2>3. QED
    BY <2>1, <2>2 DEF Artifacts
<1>3. CASE Deleter
  <2>1. CASE RemoveCounter
    <3>1. /\ deleter.pc = "counter" /\ UNCHANGED info
          /\ \A j \in AllKeys : counter'[j] = IF j = deleter.key THEN 0 ELSE counter[j]
      BY <2>1, DeleterSteps DEF RemoveCounter, Entry, Runs
    <3>2. Few(deleter.key)
      BY <1>1, <3>1 DEF Progress
    <3>3. QED
      BY <1>1, <3>1, <3>2 DEF Few
  <2>2. CASE ~RemoveCounter
    <3>1. /\ UNCHANGED counter
          /\ \A n \in Artifacts : info'[k][n] \in {info[k][n], Nothing}
      BY <1>3, <2>2, DeleterFrame, DeleterTakes
    <3>2. QED
      BY <1>1, <3>1, FewStay
  <2>3. QED
    BY <2>1, <2>2
<1>4. CASE Viewer \/ AskDelete \/ Crash \/ Restart
  <2>1. UNCHANGED <<counter, info>>
    BY <1>4, OtherFrames DEF redis
  <2>2. QED
    BY <1>1, <2>1 DEF Few
<1>5. QED
  BY <1>2, <1>3, <1>4 DEF Next

(* The worker's key is in the set before anything is stored under it. *)
LEMMA NextKeyKnown == ASSUME TypeOK, Positions, Order, KeyKnown, Next PROVE KeyKnown'
<1> SUFFICES ASSUME ~early', worker'.pc \in Testing \union {"makeDir", "setResult"}
             PROVE  worker'.key \in keySet'
  BY DEF KeyKnown
<1>1. ~early /\ (Deleter => worker.pc = "done")
  BY DeleteLate
<1>2. worker.pc \in Testing \union {"makeDir", "setResult"} => worker.key \in keySet
  BY <1>1 DEF KeyKnown
<1>3. CASE Worker
  <2>1. CASE (\E k \in Keys : AddTestKey(k)) \/ AddResultKey
    BY <2>1, WorkerSteps DEF Moves
  <2>2. CASE ~(\E k \in Keys : AddTestKey(k)) /\ ~AddResultKey
    <3>1. UNCHANGED keySet
      BY <1>3, <2>2, WorkerFrame
    <3>2. /\ worker.pc \in Testing \union {"makeDir", "setResult"}
          /\ worker'.key = worker.key
      BY <1>3, <2>2, WorkerSteps DEF Worker, Putting, Moves
    <3>3. QED
      BY <1>2, <3>1, <3>2
  <2>3. QED
    BY <2>1, <2>2
<1>4. CASE Deleter
  BY <1>1, <1>4, DeleterFrame
<1>5. CASE Viewer \/ AskDelete \/ Restart
  <2>1. UNCHANGED <<worker, keySet>>
    BY <1>5, OtherFrames DEF redis
  <2>2. QED
    BY <1>2, <2>1
<1>6. CASE Crash
  BY <1>6, ProcessSteps
<1>7. QED
  BY <1>3, <1>4, <1>5, <1>6 DEF Next

(* A DeleteRun empties one bin of the set after the other. *)
LEMMA NextProgress ==
  ASSUME TypeOK, Positions, Order, Leftover, Progress, Next
  PROVE  Progress'
<1> SUFFICES ASSUME ~early', deleter'.pc \in Deleting
             PROVE  /\ deleter'.keys = keySet'
                    /\ \A k \in keySet' \ deleter'.todo :
                         k # deleter'.key \/ deleter'.pc \in {"bins", "keys"} => Gone(k)'
                    /\ deleter'.pc \in {"infos", "counter"} => deleter'.n = counter'[deleter'.key]
                    /\ deleter'.pc = "counter" => Few(deleter.key)'
                    /\ deleter'.pc \in {"files", "dir"} =>
                         counter'[deleter'.key] = 0 /\ Few(deleter.key)'
                    /\ deleter'.pc = "keys" => deleter'.todo = {} /\ result' \cap keySet' = {}
  BY DEF Progress
<1>1. ~early /\ (Worker => deleter'.pc = "idle")
  BY DeleteLate
<1>2. deleter.pc \in Deleting =>
        /\ deleter.keys = keySet
        /\ \A k \in keySet \ deleter.todo :
             k # deleter.key \/ deleter.pc \in {"bins", "keys"} => Gone(k)
        /\ deleter.pc \in {"infos", "counter"} => deleter.n = counter[deleter.key]
        /\ deleter.pc = "counter" => Few(deleter.key)
        /\ deleter.pc \in {"files", "dir"} => counter[deleter.key] = 0 /\ Few(deleter.key)
        /\ deleter.pc = "keys" => deleter.todo = {} /\ result \cap keySet = {}
  BY <1>1 DEF Progress
<1>3. keySet \subseteq AllKeys
  BY DEF TypeOK
<1>4. CASE Deleter
  <2>1. ASSUME NEW k \in AllKeys, Gone(k)
        PROVE  Gone(k)'
    BY <1>4, <2>1, DeleterTakes, FewStay DEF Gone
  <2>2. CASE LockRun
    <3>1. deleter'.pc = "bins" /\ deleter'.keys = keySet /\ deleter'.todo = keySet
      BY <2>2, DeleterSteps
    <3>2. UNCHANGED keySet
      BY <2>2 DEF LockRun, redis
    <3>3. QED
      BY <3>1, <3>2
  <2>3. CASE \E k \in AllKeys : LockOldBin(k)
    <3>1. PICK k \in AllKeys : LockOldBin(k)
      BY <2>3
    <3>2. /\ deleter.pc = "bins" /\ deleter'.pc = "infos"
          /\ deleter'.keys = deleter.keys /\ deleter'.todo = deleter.todo \ {k}
          /\ deleter'.key = k /\ deleter'.n = counter[k]
      BY <3>1, DeleterSteps
    <3>3. UNCHANGED <<keySet, counter>>
      BY <3>1 DEF LockOldBin, redis
    <3>4. \A j \in keySet' \ deleter'.todo : j # deleter'.key => Gone(j)'
      BY <1>2, <1>3, <2>1, <3>2, <3>3
    <3>5. QED
      BY <1>2, <3>2, <3>3, <3>4
  <2>4. CASE RemoveInfos
    <3>1. /\ Runs("infos", "counter") /\ deleter.key \in AllKeys
          /\ Cleared(info, info', Artifacts, deleter.key, 0..(deleter.n - 1))
          /\ UNCHANGED <<keySet, counter>>
      BY <2>4, DeleterSteps DEF RemoveInfos
    <3>2. Few(deleter.key)'
      <4>1. CASE \A n \in Artifacts : info[deleter.key][n] # Nothing => n <= counter[deleter.key]
        <5>1. deleter.n = counter[deleter.key] /\ counter[deleter.key] \in Nat
          BY <1>2, <3>1 DEF Runs, TypeOK
        <5>2. \A n \in Artifacts : info'[deleter.key][n] # Nothing => n = counter[deleter.key]
          BY <3>1, <4>1, <5>1 DEF Cleared, Artifacts
        <5>3. QED
          BY <3>1, <5>2 DEF Few, Runs
      <4>2. CASE Few(deleter.key)
        <5>1. \A n \in Artifacts :
                info'[deleter.key][n] \in {info[deleter.key][n], Nothing}
          BY <3>1 DEF Cleared
        <5>2. QED
          BY <3>1, <4>2, <5>1 DEF Few, Runs
      <4>3. QED
        BY <1>1, <3>1, <4>1, <4>2 DEF Leftover
    <3>3. \A j \in keySet' \ deleter'.todo : j # deleter'.key => Gone(j)'
      BY <1>2, <1>3, <2>1, <3>1 DEF Runs
    <3>4. QED
      BY <1>2, <3>1, <3>2, <3>3 DEF Runs
  <2>5. CASE RemoveCounter
    <3>1. /\ Runs("counter", "files") /\ deleter.key \in AllKeys
          /\ Entry(counter, counter', deleter.key, 0) /\ UNCHANGED <<keySet, info>>
      BY <2>5, DeleterSteps DEF RemoveCounter
    <3>2. Few(deleter.key)' /\ counter'[deleter.key] = 0
      BY <1>2, <3>1 DEF Runs, Few, Entry
    <3>3. \A j \in keySet' \ deleter'.todo : j # deleter'.key => Gone(j)'
      BY <1>2, <1>3, <2>1, <3>1 DEF Runs
    <3>4. QED
      BY <1>2, <3>1, <3>2, <3>3 DEF Runs
  <2>6. CASE RemoveFiles
    <3>1. Runs("files", "dir") /\ UNCHANGED <<keySet, counter, info>>
      BY <2>6, DeleterSteps DEF RemoveFiles, redis
    <3>2. \A j \in keySet' \ deleter'.todo : j # deleter'.key => Gone(j)'
      BY <1>2, <1>3, <2>1, <3>1 DEF Runs
    <3>3. QED
      BY <1>2, <3>1, <3>2 DEF Runs, Few
  <2>7. CASE RemoveDir
    <3>1. /\ Runs("dir", "bins") /\ dir' = dir \ {deleter.key}
          /\ UNCHANGED <<keySet, counter, info>>
      BY <2>7, DeleterSteps DEF RemoveDir, redis
    <3>2. Gone(deleter.key)'
      BY <1>2, <3>1 DEF Gone, Few, Runs
    <3>3. \A j \in keySet' \ deleter'.todo : Gone(j)'
      BY <1>2, <1>3, <2>1, <3>1, <3>2 DEF Runs
    <3>4. QED
      BY <1>2, <3>1, <3>3 DEF Runs
  <2>8. CASE RemoveDirThrows \/ RemoveKeys
    BY <2>8, DeleterSteps DEF Runs
  <2>9. CASE RemoveResults
    <3>1. /\ Runs("bins", "keys") /\ deleter.todo = {} /\ result' = result \ deleter.keys
          /\ UNCHANGED keySet
      BY <2>9, DeleterSteps DEF RemoveResults
    <3>2. \A j \in keySet' \ deleter'.todo : Gone(j)'
      BY <1>2, <1>3, <2>1, <3>1 DEF Runs
    <3>3. QED
      BY <1>2, <3>1, <3>2 DEF Runs
  <2>10. QED
    BY <1>4, <2>2, <2>3, <2>4, <2>5, <2>6, <2>7, <2>8, <2>9 DEF Deleter
<1>5. CASE Viewer \/ Restart
  <2>1. UNCHANGED <<keySet, result, counter, info, dir, deleter>>
    BY <1>5, OtherFrames DEF redis, disk
  <2>2. \A k \in keySet' \ deleter'.todo :
          k # deleter'.key \/ deleter'.pc \in {"bins", "keys"} => Gone(k)'
    BY <1>2, <2>1 DEF Gone, Few
  <2>3. QED
    BY <1>2, <2>1, <2>2 DEF Few
<1>6. CASE AskDelete \/ Crash
  BY <1>6, DeleterSteps, ProcessSteps
<1>7. QED
  BY <1>1, <1>4, <1>5, <1>6 DEF Next

(* Nothing is stored under a key that is not in the set. *)
LEMMA NextReachable ==
  ASSUME TypeOK, Positions, Order, Fresh', KeyKnown, Progress, Reachable, Next
  PROVE  Reachable'
<1> SUFFICES ASSUME ~early', NEW k \in AllKeys \ keySet'
             PROVE  k \notin result' /\ Gone(k)'
  <2>1. \A j \in AllKeys : Gone(j)' /\ deletes' = 0 => \A n \in Artifacts : info'[j][n] = Nothing
    BY DEF Gone, Fresh, Artifacts
  <2>2. QED
    BY <2>1 DEF Reachable, Gone, Few
<1>1. ~early /\ (Deleter => worker.pc = "done")
  BY DeleteLate
<1>2. k \notin keySet => k \notin result /\ Gone(k)
  BY <1>1 DEF Reachable, Gone, Few
<1>3. CASE Worker
  <2>1. k \notin keySet
    BY <1>3, WorkerFrame, WorkerSteps
  <2>2. worker.pc \in Testing \union {"makeDir", "setResult"} => worker.key # k
    BY <1>1, <2>1 DEF KeyKnown
  <2>3. k \notin result'
    BY <1>2, <1>3, <2>1, <2>2, WorkerFrame, WorkerSteps DEF Moves
  <2>4. k \notin dir'
    BY <1>2, <1>3, <2>1, <2>2, WorkerFrame, WorkerSteps DEF Moves, Gone
  <2>5. counter'[k] = counter[k]
    BY <1>3, <2>2, WorkerFrame, WorkerSteps DEF Moves, Entry
  <2>6. \A n \in Artifacts : info'[k][n] = info[k][n]
    BY <1>3, <2>2, WorkerFrame, WorkerSteps DEF Moves, Cell
  <2>7. QED
    BY <1>2, <2>1, <2>3, <2>4, <2>5, <2>6 DEF Gone, Few
<1>4. CASE Deleter
  <2>1. k \notin result /\ Gone(k)
    <3>1. CASE RemoveKeys
      <4>1. deleter.pc = "keys"
        BY <3>1, DeleterSteps DEF Runs
      <4>2. k \in keySet => k \notin result /\ Gone(k)
        BY <1>1, <4>1 DEF Progress
      <4>3. QED
        BY <1>2, <4>2
    <3>2. CASE ~RemoveKeys
      BY <1>2, <1>4, <3>2, DeleterFrame
    <3>3. QED
      BY <3>1, <3>2
  <2>2. QED
    BY <1>4, <2>1, DeleterTakes, FewStay DEF Gone
<1>5. CASE Viewer \/ AskDelete \/ Crash \/ Restart
  <2>1. UNCHANGED <<keySet, result, counter, info, dir>>
    BY <1>5, OtherFrames DEF redis, disk
  <2>2. QED
    BY <1>2, <2>1 DEF Gone, Few
<1>6. QED
  BY <1>3, <1>4, <1>5 DEF Next

-----------------------------------------------------------------------------
(* A step that changes nothing keeps the invariant. *)
LEMMA StutterHolds == ASSUME IInv, UNCHANGED vars PROVE IInv'
<1>1. UNCHANGED <<keySet, result, counter, info, dir, file, runLock, binLock, up, worker,
                  deleter, viewer, puts, deletes, crashes, over, early, opened>>
  BY DEF vars, redis, disk, bounds, history
<1>2. TypeOK' /\ Positions' /\ Order' /\ LockHeld'
  BY <1>1 DEF IInv, TypeOK, ViewerOK, Positions, Order, LockHeld
<1>3. Fresh' /\ Numbered' /\ Viewed'
  BY <1>1 DEF IInv, Fresh, Sure, Numbered, Stored, InHand, Viewed
<1>4. Leftover' /\ KeyKnown' /\ Progress'
  BY <1>1 DEF IInv, Leftover, KeyKnown, Progress, Gone, Few
<1>5. Reachable' /\ ArtifactAsListed'
  BY <1>1 DEF IInv, Reachable, ArtifactAsListed
<1>6. QED
  BY <1>2, <1>3, <1>4, <1>5 DEF IInv

(* What is stored of a run, and how it is written, listed and deleted, are
   always related as the invariant says. *)
THEOREM InvariantHolds == Spec => []IInv
<1>1. IInv /\ [Next]_vars => IInv'
  <2>1. ASSUME IInv, Next
        PROVE  IInv'
    <3>1. /\ TypeOK /\ Positions /\ Order /\ LockHeld /\ Fresh /\ Numbered /\ Viewed
          /\ Leftover /\ KeyKnown /\ Progress /\ Reachable /\ ArtifactAsListed
      BY <2>1 DEF IInv
    <3>2. TypeOK' /\ Positions' /\ Order' /\ LockHeld'
      BY <2>1, <3>1, NextType, NextPositions, NextOrder, NextLock
    <3>3. Fresh' /\ Numbered' /\ Viewed'
      BY <2>1, <3>1, NextFresh, NextNumbered, NextViewed
    <3>4. Leftover' /\ KeyKnown' /\ Progress'
      BY <2>1, <3>1, <3>3, NextLeftover, NextKeyKnown, NextProgress
    <3>5. Reachable' /\ ArtifactAsListed'
      BY <2>1, <3>1, <3>3, NextReachable, NextAsListed
    <3>6. QED
      BY <3>2, <3>3, <3>4, <3>5 DEF IInv
  <2>2. QED
    BY <2>1, StutterHolds
<1>2. QED
  BY <1>1, InitHolds, PTL DEF Spec

(* Whatever is stored of a run is under a key of its set, wherever the process
   ends, unless a DeleteRun came to the run before it was over; but for the info
   that DeleteRun leaves of each bin. *)
THEOREM ReachableHolds == Spec => []Reachable
<1>1. IInv => Reachable
  BY DEF IInv
<1>2. QED
  BY <1>1, InvariantHolds, PTL

(* What a user downloads from a position of a list is the artifact that was
   listed there, though infos are numbered from 1 and files from 0. *)
THEOREM ArtifactAsListedHolds == Spec => []ArtifactAsListed
<1>1. IInv => ArtifactAsListed
  BY DEF IInv
<1>2. QED
  BY <1>1, InvariantHolds, PTL
=============================================================================
