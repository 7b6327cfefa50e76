------------------------ MODULE TestRepositoryProofs ------------------------
(* Proofs about TestRepository, for any programs, uploads and names, also for
   names that several programs upload, and for any bounds. *)
EXTENDS TestRepository, TLAPS

-----------------------------------------------------------------------------
(* Lists of names and of contents, and their elements. *)

(* The elements of a list are of the type the list is of. *)
LEMMA ElementsOfSeq ==
  ASSUME NEW S, NEW s \in Seq(S)
  PROVE  /\ ToSet(s) \subseteq S
         /\ DOMAIN s = 1..Len(s) /\ Len(s) \in Nat
         /\ \A i \in 1..Len(s) : s[i] \in S
<1>1. DOMAIN s = 1..Len(s) /\ Len(s) \in Nat
  OBVIOUS
<1>2. \A i \in 1..Len(s) : s[i] \in S
  OBVIOUS
<1>3. QED
  BY <1>1, <1>2 DEF ToSet

(* Adding to the end of a list: what changes, and which elements it has. *)
LEMMA AppendFacts ==
  ASSUME NEW S, NEW s \in Seq(S), NEW e \in S
  PROVE  /\ Append(s, e) \in Seq(S)
         /\ DOMAIN s = 1..Len(s)
         /\ DOMAIN Append(s, e) = 1..(Len(s) + 1)
         /\ \A i \in 1..Len(s) : Append(s, e)[i] = s[i]
         /\ Append(s, e)[Len(s) + 1] = e
         /\ ToSet(Append(s, e)) = ToSet(s) \union {e}
<1>1. /\ Append(s, e) \in Seq(S)
      /\ DOMAIN s = 1..Len(s)
      /\ DOMAIN Append(s, e) = 1..(Len(s) + 1)
      /\ \A i \in 1..Len(s) : Append(s, e)[i] = s[i]
      /\ Append(s, e)[Len(s) + 1] = e
      /\ Len(s) \in Nat
  OBVIOUS
<1>2. 1..(Len(s) + 1) = 1..Len(s) \union {Len(s) + 1}
  BY <1>1
<1>3. QED
  BY <1>1, <1>2 DEF ToSet

(* Replacing one element of a list. *)
LEMMA ExceptFacts ==
  ASSUME NEW S, NEW s \in Seq(S), NEW i \in 1..Len(s), NEW e \in S
  PROVE  /\ [s EXCEPT ![i] = e] \in Seq(S)
         /\ Len([s EXCEPT ![i] = e]) = Len(s)
         /\ [s EXCEPT ![i] = e][i] = e
         /\ \A j \in 1..Len(s) : j # i => [s EXCEPT ![i] = e][j] = s[j]
  OBVIOUS

-----------------------------------------------------------------------------

Filed == {"unlock", "create", "empty", "open", "copy", "params"}
InLock == {"check", "remove", "setIndex", "unlock"}
Pcs == {"off", "idle", "lockCheck", "check", "remove", "refresh", "load", "store"}
       \union Writing
ProcStates == [pc : Pcs, kind : Kinds, name : Names \union {NoName}, ver : Nat, at : Nat,
               list : Seq(Names), todo : SUBSET Names]

TypeOK ==
  /\ counter \in Nat /\ index \in [Names -> 0..counter]
  /\ lock \in Procs \union {Nobody, Dead}
  /\ blob \in [Kinds -> Seq(Names)]
  /\ file \in Seq(Contents) /\ Len(file) = counter
  /\ proc \in [Procs -> ProcStates]
  /\ installs \in 0..MaxInstalls
  /\ latest \in [Names -> Versions \union {Nothing}]
  /\ done \subseteq Kinds \X Names
  /\ \A p \in Procs :
       /\ proc[p].pc \in Writing \union {"load", "store", "remove"} => proc[p].name \in Names
       /\ proc[p].pc \in Writing => proc[p].kind = "batch" /\ proc[p].ver \in Versions
       /\ proc[p].pc \in Filed => proc[p].at \in 1..counter

\* The index is changed, and checked, by the holder of its lock.
LockHeld ==
  \A p \in Procs :
    /\ lock = p <=> proc[p].pc \in InLock
    /\ proc[p].pc \in {"check", "remove"} => \A n \in proc[p].todo : index[n] # Nothing
    /\ proc[p].pc = "remove" => proc[p].name \notin proc[p].todo

\* A file is one resource's, whoever writes it.
Owned ==
  \E owner \in [1..counter -> Names] :
    /\ \A n \in Names : index[n] # Nothing => owner[index[n]] = n
    /\ \A p \in Procs : proc[p].pc \in Filed => owner[proc[p].at] = proc[p].name

\* Names of which nothing is known: broken off, or uploaded by two programs.
Doubtful == broken \union clashed
OneUploader ==
  \A p, q \in Procs :
    p # q /\ {proc[p].pc, proc[q].pc} \subseteq Writing /\ proc[p].name = proc[q].name =>
      proc[p].name \in clashed

\* An upload goes into the file the index names, while it names any.
IntoOwn ==
  \A p \in Procs : proc[p].pc \in Filed /\ proc[p].name \notin clashed =>
    /\ index[proc[p].name] \in {proc[p].at, Nothing}
    /\ proc[p].pc = "copy" => file[proc[p].at] = Partial
    /\ proc[p].pc = "params" => file[proc[p].at] = proc[p].ver

\* What a start finds without a file has never been there, or is being uploaded.
RemovesNothing ==
  \A p \in Procs : proc[p].pc = "remove" /\ proc[p].name \notin Doubtful =>
    /\ latest[proc[p].name] = Nothing
    /\ \A q \in Procs : proc[q].pc \in Filed => proc[q].name # proc[p].name

HasLatest ==
  \A n \in Names \ Doubtful :
    \/ latest[n] = Nothing \/ Uploading(n)
    \/ index[n] # Nothing /\ file[index[n]] = latest[n]

HalfWritten ==
  \A n \in Names \ Doubtful :
    index[n] # Nothing /\ file[index[n]] = Partial =>
      \E p \in Procs : proc[p].pc = "copy" /\ proc[p].name = n /\ proc[p].at = index[n]

\* What is in the batch driver's list has been uploaded.
ListedWereWritten ==
  /\ \A n \in ToSet(blob["batch"]) : latest[n] # Nothing
  /\ \A p \in Procs : proc[p].kind = "batch" =>
       /\ proc[p].pc \in {"load", "store"} => latest[proc[p].name] # Nothing
       /\ proc[p].pc = "store" => \A n \in ToSet(proc[p].list) : latest[n] # Nothing

\* Of the uploads that change one list, one has the list that is stored.
ListsInOrder ==
  /\ \A p \in Procs : proc[p].pc = "store" /\ proc[p].kind \notin raced =>
       proc[p].list = blob[proc[p].kind]
  /\ \A p, q \in Procs :
       p # q /\ proc[p].pc = "store" /\ proc[q].pc = "store" /\ proc[p].kind = proc[q].kind =>
         proc[p].kind \in raced

IInv == /\ TypeOK /\ LockHeld /\ Owned /\ OneUploader /\ IntoOwn /\ RemovesNothing
        /\ HasLatest /\ HalfWritten /\ ListedWereWritten /\ ListsInOrder
        /\ InstalledStaysListed /\ NoTornTest

USE ProcsAssumption, BoundsAssumption
USE DEF Writing, Filed, InLock, Pcs, Kinds, Nothing, Nobody, Dead, Released, NextFile, Added

-----------------------------------------------------------------------------
(* A step of one program's thread leaves those of the others alone. *)
LEMMA StepFacts ==
  ASSUME TypeOK, NEW p \in Procs, NEW from, NEW next, Step(p, from, next)
  PROVE  /\ proc[p].pc = from /\ proc'[p] = next
         /\ \A q \in Procs \ {p} : proc'[q] = proc[q]
         /\ next \in ProcStates => proc' \in [Procs -> ProcStates]
         /\ UNCHANGED <<bounds, clashed, ran>>
  BY DEF TypeOK, Step

(* Going to another step changes nothing else of a thread. *)
LEMMA GoesFacts ==
  ASSUME TypeOK, NEW p \in Procs, NEW to \in Pcs
  PROVE  /\ Goes(p, to) \in ProcStates /\ Goes(p, to).pc = to
         /\ Goes(p, to).kind = proc[p].kind /\ Goes(p, to).name = proc[p].name
         /\ Goes(p, to).ver = proc[p].ver /\ Goes(p, to).at = proc[p].at
         /\ Goes(p, to).list = proc[p].list /\ Goes(p, to).todo = proc[p].todo
<1>1. proc[p] \in ProcStates
  BY DEF TypeOK
<1>2. QED
  BY <1>1 DEF Goes, ProcStates

(* A thread with nothing in hand. *)
LEMMA RestFacts ==
  /\ Off \in ProcStates /\ Idle \in ProcStates /\ [Off EXCEPT !.pc = "refresh"] \in ProcStates
  /\ Off.pc = "off" /\ Idle.pc = "idle" /\ [Off EXCEPT !.pc = "refresh"].pc = "refresh"
<1>1. <<>> \in Seq(Names)
  OBVIOUS
<1>2. Off \in ProcStates /\ Off.pc = "off"
  BY <1>1 DEF Off, ProcStates
<1>3. ASSUME NEW s \in ProcStates, NEW pc \in Pcs
      PROVE  [s EXCEPT !.pc = pc] \in ProcStates /\ [s EXCEPT !.pc = pc].pc = pc
  BY <1>3 DEF ProcStates
<1>4. QED
  BY <1>2, <1>3 DEF Idle

\* What a step of p leaves of what p has in hand
SameFile(p) == /\ proc'[p].kind = proc[p].kind /\ proc'[p].name = proc[p].name
               /\ proc'[p].ver = proc[p].ver /\ proc'[p].at = proc[p].at
OneMoves(p) == /\ proc' \in [Procs -> ProcStates]
               /\ \A q \in Procs \ {p} : proc'[q] = proc[q]

(* A start of a program: the check of the index. *)
LEMMA CheckSteps ==
  ASSUME TypeOK, NEW p \in Procs
  PROVE  /\ Start(p) => OneMoves(p) /\ proc[p].pc = "off" /\ proc'[p].pc = "lockCheck"
         /\ LockForCheck(p) =>
              /\ OneMoves(p) /\ proc[p].pc = "lockCheck" /\ proc'[p].pc = "check"
              /\ proc'[p].todo = {n \in Names : index[n] # Nothing}
         /\ \A n \in Names : CheckEntry(p, n) =>
              /\ OneMoves(p) /\ proc[p].pc = "check" /\ n \in proc[p].todo
              /\ proc'[p].pc = (IF Missing(n) THEN "remove" ELSE "check")
              /\ proc'[p].name = n /\ proc'[p].todo = proc[p].todo \ {n}
         /\ RemoveEntry(p) =>
              /\ OneMoves(p) /\ proc[p].pc = "remove" /\ proc'[p].pc = "check"
              /\ proc'[p].todo = proc[p].todo
         /\ EndCheck(p) => OneMoves(p) /\ proc[p].pc = "check" /\ proc'[p].pc = "refresh"
<1>0. proc[p] \in ProcStates
  BY DEF TypeOK
<1>1. ASSUME Start(p)
      PROVE  OneMoves(p) /\ proc[p].pc = "off" /\ proc'[p].pc = "lockCheck"
  BY <1>1, StepFacts, GoesFacts DEF Start, OneMoves
<1>2. ASSUME LockForCheck(p)
      PROVE  /\ OneMoves(p) /\ proc[p].pc = "lockCheck" /\ proc'[p].pc = "check"
             /\ proc'[p].todo = {n \in Names : index[n] # Nothing}
  <2> DEFINE next == [Goes(p, "check") EXCEPT !.todo = {n \in Names : index[n] # Nothing}]
  <2>1. /\ next \in ProcStates /\ next.pc = "check"
        /\ next.todo = {n \in Names : index[n] # Nothing}
    <3>1. PICK g \in ProcStates : g = Goes(p, "check")
      BY GoesFacts
    <3>2. /\ next = [g EXCEPT !.todo = {n \in Names : index[n] # Nothing}]
          /\ g.pc = "check"
      BY <3>1, GoesFacts
    <3>3. QED
      BY <3>1, <3>2 DEF ProcStates
  <2>2. Step(p, "lockCheck", next)
    BY <1>2 DEF LockForCheck
  <2> HIDE DEF next
  <2>3. QED
    BY <2>1, <2>2, StepFacts DEF OneMoves
<1>3. ASSUME NEW n \in Names, CheckEntry(p, n)
      PROVE  /\ OneMoves(p) /\ proc[p].pc = "check" /\ n \in proc[p].todo
             /\ proc'[p].pc = (IF Missing(n) THEN "remove" ELSE "check")
             /\ proc'[p].name = n /\ proc'[p].todo = proc[p].todo \ {n}
  <2> DEFINE next == [proc[p] EXCEPT !.todo = @ \ {n}, !.name = n,
                                     !.pc = IF Missing(n) THEN "remove" ELSE "check"]
  <2>1. /\ next \in ProcStates /\ next.pc = (IF Missing(n) THEN "remove" ELSE "check")
        /\ next.name = n /\ next.todo = proc[p].todo \ {n}
    BY <1>0 DEF ProcStates
  <2>2. Step(p, "check", next) /\ n \in proc[p].todo
    BY <1>3 DEF CheckEntry
  <2> HIDE DEF next
  <2>3. QED
    BY <2>1, <2>2, StepFacts DEF OneMoves
<1>4. ASSUME RemoveEntry(p)
      PROVE  /\ OneMoves(p) /\ proc[p].pc = "remove" /\ proc'[p].pc = "check"
             /\ proc'[p].todo = proc[p].todo
  BY <1>4, StepFacts, GoesFacts DEF RemoveEntry, OneMoves
<1>5. ASSUME EndCheck(p)
      PROVE  OneMoves(p) /\ proc[p].pc = "check" /\ proc'[p].pc = "refresh"
  <2> DEFINE next == [Off EXCEPT !.pc = "refresh"]
  <2>1. next \in ProcStates /\ next.pc = "refresh"
    BY RestFacts
  <2>2. Step(p, "check", next)
    BY <1>5 DEF EndCheck
  <2> HIDE DEF next
  <2>3. QED
    BY <2>1, <2>2, StepFacts DEF OneMoves
<1>6. QED
  BY <1>1, <1>2, <1>3, <1>4, <1>5

(* An upload, up to the file that is written and read again. *)
LEMMA FileSteps ==
  ASSUME TypeOK, NEW p \in Procs
  PROVE  /\ LockIndex(p) =>
              /\ OneMoves(p) /\ SameFile(p)
              /\ proc[p].pc = "lockIndex" /\ proc'[p].pc = "setIndex"
         /\ SetIndex(p) =>
              /\ OneMoves(p) /\ proc[p].pc = "setIndex" /\ proc'[p].pc = "unlock"
              /\ proc'[p].kind = proc[p].kind /\ proc'[p].name = proc[p].name
              /\ proc'[p].ver = proc[p].ver /\ proc'[p].at = counter + 1
         /\ UnlockIndex(p) =>
              /\ OneMoves(p) /\ SameFile(p)
              /\ proc[p].pc = "unlock" /\ proc'[p].pc = "create"
         /\ CreateFile(p) =>
              /\ OneMoves(p) /\ SameFile(p)
              /\ proc[p].pc = "create" /\ proc'[p].pc = "empty"
         /\ EmptyFile(p) =>
              /\ OneMoves(p) /\ proc[p].pc = "empty" /\ proc'[p].pc = "open"
              /\ proc'[p].kind = proc[p].kind /\ proc'[p].name = proc[p].name
              /\ proc'[p].ver = proc[p].ver /\ proc'[p].at = index[proc[p].name]
         /\ OpenFile(p) =>
              /\ OneMoves(p) /\ SameFile(p)
              /\ proc[p].pc = "open" /\ proc'[p].pc = "copy"
         /\ CloseFile(p) =>
              /\ OneMoves(p) /\ SameFile(p)
              /\ proc[p].pc = "copy" /\ proc'[p].pc = "params"
         /\ ReadParameters(p) =>
              /\ OneMoves(p) /\ SameFile(p)
              /\ proc[p].pc = "params" /\ proc'[p].pc = "load"
<1>0. proc[p] \in ProcStates
  BY DEF TypeOK
<1>1. ASSUME NEW from, NEW to \in Pcs, Step(p, from, Goes(p, to))
      PROVE  OneMoves(p) /\ SameFile(p) /\ proc[p].pc = from /\ proc'[p].pc = to
  BY <1>1, StepFacts, GoesFacts DEF OneMoves, SameFile
<1>2. ASSUME NEW from, NEW to \in Pcs, NEW f \in Nat,
             Step(p, from, [Goes(p, to) EXCEPT !.at = f])
      PROVE  /\ OneMoves(p) /\ proc[p].pc = from /\ proc'[p].pc = to
             /\ proc'[p].kind = proc[p].kind /\ proc'[p].name = proc[p].name
             /\ proc'[p].ver = proc[p].ver /\ proc'[p].at = f
  <2> DEFINE next == [Goes(p, to) EXCEPT !.at = f]
  <2>1. /\ next \in ProcStates /\ next.pc = to /\ next.at = f
        /\ next.kind = proc[p].kind /\ next.name = proc[p].name /\ next.ver = proc[p].ver
    <3>1. PICK g \in ProcStates : g = Goes(p, to)
      BY GoesFacts
    <3>2. /\ next = [g EXCEPT !.at = f]
          /\ g.pc = to /\ g.kind = proc[p].kind /\ g.name = proc[p].name
          /\ g.ver = proc[p].ver
      BY <3>1, GoesFacts
    <3>3. QED
      BY <3>1, <3>2 DEF ProcStates
  <2> HIDE DEF next
  <2>2. Step(p, from, next)
    BY <1>2 DEF next
  <2>3. QED
    BY <2>1, <2>2, StepFacts DEF OneMoves
<1>3. counter + 1 \in Nat /\ (EmptyFile(p) => index[proc[p].name] \in Nat)
  <2>1. EmptyFile(p) => proc[p].name \in Names
    BY StepFacts DEF EmptyFile, TypeOK
  <2>2. QED
    BY <2>1 DEF TypeOK
<1>4. QED
  BY <1>1, <1>2, <1>3
  DEF LockIndex, SetIndex, UnlockIndex, CreateFile, EmptyFile, OpenFile, CloseFile,
      ReadParameters

\* An upload that ends with nothing stored
Quits(p) == RemovedMeanwhile(p) \/ AlreadyExists(p) \/ NotFound(p)

(* The rest of an upload, and its ends. *)
LEMMA ListSteps ==
  ASSUME TypeOK, NEW p \in Procs
  PROVE  /\ LoadList(p) =>
              /\ OneMoves(p) /\ SameFile(p)
              /\ proc[p].pc = "load" /\ proc'[p].pc = "store"
              /\ proc'[p].list = blob[proc[p].kind]
         /\ StoreList(p) =>
              /\ OneMoves(p) /\ proc[p].pc = "store" /\ proc'[p].pc = "refresh"
         /\ Refresh(p) => OneMoves(p) /\ proc[p].pc = "refresh" /\ proc'[p].pc = "idle"
         /\ Quits(p) =>
              /\ OneMoves(p) /\ proc[p].pc \in {"empty", "params", "load", "refresh"}
              /\ proc'[p].pc \in {"off", "idle"}
         /\ Crash(p) => OneMoves(p) /\ proc'[p].pc = "off"
         /\ \A k \in Kinds, n \in Names : BeginInstall(p, k, n) =>
              /\ OneMoves(p) /\ proc[p].pc = "idle" /\ proc'[p].ver = installs + 1
              /\ proc'[p].pc = (IF k = "batch" THEN "lockIndex" ELSE "load")
              /\ proc'[p].kind = k /\ proc'[p].name = n
<1>0. proc[p] \in ProcStates /\ proc \in [Procs -> ProcStates]
  BY DEF TypeOK
<1>1. ASSUME LoadList(p)
      PROVE  /\ OneMoves(p) /\ SameFile(p)
             /\ proc[p].pc = "load" /\ proc'[p].pc = "store"
             /\ proc'[p].list = blob[proc[p].kind]
  <2> DEFINE next == [Goes(p, "store") EXCEPT !.list = blob[proc[p].kind]]
  <2>1. /\ next \in ProcStates /\ next.pc = "store" /\ next.list = blob[proc[p].kind]
        /\ next.kind = proc[p].kind /\ next.name = proc[p].name
        /\ next.ver = proc[p].ver /\ next.at = proc[p].at
    <3>1. PICK g \in ProcStates : g = Goes(p, "store")
      BY GoesFacts
    <3>2. /\ next = [g EXCEPT !.list = blob[proc[p].kind]]
          /\ g.pc = "store" /\ g.kind = proc[p].kind /\ g.name = proc[p].name
          /\ g.ver = proc[p].ver /\ g.at = proc[p].at
      BY <3>1, GoesFacts
    <3>3. blob[proc[p].kind] \in Seq(Names)
      BY <1>0 DEF TypeOK, ProcStates
    <3>4. QED
      BY <3>1, <3>2, <3>3 DEF ProcStates
  <2>2. Step(p, "load", next)
    BY <1>1 DEF LoadList
  <2> HIDE DEF next
  <2>3. QED
    BY <2>1, <2>2, StepFacts DEF OneMoves, SameFile
<1>2. ASSUME StoreList(p)
      PROVE  /\ OneMoves(p) /\ proc[p].pc = "store" /\ proc'[p].pc = "refresh"
  BY <1>2, StepFacts, GoesFacts DEF StoreList, OneMoves
<1>3. ASSUME Refresh(p)
      PROVE  OneMoves(p) /\ proc[p].pc = "refresh" /\ proc'[p].pc = "idle"
  BY <1>3, StepFacts, RestFacts DEF Refresh, OneMoves
<1>4. ASSUME Quits(p)
      PROVE  /\ OneMoves(p) /\ proc[p].pc \in {"empty", "params", "load", "refresh"}
             /\ proc'[p].pc \in {"off", "idle"}
  <2>1. PICK from \in {"empty", "params", "load", "refresh"} : Fail(p, from)
    BY <1>4 DEF Quits, RemovedMeanwhile, AlreadyExists, NotFound
  <2>2. PICK next \in {Idle, Off} : Step(p, from, next)
    BY <2>1 DEF Fail
  <2>3. QED
    BY <2>2, StepFacts, RestFacts DEF OneMoves
<1>5. ASSUME Crash(p)
      PROVE  OneMoves(p) /\ proc'[p].pc = "off"
  BY <1>0, <1>5, RestFacts DEF Crash, OneMoves
<1>6. ASSUME NEW k \in Kinds, NEW n \in Names, BeginInstall(p, k, n)
      PROVE  /\ OneMoves(p) /\ proc[p].pc = "idle" /\ proc'[p].ver = installs + 1
             /\ proc'[p].pc = (IF k = "batch" THEN "lockIndex" ELSE "load")
             /\ proc'[p].kind = k /\ proc'[p].name = n
  <2> DEFINE pc == IF k = "batch" THEN "lockIndex" ELSE "load"
             next == [Idle EXCEPT !.pc = pc, !.kind = k, !.name = n, !.ver = installs + 1]
  <2>1. /\ next \in ProcStates /\ next.pc = pc /\ next.kind = k /\ next.name = n
        /\ next.ver = installs + 1
    <3>1. PICK g \in ProcStates : g = Idle
      BY RestFacts
    <3>2. next = [g EXCEPT !.pc = pc, !.kind = k, !.name = n, !.ver = installs + 1]
      BY <3>1
    <3>3. installs + 1 \in Nat /\ pc \in Pcs
      BY DEF TypeOK
    <3> HIDE DEF pc
    <3>4. QED
      BY <3>2, <3>3 DEF ProcStates
  <2>2. proc' = [proc EXCEPT ![p] = next] /\ proc[p].pc = "idle"
    BY <1>6 DEF BeginInstall
  <2> HIDE DEF next
  <2>3. QED
    BY <1>0, <2>1, <2>2 DEF OneMoves
<1>7. QED
  BY <1>1, <1>2, <1>3, <1>4, <1>5, <1>6

-----------------------------------------------------------------------------
(* At first nothing is stored and no program runs. *)
LEMMA InitHolds == Init => IInv
<1> SUFFICES ASSUME Init
             PROVE  IInv
  OBVIOUS
<1>1. /\ proc \in [Procs -> ProcStates]
      /\ \A p \in Procs : proc[p].pc = "off" /\ proc[p].name = NoName
  BY RestFacts DEF Init, Off
<1>2. \A k \in Kinds : ToSet(blob[k]) = {} /\ blob[k] \in Seq(Names)
  BY DEF Init, ToSet
<1>3. TypeOK
  BY <1>1, <1>2 DEF Init, TypeOK
<1>4. LockHeld /\ OneUploader /\ IntoOwn /\ RemovesNothing
  BY <1>1 DEF Init, LockHeld, OneUploader, IntoOwn, RemovesNothing
<1>5. Owned
  <2>1. 1..counter = {}
    BY DEF Init
  <2>2. [i \in {} |-> CHOOSE n \in Names : TRUE] \in [1..counter -> Names]
    BY <2>1
  <2>3. QED
    BY <1>1, <2>2 DEF Owned, Init
<1>6. HasLatest /\ HalfWritten /\ InstalledStaysListed /\ NoTornTest
  BY DEF Init, HasLatest, HalfWritten, InstalledStaysListed, NoTornTest, NoTest, Partial
<1>7. ListedWereWritten /\ ListsInOrder
  BY <1>1, <1>2 DEF ListedWereWritten, ListsInOrder
<1>8. QED
  BY <1>3, <1>4, <1>5, <1>6, <1>7 DEF IInv

-----------------------------------------------------------------------------
\* What a program does next, but for running tests.
Act(p) ==
  \/ Start(p) \/ LockForCheck(p) \/ (\E n \in Names : CheckEntry(p, n)) \/ RemoveEntry(p)
  \/ EndCheck(p) \/ LockIndex(p) \/ SetIndex(p) \/ UnlockIndex(p) \/ CreateFile(p)
  \/ EmptyFile(p) \/ OpenFile(p) \/ CloseFile(p) \/ ReadParameters(p) \/ Quits(p)
  \/ LoadList(p) \/ StoreList(p) \/ Refresh(p) \/ Crash(p)
  \/ \E k \in Kinds, n \in Names : BeginInstall(p, k, n)
Rests == UNCHANGED <<redis, file, proc, installs, latest, broken, raced, clashed, done>>

(* A step is one program's, or a test is run. *)
LEMMA Steps ==
  ASSUME [Next]_vars
  PROVE  Rests \/ \E p \in Procs : Act(p)
<1>1. ASSUME NEW p \in Procs, Start(p) \/ Thread(p) \/ Crash(p)
      PROVE  Act(p)
  BY <1>1 DEF Thread, Act, Quits
<1>2. ASSUME NEW p \in Procs, NEW k \in Kinds, NEW n \in Names, BeginInstall(p, k, n)
      PROVE  Act(p)
  BY <1>2 DEF Act
<1>3. ASSUME NEW n \in Names, RunTest(n)
      PROVE  Rests
  BY <1>3 DEF RunTest, Rests
<1>4. CASE UNCHANGED vars
  BY <1>4 DEF vars, bounds, history, Rests
<1>5. QED
  BY <1>1, <1>2, <1>3, <1>4 DEF Next

(* What the steps leave of the index and of the files, in three groups. *)
LEMMA Untouched ==
  ASSUME NEW p \in Procs
  PROVE  /\ Start(p) \/ LockForCheck(p) \/ (\E n \in Names : CheckEntry(p, n)) \/ EndCheck(p)
            \/ LockIndex(p) \/ UnlockIndex(p) \/ Quits(p) \/ LoadList(p) \/ StoreList(p)
            \/ Refresh(p) \/ Crash(p) \/ (\E k \in Kinds, n \in Names : BeginInstall(p, k, n)) =>
              UNCHANGED <<index, counter, file, latest>>
         /\ RemoveEntry(p) => UNCHANGED <<counter, file, latest>>
         /\ ReadParameters(p) => UNCHANGED <<index, counter, file>>
         /\ CreateFile(p) \/ EmptyFile(p) \/ OpenFile(p) \/ CloseFile(p) =>
              UNCHANGED <<index, counter, latest>>
  BY DEF Start, LockForCheck, CheckEntry, EndCheck, LockIndex, UnlockIndex, Quits,
         RemovedMeanwhile, AlreadyExists, NotFound, Fail, LoadList, StoreList, Refresh, Crash,
         BeginInstall, RemoveEntry, ReadParameters, CreateFile, EmptyFile, OpenFile, CloseFile,
         redis

\* The content of one file changes.
Writes(f, c) ==
  /\ f \in 1..counter /\ file' \in Seq(Contents) /\ Len(file') = counter
  /\ file'[f] = c /\ \A j \in 1..counter : j # f => file'[j] = file[j]

(* What the steps of an upload do to the files, and to the index. *)
LEMMA FileWrites ==
  ASSUME TypeOK, NEW p \in Procs
  PROVE  /\ CreateFile(p) => Writes(proc[p].at, Empty)
         /\ EmptyFile(p) => Writes(index[proc[p].name], Nothing)
         /\ OpenFile(p) => Writes(proc[p].at, Partial)
         /\ CloseFile(p) =>
              Writes(proc[p].at, IF file[proc[p].at] = Nothing THEN Nothing ELSE proc[p].ver)
         /\ SetIndex(p) =>
              /\ counter' = counter + 1 /\ file' \in Seq(Contents) /\ Len(file') = counter'
              /\ file'[counter'] = Nothing /\ \A j \in 1..counter : file'[j] = file[j]
              /\ index'[proc[p].name] = counter'
              /\ \A n \in Names : n # proc[p].name => index'[n] = index[n]
              /\ index' \in [Names -> 0..counter']
<1>1. /\ counter \in Nat /\ file \in Seq(Contents) /\ Len(file) = counter
      /\ index \in [Names -> 0..counter]
  BY DEF TypeOK
<1>2. {Nothing, Empty, Partial} \union Versions \subseteq Contents
  BY DEF Contents
<1>3. ASSUME NEW f \in 1..counter, NEW c \in Contents, file' = [file EXCEPT ![f] = c]
      PROVE  Writes(f, c)
  BY <1>1, <1>3, ExceptFacts DEF Writes
<1>4. CreateFile(p) => Writes(proc[p].at, Empty)
  BY <1>2, <1>3, StepFacts DEF CreateFile, TypeOK
<1>5. EmptyFile(p) => Writes(index[proc[p].name], Nothing)
  <2>1. EmptyFile(p) => proc[p].name \in Names
    BY StepFacts DEF EmptyFile, TypeOK
  <2>2. EmptyFile(p) => index[proc[p].name] \in 1..counter
    BY <1>1, <2>1 DEF EmptyFile
  <2>3. QED
    BY <1>2, <1>3, <2>2 DEF EmptyFile
<1>6. OpenFile(p) => Writes(proc[p].at, Partial)
  BY <1>2, <1>3, StepFacts DEF OpenFile, TypeOK
<1>7. CloseFile(p) =>
        Writes(proc[p].at, IF file[proc[p].at] = Nothing THEN Nothing ELSE proc[p].ver)
  <2>1. CloseFile(p) => proc[p].at \in 1..counter /\ proc[p].ver \in Versions
    BY StepFacts DEF CloseFile, TypeOK
  <2>2. QED
    BY <1>2, <1>3, <2>1 DEF CloseFile
<1>8. ASSUME SetIndex(p)
      PROVE  /\ counter' = counter + 1 /\ file' \in Seq(Contents) /\ Len(file') = counter'
             /\ file'[counter'] = Nothing /\ \A j \in 1..counter : file'[j] = file[j]
             /\ index'[proc[p].name] = counter'
             /\ \A n \in Names : n # proc[p].name => index'[n] = index[n]
             /\ index' \in [Names -> 0..counter']
  <2>1. /\ counter' = counter + 1 /\ file' = Append(file, Nothing) /\ proc[p].name \in Names
        /\ index' = [index EXCEPT ![proc[p].name] = counter']
    BY <1>8, StepFacts DEF SetIndex, TypeOK
  <2>2. /\ file' \in Seq(Contents) /\ Len(file') = counter'
        /\ file'[counter'] = Nothing /\ \A j \in 1..counter : file'[j] = file[j]
    BY <1>1, <1>2, <2>1, AppendFacts
  <2>3. QED
    BY <1>1, <2>1, <2>2
<1>9. QED
  BY <1>4, <1>5, <1>6, <1>7, <1>8

-----------------------------------------------------------------------------
(* The types of what is stored, ... *)
LEMMA NextStored ==
  ASSUME TypeOK, NEW p \in Procs, Act(p)
  PROVE  /\ counter' \in Nat /\ counter <= counter' /\ index' \in [Names -> 0..counter']
         /\ file' \in Seq(Contents) /\ Len(file') = counter'
         /\ lock' \in Procs \union {Nobody, Dead}
         /\ blob' \in [Kinds -> Seq(Names)]
         /\ installs' \in 0..MaxInstalls
         /\ latest' \in [Names -> Versions \union {Nothing}]
         /\ done' \subseteq Kinds \X Names
<1>1. /\ counter \in Nat /\ file \in Seq(Contents) /\ Len(file) = counter
      /\ index \in [Names -> 0..counter] /\ latest \in [Names -> Versions \union {Nothing}]
      /\ lock \in Procs \union {Nobody, Dead} /\ blob \in [Kinds -> Seq(Names)]
      /\ installs \in 0..MaxInstalls
  BY DEF TypeOK
<1>2. /\ counter' \in Nat /\ counter <= counter' /\ index' \in [Names -> 0..counter']
      /\ file' \in Seq(Contents) /\ Len(file') = counter'
      /\ latest' \in [Names -> Versions \union {Nothing}]
  <2>1. CASE UNCHANGED <<index, counter, file, latest>>
    BY <1>1, <2>1
  <2>2. CASE RemoveEntry(p)
    <3>1. index' = [index EXCEPT ![proc[p].name] = Nothing] /\ UNCHANGED <<counter, file, latest>>
      BY <2>2 DEF RemoveEntry
    <3>2. proc[p].name \in Names
      BY <2>2, StepFacts DEF RemoveEntry, TypeOK
    <3>3. index' \in [Names -> 0..counter]
      BY <1>1, <3>1, <3>2
    <3>4. QED
      BY <1>1, <3>1, <3>3
  <2>3. CASE ReadParameters(p)
    <3>1. proc[p].name \in Names /\ proc[p].ver \in Versions
      BY <2>3, StepFacts DEF ReadParameters, TypeOK
    <3>2. QED
      BY <1>1, <2>3, <3>1 DEF ReadParameters, redis
  <2>4. CASE CreateFile(p) \/ EmptyFile(p) \/ OpenFile(p) \/ CloseFile(p)
    BY <1>1, <2>4, Untouched, FileWrites DEF Writes
  <2>5. CASE SetIndex(p)
    <3>1. UNCHANGED latest
      BY <2>5 DEF SetIndex
    <3>2. QED
      BY <1>1, <2>5, <3>1, FileWrites
  <2>6. QED
    BY <2>1, <2>2, <2>3, <2>4, <2>5, Untouched DEF Act
<1>3. lock' \in Procs \union {Nobody, Dead}
  <2>1. lock' \in {lock, p, Nobody, Dead}
    BY DEF Act, Start, LockForCheck, CheckEntry, RemoveEntry, EndCheck, LockIndex, SetIndex,
           UnlockIndex, CreateFile, EmptyFile, OpenFile, CloseFile, ReadParameters, Quits,
           RemovedMeanwhile, AlreadyExists, NotFound, Fail, LoadList, StoreList, Refresh, Crash,
           BeginInstall, redis
  <2>2. QED
    BY <1>1, <2>1
<1>4. blob' \in [Kinds -> Seq(Names)]
  <2>1. CASE StoreList(p)
    <3>1. proc[p] \in ProcStates /\ proc[p].name \in Names
      BY <2>1, StepFacts DEF StoreList, TypeOK
    <3>2. proc[p].list \in Seq(Names) /\ proc[p].kind \in Kinds
      BY <3>1 DEF ProcStates
    <3>3. Append(proc[p].list, proc[p].name) \in Seq(Names)
      BY <3>1, <3>2, AppendFacts
    <3>4. blob' = [blob EXCEPT ![proc[p].kind] = Append(proc[p].list, proc[p].name)]
      BY <2>1 DEF StoreList
    <3>5. QED
      BY <1>1, <3>2, <3>3, <3>4
  <2>2. CASE ~StoreList(p)
    <3>1. UNCHANGED blob
      BY <2>2
      DEF Act, Start, LockForCheck, CheckEntry, RemoveEntry, EndCheck, LockIndex, SetIndex,
          UnlockIndex, CreateFile, EmptyFile, OpenFile, CloseFile, ReadParameters, Quits,
          RemovedMeanwhile, AlreadyExists, NotFound, Fail, LoadList, Refresh, Crash,
          BeginInstall, redis
    <3>2. QED
      BY <1>1, <3>1
  <2>3. QED
    BY <2>1, <2>2
<1>5. installs' \in 0..MaxInstalls
  <2>1. \/ UNCHANGED installs
        \/ installs < MaxInstalls /\ installs' = installs + 1
    BY StepFacts
    DEF Act, Start, LockForCheck, CheckEntry, RemoveEntry, EndCheck, LockIndex, SetIndex,
        UnlockIndex, CreateFile, EmptyFile, OpenFile, CloseFile, ReadParameters, Quits,
        RemovedMeanwhile, AlreadyExists, NotFound, Fail, LoadList, StoreList, Refresh, Crash,
        BeginInstall, bounds
  <2>2. QED
    BY <1>1, <2>1
<1>6. done' \subseteq Kinds \X Names
  <2>1. done \subseteq Kinds \X Names
    BY DEF TypeOK
  <2>2. CASE Refresh(p)
    <3>1. Found \subseteq Kinds \X Names
      BY <1>1, ElementsOfSeq DEF Found
    <3>2. QED
      BY <2>1, <2>2, <3>1 DEF Refresh
  <2>3. CASE ~Refresh(p)
    <3>1. UNCHANGED done
      BY <2>3
      DEF Act, Start, LockForCheck, CheckEntry, RemoveEntry, EndCheck, LockIndex, SetIndex,
          UnlockIndex, CreateFile, EmptyFile, OpenFile, CloseFile, ReadParameters, Quits,
          RemovedMeanwhile, AlreadyExists, NotFound, Fail, LoadList, StoreList, Crash,
          BeginInstall
    <3>2. QED
      BY <2>1, <3>1
  <2>4. QED
    BY <2>2, <2>3
<1>7. QED
  BY <1>2, <1>3, <1>4, <1>5, <1>6

(* ... and of the programs' threads. *)
LEMMA NextType == ASSUME TypeOK, NEW p \in Procs, Act(p) PROVE TypeOK'
<1>1. /\ counter \in Nat /\ index \in [Names -> 0..counter] /\ installs \in 0..MaxInstalls
      /\ \A q \in Procs :
           /\ proc[q].pc \in Writing \union {"load", "store", "remove"} => proc[q].name \in Names
           /\ proc[q].pc \in Writing => proc[q].kind = "batch" /\ proc[q].ver \in Versions
           /\ proc[q].pc \in Filed => proc[q].at \in 1..counter
  BY DEF TypeOK
<1>2. /\ counter' \in Nat /\ counter <= counter' /\ index' \in [Names -> 0..counter']
      /\ file' \in Seq(Contents) /\ Len(file') = counter'
      /\ lock' \in Procs \union {Nobody, Dead}
      /\ blob' \in [Kinds -> Seq(Names)]
      /\ installs' \in 0..MaxInstalls
      /\ latest' \in [Names -> Versions \union {Nothing}]
      /\ done' \subseteq Kinds \X Names
  BY NextStored
<1>3. OneMoves(p)
  BY CheckSteps, FileSteps, ListSteps DEF Act
<1>4. /\ proc'[p].pc \in Writing \union {"load", "store", "remove"} => proc'[p].name \in Names
      /\ proc'[p].pc \in Writing => proc'[p].kind = "batch" /\ proc'[p].ver \in Versions
      /\ proc'[p].pc \in Filed => proc'[p].at \in 1..counter'
  <2>1. CASE Start(p) \/ LockForCheck(p) \/ RemoveEntry(p) \/ EndCheck(p) \/ Quits(p)
             \/ StoreList(p) \/ Refresh(p) \/ Crash(p)
    BY <2>1, CheckSteps, ListSteps
  <2>2. CASE \E n \in Names : CheckEntry(p, n)
    BY <2>2, CheckSteps
  <2>3. CASE LockIndex(p) \/ UnlockIndex(p) \/ CreateFile(p) \/ OpenFile(p) \/ CloseFile(p)
             \/ ReadParameters(p)
    <3>1. /\ SameFile(p) /\ proc'[p].pc \in Writing \union {"load"} /\ proc[p].pc \in Writing
          /\ proc'[p].pc \in Filed => proc[p].pc \in Filed
      BY <2>3, FileSteps
    <3>2. QED
      BY <1>1, <1>2, <3>1 DEF SameFile
  <2>4. CASE SetIndex(p)
    <3>1. counter' = counter + 1
      BY <2>4, FileWrites
    <3>2. QED
      BY <1>1, <2>4, <3>1, FileSteps
  <2>5. CASE EmptyFile(p)
    <3>1. index[proc[p].name] \in 1..counter /\ counter' = counter
      BY <2>5, FileWrites, Untouched DEF Writes
    <3>2. QED
      BY <1>1, <2>5, <3>1, FileSteps
  <2>6. CASE LoadList(p)
    BY <1>1, <2>6, ListSteps DEF SameFile
  <2>7. CASE \E k \in Kinds, n \in Names : BeginInstall(p, k, n)
    <3>1. PICK k \in Kinds, n \in Names : BeginInstall(p, k, n)
      BY <2>7
    <3>2. installs + 1 \in Versions
      BY <1>1, <3>1 DEF BeginInstall, Versions
    <3>3. QED
      BY <3>1, <3>2, ListSteps
  <2>8. QED
    BY <2>1, <2>2, <2>3, <2>4, <2>5, <2>6, <2>7 DEF Act
<1>5. ASSUME NEW q \in Procs \ {p}
      PROVE  /\ proc'[q].pc \in Writing \union {"load", "store", "remove"} =>
                  proc'[q].name \in Names
             /\ proc'[q].pc \in Writing => proc'[q].kind = "batch" /\ proc'[q].ver \in Versions
             /\ proc'[q].pc \in Filed => proc'[q].at \in 1..counter'
  <2>1. proc'[q] = proc[q]
    BY <1>3 DEF OneMoves
  <2>2. QED
    BY <1>1, <1>2, <2>1
<1>6. QED
  BY <1>2, <1>3, <1>4, <1>5 DEF TypeOK, OneMoves

-----------------------------------------------------------------------------
(* The lock has one holder, and what its holder looks at stays in the index. *)
LEMMA NextLock == ASSUME TypeOK, LockHeld, NEW p \in Procs, Act(p) PROVE LockHeld'
<1>1. \A q \in Procs :
        /\ lock = q <=> proc[q].pc \in InLock
        /\ proc[q].pc \in {"check", "remove"} => \A n \in proc[q].todo : index[n] # Nothing
        /\ proc[q].pc = "remove" => proc[q].name \notin proc[q].todo
  BY DEF LockHeld
<1>2. OneMoves(p)
  BY CheckSteps, FileSteps, ListSteps DEF Act
<1>3. \A q \in Procs : lock' = q <=> proc'[q].pc \in InLock
  <2>1. CASE LockForCheck(p) \/ LockIndex(p)
    <3>1. lock = Nobody /\ lock' = p
      BY <2>1 DEF LockForCheck, LockIndex
    <3>2. proc'[p].pc \in InLock
      BY <2>1, CheckSteps, FileSteps
    <3>3. QED
      BY <1>1, <1>2, <3>1, <3>2 DEF OneMoves
  <2>2. CASE EndCheck(p) \/ UnlockIndex(p)
    <3>1. lock' = Nobody
      BY <2>2 DEF EndCheck, UnlockIndex
    <3>2. proc[p].pc \in InLock /\ proc'[p].pc \notin InLock
      BY <2>2, CheckSteps, FileSteps
    <3>3. QED
      BY <1>1, <1>2, <3>1, <3>2 DEF OneMoves
  <2>3. CASE Crash(p)
    <3>1. lock' = (IF lock = p THEN Dead ELSE lock)
      BY <2>3 DEF Crash
    <3>2. proc'[p].pc \notin InLock
      BY <2>3, ListSteps
    <3>3. QED
      BY <1>1, <1>2, <3>1, <3>2 DEF OneMoves
  <2>4. CASE Start(p) \/ (\E n \in Names : CheckEntry(p, n)) \/ RemoveEntry(p)
    <3>1. lock' = lock
      BY <2>4 DEF Start, CheckEntry, RemoveEntry, redis
    <3>2. proc'[p].pc \in InLock <=> proc[p].pc \in InLock
      BY <2>4, CheckSteps
    <3>3. QED
      BY <1>1, <1>2, <3>1, <3>2 DEF OneMoves
  <2>5. CASE SetIndex(p) \/ CreateFile(p) \/ EmptyFile(p) \/ OpenFile(p) \/ CloseFile(p)
             \/ ReadParameters(p)
    <3>1. lock' = lock
      BY <2>5 DEF SetIndex, CreateFile, EmptyFile, OpenFile, CloseFile, ReadParameters, redis
    <3>2. proc'[p].pc \in InLock <=> proc[p].pc \in InLock
      BY <2>5, FileSteps
    <3>3. QED
      BY <1>1, <1>2, <3>1, <3>2 DEF OneMoves
  <2>6. CASE Quits(p) \/ LoadList(p) \/ StoreList(p) \/ Refresh(p)
             \/ \E k \in Kinds, n \in Names : BeginInstall(p, k, n)
    <3>1. lock' = lock
      BY <2>6 DEF Quits, RemovedMeanwhile, AlreadyExists, NotFound, Fail, LoadList, StoreList,
                  Refresh, BeginInstall, redis
    <3>2. proc'[p].pc \in InLock <=> proc[p].pc \in InLock
      BY <2>6, ListSteps
    <3>3. QED
      BY <1>1, <1>2, <3>1, <3>2 DEF OneMoves
  <2>7. QED
    BY <2>1, <2>2, <2>3, <2>4, <2>5, <2>6 DEF Act
<1>4. \A q \in Procs :
        /\ proc'[q].pc \in {"check", "remove"} => \A n \in proc'[q].todo : index'[n] # Nothing
        /\ proc'[q].pc = "remove" => proc'[q].name \notin proc'[q].todo
  <2>0. index \in [Names -> 0..counter] /\ \A q \in Procs : proc[q] \in ProcStates
    BY DEF TypeOK
  <2>1. CASE RemoveEntry(p)
    <3>1. /\ index' = [index EXCEPT ![proc[p].name] = Nothing]
          /\ proc[p].pc = "remove" /\ proc'[p].pc = "check" /\ proc'[p].todo = proc[p].todo
      BY <2>1, CheckSteps DEF RemoveEntry
    <3>2. \A q \in Procs \ {p} : proc'[q] = proc[q] /\ proc[q].pc \notin InLock
      BY <1>1, <1>2, <3>1 DEF OneMoves
    <3>3. proc[p].todo \subseteq Names
      BY <2>0 DEF ProcStates
    <3>4. \A n \in proc[p].todo : index'[n] = index[n]
      BY <1>1, <2>0, <3>1, <3>3
    <3>5. QED
      BY <1>1, <3>1, <3>2, <3>4
  <2>2. CASE SetIndex(p)
    <3>1. proc[p].pc \in InLock /\ proc'[p].pc = "unlock"
      BY <2>2, FileSteps
    <3>2. \A q \in Procs \ {p} : proc'[q] = proc[q] /\ proc[q].pc \notin InLock
      BY <1>1, <1>2, <3>1 DEF OneMoves
    <3>3. QED
      BY <3>1, <3>2
  <2>3. CASE LockForCheck(p) \/ \E n \in Names : CheckEntry(p, n)
    <3>1. UNCHANGED index
      BY <2>3, Untouched
    <3>2. /\ proc'[p].todo \subseteq {n \in Names : index[n] # Nothing}
          /\ proc'[p].pc = "remove" => proc'[p].name \notin proc'[p].todo
      <4>1. CASE LockForCheck(p)
        BY <4>1, CheckSteps
      <4>2. CASE \E n \in Names : CheckEntry(p, n)
        <5>1. PICK n \in Names : CheckEntry(p, n)
          BY <4>2
        <5>2. /\ proc[p].pc = "check" /\ proc'[p].todo = proc[p].todo \ {n}
              /\ proc'[p].name = n
          BY <5>1, CheckSteps
        <5>3. proc[p].todo \subseteq Names
          BY <2>0 DEF ProcStates
        <5>4. QED
          BY <1>1, <5>2, <5>3
      <4>3. QED
        BY <2>3, <4>1, <4>2
    <3>3. QED
      BY <1>1, <1>2, <3>1, <3>2 DEF OneMoves
  <2>4. CASE ~(RemoveEntry(p) \/ SetIndex(p) \/ LockForCheck(p)
               \/ \E n \in Names : CheckEntry(p, n))
    <3>1. UNCHANGED index
      BY <2>4, Untouched DEF Act
    <3>2. proc'[p].pc \notin {"check", "remove"}
      BY <2>4, CheckSteps, FileSteps, ListSteps DEF Act
    <3>3. QED
      BY <1>1, <1>2, <3>1, <3>2 DEF OneMoves
  <2>5. QED
    BY <2>1, <2>2, <2>3, <2>4
<1>5. QED
  BY <1>3, <1>4 DEF LockHeld

(* What can be inferred while p holds the lock. *)
LEMMA LockAlone ==
  ASSUME LockHeld, NEW p \in Procs, NEW q \in Procs, p # q,
         proc[p].pc \in InLock
  PROVE  proc[q].pc \notin InLock
  BY DEF LockHeld

(* A file is never given to a second resource. *)
LEMMA NextOwned == ASSUME TypeOK, LockHeld, Owned, NEW p \in Procs, Act(p) PROVE Owned'
<1>1. PICK owner \in [1..counter -> Names] :
        /\ \A n \in Names : index[n] # Nothing => owner[index[n]] = n
        /\ \A q \in Procs : proc[q].pc \in Filed => owner[proc[q].at] = proc[q].name
  BY DEF Owned
<1>2. /\ counter \in Nat /\ index \in [Names -> 0..counter] /\ OneMoves(p)
      /\ \A q \in Procs : /\ proc[q].pc \in Filed => proc[q].at \in 1..counter
                          /\ proc[q].pc \in Writing => proc[q].name \in Names
  BY CheckSteps, FileSteps, ListSteps DEF Act, TypeOK
<1>3. CASE SetIndex(p)
  <2>1. /\ counter' = counter + 1 /\ index'[proc[p].name] = counter'
        /\ \A n \in Names : n # proc[p].name => index'[n] = index[n]
    BY <1>3, FileWrites
  <2>2. /\ proc[p].name \in Names /\ proc'[p].name = proc[p].name
        /\ proc'[p].at = counter' /\ proc'[p].pc = "unlock"
    BY <1>2, <1>3, <2>1, FileSteps
  <2> DEFINE new == [i \in 1..counter' |-> IF i = counter' THEN proc[p].name ELSE owner[i]]
  <2>3. new \in [1..counter' -> Names]
    BY <1>2, <2>1, <2>2
  <2>4. new[counter'] = proc[p].name /\ \A i \in 1..counter : new[i] = owner[i]
    BY <1>2, <2>1
  <2>5. ASSUME NEW n \in Names, index'[n] # Nothing
        PROVE  new[index'[n]] = n
    <3>1. CASE n = proc[p].name
      BY <2>1, <2>4, <3>1
    <3>2. CASE n # proc[p].name
      <4>1. index'[n] = index[n] /\ index[n] \in 1..counter
        BY <1>2, <2>1, <2>5, <3>2
      <4> HIDE DEF new
      <4>2. QED
        BY <1>1, <2>4, <2>5, <4>1
    <3>3. QED
      BY <3>1, <3>2
  <2>6. ASSUME NEW q \in Procs, proc'[q].pc \in Filed
        PROVE  new[proc'[q].at] = proc'[q].name
    <3>1. CASE q = p
      BY <2>2, <2>4, <3>1
    <3>2. CASE q # p
      <4>1. proc'[q] = proc[q] /\ proc[q].at \in 1..counter
        BY <1>2, <2>6, <3>2 DEF OneMoves
      <4> HIDE DEF new
      <4>2. QED
        BY <1>1, <2>4, <2>6, <4>1
    <3>3. QED
      BY <3>1, <3>2
  <2> HIDE DEF new
  <2>7. QED
    BY <2>3, <2>5, <2>6 DEF Owned
<1>4. CASE ~SetIndex(p)
  <2>1. UNCHANGED counter
    BY <1>4, Untouched DEF Act
  <2>2. \A n \in Names : index'[n] \in {index[n], Nothing}
    <3>1. CASE RemoveEntry(p)
      <4>1. index' = [index EXCEPT ![proc[p].name] = Nothing]
        BY <3>1 DEF RemoveEntry
      <4>2. QED
        BY <1>2, <4>1
    <3>2. CASE ~RemoveEntry(p)
      BY <1>4, <3>2, Untouched DEF Act
    <3>3. QED
      BY <3>1, <3>2
  <2>3. proc'[p].pc \in Filed => owner[proc'[p].at] = proc'[p].name
    <3>1. CASE EmptyFile(p)
      <4>1. /\ proc'[p].at = index[proc[p].name] /\ proc'[p].name = proc[p].name
            /\ index[proc[p].name] # Nothing /\ proc[p].name \in Names
        BY <1>2, <3>1, FileSteps DEF EmptyFile
      <4>2. QED
        BY <1>1, <4>1
    <3>2. CASE UnlockIndex(p) \/ CreateFile(p) \/ OpenFile(p) \/ CloseFile(p)
      <4>1. SameFile(p) /\ proc[p].pc \in Filed
        BY <3>2, FileSteps
      <4>2. QED
        BY <1>1, <4>1 DEF SameFile
    <3>3. CASE ~(EmptyFile(p) \/ UnlockIndex(p) \/ CreateFile(p) \/ OpenFile(p) \/ CloseFile(p))
      <4>1. proc'[p].pc \notin Filed
        BY <1>4, <3>3, CheckSteps, FileSteps, ListSteps DEF Act
      <4>2. QED
        BY <4>1
    <3>4. QED
      BY <3>1, <3>2, <3>3
  <2>4. \A q \in Procs : proc'[q].pc \in Filed => owner[proc'[q].at] = proc'[q].name
    BY <1>1, <1>2, <2>3 DEF OneMoves
  <2>5. \A n \in Names : index'[n] # Nothing => owner[index'[n]] = n
    BY <1>1, <2>2
  <2>6. QED
    BY <2>1, <2>4, <2>5 DEF Owned
<1>5. QED
  BY <1>3, <1>4

-----------------------------------------------------------------------------
Begins(p) == \E k \in Kinds, n \in Names : BeginInstall(p, k, n)

(* An upload goes on with the name and the version that it began with, ... *)
LEMMA UploadGoesOn ==
  ASSUME TypeOK, NEW p \in Procs, Act(p), ~Begins(p), proc'[p].pc \in Writing
  PROVE  /\ proc[p].pc \in Writing
         /\ proc'[p].name = proc[p].name /\ proc'[p].ver = proc[p].ver
         /\ ~SetIndex(p) /\ proc'[p].pc \in Filed => proc[p].pc \in Filed
<1>1. \/ LockIndex(p) \/ SetIndex(p) \/ UnlockIndex(p) \/ CreateFile(p) \/ EmptyFile(p)
      \/ OpenFile(p) \/ CloseFile(p)
  <2>1. ~(Start(p) \/ LockForCheck(p) \/ (\E n \in Names : CheckEntry(p, n)) \/ RemoveEntry(p)
          \/ EndCheck(p))
    BY CheckSteps
  <2>2. ~(ReadParameters(p) \/ Quits(p) \/ LoadList(p) \/ StoreList(p) \/ Refresh(p) \/ Crash(p))
    BY FileSteps, ListSteps
  <2>3. QED
    BY <2>1, <2>2 DEF Act, Begins
<1>2. QED
  BY <1>1, FileSteps DEF SameFile

(* ... until it is complete, or broken off. *)
LEMMA UploadEnds ==
  ASSUME TypeOK, NEW p \in Procs, Act(p), proc[p].pc \in Writing, ~ReadParameters(p)
  PROVE  \/ proc'[p].pc \in Writing /\ proc'[p].name = proc[p].name
         \/ proc[p].name \in broken'
<1>1. CASE LockIndex(p) \/ SetIndex(p) \/ UnlockIndex(p) \/ CreateFile(p) \/ EmptyFile(p)
           \/ OpenFile(p) \/ CloseFile(p)
  BY <1>1, FileSteps DEF SameFile
<1>2. CASE Crash(p)
  BY <1>2 DEF Crash, TypeOK
<1>3. CASE Quits(p)
  <2>1. RemovedMeanwhile(p)
    BY <1>3, StepFacts DEF Quits, AlreadyExists, NotFound, Fail
  <2>2. QED
    BY <2>1 DEF RemovedMeanwhile
<1>4. QED
  BY <1>1, <1>2, <1>3, CheckSteps, ListSteps DEF Act

(* A name stays doubtful until an upload of it is complete. *)
LEMMA DoubtsStay ==
  ASSUME NEW p \in Procs, Act(p)
  PROVE  /\ clashed \subseteq clashed' /\ raced \subseteq raced'
         /\ ~ReadParameters(p) => broken \subseteq broken'
         /\ broken \ {proc[p].name} \subseteq broken'
         /\ Removing(proc[p].name) => broken \subseteq broken'
<1>1. clashed \subseteq clashed' /\ raced \subseteq raced'
  BY DEF Act, Start, LockForCheck, CheckEntry, RemoveEntry, EndCheck, LockIndex, SetIndex,
         UnlockIndex, CreateFile, EmptyFile, OpenFile, CloseFile, ReadParameters, Quits,
         RemovedMeanwhile, AlreadyExists, NotFound, Fail, LoadList, StoreList, Refresh, Crash,
         BeginInstall, Step
<1>2. ~ReadParameters(p) => broken \subseteq broken'
  BY DEF Act, Start, LockForCheck, CheckEntry, RemoveEntry, EndCheck, LockIndex, SetIndex,
         UnlockIndex, CreateFile, EmptyFile, OpenFile, CloseFile, Quits, RemovedMeanwhile,
         AlreadyExists, NotFound, LoadList, StoreList, Refresh, Crash, BeginInstall
<1>3. ReadParameters(p) =>
        /\ broken \ {proc[p].name} \subseteq broken'
        /\ Removing(proc[p].name) => broken \subseteq broken'
  BY DEF ReadParameters
<1>4. QED
  BY <1>1, <1>2, <1>3

(* Two programs upload the same name only after the second was noted. *)
LEMMA NextOneUploader ==
  ASSUME TypeOK, OneUploader, NEW p \in Procs, Act(p)
  PROVE  OneUploader'
<1>1. OneMoves(p) /\ clashed \subseteq clashed'
  BY CheckSteps, FileSteps, ListSteps, DoubtsStay DEF Act
<1>2. ASSUME NEW q \in Procs \ {p}, proc'[p].pc \in Writing, proc'[q].pc \in Writing,
             proc'[p].name = proc'[q].name
      PROVE  proc'[p].name \in clashed'
  <2>1. proc'[q] = proc[q]
    BY <1>1 DEF OneMoves
  <2>2. CASE Begins(p)
    <3>1. PICK k \in Kinds, n \in Names : BeginInstall(p, k, n)
      BY <2>2 DEF Begins
    <3>2. k = "batch" /\ proc'[p].name = n
      BY <1>2, <3>1, ListSteps
    <3>3. proc[q].kind = "batch"
      BY <1>2, <2>1 DEF TypeOK
    <3>4. Uploading(n)
      BY <1>2, <2>1, <3>2, <3>3 DEF Uploading
    <3>5. QED
      BY <3>1, <3>2, <3>4 DEF BeginInstall
  <2>3. CASE ~Begins(p)
    <3>1. proc[p].pc \in Writing /\ proc'[p].name = proc[p].name
      BY <1>2, <2>3, UploadGoesOn
    <3>2. proc[p].name \in clashed
      BY <1>2, <2>1, <3>1 DEF OneUploader
    <3>3. QED
      BY <1>1, <3>1, <3>2
  <2>4. QED
    BY <2>2, <2>3
<1>3. ASSUME NEW q \in Procs, NEW r \in Procs, q # r,
             {proc'[q].pc, proc'[r].pc} \subseteq Writing, proc'[q].name = proc'[r].name
      PROVE  proc'[q].name \in clashed'
  <2>1. CASE p \in {q, r}
    BY <1>2, <1>3, <2>1
  <2>2. CASE p \notin {q, r}
    BY <1>1, <1>3, <2>2 DEF OneMoves, OneUploader
  <2>3. QED
    BY <2>1, <2>2
<1>4. QED
  BY <1>3 DEF OneUploader

-----------------------------------------------------------------------------
(* An upload changes the file, and the index entry, of its own name only. *)
LEMMA OwnChanges ==
  ASSUME TypeOK, LockHeld, Owned, NEW p \in Procs, Act(p)
  PROVE  /\ proc[p].pc \notin Writing => UNCHANGED file
         /\ \A q \in Procs : proc[q].pc \in Filed /\ proc[q].name # proc[p].name =>
              file'[proc[q].at] = file[proc[q].at]
         /\ \A n \in Names : index[n] # Nothing /\ n # proc[p].name =>
              file'[index[n]] = file[index[n]]
         /\ \A n \in Names : n # proc[p].name => index'[n] = index[n]
         /\ ~SetIndex(p) => \A n \in Names : index'[n] \in {index[n], Nothing}
         /\ ~SetIndex(p) /\ ~RemoveEntry(p) => UNCHANGED index
<1>1. PICK owner \in [1..counter -> Names] :
        /\ \A n \in Names : index[n] # Nothing => owner[index[n]] = n
        /\ \A q \in Procs : proc[q].pc \in Filed => owner[proc[q].at] = proc[q].name
  BY DEF Owned
<1>2. /\ counter \in Nat /\ index \in [Names -> 0..counter]
      /\ \A q \in Procs : /\ proc[q].pc \in Filed => proc[q].at \in 1..counter
                          /\ proc[q].pc \in Writing => proc[q].name \in Names
  BY DEF TypeOK
<1>3. \/ UNCHANGED file
      \/ /\ proc[p].pc \in Writing
         /\ \A j \in 1..counter : file'[j] = file[j]
      \/ \E f \in 1..counter, c \in Contents :
           proc[p].pc \in Writing /\ Writes(f, c) /\ owner[f] = proc[p].name
  <2>1. CASE SetIndex(p)
    BY <2>1, FileSteps, FileWrites
  <2>2. CASE CreateFile(p) \/ OpenFile(p) \/ CloseFile(p)
    <3>1. proc[p].pc \in Filed /\ \E c \in Contents : Writes(proc[p].at, c)
      BY <2>2, FileSteps, FileWrites DEF Contents, TypeOK
    <3>2. QED
      BY <1>1, <1>2, <3>1
  <2>3. CASE EmptyFile(p)
    <3>1. /\ proc[p].pc = "empty" /\ Writes(index[proc[p].name], Nothing)
          /\ index[proc[p].name] # Nothing
      BY <2>3, FileSteps, FileWrites DEF EmptyFile
    <3>2. Nothing \in Contents /\ index[proc[p].name] \in 1..counter
      BY <3>1 DEF Contents, Writes
    <3>3. QED
      BY <1>1, <1>2, <3>1, <3>2
  <2>4. QED
    BY <2>1, <2>2, <2>3, Untouched DEF Act
<1>4. \A f \in 1..counter : owner[f] # proc[p].name => file'[f] = file[f]
  BY <1>3 DEF Writes
<1>5. \A n \in Names : index[n] # Nothing => index[n] \in 1..counter
  BY <1>2
<1>6. /\ \A n \in Names : n # proc[p].name => index'[n] = index[n]
      /\ ~SetIndex(p) => \A n \in Names : index'[n] \in {index[n], Nothing}
      /\ ~SetIndex(p) /\ ~RemoveEntry(p) => UNCHANGED index
  <2>1. CASE SetIndex(p)
    BY <2>1, FileWrites
  <2>2. CASE RemoveEntry(p)
    <3>1. index' = [index EXCEPT ![proc[p].name] = Nothing]
      BY <2>2 DEF RemoveEntry
    <3>2. ~SetIndex(p)
      BY <2>2, CheckSteps, FileSteps
    <3>3. QED
      BY <1>2, <2>2, <3>1, <3>2
  <2>3. CASE ~SetIndex(p) /\ ~RemoveEntry(p)
    BY <2>3, Untouched DEF Act
  <2>4. QED
    BY <2>1, <2>2, <2>3
<1>7. QED
  BY <1>1, <1>2, <1>3, <1>4, <1>5, <1>6

(* An upload that is alone with its name has its own file. *)
LEMMA NextIntoOwn ==
  ASSUME TypeOK, LockHeld, Owned, OneUploader, IntoOwn, NEW p \in Procs, Act(p)
  PROVE  IntoOwn'
<1>1. /\ OneMoves(p) /\ clashed \subseteq clashed' /\ index \in [Names -> 0..counter]
      /\ counter \in Nat
      /\ \A q \in Procs : /\ proc[q].pc \in Filed => proc[q].at \in 1..counter
                          /\ proc[q].pc \in Writing =>
                               proc[q].name \in Names /\ proc[q].ver \in Versions
  BY CheckSteps, FileSteps, ListSteps, DoubtsStay DEF Act, TypeOK
<1>2. ASSUME NEW q \in Procs \ {p}, proc'[q].pc \in Filed, proc'[q].name \notin clashed'
      PROVE  /\ index'[proc'[q].name] \in {proc'[q].at, Nothing}
             /\ proc'[q].pc = "copy" => file'[proc'[q].at] = Partial
             /\ proc'[q].pc = "params" => file'[proc'[q].at] = proc'[q].ver
  <2>1. proc'[q] = proc[q] /\ proc[q].pc \in Filed /\ proc[q].name \notin clashed
    BY <1>1, <1>2 DEF OneMoves
  <2>2. /\ index[proc[q].name] \in {proc[q].at, Nothing}
        /\ proc[q].pc = "copy" => file[proc[q].at] = Partial
        /\ proc[q].pc = "params" => file[proc[q].at] = proc[q].ver
    BY <2>1 DEF IntoOwn
  <2>3. proc[p].pc \in Writing => proc[p].name # proc[q].name
    BY <2>1 DEF OneUploader
  <2>4. file'[proc[q].at] = file[proc[q].at]
    BY <2>1, <2>3, OwnChanges
  <2>5. index'[proc[q].name] \in {index[proc[q].name], Nothing}
    <3>1. SetIndex(p) => proc[p].pc \in Writing
      BY FileSteps
    <3>2. QED
      BY <1>1, <2>1, <2>3, <3>1, OwnChanges
  <2>6. QED
    BY <2>1, <2>2, <2>4, <2>5
<1>3. ASSUME proc'[p].pc \in Filed, proc'[p].name \notin clashed'
      PROVE  /\ index'[proc'[p].name] \in {proc'[p].at, Nothing}
             /\ proc'[p].pc = "copy" => file'[proc'[p].at] = Partial
             /\ proc'[p].pc = "params" => file'[proc'[p].at] = proc'[p].ver
  <2>1. ~Begins(p)
    BY <1>3, ListSteps DEF Begins
  <2>2. /\ proc[p].pc \in Writing /\ proc[p].name \in Names /\ proc[p].ver \in Versions
        /\ proc'[p].name = proc[p].name /\ proc'[p].ver = proc[p].ver
        /\ proc[p].name \notin clashed
        /\ ~SetIndex(p) => proc[p].pc \in Filed
    BY <1>1, <1>3, <2>1, UploadGoesOn
  <2>3. CASE SetIndex(p)
    BY <2>2, <2>3, FileSteps, FileWrites
  <2>4. CASE EmptyFile(p)
    <3>1. proc'[p].pc = "open" /\ proc'[p].at = index[proc[p].name] /\ UNCHANGED index
      BY <2>4, FileSteps, Untouched
    <3>2. QED
      BY <2>2, <3>1
  <2>5. CASE ~SetIndex(p) /\ ~EmptyFile(p)
    <3>1. UnlockIndex(p) \/ CreateFile(p) \/ OpenFile(p) \/ CloseFile(p)
      BY <1>3, <2>1, <2>5, CheckSteps, FileSteps, ListSteps DEF Act, Begins
    <3>2. SameFile(p) /\ UNCHANGED index
      BY <3>1, FileSteps, Untouched
    <3>3. /\ index[proc[p].name] \in {proc[p].at, Nothing}
          /\ proc[p].pc = "copy" => file[proc[p].at] = Partial
      BY <2>2, <2>5 DEF IntoOwn
    <3>4. proc'[p].pc = "copy" => file'[proc[p].at] = Partial
      BY <3>1, FileSteps, FileWrites DEF Writes
    <3>5. proc'[p].pc = "params" => file'[proc[p].at] = proc[p].ver
      <4>1. proc'[p].pc = "params" => CloseFile(p) /\ proc[p].pc = "copy"
        BY <3>1, FileSteps
      <4>2. Partial # Nothing
        BY DEF Partial
      <4>3. QED
        BY <3>3, <4>1, <4>2, FileWrites DEF Writes
    <3>6. QED
      BY <2>2, <3>2, <3>3, <3>4, <3>5 DEF SameFile
  <2>6. QED
    BY <2>3, <2>4, <2>5
<1>4. QED
  BY <1>2, <1>3 DEF IntoOwn

(* A start removes nothing that has been installed. *)
LEMMA NextRemoves ==
  ASSUME TypeOK, LockHeld, HasLatest, RemovesNothing, NEW p \in Procs, Act(p)
  PROVE  RemovesNothing'
<1>1. OneMoves(p)
  BY CheckSteps, FileSteps, ListSteps DEF Act
<1>2. ASSUME proc'[p].pc = "remove", proc'[p].name \notin Doubtful'
      PROVE  /\ latest'[proc'[p].name] = Nothing
             /\ \A q \in Procs : proc'[q].pc \in Filed => proc'[q].name # proc'[p].name
  <2>1. PICK n \in Names : CheckEntry(p, n)
    BY <1>2, CheckSteps, FileSteps, ListSteps DEF Act
  <2>2. proc[p].pc = "check" /\ n \in proc[p].todo /\ proc'[p].name = n /\ Missing(n)
    BY <1>2, <2>1, CheckSteps
  <2>3. ~Uploading(n) /\ n \notin Doubtful
    BY <1>2, <2>1, <2>2 DEF CheckEntry, Step, Doubtful
  <2>4. latest[n] = Nothing
    BY <2>2, <2>3 DEF HasLatest, Missing
  <2>5. UNCHANGED latest
    BY <2>1 DEF CheckEntry
  <2>6. ASSUME NEW q \in Procs, proc'[q].pc \in Filed
        PROVE  proc'[q].name # n
    <3>1. proc'[q] = proc[q]
      BY <1>1, <1>2, <2>6 DEF OneMoves
    <3>2. proc[q].kind = "batch"
      BY <2>6, <3>1 DEF TypeOK
    <3>3. QED
      BY <2>3, <2>6, <3>1, <3>2 DEF Uploading
  <2>7. QED
    BY <2>2, <2>4, <2>5, <2>6
<1>3. ASSUME NEW q \in Procs \ {p}, proc'[q].pc = "remove", proc'[q].name \notin Doubtful'
      PROVE  /\ latest'[proc'[q].name] = Nothing
             /\ \A r \in Procs : proc'[r].pc \in Filed => proc'[r].name # proc'[q].name
  <2>1. proc'[q] = proc[q] /\ proc[q].pc = "remove"
    BY <1>1, <1>3 DEF OneMoves
  <2>2. Removing(proc[q].name)
    BY <2>1 DEF Removing
  <2>3. proc[q].name \notin Doubtful
    <3>1. proc[q].name \notin clashed' /\ proc[q].name \notin broken'
      BY <1>3, <2>1 DEF Doubtful
    <3>2. QED
      BY <2>2, <3>1, DoubtsStay DEF Doubtful
  <2>4. /\ latest[proc[q].name] = Nothing
        /\ \A r \in Procs : proc[r].pc \in Filed => proc[r].name # proc[q].name
    BY <2>1, <2>3 DEF RemovesNothing
  <2>5. latest'[proc[q].name] = Nothing
    <3>1. CASE ReadParameters(p)
      <4>1. /\ proc[p].name # proc[q].name
            /\ latest' = [latest EXCEPT ![proc[p].name] = proc[p].ver]
        BY <2>4, <3>1, FileSteps DEF ReadParameters
      <4>2. latest \in [Names -> Versions \union {Nothing}] /\ proc[q].name \in Names
        BY <2>1 DEF TypeOK
      <4>3. QED
        BY <2>4, <4>1, <4>2
    <3>2. CASE ~ReadParameters(p)
      <4>1. UNCHANGED latest
        BY <3>2, Untouched DEF Act, SetIndex
      <4>2. QED
        BY <2>4, <4>1
    <3>3. QED
      BY <3>1, <3>2
  <2>6. proc'[p].pc \in Filed => proc'[p].name # proc[q].name
    <3>1. ~SetIndex(p)
      BY <2>1, FileSteps, LockAlone
    <3>2. Begins(p) => proc'[p].pc \notin Filed
      BY ListSteps DEF Begins
    <3>3. QED
      BY <2>4, <3>1, <3>2, UploadGoesOn
  <2>7. QED
    BY <1>1, <2>1, <2>4, <2>5, <2>6 DEF OneMoves
<1>4. QED
  BY <1>2, <1>3 DEF RemovesNothing

(* A name that is not in doubt has not become so by the step of another. *)
LEMMA StillSure ==
  ASSUME NEW p \in Procs, Act(p), NEW n \in Names, n \notin Doubtful',
         ~(ReadParameters(p) /\ proc[p].name = n)
  PROVE  n \notin Doubtful
<1>1. n \notin clashed' /\ n \notin broken'
  BY DEF Doubtful
<1>2. QED
  BY <1>1, DoubtsStay DEF Doubtful

(* The index leads to the version that was installed last. *)
LEMMA NextHasLatest ==
  ASSUME TypeOK, LockHeld, Owned, IntoOwn, RemovesNothing, HasLatest, NEW p \in Procs, Act(p)
  PROVE  HasLatest'
<1>1. /\ OneMoves(p) /\ latest \in [Names -> Versions \union {Nothing}]
      /\ index \in [Names -> 0..counter] /\ counter \in Nat
      /\ \A q \in Procs : proc[q].pc \in Writing => proc[q].kind = "batch"
      /\ \A q \in Procs : proc'[q].pc \in Writing => proc'[q].kind = "batch"
  <2>1. TypeOK'
    BY NextType
  <2>2. QED
    BY <2>1, CheckSteps, FileSteps, ListSteps DEF Act, TypeOK
<1>2. ASSUME NEW n \in Names \ Doubtful'
      PROVE  \/ latest'[n] = Nothing \/ Uploading(n)'
             \/ index'[n] # Nothing /\ file'[index'[n]] = latest'[n]
  <2>1. CASE ReadParameters(p) /\ proc[p].name = n
    <3>1. /\ proc[p].pc = "params" /\ There(n) /\ latest'[n] = proc[p].ver
          /\ UNCHANGED <<index, file, clashed>>
      BY <1>1, <2>1, FileSteps, Untouched DEF ReadParameters, Step
    <3>2. n \notin clashed
      BY <1>2, <3>1 DEF Doubtful
    <3>3. index[n] = proc[p].at /\ file[proc[p].at] = proc[p].ver
      BY <2>1, <3>1, <3>2 DEF IntoOwn, There
    <3>4. QED
      BY <3>1, <3>3 DEF There
  <2>2. CASE ~(ReadParameters(p) /\ proc[p].name = n)
    <3>1. n \notin Doubtful
      BY <1>2, <2>2, StillSure
    <3>2. latest'[n] = latest[n]
      <4>1. CASE ReadParameters(p)
        BY <1>1, <2>2, <4>1 DEF ReadParameters
      <4>2. CASE ~ReadParameters(p)
        BY <4>2, Untouched DEF Act, SetIndex
      <4>3. QED
        BY <4>1, <4>2
    <3>3. CASE Uploading(n)
      <4>1. PICK q \in Procs : proc[q].name = n /\ proc[q].pc \in Writing
        BY <3>3 DEF Uploading
      <4>2. n \notin broken'
        BY <1>2 DEF Doubtful
      <4>3. proc'[q].name = n /\ proc'[q].pc \in Writing
        <5>1. CASE q = p
          BY <2>2, <4>1, <4>2, <5>1, UploadEnds
        <5>2. CASE q # p
          BY <1>1, <4>1, <5>2 DEF OneMoves
        <5>3. QED
          BY <5>1, <5>2
      <4>4. QED
        BY <1>1, <4>3 DEF Uploading
    <3>4. CASE ~Uploading(n) /\ latest[n] # Nothing
      <4>1. index[n] # Nothing /\ file[index[n]] = latest[n]
        BY <3>1, <3>4 DEF HasLatest
      <4>2. proc[p].pc \in Writing => proc[p].name # n
        BY <1>1, <3>4 DEF Uploading
      <4>3. index'[n] = index[n]
        <5>1. SetIndex(p) => proc[p].pc \in Writing
          BY FileSteps
        <5>2. RemoveEntry(p) => proc[p].name # n
          BY <3>1, <3>4, CheckSteps DEF RemovesNothing
        <5>3. QED
          BY <4>2, <5>1, <5>2, OwnChanges
      <4>4. file'[index[n]] = file[index[n]]
        BY <4>1, <4>2, OwnChanges
      <4>5. QED
        BY <3>2, <4>1, <4>3, <4>4
    <3>5. QED
      BY <3>2, <3>3, <3>4
  <2>3. QED
    BY <2>1, <2>2
<1>3. QED
  BY <1>2 DEF HasLatest

(* A file half written is being written, unless its name is in doubt. *)
LEMMA NextHalfWritten ==
  ASSUME TypeOK, LockHeld, Owned, OneUploader, IntoOwn, HalfWritten, NEW p \in Procs, Act(p)
  PROVE  HalfWritten'
<1>1. /\ OneMoves(p) /\ index \in [Names -> 0..counter] /\ counter \in Nat
      /\ \A q \in Procs : proc[q].pc \in Writing => proc[q].ver \in Versions
  BY CheckSteps, FileSteps, ListSteps DEF Act, TypeOK
<1>2. Partial \notin Versions /\ Partial # Nothing /\ Partial # Empty
  BY DEF Partial, Versions, Empty
<1>3. ASSUME NEW n \in Names \ Doubtful', index'[n] # Nothing, file'[index'[n]] = Partial
      PROVE  \E q \in Procs : proc'[q].pc = "copy" /\ proc'[q].name = n
                              /\ proc'[q].at = index'[n]
  <2>1. n \notin clashed /\ n \notin broken'
    BY <1>3, DoubtsStay DEF Doubtful
  <2>2. CASE ReadParameters(p) /\ proc[p].name = n
    <3>1. /\ proc[p].pc = "params" /\ UNCHANGED <<index, file>>
          /\ proc[p].ver \in Versions
      BY <1>1, <2>2, FileSteps, Untouched
    <3>2. index[n] = proc[p].at /\ file[proc[p].at] = proc[p].ver
      BY <1>3, <2>1, <2>2, <3>1 DEF IntoOwn
    <3>3. QED
      BY <1>2, <1>3, <3>1, <3>2
  <2>3. CASE ~(ReadParameters(p) /\ proc[p].name = n)
    <3>1. n \notin Doubtful
      BY <1>3, <2>3, StillSure
    <3>2. ASSUME index'[n] = index[n], file'[index[n]] = file[index[n]], ~CloseFile(p)
          PROVE  \E q \in Procs : proc'[q].pc = "copy" /\ proc'[q].name = n
                                  /\ proc'[q].at = index'[n]
      <4>1. PICK q \in Procs : proc[q].pc = "copy" /\ proc[q].name = n /\ proc[q].at = index[n]
        BY <1>3, <3>1, <3>2 DEF HalfWritten
      <4>2. CASE q = p
        <5>1. Crash(p)
          BY <3>2, <4>1, <4>2, CheckSteps, FileSteps, ListSteps DEF Act
        <5>2. QED
          BY <2>1, <2>3, <4>1, <4>2, <5>1, UploadEnds, ListSteps
      <4>3. CASE q # p
        BY <1>1, <3>2, <4>1, <4>3 DEF OneMoves
      <4>4. QED
        BY <4>2, <4>3
    <3>3. CASE proc[p].pc \in Writing /\ proc[p].name = n
      <4>1. CASE SetIndex(p)
        BY <1>2, <1>3, <3>3, <4>1, FileWrites
      <4>2. CASE EmptyFile(p)
        <5>1. UNCHANGED index /\ Writes(index[n], Nothing)
          BY <3>3, <4>2, Untouched, FileWrites
        <5>2. QED
          BY <1>2, <1>3, <5>1 DEF Writes
      <4>3. CASE CreateFile(p) \/ OpenFile(p) \/ CloseFile(p)
        <5>1. proc[p].pc \in Filed /\ UNCHANGED index
          BY <4>3, FileSteps, Untouched
        <5>2. index[n] = proc[p].at
          BY <1>3, <2>1, <3>3, <5>1 DEF IntoOwn
        <5>3. CASE CreateFile(p)
          BY <1>2, <1>3, <5>1, <5>2, <5>3, FileWrites DEF Writes
        <5>4. CASE OpenFile(p)
          BY <3>3, <5>1, <5>2, <5>4, FileSteps DEF SameFile
        <5>5. CASE CloseFile(p)
          BY <1>1, <1>2, <1>3, <3>3, <5>1, <5>2, <5>5, FileWrites DEF Writes
        <5>6. QED
          BY <4>3, <5>3, <5>4, <5>5
      <4>4. CASE ~(SetIndex(p) \/ EmptyFile(p) \/ CreateFile(p) \/ OpenFile(p) \/ CloseFile(p))
        <5>1. UNCHANGED file /\ ~RemoveEntry(p)
          BY <3>3, <4>4, CheckSteps, Untouched DEF Act
        <5>2. UNCHANGED index
          BY <4>4, <5>1, OwnChanges
        <5>3. QED
          BY <3>2, <4>4, <5>1, <5>2
      <4>5. QED
        BY <4>1, <4>2, <4>3, <4>4
    <3>4. CASE ~(proc[p].pc \in Writing /\ proc[p].name = n)
      <4>1. ~SetIndex(p) \/ proc[p].name # n
        BY <3>4, FileSteps
      <4>2. index'[n] = index[n]
        BY <1>3, <4>1, OwnChanges
      <4>3. file'[index[n]] = file[index[n]]
        BY <1>3, <3>4, <4>2, OwnChanges
      <4>4. CASE ~CloseFile(p)
        BY <3>2, <4>2, <4>3, <4>4
      <4>5. CASE CloseFile(p)
        <5>1. PICK q \in Procs :
                proc[q].pc = "copy" /\ proc[q].name = n /\ proc[q].at = index[n]
          BY <1>3, <3>1, <4>2, <4>3 DEF HalfWritten
        <5>2. q # p
          BY <3>4, <5>1
        <5>3. QED
          BY <1>1, <4>2, <5>1, <5>2 DEF OneMoves
      <4>6. QED
        BY <4>4, <4>5
    <3>5. QED
      BY <3>3, <3>4
  <2>4. QED
    BY <2>2, <2>3
<1>4. QED
  BY <1>3 DEF HalfWritten

-----------------------------------------------------------------------------
(* A test gets into the list once it has been written. *)
LEMMA NextListed ==
  ASSUME TypeOK, ListedWereWritten, NEW p \in Procs, Act(p)
  PROVE  ListedWereWritten'
<1>1. /\ OneMoves(p) /\ latest \in [Names -> Versions \union {Nothing}]
      /\ blob \in [Kinds -> Seq(Names)] /\ proc \in [Procs -> ProcStates]
      /\ \A q \in Procs : /\ proc[q].pc \in Writing \union {"load", "store"} =>
                               proc[q].name \in Names
                          /\ proc[q].pc \in Writing =>
                               proc[q].kind = "batch" /\ proc[q].ver \in Versions
  BY CheckSteps, FileSteps, ListSteps DEF Act, TypeOK
<1>2. /\ \A n \in Names : latest[n] # Nothing => latest'[n] # Nothing
      /\ ReadParameters(p) => latest'[proc[p].name] # Nothing
  <2>1. CASE ReadParameters(p)
    <3>1. /\ latest' = [latest EXCEPT ![proc[p].name] = proc[p].ver]
          /\ proc[p].pc = "params"
      BY <2>1, FileSteps DEF ReadParameters
    <3>2. proc[p].name \in Names /\ proc[p].ver \in Versions
      BY <1>1, <3>1
    <3>3. proc[p].ver # Nothing
      BY <3>2 DEF Versions
    <3>4. QED
      BY <1>1, <3>1, <3>2, <3>3
  <2>2. CASE ~ReadParameters(p)
    BY <2>2, Untouched DEF Act, SetIndex
  <2>3. QED
    BY <2>1, <2>2
<1>3. ToSet(blob["batch"]) \subseteq Names
  BY <1>1, ElementsOfSeq
<1>4. ASSUME NEW q \in Procs, proc[q].kind = "batch", proc[q].pc \in {"load", "store"}
      PROVE  latest'[proc[q].name] # Nothing
  BY <1>1, <1>2, <1>4 DEF ListedWereWritten
<1>5. ASSUME NEW q \in Procs, proc[q].kind = "batch", proc[q].pc = "store"
      PROVE  \A n \in ToSet(proc[q].list) : n \in Names /\ latest'[n] # Nothing
  <2>1. proc[q].list \in Seq(Names)
    BY <1>1 DEF ProcStates
  <2>2. ToSet(proc[q].list) \subseteq Names
    BY <2>1, ElementsOfSeq
  <2>3. QED
    BY <1>2, <1>5, <2>2 DEF ListedWereWritten
<1>6. \A n \in ToSet(blob'["batch"]) : latest'[n] # Nothing
  <2>1. CASE StoreList(p) /\ proc[p].kind = "batch"
    <3>1. /\ proc[p].pc = "store" /\ proc[p].name \in Names
          /\ blob' = [blob EXCEPT !["batch"] = Append(proc[p].list, proc[p].name)]
      BY <1>1, <2>1, ListSteps DEF StoreList
    <3>2. proc[p].list \in Seq(Names) /\ blob'["batch"] = Append(proc[p].list, proc[p].name)
      BY <1>1, <3>1 DEF ProcStates
    <3>3. ToSet(blob'["batch"]) = ToSet(proc[p].list) \union {proc[p].name}
      <4>1. ToSet(Append(proc[p].list, proc[p].name)) = ToSet(proc[p].list) \union {proc[p].name}
        BY <3>1, <3>2, AppendFacts
      <4>2. QED
        BY <3>2, <4>1
    <3>4. QED
      BY <1>4, <1>5, <2>1, <3>1, <3>3
  <2>2. CASE ~(StoreList(p) /\ proc[p].kind = "batch")
    <3>1. blob'["batch"] = blob["batch"]
      <4>1. CASE StoreList(p)
        <5>1. proc[p].kind \in Kinds /\ proc[p].kind # "batch"
          BY <1>1, <2>2, <4>1 DEF ProcStates
        <5>2. QED
          BY <1>1, <4>1, <5>1 DEF StoreList
      <4>2. CASE ~StoreList(p)
        BY <4>2
        DEF Act, Start, LockForCheck, CheckEntry, RemoveEntry, EndCheck, LockIndex, SetIndex,
            UnlockIndex, CreateFile, EmptyFile, OpenFile, CloseFile, ReadParameters, Quits,
            RemovedMeanwhile, AlreadyExists, NotFound, Fail, LoadList, Refresh, Crash,
            BeginInstall, redis
      <4>3. QED
        BY <4>1, <4>2
    <3>2. QED
      BY <1>2, <1>3, <3>1 DEF ListedWereWritten
  <2>3. QED
    BY <2>1, <2>2
<1>7. ASSUME proc'[p].kind = "batch"
      PROVE  /\ proc'[p].pc \in {"load", "store"} => latest'[proc'[p].name] # Nothing
             /\ proc'[p].pc = "store" => \A n \in ToSet(proc'[p].list) : latest'[n] # Nothing
  <2>1. CASE LoadList(p)
    <3>1. /\ proc[p].kind = "batch" /\ proc[p].pc = "load" /\ proc'[p].name = proc[p].name
          /\ proc'[p].list = blob["batch"]
      BY <1>7, <2>1, ListSteps DEF SameFile
    <3>2. QED
      BY <1>2, <1>3, <1>4, <3>1 DEF ListedWereWritten
  <2>2. CASE ReadParameters(p)
    BY <1>2, <2>2, FileSteps DEF SameFile
  <2>3. CASE ~LoadList(p) /\ ~ReadParameters(p)
    BY <1>7, <2>3, CheckSteps, FileSteps, ListSteps DEF Act
  <2>4. QED
    BY <2>1, <2>2, <2>3
<1>8. ASSUME NEW q \in Procs \ {p}, proc'[q].kind = "batch"
      PROVE  /\ proc'[q].pc \in {"load", "store"} => latest'[proc'[q].name] # Nothing
             /\ proc'[q].pc = "store" => \A n \in ToSet(proc'[q].list) : latest'[n] # Nothing
  <2>1. proc'[q] = proc[q]
    BY <1>1 DEF OneMoves
  <2>2. QED
    BY <1>4, <1>5, <1>8, <2>1
<1>9. QED
  BY <1>6, <1>7, <1>8 DEF ListedWereWritten

(* Of the uploads that change a list, all but one have been noted. *)
LEMMA NextInOrder ==
  ASSUME TypeOK, ListsInOrder, NEW p \in Procs, Act(p)
  PROVE  ListsInOrder'
<1>1. /\ OneMoves(p) /\ raced \subseteq raced' /\ blob \in [Kinds -> Seq(Names)]
      /\ \A q \in Procs : proc[q] \in ProcStates
  BY CheckSteps, FileSteps, ListSteps, DoubtsStay DEF Act, TypeOK
<1>2. /\ \A q \in Procs : proc[q].pc = "store" /\ proc[q].kind \notin raced =>
           proc[q].list = blob[proc[q].kind]
      /\ \A q, r \in Procs :
           q # r /\ proc[q].pc = "store" /\ proc[r].pc = "store"
             /\ proc[q].kind = proc[r].kind => proc[q].kind \in raced
  BY DEF ListsInOrder
<1>3. CASE LoadList(p)
  <2>1. /\ proc'[p].kind = proc[p].kind /\ proc'[p].list = blob[proc[p].kind]
        /\ UNCHANGED blob /\ proc[p].pc = "load"
        /\ raced' = IF \E q \in Procs \ {p} : proc[q].pc = "store" /\ proc[q].kind = proc[p].kind
                    THEN raced \union {proc[p].kind} ELSE raced
    BY <1>3, ListSteps DEF LoadList, SameFile, redis
  <2>2. ASSUME NEW q \in Procs, NEW r \in Procs, q # r, proc'[q].pc = "store",
               proc'[r].pc = "store", proc'[q].kind = proc'[r].kind
        PROVE  proc'[q].kind \in raced'
    <3>1. CASE p = q
      BY <1>1, <2>1, <2>2, <3>1 DEF OneMoves
    <3>2. CASE p = r
      BY <1>1, <2>1, <2>2, <3>2 DEF OneMoves
    <3>3. CASE p \notin {q, r}
      BY <1>1, <1>2, <2>2, <3>3 DEF OneMoves
    <3>4. QED
      BY <3>1, <3>2, <3>3
  <2>3. ASSUME NEW q \in Procs, proc'[q].pc = "store", proc'[q].kind \notin raced'
        PROVE  proc'[q].list = blob'[proc'[q].kind]
    BY <1>1, <1>2, <2>1, <2>3 DEF OneMoves
  <2>4. QED
    BY <2>2, <2>3 DEF ListsInOrder
<1>4. CASE StoreList(p)
  <2>1. /\ proc[p].pc = "store" /\ proc'[p].pc = "refresh" /\ proc[p].kind \in Kinds
        /\ blob' = [blob EXCEPT ![proc[p].kind] = Append(proc[p].list, proc[p].name)]
    BY <1>1, <1>4, ListSteps DEF StoreList, ProcStates
  <2>2. ASSUME NEW q \in Procs, proc'[q].pc = "store", proc'[q].kind \notin raced'
        PROVE  proc'[q].list = blob'[proc'[q].kind]
    <3>1. q # p /\ proc'[q] = proc[q] /\ proc[q].kind \notin raced
      BY <1>1, <2>1, <2>2 DEF OneMoves
    <3>2. proc[q].kind # proc[p].kind
      BY <1>2, <2>1, <2>2, <3>1
    <3>3. blob'[proc[q].kind] = blob[proc[q].kind]
      <4>1. proc[q].kind \in Kinds
        BY <1>1 DEF ProcStates
      <4>2. QED
        BY <1>1, <2>1, <3>2, <4>1
    <3>4. QED
      BY <1>2, <2>2, <3>1, <3>3
  <2>3. ASSUME NEW q \in Procs, NEW r \in Procs, q # r, proc'[q].pc = "store",
               proc'[r].pc = "store", proc'[q].kind = proc'[r].kind
        PROVE  proc'[q].kind \in raced'
    BY <1>1, <1>2, <2>1, <2>3 DEF OneMoves
  <2>4. QED
    BY <2>2, <2>3 DEF ListsInOrder
<1>5. CASE ~LoadList(p) /\ ~StoreList(p)
  <2>1. UNCHANGED blob
    BY <1>5
    DEF Act, Start, LockForCheck, CheckEntry, RemoveEntry, EndCheck, LockIndex, SetIndex,
        UnlockIndex, CreateFile, EmptyFile, OpenFile, CloseFile, ReadParameters, Quits,
        RemovedMeanwhile, AlreadyExists, NotFound, Fail, Refresh, Crash, BeginInstall, redis
  <2>2. proc'[p].pc # "store"
    BY <1>5, CheckSteps, FileSteps, ListSteps DEF Act
  <2>3. \A q \in Procs : proc'[q].pc = "store" => q # p /\ proc'[q] = proc[q]
    BY <1>1, <2>2 DEF OneMoves
  <2>4. QED
    BY <1>1, <1>2, <2>1, <2>3 DEF ListsInOrder
<1>6. QED
  BY <1>3, <1>4, <1>5

(* What has been reported stays in a list that one program changes at a time. *)
LEMMA NextStaysListed ==
  ASSUME TypeOK, ListsInOrder, InstalledStaysListed, NEW p \in Procs, Act(p)
  PROVE  InstalledStaysListed'
<1>1. /\ raced \subseteq raced' /\ blob \in [Kinds -> Seq(Names)] /\ done \subseteq Kinds \X Names
      /\ proc[p] \in ProcStates
  BY DoubtsStay DEF TypeOK
<1>2. \A t \in done : t[1] \notin raced => t[2] \in ToSet(blob[t[1]])
  BY DEF InstalledStaysListed
<1>3. CASE StoreList(p)
  <2>1. /\ proc[p].pc = "store" /\ proc[p].kind \in Kinds /\ proc[p].name \in Names
        /\ blob' = [blob EXCEPT ![proc[p].kind] = Append(proc[p].list, proc[p].name)]
        /\ proc[p].list \in Seq(Names) /\ done' = done
    BY <1>1, <1>3, ListSteps DEF StoreList, ProcStates, TypeOK
  <2>2. ToSet(Append(proc[p].list, proc[p].name)) = ToSet(proc[p].list) \union {proc[p].name}
    BY <2>1, AppendFacts
  <2>3. ASSUME NEW t \in done, t[1] \notin raced
        PROVE  t[2] \in ToSet(blob'[t[1]])
    <3>1. t[1] \in Kinds /\ t[2] \in ToSet(blob[t[1]])
      BY <1>1, <1>2, <2>3
    <3>2. CASE t[1] = proc[p].kind
      <4>1. proc[p].list = blob[t[1]]
        BY <2>1, <2>3, <3>2 DEF ListsInOrder
      <4>2. blob'[t[1]] = Append(proc[p].list, proc[p].name)
        BY <1>1, <2>1, <3>2
      <4>3. QED
        BY <2>2, <3>1, <4>1, <4>2
    <3>3. CASE t[1] # proc[p].kind
      BY <1>1, <2>1, <3>1, <3>3
    <3>4. QED
      BY <3>2, <3>3
  <2>4. QED
    BY <1>1, <2>1, <2>3 DEF InstalledStaysListed
<1>4. CASE Refresh(p)
  <2>1. UNCHANGED blob /\ done' \subseteq done \union Found
    BY <1>4 DEF Refresh, redis
  <2>2. \A t \in Found : t[2] \in ToSet(blob[t[1]])
    BY DEF Found
  <2>3. QED
    BY <1>1, <1>2, <2>1, <2>2 DEF InstalledStaysListed
<1>5. CASE ~StoreList(p) /\ ~Refresh(p)
  <2>1. UNCHANGED <<blob, done>>
    BY <1>5
    DEF Act, Start, LockForCheck, CheckEntry, RemoveEntry, EndCheck, LockIndex, SetIndex,
        UnlockIndex, CreateFile, EmptyFile, OpenFile, CloseFile, ReadParameters, Quits,
        RemovedMeanwhile, AlreadyExists, NotFound, Fail, LoadList, Crash, BeginInstall, redis
  <2>2. QED
    BY <1>1, <1>2, <2>1 DEF InstalledStaysListed
<1>6. QED
  BY <1>3, <1>4, <1>5

(* A test is run from a file half written only where the other program is
   writing it, or the name is in doubt. *)
LEMMA NextNoTorn ==
  ASSUME HalfWritten, NoTornTest, [Next]_vars
  PROVE  NoTornTest'
<1>1. ASSUME NEW n \in Names, RunTest(n)
      PROVE  NoTornTest'
  <2>1. CASE index[n] # Nothing /\ Readable(index[n]) /\ file[index[n]] = Partial
                /\ n \notin Doubtful
    <3>1. PICK p \in Procs : proc[p].pc = "copy" /\ proc[p].name = n /\ proc[p].at = index[n]
      BY <2>1 DEF HalfWritten
    <3>2. p # Web
      BY <2>1, <3>1 DEF Readable
    <3>3. ran'.torn = TRUE
      BY <1>1, <2>1, <3>1, <3>2 DEF RunTest
    <3>4. QED
      BY <3>3 DEF NoTornTest
  <2>2. CASE index[n] # Nothing /\ Readable(index[n]) /\ n \in Doubtful
    <3>1. ran'.torn = TRUE
      BY <1>1, <2>2 DEF RunTest, Doubtful
    <3>2. QED
      BY <3>1 DEF NoTornTest
  <2>3. CASE index[n] # Nothing /\ Readable(index[n]) /\ file[index[n]] # Partial
    <3>1. ran'.got = file[index[n]]
      BY <1>1, <2>3 DEF RunTest
    <3>2. QED
      BY <2>3, <3>1 DEF NoTornTest, Partial
  <2>4. CASE ~(index[n] # Nothing /\ Readable(index[n]))
    <3>1. ran' = NoTest
      BY <1>1, <2>4 DEF RunTest
    <3>2. ran'.got = Nothing
      BY <3>1 DEF NoTest
    <3>3. QED
      BY <3>2 DEF NoTornTest, Partial
  <2>5. QED
    BY <2>1, <2>2, <2>3, <2>4
<1>2. ASSUME UNCHANGED ran
      PROVE  NoTornTest'
  BY <1>2 DEF NoTornTest
<1>3. ASSUME NEW p \in Procs, Act(p)
      PROVE  UNCHANGED ran
  BY <1>3
  DEF Act, Start, LockForCheck, CheckEntry, RemoveEntry, EndCheck, LockIndex, SetIndex,
      UnlockIndex, CreateFile, EmptyFile, OpenFile, CloseFile, ReadParameters, Quits,
      RemovedMeanwhile, AlreadyExists, NotFound, Fail, LoadList, StoreList, Refresh, Crash,
      BeginInstall, Step
<1>4. ASSUME NEW p \in Procs, Start(p) \/ Thread(p) \/ Crash(p)
      PROVE  Act(p)
  BY <1>4 DEF Thread, Act, Quits
<1>5. ASSUME NEW p \in Procs, NEW k \in Kinds, NEW n \in Names, BeginInstall(p, k, n)
      PROVE  Act(p)
  BY <1>5 DEF Act
<1>6. CASE UNCHANGED vars
  BY <1>2, <1>6 DEF vars, history
<1>7. QED
  BY <1>1, <1>2, <1>3, <1>4, <1>5, <1>6 DEF Next

-----------------------------------------------------------------------------
(* Steps that keep what the invariant is about keep the invariant. *)
LEMMA NextRests ==
  ASSUME IInv, Rests, NoTornTest'
  PROVE  IInv'
<1>1. UNCHANGED <<index, counter, lock, blob, file, proc, installs, latest, broken, raced,
                  clashed, done>>
  BY DEF Rests, redis
<1>2. TypeOK' /\ LockHeld' /\ Owned' /\ OneUploader' /\ IntoOwn'
  <2>1. TypeOK'
    BY <1>1 DEF IInv, TypeOK
  <2>2. LockHeld' /\ Owned'
    BY <1>1 DEF IInv, LockHeld, Owned
  <2>3. OneUploader' /\ IntoOwn'
    BY <1>1 DEF IInv, OneUploader, IntoOwn
  <2>4. QED
    BY <2>1, <2>2, <2>3
<1>3. RemovesNothing' /\ HasLatest' /\ HalfWritten'
  BY <1>1 DEF IInv, RemovesNothing, HasLatest, HalfWritten, Doubtful, Uploading
<1>4. ListedWereWritten' /\ ListsInOrder' /\ InstalledStaysListed'
  BY <1>1 DEF IInv, ListedWereWritten, ListsInOrder, InstalledStaysListed
<1>5. QED
  BY <1>2, <1>3, <1>4 DEF IInv

(* The invariant holds in every state, whatever the programs and the uploads
   are, and wherever a program ends. *)
THEOREM InvariantHolds == Spec => []IInv
<1>1. ASSUME IInv, [Next]_vars
      PROVE  IInv'
  <2>1. NoTornTest'
    BY <1>1, NextNoTorn DEF IInv
  <2>2. CASE Rests
    BY <1>1, <2>1, <2>2, NextRests
  <2>3. ASSUME NEW p \in Procs, Act(p)
        PROVE  IInv'
    BY <1>1, <2>1, <2>3, NextType, NextLock, NextOwned, NextOneUploader, NextIntoOwn,
       NextRemoves, NextHasLatest, NextHalfWritten, NextListed, NextInOrder, NextStaysListed
    DEF IInv
  <2>4. QED
    BY <1>1, <2>2, <2>3, Steps
<1>2. QED
  BY <1>1, InitHolds, PTL DEF Spec

(* A test in the batch driver's list has its resource, and in it the version
   installed last, unless it is being uploaded, an upload of it was broken off
   or both programs have uploaded it at a time. *)
THEOREM ListedHasLatestHolds == Spec => []ListedHasLatest
<1>1. ASSUME IInv
      PROVE  ListedHasLatest
  <2>1. ToSet(blob["batch"]) \subseteq Names
    BY <1>1, ElementsOfSeq DEF IInv, TypeOK
  <2>2. QED
    BY <1>1, <2>1 DEF IInv, ListedHasLatest, ListedWereWritten, HasLatest, Doubtful
<1>2. QED
  BY <1>1, InvariantHolds, PTL

(* No test is run from a file half written, but from one that the other
   program is writing or an end of a program left so. *)
THEOREM NoTornTestHolds == Spec => []NoTornTest
<1>1. IInv => NoTornTest
  BY DEF IInv
<1>2. QED
  BY <1>1, InvariantHolds, PTL

(* A test whose upload was reported stays in its driver's list, unless both
   programs have changed that list at a time. *)
THEOREM InstalledStaysListedHolds == Spec => []InstalledStaysListed
<1>1. IInv => InstalledStaysListed
  BY DEF IInv
<1>2. QED
  BY <1>1, InvariantHolds, PTL
=============================================================================
