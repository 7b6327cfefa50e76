------------------------- MODULE AgentProgramProofs -------------------------
(* Proofs about AgentProgram, for any programs, process ids and children that
   hold an output open. *)
EXTENDS AgentProgram, SequencesExt, TLAPS

-----------------------------------------------------------------------------
(* Lists of programs: their elements, and that none occurs twice. *)

(* The elements of a list are of the type the list is of. *)
LEMMA ElementsOfSeq ==
  ASSUME NEW S, NEW s \in Seq(S)
  PROVE  /\ ToSet(s) \subseteq S
         /\ DOMAIN s = 1..Len(s) /\ Len(s) \in Nat
         /\ \A i \in 1..Len(s) : s[i] \in S
<1>1. DOMAIN s = 1..Len(s) /\ Len(s) \in Nat
  OBVIOUS
<1>2. \A i \in 1..Len(s) : s[i] \in S
  OBVIOUS
<1>3. QED
  BY <1>1, <1>2 DEF ToSet

(* Adding to the end of a list: what changes, and which elements it has. *)
LEMMA AppendFacts ==
  ASSUME NEW S, NEW s \in Seq(S), NEW e \in S
  PROVE  /\ Append(s, e) \in Seq(S)
         /\ DOMAIN s = 1..Len(s)
         /\ DOMAIN Append(s, e) = 1..(Len(s) + 1)
         /\ \A i \in 1..Len(s) : Append(s, e)[i] = s[i]
         /\ Append(s, e)[Len(s) + 1] = e
         /\ ToSet(Append(s, e)) = ToSet(s) \union {e}
<1>1. /\ Append(s, e) \in Seq(S)
      /\ DOMAIN s = 1..Len(s)
      /\ DOMAIN Append(s, e) = 1..(Len(s) + 1)
      /\ \A i \in 1..Len(s) : Append(s, e)[i] = s[i]
      /\ Append(s, e)[Len(s) + 1] = e
      /\ Len(s) \in Nat
  OBVIOUS
<1>2. 1..(Len(s) + 1) = 1..Len(s) \union {Len(s) + 1}
  BY <1>1
<1>3. QED
  BY <1>1, <1>2 DEF ToSet

(* Taking the first element of a list that has one. *)
LEMMA TailFacts ==
  ASSUME NEW S, NEW s \in Seq(S), s # <<>>
  PROVE  /\ Head(s) = s[1] /\ Head(s) \in S
         /\ Tail(s) \in Seq(S)
         /\ DOMAIN s = 1..Len(s) /\ Len(s) \in Nat \ {0}
         /\ DOMAIN Tail(s) = 1..(Len(s) - 1)
         /\ \A i \in 1..(Len(s) - 1) : Tail(s)[i] = s[i + 1] /\ i + 1 \in 1..Len(s)
         /\ ToSet(s) = ToSet(Tail(s)) \union {Head(s)}
<1>1. /\ Head(s) = s[1] /\ Head(s) \in S
      /\ Tail(s) \in Seq(S)
      /\ DOMAIN s = 1..Len(s) /\ Len(s) \in Nat \ {0}
      /\ DOMAIN Tail(s) = 1..(Len(s) - 1)
      /\ \A i \in 1..(Len(s) - 1) : Tail(s)[i] = s[i + 1] /\ i + 1 \in 1..Len(s)
  OBVIOUS
<1>2. ASSUME NEW i \in 2..Len(s)
      PROVE  s[i] = Tail(s)[i - 1] /\ i - 1 \in 1..(Len(s) - 1)
  BY <1>1
<1>3. \A i \in 1..Len(s) : i = 1 \/ i \in 2..Len(s)
  BY <1>1
<1>4. ASSUME NEW e \in ToSet(s), e # Head(s)
      PROVE  e \in ToSet(Tail(s))
  <2>1. PICK i \in 1..Len(s) : e = s[i]
    BY <1>1 DEF ToSet
  <2>2. i \in 2..Len(s)
    BY <1>1, <1>3, <1>4, <2>1
  <2>3. QED
    BY <1>1, <1>2, <2>1, <2>2 DEF ToSet
<1>5. ToSet(Tail(s)) \union {Head(s)} \subseteq ToSet(s)
  BY <1>1 DEF ToSet
<1>6. QED
  BY <1>1, <1>4, <1>5

(* A list without repetition stays so when a new element is added, ... *)
LEMMA AppendNoRepeat ==
  ASSUME NEW S, NEW s \in Seq(S), NEW e \in S, IsInjective(s), e \notin ToSet(s)
  PROVE  IsInjective(Append(s, e))
<1> DEFINE n == Len(s)
           t == Append(s, e)
<1>1. /\ DOMAIN s = 1..n /\ n \in Nat
      /\ DOMAIN t = 1..(n + 1)
      /\ \A i \in 1..n : t[i] = s[i]
      /\ t[n + 1] = e
  BY ElementsOfSeq, AppendFacts
<1>2. \A i \in 1..n : s[i] # e
  BY <1>1 DEF ToSet
<1>3. \A i \in 1..(n + 1) : i \in 1..n \/ i = n + 1
  BY <1>1
<1>4. ASSUME NEW i \in 1..(n + 1), NEW j \in 1..(n + 1), t[i] = t[j]
      PROVE  i = j
  <2>1. CASE i \in 1..n /\ j \in 1..n
    BY <1>1, <1>4, <2>1 DEF IsInjective
  <2>2. QED
    BY <1>1, <1>2, <1>3, <1>4, <2>1
<1>5. IsInjective(t)
  BY <1>1, <1>4 DEF IsInjective
<1>6. QED
  BY <1>5

(* ... or its first is taken, which then is in the list no more. *)
LEMMA TailNoRepeat ==
  ASSUME NEW S, NEW s \in Seq(S), s # <<>>, IsInjective(s)
  PROVE  /\ IsInjective(Tail(s))
         /\ ToSet(Tail(s)) = ToSet(s) \ {Head(s)}
         /\ Head(s) \in ToSet(s)
<1> DEFINE n == Len(s)
<1>1. /\ Head(s) = s[1] /\ DOMAIN s = 1..n /\ n \in Nat \ {0}
      /\ DOMAIN Tail(s) = 1..(n - 1)
      /\ \A i \in 1..(n - 1) : Tail(s)[i] = s[i + 1] /\ i + 1 \in 1..n
      /\ ToSet(s) = ToSet(Tail(s)) \union {Head(s)}
  BY TailFacts
<1>2. 1 \in 1..n /\ \A i \in 1..(n - 1) : i + 1 # 1
  BY <1>1
<1>3. \A i \in 1..(n - 1) : Tail(s)[i] # Head(s)
  BY <1>1, <1>2 DEF IsInjective
<1>4. Head(s) \notin ToSet(Tail(s))
  BY <1>1, <1>3 DEF ToSet
<1>5. ASSUME NEW i \in 1..(n - 1), NEW j \in 1..(n - 1), Tail(s)[i] = Tail(s)[j]
      PROVE  i = j
  <2>1. i + 1 = j + 1
    BY <1>1, <1>5 DEF IsInjective
  <2>2. QED
    BY <2>1
<1>6. QED
  BY <1>1, <1>4, <1>5 DEF IsInjective

-----------------------------------------------------------------------------

ProgramResult == [code : ExitCodes, out : BOOLEAN, complete : BOOLEAN]
Launching == {"launch", "register", "subscribe"}
Reading == {"readCode", "readOut", "readComplete", "answer"}
Callbacks == {"idle", "pending", "reading", "setCode", "complete", "finished"}
Callers == {"new", "starting", "polling", "asking", "returned", "failed"}

TypeOK ==
  /\ os \in [Programs -> {"none", "running", "exited"}]
  /\ pid \in [Programs -> Pids \union {NoPid}]
  /\ exitCode \in [Programs -> ExitCodes]
  /\ results \in [Pids -> Programs \union {NoProgram}]
  /\ record \in [Programs -> ProgramResult]
  /\ subscribed \subseteq Programs /\ raised \subseteq Programs
  /\ handler \in [Programs -> Callbacks]
  /\ lock \in Programs \union {NoProgram}
  /\ inbox \in Seq(Programs)
  /\ server \in [pc : {"idle", "fetch"} \union Launching \union Reading,
                 for : Programs \union {NoProgram},
                 obj : Programs \union {NoProgram}, reply : ProgramResult]
  /\ caller \in [Programs -> Callers]
  /\ got \in [Programs -> ProgramResult]
  /\ torn \subseteq Programs

\* A call has one request, in the queue or at the server, while it waits.
Waiting(p) == caller[p] \in {"starting", "asking"}
OneRequest ==
  /\ IsInjective(inbox)
  /\ \A p \in ToSet(inbox) : Waiting(p) /\ p # server.for
  /\ server.pc = "idle" <=> server.for = NoProgram
  /\ server.pc # "idle" => Waiting(server.for)
  /\ server.pc \in Launching => caller[server.for] = "starting"

\* A program is launched once, and the dictionary knows it before a poll does.
AtServer(p, steps) == server.for = p /\ server.pc \in steps
NotLaunched(p) == \/ caller[p] = "new"
                  \/ caller[p] = "starting" /\ p \in ToSet(inbox)
                  \/ AtServer(p, {"launch"})
Known(p) == pid[p] \in Pids /\ results[pid[p]] \in Programs
LaunchedOnce ==
  \A p \in Programs :
    /\ os[p] = "none" <=> pid[p] = NoPid
    /\ NotLaunched(p) => os[p] = "none"
    /\ AtServer(p, {"register"}) => os[p] # "none"
    /\ AtServer(p, {"subscribe", "fetch"} \union Reading) => Known(p)
    /\ caller[p] \in {"polling", "asking", "returned"} => Known(p)

\* An id leads to a later program only after the exit of the earlier one.
Registering(p) == AtServer(p, {"register"})
ReusedAfterExit ==
  /\ \A p, q \in Programs :
       Registering(q) /\ p # q /\ pid[p] = pid[q] => os[p] = "exited"
  /\ \A p \in Programs : Replaced(p) /\ ~Registering(p) => os[p] = "exited"

\* A callback fills its record in this order, after the exit.
RecordInOrder ==
  \A p \in Programs :
    /\ handler[p] # "idle" => os[p] = "exited" /\ p \in raised
    /\ handler[p] \in {"setCode", "complete", "finished"} => record[p].out
    /\ handler[p] \in {"complete", "finished"} => record[p].code = exitCode[p]
    /\ record[p].complete => handler[p] = "finished"

\* What the server has read by now, if the callback did not get in between.
CodeRead == server.reply.code = exitCode[server.obj]
ReadUntorn ==
  LET p == server.for
      o == server.obj
      set == handler[o] \in {"complete", "finished"} /\ p \notin torn
  IN /\ server.pc \in Reading => o \in Programs /\ (o = p \/ Replaced(p))
     /\ server.pc = "readOut" /\ set => CodeRead
     /\ server.pc = "readComplete" /\ set => CodeRead /\ server.reply.out
     /\ server.pc = "answer" /\ server.reply.complete =>
          /\ handler[o] = "finished"
          /\ p \notin torn => CodeRead /\ server.reply.out

IInv == /\ TypeOK /\ OneRequest /\ LaunchedOnce /\ ReusedAfterExit
        /\ RecordInOrder /\ ReadUntorn /\ ResultIsOwn

USE NamesAssumption, KindsAssumption
USE DEF ExitCodes, ProgramResult, Launching, Reading, Callbacks, Callers,
        FreshRecord, Idle

-----------------------------------------------------------------------------
(* Nothing has happened at first: no request, no process, no answer. *)
LEMMA InitHolds == Init => IInv
<1> SUFFICES ASSUME Init
             PROVE  IInv
  OBVIOUS
<1>1. TypeOK
  BY DEF Init, TypeOK
<1>2. OneRequest
  BY DEF Init, OneRequest, IsInjective, ToSet
<1>3. LaunchedOnce
  BY DEF Init, LaunchedOnce, NotLaunched, AtServer, Known
<1>4. ReusedAfterExit
  BY DEF Init, ReusedAfterExit, Registering, AtServer, Replaced
<1>5. RecordInOrder /\ ReadUntorn /\ ResultIsOwn
  BY DEF Init, RecordInOrder, ReadUntorn, ResultIsOwn
<1>6. QED
  BY <1>1, <1>2, <1>3, <1>4, <1>5 DEF IInv

(* Every variable keeps its type: the server reads only records that exist. *)
LEMMA NextType == IInv /\ [Next]_vars => TypeOK'
<1> SUFFICES ASSUME IInv, [Next]_vars
             PROVE  TypeOK'
  OBVIOUS
<1> USE DEF osVars, callbackVars, agentVars, callerVars
<1>t. TypeOK /\ OneRequest /\ LaunchedOnce /\ ReadUntorn
  BY DEF IInv
<1>f. server.pc # "idle" => server.for \in Programs
  BY <1>t DEF TypeOK, OneRequest
<1>0. CASE UNCHANGED vars
  BY <1>t, <1>0 DEF TypeOK, vars
<1>1. ASSUME NEW p \in Programs, Caller(p)
      PROVE  TypeOK'
  <2>1. CASE CallStart(p)
    BY <1>t, <2>1, AppendFacts DEF TypeOK, CallStart, Send
  <2>2. CASE CallResult(p)
    BY <1>t, <2>2, AppendFacts DEF TypeOK, CallResult, Send
  <2>3. QED
    BY <1>1, <2>1, <2>2 DEF Caller
<1>2. CASE Accept
  <2>1. Head(inbox) \in Programs /\ Tail(inbox) \in Seq(Programs)
    BY <1>t, <1>2, TailFacts DEF TypeOK, Accept
  <2>2. QED
    BY <1>t, <1>2, <2>1 DEF TypeOK, Accept
<1>3. CASE Launch \/ LaunchFails \/ Register \/ Subscribe
  <2>1. CASE Launch
    <3>1. PICK n \in Pids : pid' = [pid EXCEPT ![server.for] = n]
      BY <2>1 DEF Launch
    <3>2. QED
      BY <1>t, <1>f, <2>1, <3>1 DEF TypeOK, Launch, Step
  <2>2. CASE LaunchFails
    BY <1>t, <1>f, <2>2 DEF TypeOK, LaunchFails
  <2>3. CASE Register
    BY <1>t, <1>f, <2>3 DEF TypeOK, Register, Registered, Step
  <2>4. CASE Subscribe
    BY <1>t, <1>f, <2>4 DEF TypeOK, Subscribe, Step
  <2>5. QED
    BY <1>3, <2>1, <2>2, <2>3, <2>4
<1>4. CASE Fetch
  <2>1. Known(server.for)
    BY <1>f, <1>t, <1>4 DEF LaunchedOnce, AtServer, Fetch
  <2>2. QED
    BY <1>t, <1>4, <2>1 DEF TypeOK, Fetch, Known
<1>5. CASE ReadCode \/ ReadOut \/ ReadComplete
  <2>1. server.obj \in Programs
    BY <1>t, <1>5 DEF ReadUntorn, ReadCode, ReadOut, ReadComplete
  <2>2. record[server.obj] \in ProgramResult
    BY <1>t, <2>1 DEF TypeOK
  <2>3. CASE ReadCode
    BY <1>t, <2>2, <2>3 DEF TypeOK, ReadCode
  <2>4. CASE ReadOut
    BY <1>t, <2>2, <2>4 DEF TypeOK, ReadOut
  <2>5. CASE ReadComplete
    BY <1>t, <2>2, <2>5 DEF TypeOK, ReadComplete
  <2>6. QED
    BY <1>5, <2>3, <2>4, <2>5
<1>6. CASE Answer
  BY <1>t, <1>f, <1>6 DEF TypeOK, Answer
<1>7. ASSUME NEW p \in Programs, Exit(p)
      PROVE  TypeOK'
  BY <1>t, <1>7 DEF TypeOK, Exit
<1>8. ASSUME NEW p \in Programs, ExitedCallback(p)
      PROVE  TypeOK'
  <2>1. CASE RaiseExited(p)
    BY <1>t, <2>1 DEF TypeOK, RaiseExited
  <2>2. /\ record[p] \in ProgramResult /\ exitCode[p] \in ExitCodes
        /\ [record[p] EXCEPT !.out = TRUE] \in ProgramResult
        /\ [record[p] EXCEPT !.code = exitCode[p]] \in ProgramResult
        /\ [record[p] EXCEPT !.complete = TRUE] \in ProgramResult
    BY <1>t DEF TypeOK
  <2>3. CASE TakeLock(p)
    BY <1>t, <2>3 DEF TypeOK, TakeLock, Callback
  <2>4. CASE ReadOutput(p)
    BY <1>t, <2>2, <2>4 DEF TypeOK, ReadOutput, Callback
  <2>5. CASE SetCode(p)
    <3>1. torn' \subseteq Programs
      BY <1>t, <1>f, <2>5 DEF TypeOK, SetCode
    <3>2. QED
      BY <1>t, <2>2, <2>5, <3>1 DEF TypeOK, SetCode, Callback
  <2>6. CASE SetComplete(p)
    BY <1>t, <2>2, <2>6 DEF TypeOK, SetComplete, Callback, LockFreed
  <2>7. QED
    BY <1>8, <2>1, <2>3, <2>4, <2>5, <2>6 DEF ExitedCallback
<1>9. QED
  BY <1>0, <1>1, <1>2, <1>3, <1>4, <1>5, <1>6, <1>7, <1>8 DEF Next, Server

-----------------------------------------------------------------------------
(* What each reading step makes of the server: one field of the reply. *)
LEMMA ReadSteps ==
  ASSUME TypeOK
  PROVE  /\ ReadCode => /\ server.pc = "readCode" /\ server'.pc = "readOut"
                        /\ server'.for = server.for /\ server'.obj = server.obj
                        /\ server'.reply.code = record[server.obj].code
         /\ ReadOut => /\ server.pc = "readOut" /\ server'.pc = "readComplete"
                       /\ server'.for = server.for /\ server'.obj = server.obj
                       /\ server'.reply.code = server.reply.code
                       /\ server'.reply.out = record[server.obj].out
         /\ ReadComplete => /\ server.pc = "readComplete" /\ server'.pc = "answer"
                            /\ server'.for = server.for /\ server'.obj = server.obj
                            /\ server'.reply.code = server.reply.code
                            /\ server'.reply.out = server.reply.out
                            /\ server'.reply.complete = record[server.obj].complete
<1>1. server.reply \in ProgramResult
  BY DEF TypeOK
<1>2. ASSUME ReadCode
      PROVE  /\ server.pc = "readCode" /\ server'.pc = "readOut"
             /\ server'.for = server.for /\ server'.obj = server.obj
             /\ server'.reply.code = record[server.obj].code
  BY <1>1, <1>2 DEF ReadCode, TypeOK
<1>3. ASSUME ReadOut
      PROVE  /\ server.pc = "readOut" /\ server'.pc = "readComplete"
             /\ server'.for = server.for /\ server'.obj = server.obj
             /\ server'.reply.code = server.reply.code
             /\ server'.reply.out = record[server.obj].out
  BY <1>1, <1>3 DEF ReadOut, TypeOK
<1>4. ASSUME ReadComplete
      PROVE  /\ server.pc = "readComplete" /\ server'.pc = "answer"
             /\ server'.for = server.for /\ server'.obj = server.obj
             /\ server'.reply.code = server.reply.code
             /\ server'.reply.out = server.reply.out
             /\ server'.reply.complete = record[server.obj].complete
  BY <1>1, <1>4 DEF ReadComplete, TypeOK
<1>5. QED
  BY <1>2, <1>3, <1>4

-----------------------------------------------------------------------------
(* A call sends its next request only when the last one has been answered. *)
LEMMA NextRequest == IInv /\ [Next]_vars => OneRequest'
<1> SUFFICES ASSUME IInv, [Next]_vars
             PROVE  OneRequest'
  OBVIOUS
<1> USE DEF osVars, callbackVars, agentVars, callerVars
<1>t. TypeOK /\ OneRequest
  BY DEF IInv
<1>f. /\ server.pc # "idle" => server.for \in Programs
      /\ ToSet(inbox) \subseteq Programs
  BY <1>t, ElementsOfSeq DEF TypeOK, OneRequest
<1>0. CASE UNCHANGED <<inbox, caller, server>>
  BY <1>t, <1>0 DEF OneRequest, Waiting
<1>1. ASSUME NEW p \in Programs, Caller(p)
      PROVE  OneRequest'
  <2>1. /\ caller[p] \in {"new", "polling"} /\ inbox' = Append(inbox, p)
        /\ Waiting(p)' /\ server' = server
        /\ \A q \in Programs \ {p} : caller'[q] = caller[q]
    BY <1>t, <1>1 DEF TypeOK, Caller, CallStart, CallResult, Send, Waiting
  <2>2. p \notin ToSet(inbox) /\ p # server.for
    BY <1>t, <2>1, NamesAssumption DEF OneRequest, Waiting, TypeOK
  <2>3. IsInjective(inbox') /\ ToSet(inbox') = ToSet(inbox) \union {p}
    BY <1>t, <2>1, <2>2, AppendNoRepeat, AppendFacts DEF TypeOK, OneRequest
  <2>4. \A q \in ToSet(inbox) : Waiting(q)' /\ q # server.for
    BY <1>t, <1>f, <2>1, <2>2 DEF OneRequest, Waiting
  <2>5. server.pc # "idle" => caller'[server.for] = caller[server.for]
    BY <1>f, <2>1, <2>2
  <2>6. QED
    BY <1>t, <2>1, <2>2, <2>3, <2>4, <2>5 DEF OneRequest, Waiting
<1>2. CASE Accept
  <2>1. /\ Head(inbox) \in ToSet(inbox) /\ IsInjective(inbox')
        /\ ToSet(inbox') = ToSet(inbox) \ {Head(inbox)}
    BY <1>t, <1>2, TailNoRepeat DEF TypeOK, Accept, OneRequest
  <2>2. /\ server'.for = Head(inbox) /\ caller' = caller
        /\ server'.pc = IF caller[Head(inbox)] = "starting" THEN "launch" ELSE "fetch"
    BY <1>2 DEF Accept
  <2>3. QED
    BY <1>t, <1>f, <2>1, <2>2, NamesAssumption DEF OneRequest, Waiting
<1>3. CASE \/ Launch \/ Register \/ Subscribe \/ Fetch
           \/ ReadCode \/ ReadOut \/ ReadComplete
  <2>1. /\ UNCHANGED <<inbox, caller>> /\ server'.for = server.for
        /\ server.pc # "idle" /\ server'.pc # "idle"
        /\ server'.pc \in Launching => server.pc \in Launching
    <3>1. UNCHANGED <<inbox, caller>>
      BY <1>3 DEF Launch, Register, Subscribe, Fetch, ReadCode, ReadOut, ReadComplete
    <3>2. QED
      BY <1>t, <1>3, <3>1, ReadSteps DEF TypeOK, Launch, Register, Subscribe, Fetch, Step
  <2>2. QED
    BY <1>t, <1>f, <2>1, NamesAssumption DEF OneRequest, Waiting
<1>4. CASE LaunchFails \/ Answer
  <2>1. /\ server' = Idle /\ inbox' = inbox
        /\ \A q \in Programs \ {server.for} : caller'[q] = caller[q]
        /\ server.for \notin ToSet(inbox)
    BY <1>t, <1>4 DEF TypeOK, LaunchFails, Answer, OneRequest
  <2>2. \A q \in ToSet(inbox) : Waiting(q)' /\ q # NoProgram
    BY <1>t, <1>f, <2>1, NamesAssumption DEF OneRequest, Waiting
  <2>3. QED
    BY <1>t, <2>1, <2>2 DEF OneRequest
<1>5. ASSUME NEW p \in Programs, Exit(p) \/ ExitedCallback(p)
      PROVE  UNCHANGED <<inbox, caller, server>>
  BY <1>5 DEF Exit, ExitedCallback, RaiseExited, TakeLock, ReadOutput, SetCode,
              SetComplete, Callback
<1>6. QED
  BY <1>0, <1>1, <1>2, <1>3, <1>4, <1>5 DEF Next, Server, vars

(* A program is launched by its first request only, and an id that the
   dictionary knows is known for good. *)
LEMMA NextLaunched == IInv /\ [Next]_vars => LaunchedOnce'
<1> SUFFICES ASSUME IInv, [Next]_vars
             PROVE  LaunchedOnce'
  OBVIOUS
<1> USE DEF osVars, callbackVars, agentVars, callerVars
<1>t. TypeOK /\ OneRequest /\ LaunchedOnce /\ TypeOK'
  BY NextType DEF IInv
<1>f. /\ server.pc # "idle" => server.for \in Programs
      /\ ToSet(inbox) \subseteq Programs
  BY <1>t, ElementsOfSeq DEF TypeOK, OneRequest
<1>0. CASE UNCHANGED vars
  BY <1>t, <1>0 DEF LaunchedOnce, NotLaunched, AtServer, Known, vars
<1>1. ASSUME NEW p \in Programs, Caller(p)
      PROVE  LaunchedOnce'
  <2>1. /\ caller[p] = "new" => caller'[p] = "starting"
        /\ caller[p] # "new" => caller[p] = "polling" /\ caller'[p] = "asking"
        /\ inbox' = Append(inbox, p)
        /\ UNCHANGED <<os, pid, results, server>>
        /\ \A q \in Programs \ {p} : caller'[q] = caller[q]
    BY <1>t, <1>1 DEF TypeOK, Caller, CallStart, CallResult, Send
  <2>2. ToSet(inbox') = ToSet(inbox) \union {p}
    BY <1>t, <2>1, AppendFacts DEF TypeOK
  <2>3. \A q \in Programs : NotLaunched(q)' => NotLaunched(q)
    BY <1>t, <2>1, <2>2 DEF NotLaunched, AtServer
  <2>4. \A q \in Programs : caller'[q] \in {"polling", "asking", "returned"} =>
          caller[q] \in {"polling", "asking", "returned"}
    BY <2>1
  <2>5. QED
    BY <1>t, <2>1, <2>3, <2>4 DEF LaunchedOnce, AtServer, Known
<1>2. CASE Accept
  <2>1. /\ Head(inbox) \in ToSet(inbox)
        /\ ToSet(inbox') = ToSet(inbox) \ {Head(inbox)}
    BY <1>t, <1>2, TailNoRepeat DEF TypeOK, Accept, OneRequest
  <2>2. /\ server'.for = Head(inbox)
        /\ server'.pc = IF caller[Head(inbox)] = "starting" THEN "launch" ELSE "fetch"
        /\ UNCHANGED <<os, pid, results, caller>>
    BY <1>2 DEF Accept
  <2>3. caller[Head(inbox)] \in {"starting", "asking"}
    BY <1>t, <2>1 DEF OneRequest, Waiting
  <2>4. QED
    BY <1>t, <2>1, <2>2, <2>3 DEF LaunchedOnce, NotLaunched, AtServer, Known
<1>3. CASE Launch
  <2>1. PICK n \in Pids : pid' = [pid EXCEPT ![server.for] = n]
    BY <1>3 DEF Launch
  <2>2. /\ server.pc = "launch" /\ server'.pc = "register" /\ server'.for = server.for
        /\ os' = [os EXCEPT ![server.for] = "running"]
        /\ UNCHANGED <<results, inbox, caller>>
    BY <1>t, <1>3 DEF Launch, Step, TypeOK
  <2>3. server.for \in Programs /\ server.for \notin ToSet(inbox)
        /\ caller[server.for] = "starting"
    BY <1>t, <1>f, <2>2 DEF OneRequest
  <2>4. /\ pid'[server.for] = n /\ n # NoPid /\ os'[server.for] = "running"
        /\ \A q \in Programs \ {server.for} : pid'[q] = pid[q] /\ os'[q] = os[q]
    BY <1>t, <2>1, <2>2, <2>3, NamesAssumption DEF TypeOK
  <2>5. QED
    BY <1>t, <2>2, <2>3, <2>4 DEF LaunchedOnce, NotLaunched, AtServer, Known
<1>4. CASE Register
  <2>1. /\ server.pc = "register" /\ server'.pc = "subscribe" /\ server'.for = server.for
        /\ results' = [results EXCEPT ![pid[server.for]] = server.for]
        /\ UNCHANGED <<os, pid, inbox, caller>>
    BY <1>t, <1>4 DEF Register, Registered, Step, TypeOK
  <2>2. server.for \in Programs /\ pid[server.for] \in Pids
    BY <1>t, <1>f, <2>1 DEF LaunchedOnce, AtServer, TypeOK
  <2>3. /\ results'[pid[server.for]] = server.for
        /\ \A q \in Programs : Known(q) => Known(q)'
    BY <1>t, <2>1, <2>2 DEF Known, TypeOK
  <2>4. QED
    BY <1>t, <2>1, <2>2, <2>3 DEF LaunchedOnce, NotLaunched, AtServer, Known
<1>5. CASE Subscribe \/ Fetch \/ ReadCode \/ ReadOut \/ ReadComplete
  <2>1. /\ UNCHANGED <<os, pid, results, inbox, caller>> /\ server'.for = server.for
        /\ server.pc \in {"subscribe", "fetch"} \union Reading
        /\ server'.pc \notin {"launch", "register"}
    <3>1. UNCHANGED <<os, pid, results, inbox, caller>>
      BY <1>5 DEF Subscribe, Fetch, ReadCode, ReadOut, ReadComplete
    <3>2. CASE Subscribe
      BY <1>t, <3>1, <3>2 DEF TypeOK, Subscribe, Step
    <3>3. CASE Fetch
      BY <1>t, <3>1, <3>3 DEF TypeOK, Fetch
    <3>4. CASE ReadCode \/ ReadOut \/ ReadComplete
      BY <1>t, <3>1, <3>4, ReadSteps
    <3>5. QED
      BY <1>5, <3>2, <3>4, <3>3
  <2>2. QED
    BY <1>t, <2>1 DEF LaunchedOnce, NotLaunched, AtServer, Known
<1>6. CASE LaunchFails \/ Answer
  <2>1. /\ server' = Idle /\ UNCHANGED <<os, pid, results, inbox>>
        /\ \A q \in Programs \ {server.for} : caller'[q] = caller[q]
        /\ server.for \notin ToSet(inbox)
        /\ caller'[server.for] # "new"
        /\ LaunchFails => caller'[server.for] = "failed"
        /\ Answer => server.pc = "answer"
    BY <1>t, <1>f, <1>6 DEF TypeOK, LaunchFails, Answer, OneRequest
  <2>2. QED
    BY <1>t, <1>f, <1>6, <2>1 DEF LaunchedOnce, NotLaunched, AtServer, Known
<1>7. ASSUME NEW p \in Programs, Exit(p) \/ ExitedCallback(p)
      PROVE  LaunchedOnce'
  <2>1. /\ UNCHANGED <<pid, results, server, inbox, caller>>
        /\ \A q \in Programs : os'[q] = "none" <=> os[q] = "none"
    BY <1>t, <1>7 DEF Exit, ExitedCallback, RaiseExited, TakeLock, ReadOutput,
                      SetCode, SetComplete, Callback, TypeOK
  <2>2. QED
    BY <1>t, <2>1 DEF LaunchedOnce, NotLaunched, AtServer, Known
<1>8. QED
  BY <1>0, <1>1, <1>2, <1>3, <1>4, <1>5, <1>6, <1>7 DEF Next, Server

(* An id is given out again only when the process that had it has exited, so a
   dictionary entry is overwritten only then. *)
LEMMA NextReused == IInv /\ [Next]_vars => ReusedAfterExit'
<1> SUFFICES ASSUME IInv, [Next]_vars
             PROVE  ReusedAfterExit'
  OBVIOUS
<1> USE DEF osVars, callbackVars, agentVars, callerVars
<1>t. TypeOK /\ OneRequest /\ LaunchedOnce /\ ReusedAfterExit
  BY DEF IInv
<1>f. server.pc # "idle" => server.for \in Programs
  BY <1>t DEF TypeOK, OneRequest
<1>0. ASSUME UNCHANGED <<os, pid, results>>,
             server'.pc # "register" /\ server.pc # "register"
      PROVE  ReusedAfterExit'
  BY <1>t, <1>0 DEF ReusedAfterExit, Registering, AtServer, Replaced
<1>1. ASSUME UNCHANGED <<pid, results, server>>,
             \A p \in Programs : os[p] = "exited" => os'[p] = "exited"
      PROVE  ReusedAfterExit'
  BY <1>t, <1>1 DEF ReusedAfterExit, Registering, AtServer, Replaced
<1>2. CASE Launch
  <2>1. PICK n \in Pids : /\ pid' = [pid EXCEPT ![server.for] = n]
                          /\ \A q \in Programs : os[q] = "running" => pid[q] # n
    BY <1>2 DEF Launch
  <2>2. /\ server.pc = "launch" /\ server'.pc = "register" /\ server'.for = server.for
        /\ os' = [os EXCEPT ![server.for] = "running"] /\ results' = results
        /\ server.for \in Programs
    BY <1>t, <1>f, <1>2 DEF Launch, Step, TypeOK
  <2>3. /\ pid'[server.for] = n
        /\ \A q \in Programs \ {server.for} : pid'[q] = pid[q] /\ os'[q] = os[q]
    BY <1>t, <2>1, <2>2 DEF TypeOK
  <2>4. \A q \in Programs : pid[q] = n => os[q] = "exited"
    BY <1>t, <2>1, NamesAssumption DEF LaunchedOnce, TypeOK
  <2>5. QED
    BY <1>t, <2>2, <2>3, <2>4 DEF ReusedAfterExit, Registering, AtServer, Replaced
<1>3. CASE Register
  <2>1. /\ server.pc = "register" /\ server'.pc = "subscribe" /\ server'.for = server.for
        /\ results' = [results EXCEPT ![pid[server.for]] = server.for]
        /\ UNCHANGED <<os, pid>>
    BY <1>t, <1>3 DEF Register, Registered, Step, TypeOK
  <2>2. server.for \in Programs /\ pid[server.for] \in Pids
    BY <1>t, <1>f, <2>1 DEF LaunchedOnce, AtServer, TypeOK
  <2>3. ASSUME NEW p \in Programs, Replaced(p)'
        PROVE  os'[p] = "exited"
    <3>1. p # server.for
      BY <1>t, <2>1, <2>2, <2>3 DEF Replaced, TypeOK
    <3>2. CASE pid[p] = pid[server.for]
      BY <1>t, <2>1, <2>2, <3>1, <3>2 DEF ReusedAfterExit, Registering, AtServer
    <3>3. CASE pid[p] # pid[server.for]
      BY <1>t, <2>1, <2>2, <2>3, <3>1, <3>3
      DEF ReusedAfterExit, Registering, AtServer, Replaced, TypeOK
    <3>4. QED
      BY <3>2, <3>3
  <2>4. QED
    BY <2>1, <2>3 DEF ReusedAfterExit, Registering, AtServer
<1>4. CASE \/ Accept \/ LaunchFails \/ Subscribe \/ Fetch \/ Answer
           \/ ReadCode \/ ReadOut \/ ReadComplete
  <2>1. UNCHANGED <<os, pid, results>>
    BY <1>4 DEF Accept, LaunchFails, Subscribe, Fetch, Answer, ReadCode, ReadOut,
                ReadComplete
  <2>2. CASE LaunchFails \/ Answer
    BY <1>0, <2>1, <2>2 DEF LaunchFails, Answer
  <2>3. CASE Accept
    BY <1>0, <2>1, <2>3 DEF Accept
  <2>4. CASE Subscribe
    BY <1>0, <1>t, <2>1, <2>4 DEF Subscribe, Step, TypeOK
  <2>5. CASE Fetch
    BY <1>0, <1>t, <2>1, <2>5 DEF Fetch, TypeOK
  <2>6. CASE ReadCode \/ ReadOut \/ ReadComplete
    BY <1>0, <1>t, <2>1, <2>6, ReadSteps
  <2>7. QED
    BY <1>4, <2>2, <2>4, <2>5, <2>6, <2>3
<1>5. ASSUME NEW p \in Programs, Caller(p) \/ Exit(p) \/ ExitedCallback(p)
      PROVE  ReusedAfterExit'
  <2>1. UNCHANGED <<pid, results, server>>
    BY <1>5 DEF Caller, CallStart, CallResult, Send, Exit, ExitedCallback, RaiseExited,
                TakeLock, ReadOutput, SetCode, SetComplete, Callback
  <2>2. os' = os \/ os' = [os EXCEPT ![p] = "exited"]
    BY <1>5 DEF Caller, CallStart, CallResult, Send, Exit, ExitedCallback, RaiseExited,
                TakeLock, ReadOutput, SetCode, SetComplete, Callback
  <2>3. QED
    BY <1>1, <1>t, <2>1, <2>2 DEF TypeOK
<1>6. QED
  BY <1>1, <1>2, <1>3, <1>4, <1>5 DEF Next, Server, vars

(* Output, exit code, Complete: the callback sets them in this order, and only
   for a process that has exited, whose exit code changes no more. *)
LEMMA NextRecord == IInv /\ [Next]_vars => RecordInOrder'
<1> SUFFICES ASSUME IInv, [Next]_vars
             PROVE  RecordInOrder'
  OBVIOUS
<1> USE DEF osVars, callbackVars, agentVars, callerVars
<1>t. TypeOK /\ OneRequest /\ LaunchedOnce /\ RecordInOrder
  BY DEF IInv
<1>f. server.pc # "idle" => server.for \in Programs
  BY <1>t DEF TypeOK, OneRequest
<1>0. CASE UNCHANGED <<os, exitCode, handler, record, raised>>
  BY <1>t, <1>0 DEF RecordInOrder
<1>1. CASE Launch
  <2>1. os' = [os EXCEPT ![server.for] = "running"]
        /\ UNCHANGED <<exitCode, handler, record, raised>>
    BY <1>1 DEF Launch
  <2>2. server.for \in Programs /\ os[server.for] = "none"
    BY <1>t, <1>f, <1>1 DEF LaunchedOnce, NotLaunched, AtServer, Launch, Step
  <2>3. QED
    BY <1>t, <2>1, <2>2 DEF RecordInOrder, TypeOK
<1>2. ASSUME NEW p \in Programs, Exit(p)
      PROVE  RecordInOrder'
  <2>1. PICK c \in ExitCodes : exitCode' = [exitCode EXCEPT ![p] = c]
    BY <1>2 DEF Exit
  <2>2. /\ os[p] = "running" /\ os' = [os EXCEPT ![p] = "exited"]
        /\ UNCHANGED <<handler, record, raised>>
    BY <1>2 DEF Exit
  <2>3. QED
    BY <1>t, <2>1, <2>2 DEF RecordInOrder, TypeOK
<1>3. ASSUME NEW p \in Programs, ExitedCallback(p)
      PROVE  RecordInOrder'
  <2>0. UNCHANGED <<os, exitCode>> /\ record[p] \in ProgramResult
    BY <1>t, <1>3 DEF ExitedCallback, RaiseExited, TakeLock, ReadOutput, SetCode,
                      SetComplete, Callback, TypeOK
  <2>1. CASE RaiseExited(p)
    BY <1>t, <2>0, <2>1 DEF RaiseExited, RecordInOrder, TypeOK
  <2>2. CASE TakeLock(p)
    BY <1>t, <2>0, <2>2 DEF TakeLock, Callback, RecordInOrder, TypeOK
  <2>3. CASE ReadOutput(p)
    BY <1>t, <2>0, <2>3 DEF ReadOutput, Callback, RecordInOrder, TypeOK
  <2>4. CASE SetCode(p)
    BY <1>t, <2>0, <2>4 DEF SetCode, Callback, RecordInOrder, TypeOK
  <2>5. CASE SetComplete(p)
    BY <1>t, <2>0, <2>5 DEF SetComplete, Callback, RecordInOrder, TypeOK
  <2>6. QED
    BY <1>3, <2>1, <2>2, <2>3, <2>4, <2>5 DEF ExitedCallback
<1>4. ASSUME NEW p \in Programs, Caller(p)
      PROVE  RecordInOrder'
  BY <1>0, <1>4 DEF Caller, CallStart, CallResult, Send
<1>5. CASE \/ Accept \/ LaunchFails \/ Register \/ Subscribe \/ Fetch \/ Answer
           \/ ReadCode \/ ReadOut \/ ReadComplete
  BY <1>0, <1>5 DEF Accept, LaunchFails, Register, Subscribe, Fetch, Answer, ReadCode,
                    ReadOut, ReadComplete
<1>6. QED
  BY <1>0, <1>1, <1>2, <1>3, <1>4, <1>5 DEF Next, Server, vars

(* What the server has read stays right while the callback writes: either the
   write comes first, or the answer counts as torn. *)
LEMMA NextRead == IInv /\ [Next]_vars => ReadUntorn'
<1> SUFFICES ASSUME IInv, [Next]_vars
             PROVE  ReadUntorn'
  OBVIOUS
<1> USE DEF osVars, callbackVars, agentVars, callerVars
<1>t. TypeOK /\ OneRequest /\ LaunchedOnce /\ RecordInOrder /\ ReadUntorn
  BY DEF IInv
<1>f. server.pc # "idle" => server.for \in Programs
  BY <1>t DEF TypeOK, OneRequest
<1>0. CASE UNCHANGED <<pid, results, exitCode, handler, torn, server>>
  BY <1>t, <1>0 DEF ReadUntorn, CodeRead, Replaced
<1>1. ASSUME server'.pc \notin Reading
      PROVE  ReadUntorn'
  BY <1>1 DEF ReadUntorn
<1>2. CASE Accept \/ Launch \/ LaunchFails \/ Register \/ Subscribe \/ Answer
  <2>1. CASE Accept
    BY <1>1, <2>1 DEF Accept
  <2>2. CASE Launch \/ Register \/ Subscribe
    BY <1>1, <1>t, <2>2 DEF Launch, Register, Subscribe, Step, TypeOK
  <2>3. CASE LaunchFails \/ Answer
    BY <1>1, <2>3 DEF LaunchFails, Answer
  <2>4. QED
    BY <1>2, <2>1, <2>2, <2>3
<1>3. CASE Fetch
  <2>1. /\ server.pc = "fetch" /\ server'.pc = "readCode" /\ server'.for = server.for
        /\ server'.obj = results[pid[server.for]] /\ UNCHANGED <<pid, results>>
    BY <1>t, <1>3 DEF Fetch, TypeOK
  <2>2. Known(server.for)
    BY <1>t, <1>f, <2>1 DEF LaunchedOnce, AtServer
  <2>3. QED
    BY <1>t, <2>1, <2>2 DEF ReadUntorn, Replaced, Known
<1>4. CASE ReadCode \/ ReadOut \/ ReadComplete
  <2>1. UNCHANGED <<pid, results, exitCode, handler, record, torn>>
    BY <1>4 DEF ReadCode, ReadOut, ReadComplete
  <2>2. server.obj \in Programs /\ (server.obj = server.for \/ Replaced(server.for))
    BY <1>t, <1>4, ReadSteps DEF ReadUntorn
  <2>3. CASE ReadCode
    BY <1>t, <2>1, <2>2, <2>3, ReadSteps DEF ReadUntorn, CodeRead, RecordInOrder, Replaced
  <2>4. CASE ReadOut
    BY <1>t, <2>1, <2>2, <2>4, ReadSteps DEF ReadUntorn, CodeRead, RecordInOrder, Replaced
  <2>5. CASE ReadComplete
    BY <1>t, <2>1, <2>2, <2>5, ReadSteps DEF ReadUntorn, CodeRead, RecordInOrder, Replaced
  <2>6. QED
    BY <1>4, <2>3, <2>4, <2>5
<1>5. ASSUME NEW p \in Programs, Exit(p)
      PROVE  ReadUntorn'
  <2>1. PICK c \in ExitCodes : exitCode' = [exitCode EXCEPT ![p] = c]
    BY <1>5 DEF Exit
  <2>2. /\ handler[p] = "idle"
        /\ UNCHANGED <<pid, results, handler, torn, server>>
    BY <1>t, <1>5 DEF Exit, RecordInOrder
  <2>3. ASSUME NEW o \in Programs, handler[o] \in {"complete", "finished"}
        PROVE  exitCode'[o] = exitCode[o]
    BY <1>t, <2>1, <2>2, <2>3 DEF TypeOK
  <2>4. QED
    BY <1>t, <2>2, <2>3 DEF ReadUntorn, CodeRead, Replaced
<1>6. ASSUME NEW p \in Programs, ExitedCallback(p)
      PROVE  ReadUntorn'
  <2>1. UNCHANGED <<pid, results, exitCode, server>>
    BY <1>6 DEF ExitedCallback, RaiseExited, TakeLock, ReadOutput, SetCode, SetComplete,
                Callback
  <2>2. CASE SetCode(p)
    <3>1. /\ handler[p] = "setCode" /\ handler' = [handler EXCEPT ![p] = "complete"]
          /\ torn \subseteq torn'
          /\ server.obj = p /\ server.pc \in {"readOut", "readComplete"} =>
               server.for \in torn'
      BY <2>2 DEF SetCode, Callback
    <3>2. QED
      BY <1>t, <2>1, <3>1 DEF ReadUntorn, CodeRead, Replaced, TypeOK
  <2>3. CASE ~SetCode(p)
    <3>1. /\ torn' = torn
          /\ \A o \in Programs : handler'[o] \in {"complete", "finished"} =>
               handler[o] \in {"complete", "finished"}
          /\ \A o \in Programs : handler[o] = "finished" => handler'[o] = "finished"
      BY <1>t, <1>6, <2>3
      DEF ExitedCallback, RaiseExited, TakeLock, ReadOutput, SetComplete, Callback,
          RecordInOrder, TypeOK
    <3>2. QED
      BY <1>t, <2>1, <3>1 DEF ReadUntorn, CodeRead, Replaced
  <2>4. QED
    BY <2>2, <2>3
<1>7. ASSUME NEW p \in Programs, Caller(p)
      PROVE  ReadUntorn'
  BY <1>0, <1>7 DEF Caller, CallStart, CallResult, Send
<1>8. QED
  BY <1>0, <1>2, <1>3, <1>4, <1>5, <1>6, <1>7 DEF Next, Server, vars

(* What RunProgram returns is its own program's result, and stays so. *)
LEMMA NextOwn == IInv /\ [Next]_vars => ResultIsOwn'
<1> SUFFICES ASSUME IInv, [Next]_vars,
                    NEW p \in Programs, caller'[p] = "returned"
             PROVE  /\ os'[p] = "exited"
                    /\ ~Replaced(p)' /\ p \notin torn' =>
                         got'[p] = [code |-> exitCode'[p], out |-> TRUE, complete |-> TRUE]
  BY DEF ResultIsOwn, Replaced
<1> USE DEF osVars, callbackVars, agentVars, callerVars
<1>t. /\ TypeOK /\ OneRequest /\ LaunchedOnce /\ ReusedAfterExit
      /\ RecordInOrder /\ ReadUntorn /\ ResultIsOwn
  BY DEF IInv
<1>f. server.pc # "idle" => server.for \in Programs
  BY <1>t DEF TypeOK, OneRequest
<1>1. CASE caller[p] = "returned"
  <2>1. /\ os[p] = "exited" /\ Known(p)
        /\ ~Replaced(p) /\ p \notin torn =>
             got[p] = [code |-> exitCode[p], out |-> TRUE, complete |-> TRUE]
    BY <1>t, <1>1 DEF ResultIsOwn, LaunchedOnce
  <2>2. server.for # p
    BY <1>t, <1>1, NamesAssumption DEF OneRequest, Waiting
  <2>3. os'[p] = os[p] /\ exitCode'[p] = exitCode[p] /\ pid'[p] = pid[p]
    <3>1. CASE Launch
      BY <1>t, <1>f, <2>2, <3>1 DEF Launch, Step, TypeOK
    <3>2. ASSUME NEW q \in Programs, Exit(q)
          PROVE  os'[p] = os[p] /\ exitCode'[p] = exitCode[p] /\ pid'[p] = pid[p]
      BY <1>t, <2>1, <3>2 DEF Exit, TypeOK
    <3>3. CASE UNCHANGED osVars
      BY <3>3
    <3>4. QED
      BY <3>1, <3>2, <3>3
      DEF Next, Server, vars, Accept, LaunchFails, Register, Subscribe, Fetch, Answer,
          ReadCode, ReadOut, ReadComplete, Caller, CallStart, CallResult, Send,
          ExitedCallback, RaiseExited, TakeLock, ReadOutput, SetCode, SetComplete, Callback
  <2>4. got'[p] = got[p]
    <3>1. CASE Answer
      BY <1>t, <1>f, <2>2, <3>1 DEF Answer, TypeOK
    <3>2. CASE got' = got
      BY <3>2
    <3>3. QED
      BY <3>1, <3>2
      DEF Next, Server, vars, Accept, Launch, LaunchFails, Register, Subscribe, Fetch,
          ReadCode, ReadOut, ReadComplete, Caller, CallStart, CallResult, Send, Exit,
          ExitedCallback, RaiseExited, TakeLock, ReadOutput, SetCode, SetComplete, Callback
  <2>5. Replaced(p) => Replaced(p)'
    <3>1. CASE Register
      BY <1>t, <1>f, <2>1, <2>2, <2>3, <3>1
      DEF Register, Registered, Step, Replaced, Known, LaunchedOnce, TypeOK
    <3>2. CASE results' = results
      BY <2>3, <3>2 DEF Replaced
    <3>3. QED
      BY <3>1, <3>2
      DEF Next, Server, vars, Accept, Launch, LaunchFails, Subscribe, Fetch, Answer,
          ReadCode, ReadOut, ReadComplete, Caller, CallStart, CallResult, Send, Exit,
          ExitedCallback, RaiseExited, TakeLock, ReadOutput, SetCode, SetComplete, Callback
  <2>6. p \in torn => p \in torn'
    <3>1. CASE Fetch
      BY <2>2, <3>1 DEF Fetch
    <3>2. CASE torn \subseteq torn'
      BY <3>2
    <3>3. QED
      BY <3>1, <3>2
      DEF Next, Server, vars, Accept, Launch, LaunchFails, Register, Subscribe, Answer,
          ReadCode, ReadOut, ReadComplete, Caller, CallStart, CallResult, Send, Exit,
          ExitedCallback, RaiseExited, TakeLock, ReadOutput, SetCode, SetComplete, Callback
  <2>7. QED
    BY <2>1, <2>3, <2>4, <2>5, <2>6
<1>2. CASE caller[p] # "returned"
  <2>1. Answer
    BY <1>t, <1>2
    DEF Next, Server, vars, Accept, Launch, LaunchFails, Register, Subscribe, Fetch,
        ReadCode, ReadOut, ReadComplete, Caller, CallStart, CallResult, Send, Exit,
        ExitedCallback, RaiseExited, TakeLock, ReadOutput, SetCode, SetComplete, Callback,
        TypeOK
  <2>2. /\ server.pc = "answer" /\ server.for = p
        /\ server.reply.complete /\ got'[p] = server.reply
        /\ UNCHANGED <<os, pid, exitCode, results, torn>>
    BY <1>t, <1>f, <1>2, <2>1 DEF Answer, Returns, TypeOK
  <2>3. /\ server.obj \in Programs /\ (server.obj = p \/ Replaced(p))
        /\ handler[server.obj] = "finished"
        /\ p \notin torn => CodeRead /\ server.reply.out
    BY <1>t, <2>2 DEF ReadUntorn
  <2>4. os[p] = "exited"
    BY <1>t, <2>2, <2>3 DEF RecordInOrder, ReusedAfterExit, Registering, AtServer
  <2>5. Replaced(p)' <=> Replaced(p)
    BY <2>2 DEF Replaced
  <2>6. ASSUME ~Replaced(p), p \notin torn
        PROVE  got'[p] = [code |-> exitCode[p], out |-> TRUE, complete |-> TRUE]
    <3>1. /\ server.reply \in ProgramResult
          /\ server.reply.code = exitCode[p] /\ server.reply.out = TRUE
          /\ server.reply.complete = TRUE
      BY <1>t, <2>2, <2>3, <2>6 DEF CodeRead, TypeOK
    <3>2. QED
      BY <2>2, <3>1
  <2>7. QED
    BY <2>2, <2>4, <2>5, <2>6
<1>3. QED
  BY <1>1, <1>2

(* The invariant that the argument rests on. *)
THEOREM InvariantHolds == Spec => []IInv
<1>1. IInv /\ [Next]_vars => IInv'
  BY NextType, NextRequest, NextLaunched, NextReused, NextRecord, NextRead, NextOwn
  DEF IInv
<1>2. QED
  BY InitHolds, <1>1, PTL DEF Spec

(* RunProgram returns only after the exit of its program, with that program's
   exit code and output, unless the answer is torn or the id was given out
   again (VMAgentServer.cs, Machine.cs). *)
THEOREM ResultIsOwnHolds == Spec => []ResultIsOwn
<1>1. IInv => ResultIsOwn
  BY DEF IInv
<1>2. QED
  BY InvariantHolds, <1>1, PTL
=============================================================================
