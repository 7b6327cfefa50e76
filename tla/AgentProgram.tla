---------------------------- MODULE AgentProgram ----------------------------
(* Running a program on a virtual machine: VirtualboxMachine.RunProgram asks
   the agent in the machine to start it and then polls for its result
   (VMLib/VM/Virtualbox/Machine.cs, VMAgent/RemoteInterface.cs); the agent's one
   HTTP thread starts processes and serialises their ProgramResult objects,
   while the Exited callbacks of the processes fill those objects in on other
   threads (VMAgent/VMAgentServer.cs). *)
EXTENDS Naturals, Sequences

CONSTANTS Programs,    \* calls of RunProgram, each with the process it starts
          NoProgram,
          Pids,        \* process ids of the machine's operating system
          NoPid,
          Lingering    \* programs that leave a child holding their output open

ASSUME NamesAssumption == NoProgram \notin Programs /\ NoPid \notin Pids
ASSUME KindsAssumption == Lingering \subseteq Programs

ExitCodes == {0, 1}

VARIABLES
  os,          \* the process: "none", "running", "exited"
  pid,         \* its id, kept after its exit
  exitCode,    \* what it exited with
  results,     \* the agent's dictionary: whose ProgramResult an id leads to
  record,      \* the ProgramResult objects
  subscribed,  \* programs whose Exited handler has been attached
  raised,      \* programs whose Exited event has been raised
  handler,     \* the Exited callback: "idle", "pending", "reading", ...
  lock,        \* the callback inside lock(results), or NoProgram
  inbox,       \* requests the HTTP thread has not accepted, by caller
  server,      \* the HTTP thread: step, caller, object and reply at hand
  caller,      \* RunProgram: "new", "starting", "polling", "asking", ...
  got,         \* the ProgramResult that RunProgram returned
  torn         \* history: calls whose latest answer was written out while
               \* the callback was writing what had been read already

osVars == <<os, pid, exitCode>>
callbackVars == <<raised, handler, lock, record, torn>>
agentVars == <<results, subscribed, server, inbox>>
callerVars == <<caller, got>>
vars == <<osVars, callbackVars, agentVars, callerVars>>

FreshRecord == [code |-> 0, out |-> FALSE, complete |-> FALSE]
Idle == [pc |-> "idle", for |-> NoProgram, obj |-> NoProgram,
         reply |-> FreshRecord]

Init ==
  /\ os = [p \in Programs |-> "none"] /\ pid = [p \in Programs |-> NoPid]
  /\ exitCode = [p \in Programs |-> 0]
  /\ results = [n \in Pids |-> NoProgram]
  /\ record = [p \in Programs |-> FreshRecord]
  /\ subscribed = {} /\ raised = {}
  /\ handler = [p \in Programs |-> "idle"] /\ lock = NoProgram
  /\ inbox = <<>> /\ server = Idle
  /\ caller = [p \in Programs |-> "new"]
  /\ got = [p \in Programs |-> FreshRecord]
  /\ torn = {}

-----------------------------------------------------------------------------
(* RunProgram: StartProgram, then GetProgramResult until it is complete. *)
Send(p, state) ==
  /\ inbox' = Append(inbox, p)
  /\ caller' = [caller EXCEPT ![p] = state]
  /\ UNCHANGED <<osVars, callbackVars, results, subscribed, server, got>>

CallStart(p) == caller[p] = "new" /\ Send(p, "starting")
CallResult(p) == caller[p] = "polling" /\ Send(p, "asking")

-----------------------------------------------------------------------------
(* The HTTP thread takes one request at a time. *)
Accept ==
  /\ server.pc = "idle"
  /\ inbox # <<>>
  /\ LET p == Head(inbox)
     IN server' = [Idle EXCEPT !.pc = IF caller[p] = "starting" THEN "launch"
                                                                ELSE "fetch",
                               !.for = p]
  /\ inbox' = Tail(inbox)
  /\ UNCHANGED <<osVars, callbackVars, results, subscribed, callerVars>>

Step(from, to) ==
  /\ server.pc = from
  /\ server' = [server EXCEPT !.pc = to]

\* Process.Start: the system gives an id no running process has.
Launch ==
  /\ Step("launch", "register")
  /\ \E n \in Pids :
       /\ \A q \in Programs : os[q] = "running" => pid[q] # n
       /\ pid' = [pid EXCEPT ![server.for] = n]
  /\ os' = [os EXCEPT ![server.for] = "running"]
  /\ UNCHANGED <<exitCode, callbackVars, results, subscribed, inbox, callerVars>>

\* Process.Start throws, the answer is 501 and RunProgram throws.
LaunchFails ==
  /\ server.pc = "launch"
  /\ server' = Idle
  /\ caller' = [caller EXCEPT ![server.for] = "failed"]
  /\ UNCHANGED <<osVars, callbackVars, results, subscribed, inbox, got>>

Registered(n, p) == [results EXCEPT ![n] = p]

Register ==
  /\ Step("register", "subscribe")
  /\ results' = Registered(pid[server.for], server.for)
  /\ UNCHANGED <<osVars, callbackVars, subscribed, inbox, callerVars>>

Subscribe ==
  /\ Step("subscribe", "fetch")
  /\ subscribed' = subscribed \union {server.for}
  /\ UNCHANGED <<osVars, callbackVars, results, inbox, callerVars>>

LockFree == lock = NoProgram

(* SendProgramResponse: the lock covers only the look-up; the object is then
   serialised field by field, in the order of its declaration. *)
Fetch ==
  /\ server.pc = "fetch"
  /\ LockFree
  /\ server' = [server EXCEPT !.pc = "readCode", !.obj = results[pid[server.for]]]
  /\ torn' = torn \ {server.for}
  /\ UNCHANGED <<osVars, raised, handler, lock, record, results, subscribed,
                 inbox, callerVars>>

ReadCode ==
  /\ server.pc = "readCode"
  /\ server' = [server EXCEPT !.pc = "readOut",
                              !.reply.code = record[server.obj].code]
  /\ UNCHANGED <<osVars, callbackVars, results, subscribed, inbox, callerVars>>

ReadOut ==
  /\ server.pc = "readOut"
  /\ server' = [server EXCEPT !.pc = "readComplete",
                              !.reply.out = record[server.obj].out]
  /\ UNCHANGED <<osVars, callbackVars, results, subscribed, inbox, callerVars>>

ReadComplete ==
  /\ server.pc = "readComplete"
  /\ server' = [server EXCEPT !.pc = "answer",
                              !.reply.complete = record[server.obj].complete]
  /\ UNCHANGED <<osVars, callbackVars, results, subscribed, inbox, callerVars>>

\* StartProgram's caller uses the id only; a poll ends when Complete is set.
ReturnsAtOnce(reply) == TRUE   \* mutant: RunProgram does not wait for Complete
Returns(reply) == reply.complete

Answer ==
  /\ server.pc = "answer"
  /\ server' = Idle
  /\ LET p == server.for
         returns == caller[p] = "asking" /\ Returns(server.reply)
     IN /\ caller' = [caller EXCEPT ![p] = IF returns THEN "returned" ELSE "polling"]
        /\ got' = IF returns THEN [got EXCEPT ![p] = server.reply] ELSE got
  /\ UNCHANGED <<osVars, callbackVars, results, subscribed, inbox>>

-----------------------------------------------------------------------------
(* The process and its Exited callback. *)
Exit(p) ==
  /\ os[p] = "running"
  /\ os' = [os EXCEPT ![p] = "exited"]
  /\ \E c \in ExitCodes : exitCode' = [exitCode EXCEPT ![p] = c]
  /\ UNCHANGED <<pid, callbackVars, agentVars, callerVars>>

\* The event calls whoever has subscribed by now, once.
RaiseExited(p) ==
  /\ os[p] = "exited"
  /\ p \notin raised
  /\ raised' = raised \union {p}
  /\ handler' = [handler EXCEPT ![p] = IF p \in subscribed THEN "pending" ELSE @]
  /\ UNCHANGED <<osVars, lock, record, torn, agentVars, callerVars>>

Callback(p, from, to) ==
  /\ handler[p] = from
  /\ handler' = [handler EXCEPT ![p] = to]
  /\ UNCHANGED <<osVars, raised, agentVars, callerVars>>

TakeLock(p) ==
  /\ Callback(p, "pending", "reading")
  /\ LockFree
  /\ lock' = p
  /\ UNCHANGED <<record, torn>>

\* ReadToEnd returns when nobody holds the pipe open any more.
ReadOutput(p) ==
  /\ Callback(p, "reading", "setCode")
  /\ p \notin Lingering
  /\ record' = [record EXCEPT ![p].out = TRUE]
  /\ UNCHANGED <<lock, torn>>

SetCode(p) ==
  /\ Callback(p, "setCode", "complete")
  /\ record' = [record EXCEPT ![p].code = exitCode[p]]
  /\ torn' = IF server.obj = p /\ server.pc \in {"readOut", "readComplete"}
             THEN torn \union {server.for} ELSE torn
  /\ UNCHANGED lock

LockKept == lock   \* mutant: Monitor.Exit forgotten
LockFreed == NoProgram
SetComplete(p) ==
  /\ Callback(p, "complete", "finished")
  /\ record' = [record EXCEPT ![p].complete = TRUE]
  /\ lock' = LockFreed
  /\ UNCHANGED torn

-----------------------------------------------------------------------------
Server == \/ Accept \/ Launch \/ LaunchFails \/ Register \/ Subscribe
          \/ Fetch \/ ReadCode \/ ReadOut \/ ReadComplete \/ Answer
Caller(p) == CallStart(p) \/ CallResult(p)
ExitedCallback(p) == \/ RaiseExited(p) \/ TakeLock(p) \/ ReadOutput(p)
                     \/ SetCode(p) \/ SetComplete(p)

Next == \/ Server
        \/ \E p \in Programs : Caller(p) \/ Exit(p) \/ ExitedCallback(p)

Spec == Init /\ [][Next]_vars

(* All threads are scheduled; the HTTP queue is first in, first out. The lock
   is taken by callbacks and, briefly, by the HTTP thread: a callback waits
   for no other callback forever, since each takes it once. A poll goes out a
   second after the last one. Nothing says that a program exits. *)
FairSpec ==
  /\ Spec
  /\ WF_vars(Server)
  /\ \A p \in Programs :
       /\ WF_vars(CallResult(p))
       /\ WF_vars(RaiseExited(p)) /\ WF_vars(TakeLock(p))
       /\ WF_vars(ReadOutput(p)) /\ WF_vars(SetCode(p)) /\ WF_vars(SetComplete(p))

-----------------------------------------------------------------------------
(* RunProgram returns only after its program's exit, and what it returns is
   its own program's exit code with its output, in two cases excepted: the
   id was given to another process, whose record the agent's dictionary then
   leads to, or the answer is torn: Fetch leaves the lock, so the exit code
   may be read before the callback sets it and Complete after. (Then a batch
   file that failed is reported with exit code 0, and passes.) *)
Replaced(p) == pid[p] \in Pids /\ results[pid[p]] # p
ResultIsOwn ==
  \A p \in Programs : caller[p] = "returned" =>
    /\ os[p] = "exited"
    /\ ~Replaced(p) /\ p \notin torn =>
         got[p] = [code |-> exitCode[p], out |-> TRUE, complete |-> TRUE]

(* A RunProgram whose program has exited returns in the end, unless the exit
   was announced before the agent had subscribed to it, the id was given to
   another program, or a callback keeps the lock because a child of its
   program holds the output open. *)
Missed(p) == p \in raised /\ handler[p] = "idle"
LockStuck == lock \in Lingering
EveryExitReported ==
  \A p \in Programs :
    (caller[p] = "polling" /\ os[p] = "exited") ~>
      (caller[p] = "returned" \/ Missed(p) \/ Replaced(p) \/ LockStuck)
=============================================================================
