------------------------------ MODULE AjaxRpc ------------------------------
(* The remote calls of the web pages: GenRPC in the browser (Visor/WebStatic/
   ajax.js), the one thread of HTTPServer, AjaxHandler's keys and tasks, and
   the thread TaskRunner starts for every call. A call that takes longer than
   half a second is answered BUSY with a key, and the page polls with the key.
   What a call does is the subject of other modules: here it returns, throws
   or never comes back. The same thread serves uploads, artifacts and files,
   from beginning to end; what they do is left out, but for the time they take. *)
EXTENDS Naturals, Sequences

CONSTANTS Calls,     \* calls the pages make
          NoCall,
          NoKey,     \* a request with null for a key
          Hanging,   \* calls whose function may never return
          Unwritable, \* calls whose result the serializer refuses (by its length)
          MaxStreams, \* bound: streams and files asked for
          MaxDowns   \* bound: ends of the process

ASSUME CallsAssumption == /\ NoCall \notin Calls
                          /\ Hanging \subseteq Calls /\ Unwritable \subseteq Calls
ASSUME KeysAssumption == NoKey \notin Nat
ASSUME BoundsAssumption == MaxDowns \in Nat /\ MaxStreams \in Nat

VARIABLES
  \* in the browser
  page,        \* page[c]: how far call c is
  key,         \* key[c]: its reqKey
  answer,      \* answer[c]: what its success or fail was called with
  \* in the process
  up,
  inbox,       \* requests the listener has accepted
  server,      \* the HTTP thread: the request it is at, and its runner
  streams,     \* streams and files it has begun to serve
  keyCounter,
  tasks,       \* AjaxHandler's dictionary, from keys to calls
  runner,      \* runner[c]: the TaskRunner of call c
  errored,     \* runners whose function threw
  \* bound and history
  downs,
  issuedIn     \* issuedIn[c]: "downs" when c got its key

browser == <<page, key, answer>>
handler == <<keyCounter, tasks>>
threads == <<runner, errored>>
process == <<up, downs, streams>>
vars == <<browser, inbox, server, handler, threads, process, issuedIn>>

IdleServer == [pc |-> "idle", call |-> NoCall, key |-> NoKey, of |-> NoCall]
NoAnswer == [of |-> NoCall, error |-> FALSE, early |-> FALSE]

Init ==
  /\ page = [c \in Calls |-> "new"] /\ key = [c \in Calls |-> NoKey]
  /\ answer = [c \in Calls |-> NoAnswer]
  /\ up = TRUE /\ inbox = <<>> /\ server = IdleServer /\ streams = 0
  /\ keyCounter = 0 /\ tasks = <<>>
  /\ runner = [c \in Calls |-> "none"] /\ errored = {}
  /\ downs = 0 /\ issuedIn = [c \in Calls |-> 0]

-----------------------------------------------------------------------------
(* The browser: a request that finds no server calls nobody back. *)
Request(c) ==
  /\ page' = [page EXCEPT ![c] = IF up THEN "waiting" ELSE "untold"]
  /\ inbox' = IF up THEN Append(inbox, [call |-> c, key |-> key[c]]) ELSE inbox
  /\ UNCHANGED <<key, answer, server, handler, threads, process, issuedIn>>

Call(c) == page[c] = "new" /\ Request(c)

Due(c) == page[c] = "sleeping"   \* a second after BUSY

Poll(c) == Due(c) /\ Request(c)

Leave(c) ==
  /\ page[c] \in {"waiting", "sleeping"}
  /\ page' = [page EXCEPT ![c] = "left"]
  /\ UNCHANGED <<key, answer, inbox, server, handler, threads, process, issuedIn>>

-----------------------------------------------------------------------------
(* The thread of TaskRunner c. The result is in place before Complete is set. *)
Run(c) ==
  /\ up
  /\ runner[c] = "running"
  /\ runner' = [runner EXCEPT ![c] = "stored"]
  /\ errored' \in {errored, errored \union {c}}
  /\ UNCHANGED <<browser, inbox, server, handler, process, issuedIn>>

SetComplete(c) ==
  /\ up
  /\ runner[c] = "stored"
  /\ runner' = [runner EXCEPT ![c] = "complete"]
  /\ UNCHANGED <<errored, browser, inbox, server, handler, process, issuedIn>>

-----------------------------------------------------------------------------
(* The HTTP thread. A request without a key starts a runner and waits for it
   half a second at most; one with a key looks its runner up. *)
NextKey(n) == n + 1

TakeCall ==
  LET c == Head(inbox).call
  IN /\ up /\ server.pc = "idle"
     /\ inbox # <<>> /\ Head(inbox).key = NoKey
     /\ inbox' = Tail(inbox)
     /\ runner' = [runner EXCEPT ![c] = "running"]
     /\ server' = [pc |-> "new", call |-> c, key |-> keyCounter, of |-> c]
     /\ keyCounter' = NextKey(keyCounter)
     /\ issuedIn' = [issuedIn EXCEPT ![c] = downs]
     /\ UNCHANGED <<browser, tasks, errored, process>>

TakePoll ==
  LET r == Head(inbox)
  IN /\ up /\ server.pc = "idle"
     /\ inbox # <<>> /\ r.key # NoKey
     /\ r.key \in DOMAIN tasks
     /\ inbox' = Tail(inbox)
     /\ server' = [pc |-> "known", call |-> r.call, key |-> r.key,
                   of |-> tasks[r.key]]
     /\ UNCHANGED <<browser, handler, threads, process, issuedIn>>

\* "Invalid Request Key" becomes an HTTP 500, for which the page has no callback.
InvalidKey ==
  LET r == Head(inbox)
  IN /\ up /\ server.pc = "idle"
     /\ inbox # <<>> /\ r.key # NoKey
     /\ r.key \notin DOMAIN tasks
     /\ inbox' = Tail(inbox)
     /\ page' = [page EXCEPT ![r.call] = IF @ = "waiting" THEN "untold" ELSE @]
     /\ UNCHANGED <<key, answer, server, handler, threads, process, issuedIn>>

\* An upload, an artifact, a file. It ends, or throws, when Redis and the client
\* let it: the locks of a program that has died, or a client that neither reads
\* nor leaves, hold the only thread for ever.
TakeStream ==
  /\ up /\ server.pc = "idle"
  /\ streams < MaxStreams
  /\ streams' = streams + 1
  /\ server' = [IdleServer EXCEPT !.pc = "stream"]
  /\ UNCHANGED <<browser, inbox, handler, threads, up, downs, issuedIn>>

EndStream ==
  /\ up /\ server.pc = "stream"
  /\ server' = IdleServer
  /\ UNCHANGED <<browser, inbox, handler, threads, process, issuedIn>>

DoneAtOnce(c) == TRUE   \* mutant: CheckDone does not look at Complete
Done(c) == runner[c] = "complete"

Kept == [k \in DOMAIN tasks \union {server.key} |->
           IF k = server.key THEN server.of ELSE tasks[k]]

\* The page takes the answer if it is still there.
Reply(status) ==
  LET c == server.call
      there == page[c] = "waiting"
  IN /\ page' = [page EXCEPT ![c] = IF there THEN status ELSE @]
     /\ key' = [key EXCEPT ![c] = IF there THEN server.key ELSE @]
     /\ server' = IdleServer

Answering == up /\ server.pc \in {"new", "known"}
Refused(c) == c \in Unwritable \ errored

AnswerDone ==
  LET c == server.call
      error == server.of \in errored
  IN /\ Answering
     /\ Done(server.of) /\ ~Refused(server.of)
     /\ Reply(IF error THEN "failed" ELSE "succeeded")
     /\ answer' = [answer EXCEPT ![c] =
          IF page[c] = "waiting"
          THEN [of |-> server.of, error |-> error,
                early |-> runner[server.of] \notin {"stored", "complete"}]
          ELSE @]
     /\ UNCHANGED <<inbox, handler, threads, process, issuedIn>>

\* Serialize throws, the request becomes an HTTP 500, and the page hears nothing.
AnswerRefused ==
  LET c == server.call
  IN /\ Answering
     /\ Done(server.of) /\ Refused(server.of)
     /\ page' = [page EXCEPT ![c] = IF @ = "waiting" THEN "untold" ELSE @]
     /\ server' = IdleServer
     /\ UNCHANGED <<key, answer, inbox, handler, threads, process, issuedIn>>

NoLimit == FALSE   \* mutant: Join without a time limit
TimeUp == TRUE     \* half a second passes, however long the function takes

AnswerBusy ==
  /\ Answering /\ (server.pc = "new" => TimeUp)
  /\ ~Done(server.of)
  /\ Reply("sleeping")
  /\ tasks' = IF server.pc = "new" THEN Kept ELSE tasks
  /\ UNCHANGED <<answer, inbox, keyCounter, threads, process, issuedIn>>

-----------------------------------------------------------------------------
(* The process ends, from outside, or because the page an answer is for has
   gone: the write throws, and the handler of exceptions, which sets the status
   of that same answer, throws on the main thread. Requests under way fail in
   the browser; pages that sleep notice nothing. *)
GoDown ==
  /\ up /\ downs < MaxDowns
  /\ up' = FALSE /\ downs' = downs + 1
  /\ page' = [c \in Calls |-> IF page[c] = "waiting" THEN "untold" ELSE page[c]]
  /\ inbox' = <<>> /\ server' = IdleServer
  /\ runner' = [c \in Calls |-> IF runner[c] = "none" THEN "none" ELSE "gone"]
  /\ UNCHANGED <<key, answer, handler, errored, streams, issuedIn>>

\* A start has a new AjaxHandler, whose keys begin at 0 again.
Restart ==
  /\ ~up /\ up' = TRUE
  /\ keyCounter' = 0 /\ tasks' = <<>>
  /\ UNCHANGED <<browser, inbox, server, threads, downs, streams, issuedIn>>

-----------------------------------------------------------------------------
Server == TakeCall \/ TakePoll \/ InvalidKey
          \/ AnswerDone \/ AnswerRefused \/ AnswerBusy
Runner(c) == Run(c) \/ SetComplete(c)

Next ==
  \/ \E c \in Calls : Call(c) \/ Poll(c) \/ Leave(c) \/ Runner(c)
  \/ Server \/ TakeStream \/ EndStream
  \/ GoDown \/ Restart

Spec == Init /\ [][Next]_vars

(* Threads are scheduled and the browser's timer fires; a page sends all of its
   request and reads the answer or goes away. Nothing says that a page calls or
   leaves, that a stream comes to its end, or the process, or that it is
   restarted. *)
FairSpec == /\ Spec
            /\ WF_vars(Server)
            /\ \A c \in Calls : WF_vars(SetComplete(c)) /\ WF_vars(Poll(c))
            /\ \A c \in Calls \ Hanging : WF_vars(Run(c))

-----------------------------------------------------------------------------
(* A page that has not slept through an end of the process is answered with
   what its own function returned or threw, and only after it has. *)
AnswerIsOwn ==
  \A c \in Calls :
    /\ page[c] \in {"succeeded", "failed"} /\ issuedIn[c] = downs =>
         answer[c].of = c /\ (page[c] = "failed" <=> c \in errored)
    /\ ~answer[c].early

(* A call whose function returns is answered in the end, whatever the functions
   of the others do, unless the page left, the process ended, the result cannot
   be written, or a stream holds the server's thread for ever: a key that was
   given out is never refused, nor a call left without any callback, before. *)
EveryCallAnswered ==
  \A c \in Calls \ Hanging :
    (page[c] = "waiting") ~>
      \/ page[c] \in {"succeeded", "failed", "left"}
      \/ page[c] = "untold" /\ (downs > 0 \/ Refused(c))
      \/ issuedIn[c] # downs
      \/ [](server.pc = "stream")
=============================================================================
