---------------------------- MODULE AjaxRpcProofs ----------------------------
(* Proofs about AjaxRpc, for any calls, whichever of them hang, and any number
   of ends of the process. *)
EXTENDS AjaxRpc, SequencesExt, TLAPS

-----------------------------------------------------------------------------
(* Lists of requests and their elements. *)

(* The elements of a list are of the type the list is of. *)
LEMMA ElementsOfSeq ==
  ASSUME NEW S, NEW s \in Seq(S)
  PROVE  /\ ToSet(s) \subseteq S
         /\ DOMAIN s = 1..Len(s) /\ Len(s) \in Nat
         /\ \A i \in 1..Len(s) : s[i] \in S
<1>1. DOMAIN s = 1..Len(s) /\ Len(s) \in Nat
  OBVIOUS
<1>2. \A i \in 1..Len(s) : s[i] \in S
  OBVIOUS
<1>3. QED
  BY <1>1, <1>2 DEF ToSet

(* Adding to the end of a list: what changes, and which elements it has. *)
LEMMA AppendFacts ==
  ASSUME NEW S, NEW s \in Seq(S), NEW e \in S
  PROVE  /\ Append(s, e) \in Seq(S)
         /\ DOMAIN s = 1..Len(s)
         /\ DOMAIN Append(s, e) = 1..(Len(s) + 1)
         /\ \A i \in 1..Len(s) : Append(s, e)[i] = s[i]
         /\ Append(s, e)[Len(s) + 1] = e
         /\ ToSet(Append(s, e)) = ToSet(s) \union {e}
<1>1. /\ Append(s, e) \in Seq(S)
      /\ DOMAIN s = 1..Len(s)
      /\ DOMAIN Append(s, e) = 1..(Len(s) + 1)
      /\ \A i \in 1..Len(s) : Append(s, e)[i] = s[i]
      /\ Append(s, e)[Len(s) + 1] = e
      /\ Len(s) \in Nat
  OBVIOUS
<1>2. 1..(Len(s) + 1) = 1..Len(s) \union {Len(s) + 1}
  BY <1>1
<1>3. QED
  BY <1>1, <1>2 DEF ToSet

(* Taking the first element of a list that has one. *)
LEMMA TailFacts ==
  ASSUME NEW S, NEW s \in Seq(S), s # <<>>
  PROVE  /\ Head(s) = s[1] /\ Head(s) \in S
         /\ Tail(s) \in Seq(S)
         /\ DOMAIN s = 1..Len(s) /\ Len(s) \in Nat \ {0}
         /\ DOMAIN Tail(s) = 1..(Len(s) - 1)
         /\ \A i \in 1..(Len(s) - 1) : Tail(s)[i] = s[i + 1] /\ i + 1 \in 1..Len(s)
         /\ ToSet(s) = ToSet(Tail(s)) \union {Head(s)}
<1>1. /\ Head(s) = s[1] /\ Head(s) \in S
      /\ Tail(s) \in Seq(S)
      /\ DOMAIN s = 1..Len(s) /\ Len(s) \in Nat \ {0}
      /\ DOMAIN Tail(s) = 1..(Len(s) - 1)
      /\ \A i \in 1..(Len(s) - 1) : Tail(s)[i] = s[i + 1] /\ i + 1 \in 1..Len(s)
  OBVIOUS
<1>2. ASSUME NEW i \in 2..Len(s)
      PROVE  s[i] = Tail(s)[i - 1] /\ i - 1 \in 1..(Len(s) - 1)
  BY <1>1
<1>3. \A i \in 1..Len(s) : i = 1 \/ i \in 2..Len(s)
  BY <1>1
<1>4. ASSUME NEW e \in ToSet(s), e # Head(s)
      PROVE  e \in ToSet(Tail(s))
  <2>1. PICK i \in 1..Len(s) : e = s[i]
    BY <1>1 DEF ToSet
  <2>2. i \in 2..Len(s)
    BY <1>1, <1>3, <1>4, <2>1
  <2>3. QED
    BY <1>1, <1>2, <2>1, <2>2 DEF ToSet
<1>5. ToSet(Tail(s)) \union {Head(s)} \subseteq ToSet(s)
  BY <1>1 DEF ToSet
<1>6. QED
  BY <1>1, <1>4, <1>5

-----------------------------------------------------------------------------

Keys == Nat \union {NoKey}
Requests == [call : Calls, key : Keys]
Pages == {"new", "waiting", "sleeping", "succeeded", "failed", "left", "untold"}
Answers == [of : Calls \union {NoCall}, error : BOOLEAN, early : BOOLEAN]

TypeOK ==
  /\ page \in [Calls -> Pages] /\ key \in [Calls -> Keys]
  /\ answer \in [Calls -> Answers]
  /\ up \in BOOLEAN
  /\ inbox \in Seq(Requests)
  /\ server \in [pc : {"idle", "new", "known", "stream"}, call : Calls \union {NoCall},
                 key : Keys, of : Calls \union {NoCall}]
  /\ keyCounter \in Nat
  /\ DOMAIN tasks \subseteq Nat
  /\ \A k \in DOMAIN tasks : tasks[k] \in Calls
  /\ runner \in [Calls -> {"none", "running", "stored", "complete", "gone"}]
  /\ errored \subseteq Calls
  /\ downs \in Nat /\ streams \in Nat /\ issuedIn \in [Calls -> Nat]

\* A call has at most one request on its way, with the key the page has.
InTime(r) == page[r.call] \in {"waiting", "left"}
Fresh(c) == key[c] = NoKey /\ runner[c] = "none"
OneEach == \A i, j \in DOMAIN inbox : inbox[i].call = inbox[j].call => i = j
AsThePageIs ==
  \A i \in DOMAIN inbox :
    /\ InTime(inbox[i]) /\ inbox[i].key = key[inbox[i].call]
    /\ inbox[i].call # server.call
    /\ inbox[i].key = NoKey => Fresh(inbox[i].call)
BeforeRequest ==
  \A c \in Calls : /\ page[c] = "new" => Fresh(c)
                   /\ page[c] = "sleeping" => key[c] # NoKey
InHand ==
  /\ ~up => server.pc = "idle"
  /\ server.pc \in {"new", "known"} => server.call \in Calls /\ InTime(server)
  /\ server.pc \notin {"new", "known"} => server.call = NoCall
OneRequest == OneEach /\ AsThePageIs /\ BeforeRequest /\ InHand

\* A key of this life of the process leads to the call it was given to.
Current(c) == key[c] # NoKey /\ issuedIn[c] = downs
KeysOfLife ==
  /\ \A c \in Calls : issuedIn[c] <= downs /\ (~up => issuedIn[c] < downs)
  /\ \A k \in DOMAIN tasks : k < keyCounter
  /\ \A c \in Calls : Current(c) =>
       key[c] < keyCounter /\ (key[c] \in DOMAIN tasks => tasks[key[c]] = c)

\* The server is at the runner of the call it is to answer.
ServerAtOwn ==
  /\ server.pc = "new" =>
       /\ server.of = server.call /\ key[server.call] = NoKey
       /\ server.key \in Nat /\ keyCounter = server.key + 1
       /\ \A k \in DOMAIN tasks : k < server.key
       /\ \A c \in Calls : Current(c) => key[c] < server.key
  /\ server.pc = "known" =>
       /\ server.of \in Calls
       /\ server.key = key[server.call] /\ server.key # NoKey
       /\ issuedIn[server.call] = downs => server.of = server.call

\* What was returned or thrown changes no more once the page has been told.
Settled ==
  \A c \in Calls : page[c] \in {"succeeded", "failed"} /\ issuedIn[c] = downs =>
    runner[c] = "complete"

IInv == /\ TypeOK /\ OneRequest /\ KeysOfLife /\ ServerAtOwn /\ Settled
        /\ AnswerIsOwn

USE CallsAssumption, KeysAssumption, BoundsAssumption
USE DEF OneRequest, OneEach, AsThePageIs, BeforeRequest, InHand
USE DEF Keys, Pages, Answers, IdleServer, NoAnswer, NextKey, TimeUp,
        Answering, Refused, browser, handler, threads, process

-----------------------------------------------------------------------------
(* At first no page has called and nothing runs. *)
LEMMA InitHolds == Init => IInv
<1> SUFFICES ASSUME Init
             PROVE  IInv
  OBVIOUS
<1>1. TypeOK
  BY DEF Init, TypeOK
<1>2. OneRequest
  BY DEF Init, OneRequest, Fresh
<1>3. KeysOfLife
  BY DEF Init, KeysOfLife, Current
<1>4. ServerAtOwn /\ Settled /\ AnswerIsOwn
  BY DEF Init, ServerAtOwn, Settled, AnswerIsOwn
<1>5. QED
  BY <1>1, <1>2, <1>3, <1>4 DEF IInv

(* The request the server takes, and those it leaves. *)
LEMMA TakenRequest ==
  ASSUME TypeOK, OneRequest, inbox # <<>>, inbox' = Tail(inbox)
  PROVE  /\ Head(inbox) \in Requests /\ InTime(Head(inbox))
         /\ Head(inbox).key = key[Head(inbox).call]
         /\ Head(inbox).key = NoKey => Fresh(Head(inbox).call)
         /\ inbox' \in Seq(Requests)
         /\ \A i, j \in DOMAIN inbox' : inbox'[i].call = inbox'[j].call => i = j
         /\ \A i \in DOMAIN inbox' :
              /\ InTime(inbox'[i]) /\ inbox'[i].key = key[inbox'[i].call]
              /\ inbox'[i].call \in Calls /\ inbox'[i].call # Head(inbox).call
              /\ inbox'[i].key = NoKey => Fresh(inbox'[i].call)
<1>1. /\ Head(inbox) = inbox[1] /\ Head(inbox) \in Requests
      /\ Tail(inbox) \in Seq(Requests)
      /\ DOMAIN inbox = 1..Len(inbox) /\ Len(inbox) \in Nat \ {0}
      /\ DOMAIN Tail(inbox) = 1..(Len(inbox) - 1)
      /\ \A i \in 1..(Len(inbox) - 1) : Tail(inbox)[i] = inbox[i + 1]
                                     /\ i + 1 \in 1..Len(inbox)
  BY TailFacts DEF TypeOK
<1>2. 1 \in DOMAIN inbox
  BY <1>1
<1>3. /\ InTime(Head(inbox)) /\ Head(inbox).key = key[Head(inbox).call]
      /\ Head(inbox).key = NoKey => Fresh(Head(inbox).call)
  BY <1>1, <1>2 DEF OneRequest
<1>4. ASSUME NEW i \in DOMAIN inbox', NEW j \in DOMAIN inbox',
             inbox'[i].call = inbox'[j].call
      PROVE  i = j
  <2>1. i + 1 = j + 1
    BY <1>1, <1>4 DEF OneRequest
  <2>2. QED
    BY <1>1, <2>1
<1>5. ASSUME NEW i \in DOMAIN inbox'
      PROVE  /\ InTime(inbox'[i]) /\ inbox'[i].key = key[inbox'[i].call]
             /\ inbox'[i].call \in Calls /\ inbox'[i].call # Head(inbox).call
             /\ inbox'[i].key = NoKey => Fresh(inbox'[i].call)
  <2>1. i + 1 \in DOMAIN inbox /\ inbox'[i] = inbox[i + 1] /\ i + 1 # 1
    BY <1>1, <1>5
  <2>2. inbox[i + 1].call # inbox[1].call
    BY <1>2, <2>1 DEF OneRequest
  <2>3. inbox[i + 1] \in Requests
    BY <1>1, <2>1, ElementsOfSeq DEF TypeOK
  <2>4. QED
    BY <1>1, <2>1, <2>2, <2>3 DEF OneRequest, Requests
<1>6. QED
  BY <1>1, <1>3, <1>4, <1>5

(* Every variable keeps its type. *)
LEMMA NextType == IInv /\ [Next]_vars => TypeOK'
<1> SUFFICES ASSUME IInv, [Next]_vars
             PROVE  TypeOK'
  OBVIOUS
<1>t. TypeOK /\ OneRequest /\ ServerAtOwn
  BY DEF IInv
<1>0. CASE UNCHANGED vars
  BY <1>t, <1>0 DEF TypeOK, vars
<1>1. ASSUME NEW c \in Calls, Call(c) \/ Poll(c)
      PROVE  TypeOK'
  <2>1. [call |-> c, key |-> key[c]] \in Requests
    BY <1>t DEF TypeOK, Requests
  <2>2. inbox' \in Seq(Requests)
    <3>1. inbox' \in {inbox, Append(inbox, [call |-> c, key |-> key[c]])}
      BY <1>1 DEF Call, Poll, Request
    <3>2. PICK r \in Requests : inbox' \in {inbox, Append(inbox, r)}
      BY <2>1, <3>1
    <3>3. inbox \in Seq(Requests)
      BY <1>t DEF TypeOK
    <3>4. QED
      BY <3>2, <3>3, AppendFacts
  <2>3. QED
    BY <1>t, <1>1, <2>2 DEF TypeOK, Call, Poll, Request
<1>2. ASSUME NEW c \in Calls, Leave(c) \/ Runner(c)
      PROVE  TypeOK'
  <2>1. CASE Leave(c)
    BY <1>t, <2>1 DEF TypeOK, Leave
  <2>2. CASE Run(c)
    BY <1>t, <2>2 DEF TypeOK, Run
  <2>3. CASE SetComplete(c)
    BY <1>t, <2>3 DEF TypeOK, SetComplete
  <2>4. QED
    BY <1>2, <2>1, <2>2, <2>3 DEF Runner
<1>3. CASE TakeCall
  BY <1>t, <1>3, TakenRequest DEF TypeOK, Requests, TakeCall
<1>4. CASE TakePoll
  BY <1>t, <1>4, TakenRequest DEF TypeOK, Requests, TakePoll
<1>5. CASE InvalidKey
  BY <1>t, <1>5, TakenRequest DEF TypeOK, Requests, InvalidKey
<1>6. CASE AnswerDone
  <2>1. server.call \in Calls /\ server.of \in Calls /\ server.key \in Keys
    BY <1>t, <1>6 DEF TypeOK, OneRequest, ServerAtOwn, AnswerDone
  <2>2. /\ page' \in [Calls -> Pages] /\ key' \in [Calls -> Keys]
        /\ server' = IdleServer
    BY <1>t, <1>6, <2>1 DEF TypeOK, AnswerDone, Reply
  <2>3. answer' \in [Calls -> Answers]
    BY <1>t, <1>6, <2>1 DEF TypeOK, AnswerDone
  <2>4. QED
    BY <1>t, <1>6, <2>2, <2>3 DEF TypeOK, AnswerDone
<1>7. CASE AnswerBusy
  <2>1. server.call \in Calls /\ server.of \in Calls /\ server.key \in Keys
    BY <1>t, <1>7 DEF TypeOK, OneRequest, ServerAtOwn, AnswerBusy
  <2>2. /\ page' \in [Calls -> Pages] /\ key' \in [Calls -> Keys]
        /\ server' = IdleServer
    BY <1>t, <1>7, <2>1 DEF TypeOK, AnswerBusy, Reply
  <2>3. DOMAIN tasks' \subseteq Nat /\ \A k \in DOMAIN tasks' : tasks'[k] \in Calls
    BY <1>t, <1>7, <2>1 DEF TypeOK, ServerAtOwn, AnswerBusy, Kept
  <2>4. QED
    BY <1>t, <1>7, <2>2, <2>3 DEF TypeOK, AnswerBusy
<1>s. CASE AnswerRefused
  <2>1. server.call \in Calls
    BY <1>t, <1>s DEF OneRequest, AnswerRefused
  <2>2. page' \in [Calls -> Pages] /\ server' = IdleServer
    BY <1>t, <1>s, <2>1 DEF TypeOK, AnswerRefused
  <2>3. QED
    BY <1>t, <1>s, <2>2 DEF TypeOK, AnswerRefused
<1>u. CASE TakeStream \/ EndStream
  BY <1>t, <1>u DEF TypeOK, TakeStream, EndStream
<1>8. CASE GoDown \/ Restart
  <2>1. CASE GoDown
    <3>1. page' \in [Calls -> Pages] /\ downs' \in Nat /\ up' = FALSE
      BY <1>t, <2>1 DEF TypeOK, GoDown
    <3>2. runner' \in [Calls -> {"none", "running", "stored", "complete", "gone"}]
      BY <1>t, <2>1 DEF TypeOK, GoDown
    <3>3. /\ inbox' = <<>> /\ server' = IdleServer
          /\ UNCHANGED <<key, answer, keyCounter, tasks, errored, streams, issuedIn>>
      BY <2>1 DEF GoDown
    <3>4. inbox' \in Seq(Requests)
      BY <3>3
    <3>5. QED
      BY <1>t, <3>1, <3>2, <3>3, <3>4 DEF TypeOK
  <2>2. CASE Restart
    BY <1>t, <2>2 DEF TypeOK, Restart
  <2>3. QED
    BY <1>8, <2>1, <2>2
<1>9. QED
  BY <1>0, <1>1, <1>2, <1>3, <1>4, <1>5, <1>6, <1>7, <1>s, <1>u, <1>8 DEF Next, Server

(* A page asks again only after an answer, and with the key of that answer. *)
LEMMA NextRequest == IInv /\ [Next]_vars => OneRequest'
<1> SUFFICES ASSUME IInv, [Next]_vars
             PROVE  OneRequest'
  OBVIOUS
<1>t. TypeOK /\ OneRequest /\ ServerAtOwn
  BY DEF IInv
<1>e. \A i \in DOMAIN inbox : inbox[i] \in Requests /\ inbox[i].call \in Calls
  <2>1. \A i \in DOMAIN inbox : inbox[i] \in Requests
    BY <1>t, ElementsOfSeq DEF TypeOK
  <2>2. QED
    BY <2>1 DEF Requests
<1>0. CASE UNCHANGED vars
  BY <1>t, <1>0 DEF OneRequest, InTime, Fresh, vars
<1>1. ASSUME NEW c \in Calls, Call(c) \/ Poll(c)
      PROVE  OneRequest'
  <2>1. page[c] \in {"new", "sleeping"} /\ Request(c)
    BY <1>1 DEF Call, Poll, Due
  <2>2. /\ UNCHANGED <<key, runner, server, up>>
        /\ \A d \in Calls \ {c} : page'[d] = page[d]
    BY <1>t, <2>1 DEF Request, TypeOK
  <2>3. c # server.call /\ \A i \in DOMAIN inbox : inbox[i].call # c
    BY <1>t, <2>1 DEF OneRequest, InTime
  <2>4. key[c] = NoKey => Fresh(c)
    <3>1. BeforeRequest
      BY <1>t
    <3>2. QED
      BY <2>1, <3>1 DEF Fresh
  <2>5. \A d \in Calls : /\ page'[d] = "new" => Fresh(d)
                         /\ page'[d] = "sleeping" => key[d] # NoKey
    BY <1>t, <2>1, <2>2 DEF OneRequest, Request, TypeOK
  <2>6. server.pc \in {"new", "known"} => server.call \in Calls /\ InTime(server)'
    BY <1>t, <2>2, <2>3 DEF OneRequest, InTime
  <2>7. CASE ~up
    <3>1. inbox' = inbox
      BY <2>1, <2>7 DEF Request
    <3>2. \A i \in DOMAIN inbox : page'[inbox[i].call] = page[inbox[i].call]
      BY <1>e, <2>2, <2>3
    <3>3. OneEach'
      BY <1>t, <3>1
    <3>4. AsThePageIs'
      BY <1>t, <1>e, <2>2, <2>3, <3>1, <3>2 DEF InTime, Fresh
    <3>5. BeforeRequest'
      BY <2>2, <2>5 DEF Fresh
    <3>6. InHand'
      BY <1>t, <2>2, <2>6
    <3>7. QED
      BY <3>3, <3>4, <3>5, <3>6
  <2>8. CASE up
    <3>1. /\ inbox' = Append(inbox, [call |-> c, key |-> key[c]])
          /\ [call |-> c, key |-> key[c]] \in Requests
          /\ page'[c] = "waiting"
      BY <1>t, <2>1, <2>8 DEF Request, TypeOK, Requests
    <3>2. /\ DOMAIN inbox = 1..Len(inbox) /\ DOMAIN inbox' = 1..(Len(inbox) + 1)
          /\ \A i \in 1..Len(inbox) : inbox'[i] = inbox[i]
          /\ inbox'[Len(inbox) + 1] = [call |-> c, key |-> key[c]]
          /\ Len(inbox) \in Nat
      BY <1>t, <3>1, AppendFacts, ElementsOfSeq DEF TypeOK
    <3>3. \A i \in DOMAIN inbox' : i \in DOMAIN inbox \/ i = Len(inbox) + 1
      BY <3>2
    <3>4. ASSUME NEW i \in DOMAIN inbox', NEW j \in DOMAIN inbox',
                 inbox'[i].call = inbox'[j].call
          PROVE  i = j
      BY <1>t, <2>3, <3>2, <3>3, <3>4 DEF OneRequest
    <3>5. ASSUME NEW i \in DOMAIN inbox'
          PROVE  /\ page'[inbox'[i].call] \in {"waiting", "left"}
                 /\ inbox'[i].key = key[inbox'[i].call]
                 /\ inbox'[i].call # server.call
                 /\ inbox'[i].key = NoKey => Fresh(inbox'[i].call)
      <4>1. CASE i \in DOMAIN inbox
        BY <1>t, <1>e, <2>2, <2>3, <3>2, <4>1 DEF OneRequest, InTime
      <4>2. CASE i = Len(inbox) + 1
        BY <2>3, <2>4, <3>1, <3>2, <4>2 DEF InTime
      <4>3. QED
        BY <3>3, <4>1, <4>2
    <3>6. QED
      BY <1>t, <2>2, <2>5, <2>6, <3>4, <3>5 DEF OneRequest, InTime, Fresh
  <2>9. QED
    BY <2>7, <2>8
<1>2. ASSUME NEW c \in Calls, Leave(c)
      PROVE  OneRequest'
  <2>1. /\ page' = [page EXCEPT ![c] = "left"]
        /\ UNCHANGED <<key, runner, server, inbox, up>>
    BY <1>2 DEF Leave
  <2>2. \A d \in Calls : page'[d] \in {page[d], "left"}
    BY <1>t, <2>1 DEF TypeOK
  <2>3. QED
    BY <1>t, <1>e, <2>1, <2>2 DEF OneRequest, InTime, Fresh
<1>3. ASSUME NEW c \in Calls, Runner(c)
      PROVE  OneRequest'
  <2>1. /\ UNCHANGED <<page, key, server, inbox, up>>
        /\ \A d \in Calls : runner[d] = "none" => runner'[d] = "none"
    BY <1>t, <1>3 DEF Runner, Run, SetComplete, TypeOK
  <2>2. QED
    BY <1>t, <1>e, <2>1 DEF OneRequest, InTime, Fresh
<1>4. CASE TakeCall
  <2>1. /\ inbox # <<>> /\ inbox' = Tail(inbox) /\ UNCHANGED <<page, key, up>> /\ up
        /\ runner' = [runner EXCEPT ![Head(inbox).call] = "running"]
        /\ server'.call = Head(inbox).call /\ server'.pc = "new"
    BY <1>4 DEF TakeCall
  <2>2. \A d \in Calls : d # Head(inbox).call => runner'[d] = runner[d]
    BY <1>t, <2>1 DEF TypeOK
  <2>3. page[Head(inbox).call] # "new" /\ Head(inbox).call \in Calls
    BY <1>t, <2>1, TakenRequest DEF InTime, Requests
  <2>4. OneEach' /\ AsThePageIs'
    BY <1>t, <2>1, <2>2, TakenRequest DEF InTime, Fresh
  <2>5. BeforeRequest' /\ InHand'
    BY <1>t, <2>1, <2>2, <2>3, TakenRequest DEF InTime, Fresh
  <2>6. QED
    BY <2>4, <2>5
<1>5. CASE TakePoll
  <2>1. /\ inbox # <<>> /\ inbox' = Tail(inbox)
        /\ up /\ UNCHANGED <<page, key, runner, up>>
        /\ server'.call = Head(inbox).call /\ server'.pc = "known"
    BY <1>5 DEF TakePoll
  <2>2. QED
    BY <1>t, <2>1, TakenRequest DEF OneRequest, InTime, Fresh, Requests
<1>6. CASE InvalidKey
  <2>1. /\ inbox # <<>> /\ inbox' = Tail(inbox)
        /\ UNCHANGED <<key, runner, server, up>>
        /\ page' = [page EXCEPT ![Head(inbox).call] = IF @ = "waiting" THEN "untold" ELSE @]
        /\ server.pc = "idle"
    BY <1>6 DEF InvalidKey
  <2>2. \A d \in Calls : /\ page'[d] \in {page[d], "untold"}
                         /\ d # Head(inbox).call => page'[d] = page[d]
    BY <1>t, <2>1 DEF TypeOK
  <2>3. QED
    BY <1>t, <2>1, <2>2, TakenRequest DEF OneRequest, InTime, Fresh, Requests
<1>7. CASE AnswerDone \/ AnswerBusy
  <2>1. /\ server.pc \in {"new", "known"} /\ server.call \in Calls /\ server.key # NoKey
        /\ UNCHANGED <<inbox, runner>> /\ server' = IdleServer
    BY <1>t, <1>7 DEF AnswerDone, AnswerBusy, Reply, OneRequest, ServerAtOwn, TypeOK
  <2>2. \A d \in Calls \ {server.call} : page'[d] = page[d] /\ key'[d] = key[d]
    BY <1>t, <1>7 DEF AnswerDone, AnswerBusy, Reply, TypeOK
  <2>3. /\ page'[server.call] # "new"
        /\ page'[server.call] = "sleeping" => key'[server.call] # NoKey
    BY <1>t, <1>7, <2>1 DEF AnswerDone, AnswerBusy, Reply, OneRequest, InTime, TypeOK
  <2>4. QED
    BY <1>t, <1>e, <2>1, <2>2, <2>3 DEF OneRequest, InTime, Fresh
<1>s. CASE AnswerRefused
  <2>1. /\ server.pc \in {"new", "known"} /\ server.call \in Calls
        /\ UNCHANGED <<inbox, runner, key, up>> /\ server' = IdleServer
    BY <1>t, <1>s DEF AnswerRefused, OneRequest
  <2>2. /\ \A d \in Calls \ {server.call} : page'[d] = page[d]
        /\ page'[server.call] \in {page[server.call], "untold"}
    BY <1>t, <1>s DEF AnswerRefused, TypeOK
  <2>3. QED
    BY <1>t, <1>e, <2>1, <2>2 DEF OneRequest, InTime, Fresh
<1>u. CASE TakeStream \/ EndStream
  <2>1. /\ UNCHANGED <<page, key, inbox, runner, up>> /\ up
        /\ server'.pc \in {"idle", "stream"} /\ server'.call = NoCall
    BY <1>t, <1>u DEF TakeStream, EndStream
  <2>2. QED
    BY <1>t, <1>e, <2>1 DEF OneRequest, InTime, Fresh
<1>8. CASE GoDown
  <2>1. /\ inbox' = <<>> /\ server' = IdleServer /\ key' = key
        /\ \A d \in Calls : /\ page'[d] \in {page[d], "untold"}
                            /\ runner[d] = "none" => runner'[d] = "none"
    BY <1>t, <1>8 DEF GoDown, TypeOK
  <2>2. QED
    BY <1>t, <2>1 DEF OneRequest, Fresh
<1>9. CASE Restart
  BY <1>t, <1>9 DEF Restart, OneRequest, InTime, Fresh
<1>10. QED
  BY <1>0, <1>1, <1>2, <1>3, <1>4, <1>5, <1>6, <1>7, <1>s, <1>u, <1>8, <1>9
  DEF Next, Server

(* Keys are given out once in a life of the process, and none that was given
   out before its end counts as one of the present life. *)
LEMMA NextKeys == IInv /\ [Next]_vars => KeysOfLife'
<1> SUFFICES ASSUME IInv, [Next]_vars
             PROVE  KeysOfLife'
  OBVIOUS
<1>t. TypeOK /\ KeysOfLife /\ ServerAtOwn /\ InHand
  BY DEF IInv
<1>0. ASSUME UNCHANGED <<key, issuedIn, downs, up, keyCounter, tasks>>
      PROVE  KeysOfLife'
  BY <1>t, <1>0 DEF KeysOfLife, Current
<1>1. ASSUME NEW c \in Calls, Call(c) \/ Poll(c) \/ Leave(c) \/ Runner(c)
      PROVE  KeysOfLife'
  BY <1>0, <1>1 DEF Call, Poll, Request, Leave, Runner, Run, SetComplete
<1>2. CASE TakePoll \/ InvalidKey \/ AnswerRefused \/ TakeStream \/ EndStream
  BY <1>0, <1>2 DEF TakePoll, InvalidKey, AnswerRefused, TakeStream, EndStream
<1>3. CASE TakeCall
  <2>1. /\ inbox # <<>> /\ inbox' = Tail(inbox) /\ up /\ Head(inbox).key = NoKey
        /\ keyCounter' = keyCounter + 1 /\ UNCHANGED <<key, tasks, up, downs>>
        /\ issuedIn' = [issuedIn EXCEPT ![Head(inbox).call] = downs]
    BY <1>3 DEF TakeCall
  <2>2. Head(inbox).call \in Calls /\ key[Head(inbox).call] = NoKey
    BY <1>3, <2>1, TakenRequest DEF IInv, Requests
  <2>3. \A c \in Calls : issuedIn'[c] \in {issuedIn[c], downs}
    BY <1>t, <2>1 DEF TypeOK
  <2>4. \A c \in Calls : Current(c)' => Current(c)
    BY <1>t, <2>1, <2>2 DEF Current, TypeOK
  <2>5. \A c \in Calls : Current(c) => key[c] \in Nat
    BY <1>t DEF Current, TypeOK
  <2>6. \A n \in Nat : n < keyCounter => n < keyCounter'
    BY <1>t, <2>1 DEF TypeOK
  <2>7. \A c \in Calls : issuedIn'[c] <= downs' /\ (~up' => issuedIn'[c] < downs')
    BY <1>t, <2>1, <2>3 DEF KeysOfLife, TypeOK
  <2>8. \A k \in DOMAIN tasks' : k < keyCounter'
    BY <1>t, <2>1, <2>6 DEF KeysOfLife, TypeOK
  <2>9. ASSUME NEW c \in Calls, Current(c)'
        PROVE  key'[c] < keyCounter' /\ (key'[c] \in DOMAIN tasks' => tasks'[key'[c]] = c)
    BY <1>t, <2>1, <2>4, <2>5, <2>6, <2>9 DEF KeysOfLife
  <2>10. QED
    BY <2>7, <2>8, <2>9 DEF KeysOfLife
<1>4. CASE AnswerDone \/ AnswerBusy
  <2>1. /\ server.pc \in {"new", "known"} /\ server.call \in Calls
        /\ UNCHANGED <<issuedIn, downs, up, keyCounter>>
        /\ tasks' = tasks \/ (AnswerBusy /\ server.pc = "new" /\ tasks' = Kept)
    BY <1>t, <1>4 DEF AnswerDone, AnswerBusy, TypeOK
  <2>2. \A c \in Calls : key'[c] = key[c] \/ (c = server.call /\ key'[c] = server.key)
    BY <1>t, <1>4 DEF AnswerDone, AnswerBusy, Reply, TypeOK
  <2>3. CASE server.pc = "known"
    <3>1. key' = key
      BY <1>t, <2>2, <2>3, <1>4 DEF ServerAtOwn, TypeOK, AnswerDone, AnswerBusy, Reply
    <3>2. QED
      BY <1>0, <2>1, <2>3, <3>1
  <2>4. CASE server.pc = "new"
    <3>1. /\ server.of = server.call /\ key[server.call] = NoKey
          /\ server.key \in Nat /\ keyCounter = server.key + 1
          /\ \A k \in DOMAIN tasks : k \in Nat /\ k < server.key
          /\ \A c \in Calls : Current(c) => key[c] \in Nat /\ key[c] < server.key
      BY <1>t, <2>4 DEF ServerAtOwn, TypeOK, Current
    <3>2. \A k \in DOMAIN tasks' : k < keyCounter'
      BY <2>1, <3>1 DEF Kept
    <3>3. ASSUME NEW c \in Calls, Current(c)'
          PROVE  key'[c] < keyCounter' /\ (key'[c] \in DOMAIN tasks' => tasks'[key'[c]] = c)
      <4>1. CASE c = server.call /\ key'[c] = server.key
        <5>1. server.key \notin DOMAIN tasks
          BY <3>1
        <5>2. QED
          BY <2>1, <3>1, <4>1, <5>1 DEF Kept
      <4>2. CASE key'[c] = key[c]
        <5>1. Current(c) /\ key[c] # server.key /\ key[c] < keyCounter
          BY <2>1, <3>1, <3>3, <4>2 DEF Current
        <5>2. key[c] \in DOMAIN tasks => tasks[key[c]] = c
          BY <1>t, <5>1 DEF KeysOfLife
        <5>3. QED
          BY <2>1, <4>2, <5>1, <5>2 DEF Kept
      <4>3. QED
        BY <2>2, <4>1, <4>2
    <3>4. QED
      BY <1>t, <2>1, <3>2, <3>3 DEF KeysOfLife
  <2>5. QED
    BY <2>1, <2>3, <2>4
<1>5. CASE GoDown
  <2>1. /\ downs' = downs + 1 /\ UNCHANGED <<key, issuedIn, keyCounter, tasks>>
    BY <1>5 DEF GoDown
  <2>2. \A c \in Calls : issuedIn'[c] < downs'
    BY <1>t, <2>1 DEF KeysOfLife, TypeOK
  <2>3. \A c \in Calls : ~Current(c)' /\ issuedIn'[c] <= downs'
    BY <1>t, <2>1, <2>2 DEF Current, TypeOK
  <2>4. QED
    BY <1>t, <2>1, <2>2, <2>3 DEF KeysOfLife
<1>6. CASE Restart
  <2>1. /\ ~up /\ UNCHANGED <<key, issuedIn, downs>> /\ tasks' = <<>>
    BY <1>6 DEF Restart
  <2>2. \A c \in Calls : issuedIn[c] < downs
    BY <1>t, <2>1 DEF KeysOfLife
  <2>3. \A c \in Calls : ~Current(c)' /\ issuedIn'[c] <= downs' /\ issuedIn'[c] < downs'
    BY <1>t, <2>1, <2>2 DEF Current, TypeOK
  <2>4. QED
    BY <2>1, <2>3 DEF KeysOfLife
<1>7. CASE UNCHANGED vars
  BY <1>0, <1>7 DEF vars
<1>8. QED
  BY <1>1, <1>2, <1>3, <1>4, <1>5, <1>6, <1>7 DEF Next, Server

(* A poll reaches the runner of its own call, unless its key is an old one. *)
LEMMA NextServer == IInv /\ [Next]_vars => ServerAtOwn'
<1> SUFFICES ASSUME IInv, [Next]_vars
             PROVE  ServerAtOwn'
  OBVIOUS
<1>t. TypeOK /\ KeysOfLife /\ ServerAtOwn /\ InHand
  BY DEF IInv
<1>0. ASSUME UNCHANGED <<key, issuedIn, downs, keyCounter, tasks, server>>
      PROVE  ServerAtOwn'
  BY <1>t, <1>0 DEF ServerAtOwn, Current
<1>1. ASSUME NEW c \in Calls, Call(c) \/ Poll(c) \/ Leave(c) \/ Runner(c)
      PROVE  ServerAtOwn'
  BY <1>0, <1>1 DEF Call, Poll, Request, Leave, Runner, Run, SetComplete
<1>2. CASE TakeCall
  <2>1. /\ inbox # <<>> /\ inbox' = Tail(inbox) /\ Head(inbox).key = NoKey
        /\ keyCounter' = keyCounter + 1 /\ UNCHANGED <<key, tasks, downs>>
        /\ issuedIn' = [issuedIn EXCEPT ![Head(inbox).call] = downs]
        /\ server' = [pc |-> "new", call |-> Head(inbox).call, key |-> keyCounter,
                      of |-> Head(inbox).call]
    BY <1>2 DEF TakeCall
  <2>2. Head(inbox).call \in Calls /\ key[Head(inbox).call] = NoKey
    BY <1>2, <2>1, TakenRequest DEF IInv, Requests
  <2>3. \A c \in Calls : Current(c)' => Current(c)
    BY <1>t, <2>1, <2>2 DEF Current, TypeOK
  <2>4. QED
    BY <1>t, <2>1, <2>2, <2>3 DEF ServerAtOwn, KeysOfLife, TypeOK, Current
<1>3. CASE TakePoll
  <2>1. /\ inbox # <<>> /\ inbox' = Tail(inbox) /\ Head(inbox).key # NoKey
        /\ Head(inbox).key \in DOMAIN tasks /\ UNCHANGED <<key, tasks, downs, issuedIn>>
        /\ server' = [pc |-> "known", call |-> Head(inbox).call, key |-> Head(inbox).key,
                      of |-> tasks[Head(inbox).key]]
    BY <1>3 DEF TakePoll
  <2>2. Head(inbox).call \in Calls /\ Head(inbox).key = key[Head(inbox).call]
    BY <1>3, <2>1, TakenRequest DEF IInv, Requests
  <2>3. QED
    BY <1>t, <2>1, <2>2 DEF ServerAtOwn, KeysOfLife, Current, TypeOK
<1>4. CASE InvalidKey
  BY <1>0, <1>4 DEF InvalidKey
<1>5. CASE AnswerDone \/ AnswerRefused \/ AnswerBusy \/ TakeStream \/ EndStream \/ GoDown
  BY <1>5 DEF AnswerDone, AnswerRefused, AnswerBusy, Reply, TakeStream, EndStream, GoDown,
              ServerAtOwn
<1>6. CASE Restart
  <2>1. server.pc = "idle" /\ server' = server
    BY <1>t, <1>6 DEF Restart
  <2>2. QED
    BY <2>1 DEF ServerAtOwn
<1>7. CASE UNCHANGED vars
  BY <1>0, <1>7 DEF vars
<1>8. QED
  BY <1>1, <1>2, <1>3, <1>4, <1>5, <1>6, <1>7 DEF Next, Server

(* Once a page has been told what became of its call, its runner is done. *)
LEMMA NextSettled == IInv /\ [Next]_vars => Settled'
<1> SUFFICES ASSUME IInv, [Next]_vars,
                    NEW c \in Calls, page'[c] \in {"succeeded", "failed"},
                    issuedIn'[c] = downs'
             PROVE  runner'[c] = "complete"
  BY DEF Settled
<1>t. TypeOK /\ KeysOfLife /\ ServerAtOwn /\ Settled /\ InHand
  BY DEF IInv
<1>1. ASSUME NEW d \in Calls, Call(d) \/ Poll(d) \/ Leave(d)
      PROVE  runner'[c] = "complete"
  <2>1. page[c] \in {"succeeded", "failed"} /\ UNCHANGED <<runner, issuedIn, downs>>
    BY <1>t, <1>1 DEF Call, Poll, Request, Leave, TypeOK
  <2>2. QED
    BY <1>t, <2>1 DEF Settled
<1>2. ASSUME NEW d \in Calls, Runner(d)
      PROVE  runner'[c] = "complete"
  BY <1>t, <1>2 DEF Runner, Run, SetComplete, Settled, TypeOK
<1>3. CASE TakeCall
  <2>1. /\ inbox # <<>> /\ inbox' = Tail(inbox) /\ UNCHANGED <<page, downs>>
        /\ issuedIn' = [issuedIn EXCEPT ![Head(inbox).call] = downs]
        /\ runner' = [runner EXCEPT ![Head(inbox).call] = "running"]
    BY <1>3 DEF TakeCall
  <2>2. page[Head(inbox).call] \in {"waiting", "left"}
    BY <2>1, TakenRequest DEF IInv, InTime
  <2>3. QED
    BY <1>t, <2>1, <2>2 DEF Settled, TypeOK
<1>4. CASE TakePoll \/ InvalidKey \/ AnswerRefused \/ TakeStream \/ EndStream
  <2>1. page[c] \in {"succeeded", "failed"} /\ UNCHANGED <<runner, issuedIn, downs>>
    BY <1>t, <1>4 DEF TakePoll, InvalidKey, AnswerRefused, TakeStream, EndStream, TypeOK
  <2>2. QED
    BY <1>t, <2>1 DEF Settled
<1>5. CASE AnswerDone \/ AnswerBusy
  <2>1. /\ UNCHANGED <<runner, issuedIn, downs>> /\ server.pc \in {"new", "known"}
    BY <1>t, <1>5 DEF AnswerDone, AnswerBusy, TypeOK
  <2>2. CASE page[c] \in {"succeeded", "failed"}
    BY <1>t, <2>1, <2>2 DEF Settled
  <2>3. CASE page[c] \notin {"succeeded", "failed"}
    <3>1. c = server.call /\ AnswerDone
      BY <1>t, <1>5, <2>3 DEF AnswerDone, AnswerBusy, Reply, TypeOK
    <3>2. server.of = c
      BY <1>t, <2>1, <3>1 DEF ServerAtOwn
    <3>3. QED
      BY <2>1, <3>1, <3>2 DEF AnswerDone, Done
  <2>4. QED
    BY <2>2, <2>3
<1>6. CASE GoDown
  <2>1. issuedIn' = issuedIn /\ downs' = downs + 1
    BY <1>6 DEF GoDown
  <2>2. QED
    BY <1>t, <2>1 DEF KeysOfLife, TypeOK
<1>7. CASE Restart \/ UNCHANGED vars
  <2>1. UNCHANGED <<page, runner, issuedIn, downs>>
    BY <1>7 DEF Restart, vars
  <2>2. QED
    BY <1>t, <2>1 DEF Settled
<1>8. QED
  BY <1>1, <1>2, <1>3, <1>4, <1>5, <1>6, <1>7 DEF Next, Server

(* The answer a page takes is its own call's, and stays right: what the runner
   left there is not touched after Complete. *)
LEMMA NextOwn == IInv /\ [Next]_vars => AnswerIsOwn'
<1> SUFFICES ASSUME IInv, [Next]_vars, NEW c \in Calls
             PROVE  /\ page'[c] \in {"succeeded", "failed"} /\ issuedIn'[c] = downs' =>
                         answer'[c].of = c /\ (page'[c] = "failed" <=> c \in errored')
                    /\ ~answer'[c].early
  BY DEF AnswerIsOwn
<1>t. TypeOK /\ KeysOfLife /\ ServerAtOwn /\ Settled /\ InHand /\ AnswerIsOwn
  BY DEF IInv
<1>0. ASSUME page'[c] \in {"succeeded", "failed"} => page'[c] = page[c],
             UNCHANGED <<answer, errored, issuedIn, downs>>
      PROVE  /\ page'[c] \in {"succeeded", "failed"} /\ issuedIn'[c] = downs' =>
                  answer'[c].of = c /\ (page'[c] = "failed" <=> c \in errored')
             /\ ~answer'[c].early
  BY <1>t, <1>0 DEF AnswerIsOwn
<1>1. ASSUME NEW d \in Calls, Call(d) \/ Poll(d) \/ Leave(d) \/ SetComplete(d)
      PROVE  /\ page'[c] \in {"succeeded", "failed"} => page'[c] = page[c]
             /\ UNCHANGED <<answer, errored, issuedIn, downs>>
  BY <1>t, <1>1 DEF Call, Poll, Request, Leave, SetComplete, TypeOK
<1>2. ASSUME NEW d \in Calls, Run(d)
      PROVE  /\ page'[c] \in {"succeeded", "failed"} /\ issuedIn'[c] = downs' =>
                  answer'[c].of = c /\ (page'[c] = "failed" <=> c \in errored')
             /\ ~answer'[c].early
  <2>1. /\ UNCHANGED <<page, answer, issuedIn, downs>>
        /\ runner[d] = "running" /\ errored' \in {errored, errored \union {d}}
    BY <1>2 DEF Run
  <2>2. page[c] \in {"succeeded", "failed"} /\ issuedIn[c] = downs => c # d
    BY <1>t, <2>1 DEF Settled
  <2>3. QED
    BY <1>t, <2>1, <2>2 DEF AnswerIsOwn
<1>3. CASE TakeCall
  <2>1. /\ inbox # <<>> /\ inbox' = Tail(inbox)
        /\ UNCHANGED <<page, answer, errored, downs>>
        /\ issuedIn' = [issuedIn EXCEPT ![Head(inbox).call] = downs]
    BY <1>3 DEF TakeCall
  <2>2. page[Head(inbox).call] \in {"waiting", "left"}
    BY <2>1, TakenRequest DEF IInv, InTime
  <2>3. QED
    BY <1>t, <2>1, <2>2 DEF AnswerIsOwn, TypeOK
<1>4. CASE \/ TakePoll \/ InvalidKey \/ AnswerRefused \/ AnswerBusy
           \/ TakeStream \/ EndStream
  BY <1>0, <1>t, <1>4 DEF TakePoll, InvalidKey, AnswerRefused, AnswerBusy, Reply, TakeStream,
                          EndStream, TypeOK
<1>5. CASE AnswerDone
  <2>1. /\ UNCHANGED <<runner, issuedIn, errored, downs>> /\ server.pc \in {"new", "known"}
        /\ server.call \in Calls /\ runner[server.of] = "complete"
    BY <1>t, <1>5 DEF AnswerDone, Done, TypeOK
  <2>2. CASE c = server.call /\ page[c] = "waiting"
    <3>1. /\ answer'[c].of = server.of /\ ~answer'[c].early
          /\ page'[c] = IF server.of \in errored THEN "failed" ELSE "succeeded"
      BY <1>t, <1>5, <2>1, <2>2 DEF AnswerDone, Reply, TypeOK
    <3>2. issuedIn[c] = downs => server.of = c
      BY <1>t, <2>1, <2>2 DEF ServerAtOwn
    <3>3. QED
      BY <2>1, <3>1, <3>2
  <2>3. CASE ~(c = server.call /\ page[c] = "waiting")
    <3>1. page'[c] = page[c] /\ answer'[c] = answer[c]
      BY <1>t, <1>5, <2>1, <2>3 DEF AnswerDone, Reply, TypeOK
    <3>2. QED
      BY <1>t, <2>1, <3>1 DEF AnswerIsOwn
  <2>4. QED
    BY <2>2, <2>3
<1>6. CASE GoDown
  <2>1. issuedIn' = issuedIn /\ downs' = downs + 1 /\ answer' = answer
    BY <1>6 DEF GoDown
  <2>2. issuedIn'[c] # downs'
    BY <1>t, <2>1 DEF KeysOfLife, TypeOK
  <2>3. QED
    BY <1>t, <2>1, <2>2 DEF AnswerIsOwn
<1>7. CASE Restart \/ UNCHANGED vars
  <2>1. UNCHANGED <<page, answer, errored, issuedIn, downs>>
    BY <1>7 DEF Restart, vars
  <2>2. QED
    BY <1>0, <2>1
<1>8. QED
  BY <1>0, <1>1, <1>2, <1>3, <1>4, <1>5, <1>6, <1>7 DEF Next, Server, Runner

(* The invariant that the argument rests on. *)
THEOREM InvariantHolds == Spec => []IInv
<1>1. IInv /\ [Next]_vars => IInv'
  BY NextType, NextRequest, NextKeys, NextServer, NextSettled, NextOwn DEF IInv
<1>2. QED
  BY InitHolds, <1>1, PTL DEF Spec

(* A page that has not slept through an end of the process is answered with
   what its own function returned or threw, and only when the function is done
   (ajax.js, AjaxHandler.cs, TaskRunner.cs). *)
THEOREM AnswerIsOwnHolds == Spec => []AnswerIsOwn
<1>1. IInv => AnswerIsOwn
  BY DEF IInv
<1>2. QED
  BY InvariantHolds, <1>1, PTL
=============================================================================
