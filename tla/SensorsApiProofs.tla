-------------------------- MODULE SensorsApiProofs --------------------------
(***************************************************************************)
(* What TLAPS proves of SensorsApi for any clients, bodies, buffer size and *)
(* number of requests, and across any losses of power: whose bytes a POST   *)
(* deserializes, what the processing runs with, when a null pointer is met, *)
(* and that the endpoint implements ConfigStore.                           *)
(***************************************************************************)
EXTENDS SensorsApi, FiniteSetTheorems, TLAPS

USE ApiAssumption

(* The single slot of the server: at most one transaction is in progress.   *)
OneClient ==
    /\ open = {} \/ \E c \in Clients : open = {c}
    /\ hpc = "idle" => cur = Nobody
    /\ hpc # "idle" => cur \in open /\ req[cur].post

(* The cursor counts the bytes of the open POST, and they are in the buffer.*)
BufferHoldsRequest ==
    /\ cursor <= size
    /\ open = {} => cursor = 0
    /\ \A c \in open :
         /\ cursor = req[c].done
         /\ req[c].post => req[c].body \in Bodies
         /\ ~req[c].post => cursor = 0
         /\ \A k \in 1..cursor : buffer[k] = <<req[c].body, k>>
    /\ hpc # "idle" => cursor = Size[req[cur].body]

(* What main has set up, and what a POST that has come so far must have met.*)
Built == {"processing", "done", "terminated"}
PointersFollowBoot ==
    /\ size # 0 => boot \in {"parser", "manager", "service"} \cup Built
    /\ parser => boot \in {"manager", "service"} \cup Built
    /\ manager => boot \in {"service"} \cup Built
    /\ boot \in {"manager", "service"} \cup Built => parser
    /\ boot \in {"service"} \cup Built => manager
    /\ boot \in Built => service
    /\ hpc \in {"update", "stop", "start", "ok", "threw"} => req[cur].body \in Valid
    /\ hpc \in {"stop", "start", "ok", "threw"} => manager

(* How often the processing was started, and with which configuration.      *)
ProcessingKnown ==
    /\ hpc \in {"start", "ok"} => ~broken
    /\ hpc = "threw" => broken
    /\ broken => Throwing # {}
    /\ ~broken =>
         /\ boot # "done" /\ ~early => runs = 0 /\ hpc \notin {"start", "ok"}
         /\ boot # "done" /\ early => runs = (IF hpc = "start" THEN 0 ELSE 1)
         /\ boot = "done" =>
              runs = (IF early THEN 2 ELSE 1) - (IF hpc = "start" THEN 1 ELSE 0)
         /\ boot = "done" /\ hpc \notin {"stop", "start"} => running = config

ApiInv ==
    /\ ApiTypeOK /\ OneClient /\ BufferHoldsRequest /\ PointersFollowBoot
    /\ ProcessingKnown

-----------------------------------------------------------------------------
(* Two bodies of different bytes are different: what was received is the    *)
(* text of one body at most.                                               *)
LEMMA BytesInjective ==
    ASSUME NEW b \in Bodies, NEW c \in Bodies, Size[b] > 0, BytesOf(b) = BytesOf(c)
    PROVE  b = c
<1>1. Size[b] \in Nat /\ Size[c] \in Nat
  OBVIOUS
<1>2. 1 \in DOMAIN BytesOf(b) /\ 1 \in DOMAIN BytesOf(c)
  <2>1. DOMAIN BytesOf(b) = 1..Size[b]
    BY DEF BytesOf
  <2> QED
    BY <1>1, <2>1
<1>3. BytesOf(b)[1] = <<b, 1>> /\ BytesOf(c)[1] = <<c, 1>>
  BY <1>2 DEF BytesOf
<1> QED
  BY <1>3

(* The buffer of a handler past its last chunk holds the request's body.    *)
LEMMA ReceivedIsBody ==
    ASSUME ApiInv, hpc # "idle"
    PROVE  /\ cur \in open /\ cur \in Clients /\ req[cur].body \in Bodies
           /\ Received = BytesOf(req[cur].body)
<1>1. cur \in open /\ cur \in Clients /\ req[cur].body \in Bodies
  BY DEF ApiInv, ApiTypeOK, OneClient, BufferHoldsRequest
<1>2. cursor = Size[req[cur].body]
  BY DEF ApiInv, BufferHoldsRequest
<1>3. \A k \in 1..cursor : buffer[k] = <<req[cur].body, k>>
  BY <1>1 DEF ApiInv, BufferHoldsRequest
<1> QED
  BY <1>1, <1>2, <1>3 DEF Received, BytesOf

(* It parses exactly if that body is a configuration, and to that one.      *)
LEMMA ParsedIsBody ==
    ASSUME ApiInv, hpc # "idle"
    PROVE  /\ (\E b \in Valid : Received = BytesOf(b)) <=> req[cur].body \in Valid
           /\ req[cur].body \in Valid => Parsed = req[cur].body
<1>1. \A b \in Valid : Received = BytesOf(b) => b = req[cur].body
  BY ReceivedIsBody, BytesInjective
<1>2. req[cur].body \in Valid => Received = BytesOf(req[cur].body)
  BY ReceivedIsBody
<1>3. req[cur].body \in Valid => Parsed = req[cur].body
  BY <1>1, <1>2 DEF Parsed
<1> QED
  BY <1>1, <1>2, <1>3

(* A second client is not accepted.                                        *)
LEMMA AcceptAlone ==
    ASSUME ApiInv, NEW c \in Clients, NEW r \in Requests, Accept(c, r)
    PROVE  open = {} /\ open' = {c} /\ cursor = 0
<1>1. ASSUME NEW d \in Clients, open = {d} PROVE FALSE
  <2>1. Cardinality({d}) = 1
    BY FS_Singleton
  <2> QED
    BY <1>1, <2>1 DEF Accept, ServerSlots
<1> QED
  BY <1>1 DEF ApiInv, OneClient, BufferHoldsRequest, Accept

(* Where the last answer of a request leaves the client.                   *)
LEMMA OnlyClient ==
    ASSUME ApiInv, NEW c \in Clients, c \in open
    PROVE  open = {c} /\ open \ {c} = {} /\ cursor = req[c].done
  BY DEF ApiInv, OneClient, BufferHoldsRequest

(* A chunk is refused, or appended to the buffer right behind the bytes the *)
(* same request has sent before.                                           *)
LEMMA PostStep ==
    ASSUME ApiInv, NEW c \in Clients, PostChunk(c)
    PROVE  /\ hpc = "idle" /\ open = {c} /\ req[c].post /\ req[c].body \in Bodies
           /\ UNCHANGED <<mainVars, config, procVars, accepted, fault, historyVars>>
           /\ \/ /\ cursor' = 0 /\ Answer(c, "network")
                 /\ UNCHANGED <<buffer, req, hpc, cur>>
              \/ /\ \E n \in Nat :
                      /\ cursor + n <= size /\ cursor' = cursor + n
                      /\ buffer' = [k \in 1..BufferSize |->
                           IF k \in cursor + 1 .. cursor + n
                             THEN <<req[c].body, k>> ELSE buffer[k]]
                      /\ req' = [req EXCEPT ![c].done = @ + n]
                 /\ UNCHANGED <<open, outcome>>
                 /\ \/ UNCHANGED <<hpc, cur>>
                    \/ /\ hpc' = "deserialize" /\ cur' = c
                       /\ cursor' = Size[req[c].body]
<1> DEFINE left == Size[req[c].body] - req[c].done
<1>1. c \in open /\ req[c].post
  BY DEF PostChunk
<1>2. open = {c} /\ cursor = req[c].done /\ req[c].body \in Bodies
  BY <1>1, OnlyClient DEF ApiInv, BufferHoldsRequest
<1>3. left \in Int /\ cursor \in Nat /\ size \in Nat /\ DOMAIN buffer = 1..BufferSize
  BY <1>2 DEF ApiInv, ApiTypeOK
<1>4. PICK n \in 0..left, final \in BOOLEAN :
        (IF final THEN n = left ELSE n > 0) /\ Post(c, n, final)
  BY DEF PostChunk
<1>5. n \in Nat
  BY <1>3
<1>6. CASE n + cursor > size
  BY <1>1, <1>2, <1>4, <1>6 DEF Post
<1>7. CASE ~(n + cursor > size)
  <2>1. buffer' = [k \in 1..BufferSize |->
                     IF k \in cursor + 1 .. cursor + n
                       THEN <<req[c].body, req[c].done + k - cursor>> ELSE buffer[k]]
    BY <1>3, <1>4, <1>7 DEF Post
  <2>2. \A k \in 1..BufferSize : req[c].done + k - cursor = k
    BY <1>2, <1>3
  <2>3. buffer' = [k \in 1..BufferSize |->
                     IF k \in cursor + 1 .. cursor + n
                       THEN <<req[c].body, k>> ELSE buffer[k]]
    BY <2>1, <2>2
  <2>4. cursor + n <= size /\ cursor' = cursor + n
        /\ req' = [req EXCEPT ![c].done = @ + n] /\ UNCHANGED <<open, outcome>>
        /\ UNCHANGED <<mainVars, config, procVars, accepted, fault, historyVars>>
        /\ hpc = "idle"
    BY <1>3, <1>4, <1>5, <1>7 DEF Post
  <2>5. \/ UNCHANGED <<hpc, cur>>
        \/ hpc' = "deserialize" /\ cur' = c /\ cursor' = Size[req[c].body]
    <3>1. CASE final
      <4>1. n = left /\ hpc' = "deserialize" /\ cur' = c
        BY <3>1, <1>4, <1>7 DEF Post
      <4>2. Size[req[c].body] \in Nat
        BY <1>2
      <4> QED
        BY <4>1, <4>2, <2>4, <1>2, <1>3
    <3>2. CASE ~final
      BY <3>2, <1>4, <1>7 DEF Post
    <3> QED
      BY <3>1, <3>2
  <2> QED
    BY <1>1, <1>2, <1>5, <2>3, <2>4, <2>5
<1> QED
  BY <1>6, <1>7, <1>3, <1>5

-----------------------------------------------------------------------------
(* The steps, the invariant's conjuncts one after the other.                *)
ClientStep(c) ==
    Get(c) \/ PostChunk(c) \/ Abort(c) \/ \E r \in Requests : Accept(c, r)

(* Every step is one of main, of the power, of the handler or of a         *)
(* client.                                                                 *)
LEMMA ApiSteps ==
    ASSUME [ApiNext]_apiVars
    PROVE  \/ Main \/ PowerLoss \/ HandlerSteps \/ UNCHANGED apiVars
           \/ \E c \in Clients : ClientStep(c)
  BY DEF ApiNext, Serve, ClientStep

(* Steps of main change nothing a client or the handler reads of a request. *)
LEMMA MainKeeps ==
    ASSUME Main PROVE UNCHANGED <<bufferVars, clientVars, hpc, cur, fault, historyVars>>
  BY DEF Main, BootFs, BootSetup, BootController, BootProcessing

(* What the two calls of the processing service do.                        *)
LEMMA ProcessingSteps ==
    ASSUME StopProcessing \/ StartProcessing
    PROVE  /\ UNCHANGED <<mainVars, bufferVars, config, clientVars, cur>>
           /\ \/ /\ hpc = "stop" /\ hpc' = "start" /\ fault' = fault
                 /\ Stopped /\ early' = (boot # "done") /\ broken' = FALSE
              \/ /\ hpc \in {"stop", "start"} /\ hpc' = "threw" /\ fault' = fault
                 /\ Stopped \/ Started \/ UNCHANGED procVars
                 /\ broken' = TRUE /\ early' = early /\ Throwing # {}
              \/ /\ hpc = "start" /\ hpc' = "ok" /\ fault' = fault
                 /\ Started /\ UNCHANGED historyVars
              \/ /\ hpc = "stop" /\ hpc' = "stop" /\ fault' = TRUE /\ ~service
                 /\ UNCHANGED <<procVars, historyVars>>
<1>1. CASE StopProcessing
  BY <1>1, Zenon DEF StopProcessing, Goto, NullPointer
<1>2. CASE StartProcessing
  BY <1>2, Zenon DEF StartProcessing, Goto, historyVars
<1> QED
  BY <1>1, <1>2

(* Types, of all steps.                                                    *)
LEMMA TypeStep == ASSUME ApiInv, [ApiNext]_apiVars PROVE ApiTypeOK'
<1> USE DEF ApiTypeOK, mainVars, bufferVars, procVars, clientVars, historyVars
<1>0. ApiTypeOK
  BY DEF ApiInv
<1>1. CASE Main
  <2>1. UNCHANGED <<bufferVars, clientVars, hpc, cur, fault, historyVars>>
    BY <1>1, MainKeeps
  <2>2. CASE BootFs \/ BootSetup \/ BootProcessing
    BY <1>0, <2>1, <2>2 DEF BootFs, BootSetup, BootProcessing, BootSteps, Started
  <2>3. CASE BootController
    BY <1>0, <2>1, <2>3 DEF BootController, BootSteps
  <2> QED
    BY <1>1, <2>2, <2>3 DEF Main
<1>2. CASE PowerLoss
  <2>1. buffer' \in [1..BufferSize -> Byte]
    BY <1>2 DEF PowerLoss, Byte
  <2>2. outcome' \in [Clients -> Outcome]
    BY <1>0, <1>2 DEF PowerLoss, Outcome
  <2> QED
    <3>1. 0 \in Nat /\ 0 \in 0..BufferSize
      OBVIOUS
    <3> QED
      BY <1>0, <1>2, <2>1, <2>2, <3>1, Zenon DEF PowerLoss, BootSteps, HandlerPC
<1>3. CASE Deserialize
  BY <1>0, <1>3 DEF Deserialize, Goto, NullPointer, HandlerPC
<1>4. CASE Update
  <2>1. hpc # "idle" /\ req[cur].body \in Valid
    BY <1>4 DEF Update, ApiInv, PointersFollowBoot
  <2>2. Parsed \in Bodies
    BY <2>1, ParsedIsBody
  <2> QED
    BY <1>0, <1>4, <2>2 DEF Update, Goto, NullPointer, HandlerPC
<1>5. CASE StopProcessing \/ StartProcessing
  <2>1. runs' \in Nat /\ running' \in Bodies \cup {Nobody}
    <3>1. Stopped \/ Started \/ UNCHANGED procVars
      BY <1>5, ProcessingSteps, Zenon
    <3> QED
      BY <1>0, <3>1 DEF Stopped, Started
  <2>2. early' \in BOOLEAN /\ broken' \in BOOLEAN /\ fault' \in BOOLEAN
        /\ hpc' \in HandlerPC
    BY <1>0, <1>5, ProcessingSteps, Zenon DEF HandlerPC
  <2>3. UNCHANGED <<mainVars, bufferVars, config, clientVars, cur>>
    BY <1>5, ProcessingSteps
  <2> QED
    BY <1>0, <2>1, <2>2, <2>3
<1>6. ASSUME NEW c \in Clients, NEW s \in {"ok", "error", "network"}, Answer(c, s)
      PROVE  open' \subseteq Clients /\ outcome' \in [Clients -> Outcome]
  BY <1>0, <1>6 DEF Answer, Outcome
<1>7. CASE Respond
  <2>1. cur \in Clients
    BY <1>7, ReceivedIsBody DEF Respond
  <2> QED
    BY <1>0, <1>6, <1>7, <2>1 DEF Respond, Answers, HandlerPC
<1>8. ASSUME NEW c \in Clients, ClientStep(c) PROVE ApiTypeOK'
  <2>1. CASE Get(c)
    BY <1>0, <1>6, <2>1 DEF Get
  <2>2. CASE Abort(c)
    BY <1>0, <1>6, <2>2 DEF Abort
  <2>3. CASE PostChunk(c)
    <3>1. cursor' \in 0..BufferSize
      BY <1>0, <2>3, PostStep
    <3>2. buffer' \in [1..BufferSize -> Byte]
      <4>1. \A k \in 1..BufferSize : <<req[c].body, k>> \in Byte
        BY <2>3, PostStep DEF Byte
      <4>2. CASE UNCHANGED buffer
        BY <1>0, <4>2
      <4>3. ASSUME NEW n \in Nat,
                   buffer' = [k \in 1..BufferSize |->
                                IF k \in cursor + 1 .. cursor + n
                                  THEN <<req[c].body, k>> ELSE buffer[k]]
            PROVE  buffer' \in [1..BufferSize -> Byte]
        <5>1. \A k \in 1..BufferSize : buffer[k] \in Byte
          BY <1>0
        <5> QED
          BY <4>1, <4>3, <5>1
      <4> QED
        BY <2>3, <4>2, <4>3, PostStep
    <3>3. req' \in [Clients -> Request]
      <4>1. ASSUME NEW n \in Nat, req' = [req EXCEPT ![c].done = @ + n]
            PROVE  req' \in [Clients -> Request]
        <5>1. [req[c] EXCEPT !.done = @ + n] \in Request
          <6>1. req[c] \in Request /\ req[c].done \in Nat
            BY <1>0 DEF Request
          <6>2. req[c].done + n \in Nat
            BY <6>1
          <6> QED
            BY <6>1, <6>2, Zenon DEF Request
        <5> QED
          BY <1>0, <4>1, <5>1
      <4> QED
        BY <1>0, <2>3, <4>1, PostStep
    <3>4. open' \subseteq Clients /\ outcome' \in [Clients -> Outcome]
      BY <1>0, <1>6, <2>3, PostStep
    <3> QED
      BY <1>0, <2>3, <3>1, <3>2, <3>3, <3>4, PostStep DEF HandlerPC
  <2>4. ASSUME NEW r \in Requests, Accept(c, r) PROVE ApiTypeOK'
    <3>1. req' \in [Clients -> Request]
      <4>1. r \in Request
        <5>1. 0 \in Nat
          OBVIOUS
        <5> QED
          BY <5>1, Zenon DEF Requests, Request
      <4> QED
        BY <1>0, <2>4, <4>1 DEF Accept
    <3>2. outcome' \in [Clients -> Outcome]
      BY <1>0, <2>4 DEF Accept, Outcome, NoOutcome
    <3> QED
      BY <1>0, <2>4, <3>1, <3>2 DEF Accept
  <2> QED
    BY <1>8, <2>1, <2>2, <2>3, <2>4 DEF ClientStep
<1>9. CASE UNCHANGED apiVars
  BY <1>0, <1>9 DEF apiVars
<1> QED
  BY ApiSteps, <1>1, <1>2, <1>3, <1>4, <1>5, <1>7, <1>8, <1>9 DEF HandlerSteps

(* A client's step, by what it does to the transactions and the handler.    *)
LEMMA ClientSteps ==
    ASSUME ApiInv, NEW c \in Clients, ClientStep(c)
    PROVE  /\ hpc = "idle"
           /\ UNCHANGED <<mainVars, config, procVars, historyVars>>
           /\ \/ Get(c) \/ PostChunk(c) \/ Abort(c)
              \/ \E r \in Requests : Accept(c, r)
  BY PostStep DEF ClientStep, Get, Abort, Accept

(* The server accepts a client when it has none, and the handler answers   *)
(* it.                                                                     *)
LEMMA OneClientStep == ASSUME ApiInv, [ApiNext]_apiVars PROVE OneClient'
<1> USE DEF OneClient, mainVars, bufferVars, procVars, clientVars
<1>0. OneClient /\ ApiTypeOK
  BY DEF ApiInv
<1>1. CASE Main \/ UNCHANGED apiVars
  BY <1>0, <1>1, MainKeeps DEF apiVars
<1>2. CASE PowerLoss
  BY <1>0, <1>2 DEF PowerLoss
<1>3. CASE Deserialize \/ Update \/ StopProcessing \/ StartProcessing
  <2>1. hpc # "idle" /\ hpc' # "idle" /\ UNCHANGED <<open, req, cur>>
    BY <1>3, ProcessingSteps DEF Deserialize, Update, Goto, NullPointer
  <2> QED
    BY <1>0, <2>1
<1>4. CASE Respond
  <2>1. cur \in Clients /\ cur \in open
    BY <1>4, ReceivedIsBody DEF Respond
  <2>2. open' = open \ {cur}
    BY <1>4 DEF Respond, Answer
  <2> QED
    BY <1>4, <2>1, <2>2, OnlyClient DEF Respond
<1>5. ASSUME NEW c \in Clients, ClientStep(c) PROVE OneClient'
  <2>1. hpc = "idle" /\ cur = Nobody
    BY <1>0, <1>5, ClientSteps
  <2>2. CASE Get(c) \/ Abort(c)
    <3>1. c \in open /\ (open' = open \/ open' = open \ {c})
          /\ UNCHANGED <<hpc, cur, req>>
      BY <2>2 DEF Get, Abort, Answer
    <3> QED
      BY <1>0, <2>1, <3>1, OnlyClient
  <2>3. CASE PostChunk(c)
    <3>1. open = {c} /\ req[c].post
      BY <2>3, PostStep
    <3>2. CASE Answer(c, "network") /\ UNCHANGED <<req, hpc, cur>>
      BY <1>0, <2>1, <3>1, <3>2 DEF Answer
    <3>3. ASSUME NEW n \in Nat, req' = [req EXCEPT ![c].done = @ + n],
                 UNCHANGED open,
                 (hpc' = hpc /\ cur' = cur) \/ (hpc' = "deserialize" /\ cur' = c)
          PROVE  OneClient'
      <4>1. req'[c].post
        BY <1>0, <3>1, <3>3 DEF ApiTypeOK
      <4> QED
        BY <1>0, <2>1, <3>1, <3>3, <4>1
    <3>4. CASE UNCHANGED <<open, outcome>>
      <4>1. PICK n \in Nat : req' = [req EXCEPT ![c].done = @ + n]
        BY <2>3, <3>4, PostStep DEF Answer
      <4>2. (hpc' = hpc /\ cur' = cur) \/ (hpc' = "deserialize" /\ cur' = c)
        BY <2>3, PostStep, Zenon
      <4> QED
        BY <3>3, <3>4, <4>1, <4>2
    <3> QED
      BY <2>3, <3>2, <3>4, PostStep
  <2>4. ASSUME NEW r \in Requests, Accept(c, r) PROVE OneClient'
    BY <2>1, <2>4, AcceptAlone DEF Accept
  <2> QED
    BY <1>5, <2>2, <2>3, <2>4, ClientSteps
<1> QED
  BY ApiSteps, <1>1, <1>2, <1>3, <1>4, <1>5 DEF HandlerSteps

(* A chunk goes right behind those before it, and every end of a request   *)
(* sets the cursor back.                                                   *)
LEMMA BufferStep == ASSUME ApiInv, [ApiNext]_apiVars PROVE BufferHoldsRequest'
<1> USE DEF BufferHoldsRequest, mainVars, bufferVars, procVars, clientVars
<1>0. BufferHoldsRequest /\ OneClient /\ ApiTypeOK
  BY DEF ApiInv
<1>1. CASE Main
  <2>1. cursor <= size'
    BY <1>0, <1>1 DEF ApiTypeOK, Main, BootFs, BootSetup, BootController, BootProcessing
  <2> QED
    BY <1>0, <1>1, <2>1, MainKeeps
<1>2. CASE PowerLoss
  BY <1>0, <1>2 DEF PowerLoss
<1>3. CASE Deserialize \/ Update \/ StopProcessing \/ StartProcessing
  <2>1. hpc # "idle" /\ UNCHANGED <<open, req, cur, buffer, cursor, size>>
    BY <1>3, ProcessingSteps DEF Deserialize, Update
  <2> QED
    BY <1>0, <2>1
<1>4. CASE Respond
  <2>1. open' = {} /\ cursor' = 0 /\ hpc' = "idle" /\ size' = size
    BY <1>4, ReceivedIsBody, OnlyClient DEF Respond, Answer
  <2> QED
    BY <1>0, <2>1 DEF ApiTypeOK
<1>5. ASSUME NEW c \in Clients, ClientStep(c) PROVE BufferHoldsRequest'
  <2>1. hpc = "idle" /\ size' = size
    BY <1>5, ClientSteps
  <2>2. CASE Get(c)
    <3>1. open = {c} /\ cursor = 0 /\ (open' = {} \/ open' = open)
          /\ UNCHANGED <<hpc, cur, req, buffer, cursor>>
      BY <1>0, <2>2, OnlyClient DEF Get, Answer
    <3> QED
      BY <1>0, <2>1, <3>1
  <2>3. CASE Abort(c)
    <3>1. open' = {} /\ cursor' = 0 /\ hpc' = hpc
      BY <1>0, <2>3, OnlyClient DEF Abort, Answer
    <3> QED
      BY <1>0, <2>1, <3>1 DEF ApiTypeOK
  <2>4. CASE PostChunk(c)
    <3>1. open = {c} /\ cursor = req[c].done /\ req[c].post /\ req[c].body \in Bodies
      BY <1>0, <2>4, PostStep
    <3>2. CASE cursor' = 0 /\ Answer(c, "network") /\ UNCHANGED <<buffer, req, hpc, cur>>
      BY <1>0, <2>1, <3>1, <3>2 DEF Answer, ApiTypeOK
    <3>3. ASSUME NEW n \in Nat,
                 cursor + n <= size, cursor' = cursor + n,
                 buffer' = [k \in 1..BufferSize |->
                              IF k \in cursor + 1 .. cursor + n
                                THEN <<req[c].body, k>> ELSE buffer[k]],
                 req' = [req EXCEPT ![c].done = @ + n],
                 UNCHANGED <<open, outcome>>
          PROVE  BufferHoldsRequest'
      <4>1. req'[c].done = cursor' /\ req'[c].body = req[c].body /\ req'[c].post
        BY <1>0, <3>1, <3>3 DEF ApiTypeOK
      <4>2. cursor \in Nat /\ size \in Nat /\ size <= BufferSize /\ cursor' <= size
        BY <1>0, <2>1, <3>3 DEF ApiTypeOK
      <4>3. ASSUME NEW k \in 1..cursor' PROVE buffer'[k] = <<req[c].body, k>>
        <5>1. k \in 1..BufferSize
          BY <2>1, <3>3, <4>2, <4>3
        <5>2. CASE k \in cursor + 1 .. cursor + n
          BY <3>3, <5>1, <5>2
        <5>3. CASE k \notin cursor + 1 .. cursor + n
          <6>1. k \in 1..cursor
            BY <3>3, <4>2, <4>3, <5>3
          <6> QED
            BY <1>0, <3>1, <3>3, <5>1, <5>3, <6>1
        <5> QED
          BY <5>2, <5>3
      <4>4. hpc' # "idle" => cursor' = Size[req'[cur'].body]
        BY <2>1, <2>4, <4>1, <3>3, <3>1, PostStep
      <4>5. open' = {c} /\ cursor' <= size'
        BY <2>1, <3>1, <3>3, <4>2
      <4>6. \A d \in open' :
              /\ cursor' = req'[d].done
              /\ req'[d].post => req'[d].body \in Bodies
              /\ ~req'[d].post => cursor' = 0
              /\ \A k \in 1..cursor' : buffer'[k] = <<req'[d].body, k>>
        BY <3>1, <4>1, <4>3, <4>5
      <4> QED
        BY <4>4, <4>5, <4>6
    <3> QED
      BY <2>4, <3>2, <3>3, PostStep
  <2>5. ASSUME NEW r \in Requests, Accept(c, r) PROVE BufferHoldsRequest'
    <3>1. open' = {c} /\ cursor' = 0 /\ hpc' = "idle" /\ req'[c] = r
      BY <1>0, <2>5, AcceptAlone DEF Accept, ApiTypeOK
    <3>2. r.done = 0 /\ (r.post => r.body \in Bodies)
      BY DEF Requests
    <3> QED
      BY <1>0, <2>1, <3>1, <3>2 DEF ApiTypeOK
  <2> QED
    BY <1>5, <2>2, <2>3, <2>4, <2>5, ClientSteps
<1>6. CASE UNCHANGED apiVars
  BY <1>0, <1>6 DEF apiVars
<1> QED
  BY ApiSteps, <1>1, <1>2, <1>3, <1>4, <1>5, <1>6 DEF HandlerSteps

(* A static pointer is set by the step of main that it is known from, and  *)
(* a handler that has come to use one found it set.                        *)
LEMMA PointersStep == ASSUME ApiInv, [ApiNext]_apiVars PROVE PointersFollowBoot'
<1> USE DEF PointersFollowBoot, Built, mainVars, bufferVars, procVars, clientVars
<1>0. PointersFollowBoot /\ ApiTypeOK
  BY DEF ApiInv
<1>1. CASE Main
  <2>1. UNCHANGED <<hpc, cur, req>>
    BY <1>1, MainKeeps
  <2>2. CASE BootFs \/ BootSetup \/ BootProcessing
    <3>1. UNCHANGED <<size, parser, manager, service>>
      BY <2>2 DEF BootFs, BootSetup, BootProcessing
    <3>2. \/ boot = "fs" /\ boot' \in {"failed", "setup"}
          \/ boot = "setup" /\ boot' = "buffer"
          \/ boot = "processing" /\ boot' \in {"done", "terminated"}
      BY <2>2 DEF BootFs, BootSetup, BootProcessing
    <3> QED
      BY <1>0, <2>1, <3>1, <3>2
  <2>3. CASE BootController
    <3>1. CASE boot = "buffer" /\ boot' = "parser" /\ parser' = parser
               /\ manager' = manager /\ service' = service
      BY <1>0, <2>1, <3>1
    <3>2. CASE boot = "parser" /\ boot' = "manager" /\ parser' = TRUE
               /\ size' = size /\ manager' = manager /\ service' = service
      BY <1>0, <2>1, <3>2
    <3>3. CASE boot = "manager" /\ boot' = "service" /\ manager' = TRUE
               /\ size' = size /\ parser' = parser /\ service' = service
      BY <1>0, <2>1, <3>3
    <3>4. CASE boot = "service" /\ boot' = "processing" /\ service' = TRUE
               /\ size' = size /\ parser' = parser /\ manager' = manager
      BY <1>0, <2>1, <3>4, Zenon
    <3> QED
      BY <2>3, <3>1, <3>2, <3>3, <3>4 DEF BootController
  <2> QED
    BY <1>1, <2>2, <2>3 DEF Main
<1>2. CASE PowerLoss
  BY <1>0, <1>2 DEF PowerLoss
<1>3. CASE Deserialize
  <2>1. hpc = "deserialize" /\ UNCHANGED <<mainVars, req, cur>>
        /\ hpc' \in {"deserialize", "error", "update"}
    BY <1>3 DEF Deserialize, Goto, NullPointer
  <2>2. hpc' = "update" => req[cur].body \in Valid
    BY <1>3, ParsedIsBody DEF Deserialize, Goto, NullPointer
  <2> QED
    BY <1>0, <2>1, <2>2
<1>4. CASE Update
  <2>1. hpc = "update" /\ UNCHANGED <<mainVars, req, cur>>
        /\ (hpc' \in {"update", "error"} \/ (hpc' = "stop" /\ manager))
    <3>1. hpc = "update" /\ mainVars' = mainVars /\ req' = req /\ cur' = cur
      BY <1>4, Zenon DEF Update
    <3>2. manager => hpc' = "stop" \/ hpc' = "error"
      BY <1>4, Zenon DEF Update, Goto
    <3>3. ~manager => hpc' = hpc
      BY <1>4, Zenon DEF Update, NullPointer
    <3> QED
      BY <3>1, <3>2, <3>3
  <2> QED
    BY <1>0, <2>1
<1>5. CASE StopProcessing \/ StartProcessing
  <2>1. hpc \in {"stop", "start"} /\ hpc' \in {"stop", "start", "ok", "threw"}
        /\ UNCHANGED <<mainVars, req, cur>>
    BY <1>5, ProcessingSteps
  <2> QED
    BY <1>0, <2>1
<1>6. CASE Respond
  <2>1. hpc' = "idle" /\ UNCHANGED mainVars
    BY <1>6 DEF Respond
  <2> QED
    BY <1>0, <2>1
<1>7. ASSUME NEW c \in Clients, ClientStep(c) PROVE PointersFollowBoot'
  <2>1. UNCHANGED mainVars /\ hpc' \in {"idle", "deserialize"}
    BY <1>7, ClientSteps, PostStep DEF Get, Abort, Accept
  <2> QED
    BY <1>0, <2>1
<1>8. CASE UNCHANGED apiVars
  BY <1>0, <1>8 DEF apiVars
<1> QED
  BY ApiSteps, <1>1, <1>2, <1>3, <1>4, <1>5, <1>6, <1>7, <1>8 DEF HandlerSteps

(* After the boot the processing is stopped once and started once by an    *)
(* update.                                                                 *)
LEMMA ProcessingStep == ASSUME ApiInv, [ApiNext]_apiVars PROVE ProcessingKnown'
<1> USE DEF ProcessingKnown, mainVars, bufferVars, procVars, clientVars, historyVars
<1>0. ProcessingKnown /\ ApiTypeOK
  BY DEF ApiInv
<1>1. CASE Main
  <2>1. UNCHANGED <<hpc, historyVars>>
    BY <1>1, MainKeeps
  <2>2. CASE BootFs \/ BootSetup \/ BootController
    <3>1. UNCHANGED procVars /\ boot # "done" /\ boot' # "done"
      BY <2>2 DEF BootFs, BootSetup, BootController
    <3> QED
      BY <1>0, <2>1, <3>1
  <2>3. CASE BootProcessing
    BY <1>0, <2>1, <2>3 DEF BootProcessing, Started, ApiTypeOK
  <2> QED
    BY <1>1, <2>2, <2>3 DEF Main
<1>2. CASE PowerLoss
  BY <1>2 DEF PowerLoss
<1>3. CASE Deserialize \/ Respond
  <2>1. UNCHANGED <<boot, config, runs, running, historyVars>>
        /\ hpc \in {"deserialize", "ok", "error", "threw"}
        /\ hpc' \in {"deserialize", "error", "update", "idle"}
    BY <1>3 DEF Deserialize, Respond, Goto, NullPointer
  <2> QED
    BY <1>0, <2>1
<1>4. CASE Update
  <2>1. hpc = "update" /\ UNCHANGED <<boot, runs, running, historyVars>>
        /\ (hpc' = "stop" \/ (hpc' \in {"update", "error"} /\ UNCHANGED config))
    <3>1. hpc = "update" /\ boot' = boot /\ procVars' = procVars /\ historyVars' = historyVars
      BY <1>4, Zenon DEF Update
    <3>2. manager => hpc' = "stop" \/ (hpc' = "error" /\ config' = config)
      BY <1>4, Zenon DEF Update, Goto
    <3>3. ~manager => hpc' = hpc /\ config' = config
      BY <1>4, Zenon DEF Update, NullPointer
    <3> QED
      BY <3>1, <3>2, <3>3
  <2> QED
    BY <1>0, <2>1
<1>5. CASE StopProcessing \/ StartProcessing
  <2>1. CASE hpc = "stop" /\ hpc' = "start" /\ Stopped /\ broken' = FALSE
             /\ early' = (boot # "done") /\ UNCHANGED <<boot, config>>
    <3>1. CASE boot = "done"
      <4>1. early' = FALSE /\ boot' = "done" /\ runs' = 0
        BY <2>1, <3>1 DEF Stopped
      <4> QED
        BY <1>0, <2>1, <4>1
    <3>2. CASE boot # "done"
      <4>1. early' = TRUE /\ boot' # "done" /\ runs' = 0
        BY <2>1, <3>2 DEF Stopped
      <4> QED
        BY <1>0, <2>1, <4>1
    <3> QED
      BY <3>1, <3>2
  <2>2. CASE hpc = "start" /\ hpc' = "ok" /\ Started /\ UNCHANGED historyVars
             /\ UNCHANGED <<boot, config>>
    BY <1>0, <2>2 DEF Started, ApiTypeOK
  <2>3. CASE hpc' = "threw" /\ broken' = TRUE /\ Throwing # {}
    BY <2>3
  <2>4. CASE hpc = "stop" /\ hpc' = hpc /\ UNCHANGED <<runs, running, historyVars>>
             /\ UNCHANGED <<boot, config>>
    BY <1>0, <2>4
  <2> QED
    BY <1>5, <2>1, <2>2, <2>3, <2>4, ProcessingSteps
<1>7. ASSUME NEW c \in Clients, ClientStep(c) PROVE ProcessingKnown'
  <2>1. UNCHANGED <<boot, config, runs, running, historyVars>> /\ hpc = "idle"
        /\ hpc' \in {"idle", "deserialize"}
    BY <1>7, ClientSteps, PostStep DEF Get, Abort, Accept
  <2> QED
    BY <1>0, <2>1
<1>8. CASE UNCHANGED apiVars
  BY <1>0, <1>8 DEF apiVars
<1> QED
  BY ApiSteps, <1>1, <1>2, <1>3, <1>4, <1>5, <1>7, <1>8 DEF HandlerSteps

(* ApiInv is an inductive invariant of the endpoint.                       *)
THEOREM ApiInvAlways == ApiSpec => []ApiInv
<1>1. ApiInit => ApiInv
  <2>1. ASSUME ApiInit PROVE ApiTypeOK
    <3>1. /\ 0 \in Nat /\ 0 \in 0..BufferSize
          /\ NoRequest \in Request /\ NoOutcome \in Outcome /\ Nobody \in Byte
      <4>1. 0 \in Nat /\ 0 \in 0..BufferSize
        OBVIOUS
      <4> QED
        BY <4>1, Zenon DEF NoRequest, Request, NoOutcome, Outcome, Byte
    <3> QED
      BY <2>1, <3>1, Zenon DEF ApiInit, ApiTypeOK, BootSteps, HandlerPC
  <2>2. ApiInit => OneClient /\ PointersFollowBoot /\ ProcessingKnown
    BY DEF ApiInit, OneClient, PointersFollowBoot, Built, ProcessingKnown
  <2>3. ApiInit => BufferHoldsRequest
    BY DEF ApiInit, BufferHoldsRequest
  <2> QED
    BY <2>1, <2>2, <2>3 DEF ApiInv
<1>2. ApiInv /\ [ApiNext]_apiVars => ApiInv'
  BY TypeStep, OneClientStep, BufferStep, PointersStep, ProcessingStep DEF ApiInv
<1> QED
  BY <1>1, <1>2, PTL DEF ApiSpec

(* Every variable of the endpoint keeps its type.                          *)
THEOREM ApiTypeAlwaysOK == ApiSpec => []ApiTypeOK
<1>1. ApiInv => ApiTypeOK
  BY DEF ApiInv
<1> QED
  BY ApiInvAlways, <1>1, PTL

(* A POST deserializes the body of its own request, byte for byte.          *)
THEOREM OwnBodyAlwaysParsed == ApiSpec => []OwnBodyParsed
<1>1. ApiInv => OwnBodyParsed
  BY ReceivedIsBody DEF OwnBodyParsed
<1> QED
  BY ApiInvAlways, <1>1, PTL

(* Between updates the processing runs with the current configuration, and  *)
(* was started as often as the order of the last update and main's own      *)
(* start tells, whatever the calls of the processing service throw.         *)
THEOREM ProcessingAlwaysFollowsConfig == ApiSpec => []ProcessingFollowsConfig
<1>1. ApiInv => ProcessingFollowsConfig
  BY DEF ApiInv, ProcessingKnown, ProcessingFollowsConfig
<1> QED
  BY ApiInvAlways, <1>1, PTL

(* A step that meets a null pointer, and where main is then.                *)
LEMMA FaultStep ==
    ASSUME ApiInv, [ApiNext]_apiVars, ~fault, fault'
    PROVE  /\ boot \notin {"processing", "done"}
           /\ cur # Nobody => boot \in {"parser", "manager", "service"}
<1>0. ApiTypeOK /\ OneClient /\ PointersFollowBoot
  BY DEF ApiInv
<1>1. ASSUME hpc # "idle", req[cur].body \in Valid
      PROVE  boot \in {"parser", "manager", "service"} \cup Built
  <2>1. cursor > 0 /\ cursor <= size /\ size \in Nat
    BY <1>0, <1>1, ReceivedIsBody DEF ApiInv, BufferHoldsRequest, ApiTypeOK
  <2> QED
    BY <1>0, <2>1 DEF ApiTypeOK, PointersFollowBoot, Built
<1>2. ~(Main \/ PowerLoss \/ StartProcessing \/ Respond \/ UNCHANGED apiVars)
  <2>1. Main => fault' = fault
    BY MainKeeps
  <2>2. ~PowerLoss
    BY Zenon DEF PowerLoss
  <2>3. StartProcessing => fault' = fault
    BY Zenon DEF StartProcessing, Goto
  <2>4. Respond => fault' = fault
    BY DEF Respond
  <2>5. UNCHANGED apiVars => fault' = fault
    BY DEF apiVars
  <2> QED
    BY <2>1, <2>2, <2>3, <2>4, <2>5
<1>3. CASE Deserialize
  <2>1. hpc # "idle" /\ ~parser /\ \E b \in Valid : Received = BytesOf(b)
    BY <1>3 DEF Deserialize, Goto
  <2>2. req[cur].body \in Valid
    BY <2>1, ParsedIsBody
  <2> QED
    BY <1>0, <1>1, <2>1, <2>2 DEF PointersFollowBoot, Built
<1>4. CASE Update
  <2>1. hpc = "update" /\ ~manager
    BY <1>4, Zenon DEF Update, Goto
  <2> QED
    BY <1>0, <1>1, <2>1 DEF PointersFollowBoot, Built
<1>5. CASE StopProcessing
  <2>1. hpc = "stop" /\ ~service
    BY <1>5, ProcessingSteps
  <2> QED
    BY <1>0, <1>1, <2>1 DEF PointersFollowBoot, Built
<1>6. ASSUME NEW c \in Clients, ClientStep(c)
      PROVE  boot \notin {"processing", "done"} /\ cur = Nobody
  <2>1. Get(c)
    BY <1>6, PostStep DEF ClientStep, Abort, Accept
  <2>2. ~(manager /\ parser) /\ hpc = "idle"
    BY <2>1 DEF Get
  <2> QED
    BY <1>0, <2>2 DEF PointersFollowBoot, Built, OneClient
<1> QED
  BY ApiSteps, <1>2, <1>3, <1>4, <1>5, <1>6 DEF HandlerSteps

(* Null pointers are met only before the controller is complete, and by a   *)
(* POST only after the first of its statics is set.                         *)
THEOREM FaultsAlwaysDuringBoot == ApiSpec => FaultsOnlyDuringBoot
<1>1. ApiInv /\ [ApiNext]_apiVars =>
        [~fault /\ fault' =>
          /\ boot \notin {"processing", "done"}
          /\ cur # Nobody => boot \in {"parser", "manager", "service"}]_apiVars
  BY FaultStep
<1> QED
  BY ApiInvAlways, <1>1, PTL DEF ApiSpec, FaultsOnlyDuringBoot

-----------------------------------------------------------------------------
(* The endpoint implements ConfigStore.                                    *)

(* The state of the store, as the implementation has it.                   *)
storeBooting == boot \in {"fs", "setup", "failed"}
storeReq     == [c \in Clients |-> [post |-> req[c].post, body |-> req[c].body]]
storeDone    == IF hpc \in {"stop", "start", "ok", "threw"} THEN {cur} ELSE {}

(* A step that leaves these alone is a stutter of the store.                *)
LEMMA StoreStutter ==
    ASSUME UNCHANGED <<config, open, req, outcome>>, storeBooting' = storeBooting,
           storeDone' = storeDone
    PROVE  UNCHANGED Store!storeVars
<1>1. storeReq' = storeReq
  BY DEF storeReq
<1> QED
  BY <1>1 DEF Store!storeVars, storeBooting, storeReq, storeDone

(* Every answer is one the store may give.                                 *)
LEMMA StoreReply ==
    ASSUME ApiInv, NEW c \in Clients, c \in open,
           NEW s \in {"ok", "error", "network"}, Answer(c, s),
           s = "ok" => ~storeBooting /\ (req[c].post => c \in storeDone),
           s = "error" => req[c].post /\ (c \notin storeDone \/ Throwing # {}),
           UNCHANGED <<config, boot, req>>, storeDone' = storeDone \ {c}
    PROVE  Store!Reply(c, s)
<1>1. storeReq' = storeReq /\ storeReq[c].post = req[c].post
  BY DEF storeReq
<1> QED
  BY <1>1 DEF Store!Reply, Answer, storeBooting, storeReq, storeDone

(* Every step of the endpoint is one of the abstract store or a stutter.   *)
LEMMA StoreSteps ==
    ASSUME ApiInv, [ApiNext]_apiVars
    PROVE  [Store!StoreNext]_Store!storeVars
<1> USE DEF mainVars, bufferVars, procVars, clientVars
<1>0. ApiTypeOK /\ OneClient /\ PointersFollowBoot
  BY DEF ApiInv
<1>1. CASE Main
  <2>1. UNCHANGED <<open, req, outcome, hpc, cur>>
    BY <1>1, MainKeeps
  <2>2. storeDone' = storeDone /\ storeReq' = storeReq
    BY <2>1 DEF storeDone, storeReq
  <2>3. CASE BootFs \/ BootController \/ BootProcessing
    <3>1. config' = config /\ storeBooting' = storeBooting
      BY <2>3 DEF BootFs, BootController, BootProcessing, storeBooting
    <3> QED
      BY <2>1, <2>2, <3>1, StoreStutter
  <2>4. CASE BootSetup
    <3>1. storeBooting /\ storeBooting' = FALSE /\ config' \in {config, BuiltIn}
      BY <2>4 DEF BootSetup, storeBooting
    <3>2. Store!Setup
      BY <2>1, <2>2, <3>1 DEF Store!Setup, storeBooting, storeReq, storeDone
    <3> QED
      BY <3>2 DEF Store!StoreNext
  <2> QED
    BY <1>1, <2>3, <2>4 DEF Main
<1>2. CASE PowerLoss
  <2>1. storeReq' = storeReq /\ storeDone' = {} /\ storeBooting' = TRUE
    BY <1>2 DEF PowerLoss, storeReq, storeDone, storeBooting
  <2>2. Store!PowerLoss
    BY <1>2, <2>1 DEF PowerLoss, Store!PowerLoss, storeReq, storeDone, storeBooting
  <2> QED
    BY <2>2 DEF Store!StoreNext
<1>3. CASE Deserialize \/ StopProcessing \/ StartProcessing
  <2>1. UNCHANGED <<config, open, req, outcome, boot, cur>>
        /\ (hpc' \in {"stop", "start", "ok", "threw"}
              <=> hpc \in {"stop", "start", "ok", "threw"})
    BY <1>3, ProcessingSteps DEF Deserialize, Goto, NullPointer
  <2> QED
    BY <2>1, StoreStutter DEF storeBooting, storeDone
<1>4. CASE Update
  <2>1. hpc = "update" /\ UNCHANGED <<open, req, outcome, boot, cur>>
    BY <1>4 DEF Update
  <2>2. \/ hpc' \in {"update", "error"} /\ config' = config
        \/ manager /\ hpc' = "stop" /\ config' = Parsed
    BY <1>4, Zenon DEF Update, Goto, NullPointer
  <2>3. CASE hpc' \in {"update", "error"} /\ config' = config
    BY <2>1, <2>3, StoreStutter DEF storeBooting, storeDone
  <2>4. CASE manager /\ hpc' = "stop" /\ config' = Parsed
    <3>1. cur \in Clients /\ cur \in open /\ req[cur].post
      BY <1>0, <2>1, ReceivedIsBody DEF OneClient
    <3>2. req[cur].body \in Valid /\ config' = req[cur].body
      BY <1>0, <2>1, <2>4, ParsedIsBody DEF PointersFollowBoot
    <3>3. ~storeBooting /\ storeBooting' = storeBooting
      BY <1>0, <2>1, <2>4 DEF PointersFollowBoot, Built, storeBooting
    <3>4. storeDone = {} /\ storeDone' = {cur}
      BY <2>1, <2>4 DEF storeDone
    <3>5. storeReq' = storeReq /\ storeReq[cur].post = req[cur].post
          /\ storeReq[cur].body = req[cur].body
      BY <2>1, <3>1 DEF storeReq
    <3>6. Store!Apply(cur)
      BY <2>1, <3>1, <3>2, <3>3, <3>4, <3>5
         DEF Store!Apply, storeBooting, storeReq, storeDone
    <3> QED
      BY <3>1, <3>6 DEF Store!StoreNext
  <2> QED
    BY <2>2, <2>3, <2>4
<1>5. CASE Respond
  <2>1. cur \in Clients /\ cur \in open /\ req[cur].post
        /\ hpc \in {"ok", "error", "threw"}
    BY <1>0, <1>5, ReceivedIsBody DEF Respond, OneClient
  <2>2. PICK s \in Answers : Answer(cur, s)
    BY <1>5 DEF Respond
  <2>3. UNCHANGED <<config, boot, req>> /\ hpc' = "idle"
    BY <1>5 DEF Respond
  <2>4. storeDone' = storeDone \ {cur}
    BY <2>1, <2>3 DEF storeDone
  <2>5. s = "ok" => ~storeBooting /\ cur \in storeDone
    BY <1>0, <2>1, <2>2 DEF Answers, PointersFollowBoot, Built, storeBooting, storeDone
  <2>6. s = "error" => cur \notin storeDone \/ Throwing # {}
    BY <2>1, <2>2 DEF Answers, storeDone, ApiInv, ProcessingKnown
  <2>7. Store!Reply(cur, s) /\ s \in Store!Statuses
    BY <2>1, <2>2, <2>3, <2>4, <2>5, <2>6, StoreReply DEF Answers, Store!Statuses
  <2> QED
    BY <2>1, <2>7 DEF Store!StoreNext
<1>6. ASSUME NEW c \in Clients, ClientStep(c) PROVE [Store!StoreNext]_Store!storeVars
  <2>1. hpc = "idle" /\ UNCHANGED <<boot, config>> /\ storeBooting' = storeBooting
    BY <1>6, ClientSteps DEF storeBooting
  <2>2. storeDone = {}
    BY <2>1 DEF storeDone
  <2>3. ASSUME NEW s \in {"ok", "error", "network"}, c \in open, Answer(c, s),
               s = "ok" => ~storeBooting /\ ~req[c].post, s # "error",
               req' = req, hpc' = hpc
        PROVE  [Store!StoreNext]_Store!storeVars
    <3>1. storeDone' = storeDone \ {c}
      BY <2>1, <2>2, <2>3 DEF storeDone
    <3>2. Store!Reply(c, s) /\ s \in Store!Statuses
      BY <2>1, <2>2, <2>3, <3>1, StoreReply DEF Store!Statuses
    <3> QED
      BY <3>2 DEF Store!StoreNext
  <2>4. CASE Get(c)
    <3>1. c \in open /\ ~req[c].post /\ UNCHANGED <<req, hpc, cur>>
      BY <2>4 DEF Get
    <3>2. CASE manager /\ parser
      <4>1. Answer(c, "ok")
        BY <2>4, <3>2 DEF Get
      <4>2. ~storeBooting
        BY <1>0, <3>2 DEF PointersFollowBoot, Built, storeBooting
      <4> QED
        BY <2>3, <3>1, <4>1, <4>2
    <3>3. CASE ~(manager /\ parser)
      <4>1. UNCHANGED <<outcome, open>>
        BY <2>4, <3>3 DEF Get
      <4> QED
        BY <2>1, <3>1, <4>1, StoreStutter DEF storeDone
    <3> QED
      BY <3>2, <3>3
  <2>5. CASE Abort(c)
    BY <2>3, <2>5 DEF Abort
  <2>6. CASE PostChunk(c)
    <3>1. open = {c}
      BY <2>6, PostStep
    <3>2. CASE Answer(c, "network") /\ UNCHANGED <<req, hpc>>
      BY <2>3, <3>1, <3>2
    <3>3. ASSUME NEW n \in Nat, req' = [req EXCEPT ![c].done = @ + n],
                 UNCHANGED <<open, outcome>>, hpc' \in {"idle", "deserialize"}
          PROVE  [Store!StoreNext]_Store!storeVars
      <4>1. storeReq' = storeReq
        <5>1. \A d \in Clients : req'[d].post = req[d].post /\ req'[d].body = req[d].body
          BY <1>0, <3>3 DEF ApiTypeOK, Request
        <5> QED
          BY <5>1 DEF storeReq
      <4>2. storeDone' = storeDone
        BY <2>2, <3>3 DEF storeDone
      <4>3. UNCHANGED Store!storeVars
        BY <2>1, <3>3, <4>1, <4>2
           DEF Store!storeVars, storeReq, storeDone, storeBooting
      <4> QED
        BY <4>3
    <3> QED
      BY <2>1, <2>6, <3>2, <3>3, PostStep
  <2>7. ASSUME NEW r \in Requests, Accept(c, r) PROVE [Store!StoreNext]_Store!storeVars
    <3> DEFINE sr == [post |-> r.post, body |-> r.body]
    <3>1. c \notin open /\ open' = open \cup {c} /\ req' = [req EXCEPT ![c] = r]
          /\ outcome' = [outcome EXCEPT ![c] = NoOutcome] /\ hpc' = hpc
      BY <2>7 DEF Accept
    <3>2. storeReq' = [storeReq EXCEPT ![c] = sr]
      BY <1>0, <3>1 DEF storeReq, ApiTypeOK
    <3>3. sr \in {Store!GetRequest} \cup {Store!PostRequest(b) : b \in Bodies}
      BY DEF Requests, Store!GetRequest, Store!PostRequest
    <3>4. storeDone' = storeDone
      BY <2>1, <2>2, <3>1 DEF storeDone
    <3>5. Store!Request(c, sr)
      BY <2>1, <3>1, <3>2, <3>4
         DEF Store!Request, Store!NoOutcome, NoOutcome, storeReq, storeDone, storeBooting
    <3> QED
      BY <3>3, <3>5 DEF Store!StoreNext
  <2> QED
    BY <1>6, <2>4, <2>5, <2>6, <2>7 DEF ClientStep
<1>7. CASE UNCHANGED apiVars
  BY <1>7, StoreStutter DEF apiVars, storeBooting, storeDone
<1> QED
  BY ApiSteps, <1>1, <1>2, <1>3, <1>4, <1>5, <1>6, <1>7 DEF HandlerSteps

(* Every behaviour of the endpoint, across any losses of power, is one of   *)
(* the store its clients rely on.                                          *)
THEOREM EndpointImplementsStore == ApiSpec => ImplementsStore
<1>1. ApiInit => Store!StoreInit
  BY DEF ApiInit, Store!StoreInit, Store!GetRequest, Store!NoOutcome, NoRequest, NoOutcome
<1>2. ApiInv /\ [ApiNext]_apiVars => [Store!StoreNext]_Store!storeVars
  BY StoreSteps
<1> QED
  BY ApiInvAlways, <1>1, <1>2, PTL DEF ApiSpec, ImplementsStore, Store!StoreSpec
=============================================================================
