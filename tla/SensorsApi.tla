----------------------------- MODULE SensorsApi -----------------------------
(***************************************************************************)
(* The sensors configuration endpoint: SensorsApiController                *)
(* (http_domain/controllers/api/sensors_api_controller.cpp), the service   *)
(* definition of services/http_server.cpp, and the part of main.cpp that   *)
(* starts the HTTP server before the objects its handlers use exist, again *)
(* after every loss of power.                                              *)
(*                                                                         *)
(* Threads: main, and the HTTP server's thread, which calls the handlers.  *)
(* The HTTP server is a library: it accepts ServerSlots clients, hands a   *)
(* request's body to the handler in chunks, calls it with ABORTED when the *)
(* client goes away, and closes the connection when it returns an error.   *)
(* The configuration manager and the processing service are libraries too: *)
(* Update may be refused, Start runs the sensors of the current            *)
(* configuration and Stop ends them; either may throw, with its effect or   *)
(* without it.                                                             *)
(***************************************************************************)
EXTENDS Naturals, Sequences, FiniteSets

CONSTANTS
    Clients,      \* HTTP clients
    Bodies,       \* POST bodies
    Size,         \* the number of bytes of each body
    Valid,        \* the bodies that deserialize to a sensors configuration
    BuiltIn,      \* the configuration of SetupTestSensors
    BufferSize,   \* sensors_config_post_buffer_size_
    Nobody,       \* no client, no body, an unwritten byte
    Throwing,     \* the calls of the processing service that may throw
    MaxRequests   \* bound: requests accepted

(* The empty text is no configuration: it does not parse.                  *)
ASSUME ApiAssumption ==
    /\ Size \in [Bodies -> Nat] /\ \A b \in Valid : Size[b] > 0
    /\ Valid \subseteq Bodies /\ BuiltIn \in Valid
    /\ BufferSize \in Nat /\ MaxRequests \in Nat
    /\ Nobody \notin Clients /\ Nobody \notin Bodies
    /\ Throwing \subseteq {"Stop", "Start"}

VARIABLES
    boot,         \* how far main has come
    size,         \* sensors_config_post_buffer_.size()
    parser, manager, service,  \* the static pointers are set
    buffer,       \* sensors_config_post_buffer_
    cursor,       \* the static cursor of the POST handler
    config,       \* the configuration the manager holds: a body, or Nobody
    runs, running,    \* starts of the processing since its last Stop; its configuration
    open,         \* clients with a transaction in progress
    req,          \* each client's request
    outcome,      \* what each client was told about it
    hpc, cur,     \* the HTTP thread inside the POST handler, and for whom
    accepted,     \* requests accepted so far
    fault,        \* a handler used a null pointer
    early,        \* history: its last Stop came before main had started it
    broken        \* history: a Stop or Start threw since it was last stopped

mainVars   == <<boot, size, parser, manager, service>>
bufferVars == <<buffer, cursor>>
procVars   == <<runs, running>>
clientVars == <<open, req, outcome, accepted>>
historyVars == <<early, broken>>
apiVars == <<mainVars, bufferVars, config, procVars, clientVars, hpc, cur, fault,
             historyVars>>

Byte    == (Bodies \X Nat) \cup {Nobody}
Request == [post : BOOLEAN, body : Bodies \cup {Nobody}, done : Nat]
NoRequest == [post |-> FALSE, body |-> Nobody, done |-> 0]
NoOutcome == [status |-> "none", config |-> Nobody]
Outcome   == [status : {"none", "ok", "error", "network"},
              config : Bodies \cup {Nobody}]
BootSteps == {"fs", "failed", "setup", "buffer", "parser", "manager", "service",
              "processing", "done", "terminated"}
HandlerPC == {"idle", "deserialize", "update", "stop", "start", "ok", "error",
              "threw"}

ApiInit ==
    /\ boot = "fs" /\ size = 0
    /\ parser = FALSE /\ manager = FALSE /\ service = FALSE
    /\ buffer = [k \in 1..BufferSize |-> Nobody] /\ cursor = 0
    /\ config = Nobody
    /\ runs = 0 /\ running = Nobody
    /\ open = {} /\ req = [c \in Clients |-> NoRequest]
    /\ outcome = [c \in Clients |-> NoOutcome]
    /\ hpc = "idle" /\ cur = Nobody
    /\ accepted = 0 /\ fault = FALSE
    /\ early = FALSE /\ broken = FALSE

-----------------------------------------------------------------------------
(* main, after http_server.Start().  If the file system fails main returns  *)
(* and leaves the server running.                                          *)

BootFs ==
    /\ boot = "fs"
    /\ boot' \in {"failed", "setup"}
    /\ UNCHANGED <<size, parser, manager, service, bufferVars, config, procVars,
                   clientVars, hpc, cur, fault, historyVars>>

(* SetupTestSensors, at every boot.  It ignores the result of Update.      *)
BootSetup ==
    /\ boot = "setup" /\ boot' = "buffer"
    /\ config' \in {config, BuiltIn}
    /\ UNCHANGED <<size, parser, manager, service, bufferVars, procVars, clientVars,
                   hpc, cur, fault, historyVars>>

(* Mutant: the constructor leaves the processing service unset.            *)
BootControllerPartly ==
    /\ \/ boot = "buffer" /\ boot' = "parser" /\ size' = BufferSize
            /\ UNCHANGED <<parser, manager, service>>
       \/ boot = "parser" /\ boot' = "manager" /\ parser' = TRUE
            /\ UNCHANGED <<size, manager, service>>
       \/ boot = "manager" /\ boot' = "processing" /\ manager' = TRUE
            /\ UNCHANGED <<size, parser, service>>
    /\ UNCHANGED <<bufferVars, config, procVars, clientVars, hpc, cur, fault,
                   historyVars>>

(* The constructor of SensorsApiController, one static after the other.    *)
BootController ==
    /\ \/ boot = "buffer" /\ boot' = "parser" /\ size' = BufferSize
            /\ UNCHANGED <<parser, manager, service>>
       \/ boot = "parser" /\ boot' = "manager" /\ parser' = TRUE
            /\ UNCHANGED <<size, manager, service>>
       \/ boot = "manager" /\ boot' = "service" /\ manager' = TRUE
            /\ UNCHANGED <<size, parser, service>>
       \/ boot = "service" /\ boot' = "processing" /\ service' = TRUE
            /\ UNCHANGED <<size, parser, manager>>
    /\ UNCHANGED <<bufferVars, config, procVars, clientVars, hpc, cur, fault,
                   historyVars>>

Started == runs' = runs + 1 /\ running' = config
Stopped == runs' = 0 /\ running' = Nobody

(* An exception ends main, and with it the device.                         *)
BootProcessing ==
    /\ boot = "processing"
    /\ \/ boot' = "done" /\ Started
       \/ "Start" \in Throwing /\ boot' = "terminated" /\ UNCHANGED procVars
    /\ UNCHANGED <<size, parser, manager, service, bufferVars, config, clientVars,
                   hpc, cur, fault, historyVars>>

Main == BootFs \/ BootSetup \/ BootController \/ BootProcessing

(* What is in RAM is lost: the statics have their initial values again, and *)
(* the clients their requests.  The configuration is in the file system.    *)
PowerLoss ==
    /\ boot # "fs" /\ boot' = "fs" /\ size' = 0
    /\ parser' = FALSE /\ manager' = FALSE /\ service' = FALSE
    /\ buffer' = [k \in 1..BufferSize |-> Nobody] /\ cursor' = 0
    /\ runs' = 0 /\ running' = Nobody
    /\ outcome' = [c \in Clients |-> IF c \in open
                     THEN [status |-> "network", config |-> Nobody] ELSE outcome[c]]
    /\ open' = {}
    /\ hpc' = "idle" /\ cur' = Nobody
    /\ fault' = FALSE /\ early' = FALSE /\ broken' = FALSE
    /\ UNCHANGED <<config, req, accepted>>

-----------------------------------------------------------------------------
(* The HTTP server.                                                        *)

(* HTTP_SERVICE_DEFINE: one concurrent client.                             *)
ServerSlots == 1

Accept(c, r) ==
    /\ accepted < MaxRequests
    /\ c \notin open /\ Cardinality(open) < ServerSlots
    /\ hpc = "idle"
    /\ open' = open \cup {c}
    /\ req' = [req EXCEPT ![c] = r]
    /\ outcome' = [outcome EXCEPT ![c] = NoOutcome]
    /\ accepted' = accepted + 1
    /\ UNCHANGED <<mainVars, bufferVars, config, procVars, hpc, cur, fault, historyVars>>

(* Only the response to a GET has the configuration as its body.           *)
Answer(c, s) ==
    /\ outcome' = [outcome EXCEPT ![c] =
                     [status |-> s,
                      config |-> IF s = "ok" /\ ~req[c].post THEN config ELSE Nobody]]
    /\ open' = open \ {c}

(* sensors_config_get_handler needs the manager and the parser.            *)
Get(c) ==
    /\ hpc = "idle" /\ c \in open /\ ~req[c].post
    /\ IF manager /\ parser
         THEN Answer(c, "ok") /\ UNCHANGED fault
         ELSE fault' = TRUE /\ UNCHANGED <<outcome, open>>
    /\ UNCHANGED <<mainVars, bufferVars, config, procVars, req, accepted, hpc, cur,
                   historyVars>>

(* Mutant: the cursor is left out of the size check.                       *)
PostCursorUnchecked(c, n, final) ==
    /\ hpc = "idle" /\ c \in open /\ req[c].post
    /\ IF n > size
         THEN /\ cursor' = 0
              /\ Answer(c, "network")
              /\ UNCHANGED <<buffer, req, hpc, cur>>
         ELSE /\ cursor' = cursor + n
              /\ req' = [req EXCEPT ![c].done = @ + n]
              /\ IF final THEN hpc' = "deserialize" /\ cur' = c
                          ELSE UNCHANGED <<hpc, cur>>
              /\ UNCHANGED <<open, outcome, buffer>>
    /\ UNCHANGED <<mainVars, config, procVars, accepted, fault, historyVars>>

(* sensors_config_post_handler for n more bytes of c's body; the last call  *)
(* of a request may bring no bytes.                                        *)
Post(c, n, final) ==
    /\ hpc = "idle" /\ c \in open /\ req[c].post
    /\ IF n + cursor > size
         THEN /\ cursor' = 0
              /\ Answer(c, "network")
              /\ UNCHANGED <<buffer, req, hpc, cur>>
         ELSE /\ buffer' = [k \in DOMAIN buffer |->
                              IF k \in cursor + 1 .. cursor + n
                                THEN <<req[c].body, req[c].done + k - cursor>>
                                ELSE buffer[k]]
              /\ cursor' = cursor + n
              /\ req' = [req EXCEPT ![c].done = @ + n]
              /\ IF final THEN hpc' = "deserialize" /\ cur' = c
                          ELSE UNCHANGED <<hpc, cur>>
              /\ UNCHANGED <<open, outcome>>
    /\ UNCHANGED <<mainVars, config, procVars, accepted, fault, historyVars>>

PostChunk(c) ==
    /\ c \in open /\ req[c].post
    /\ LET left == Size[req[c].body] - req[c].done
       IN  \E n \in 0..left, final \in BOOLEAN :
             /\ IF final THEN n = left ELSE n > 0
             /\ Post(c, n, final)

(* Mutant: an aborted upload leaves the cursor where it was.               *)
AbortKeepsCursor(c) ==
    /\ hpc = "idle" /\ c \in open
    /\ cursor' = cursor
    /\ Answer(c, "network")
    /\ UNCHANGED <<mainVars, buffer, config, procVars, req, accepted, hpc, cur,
                   fault, historyVars>>

Abort(c) ==
    /\ hpc = "idle" /\ c \in open
    /\ cursor' = IF req[c].post THEN 0 ELSE cursor
    /\ Answer(c, "network")
    /\ UNCHANGED <<mainVars, buffer, config, procVars, req, accepted, hpc, cur,
                   fault, historyVars>>

-----------------------------------------------------------------------------
(* UpdateSensorsConfig, on the HTTP thread.                                *)

Goto(l) == hpc' = l /\ UNCHANGED fault
NullPointer == fault' = TRUE /\ UNCHANGED hpc

(* The bytes a complete body b consists of.                                *)
BytesOf(b) == [k \in 1..Size[b] |-> <<b, k>>]
Received   == [k \in 1..cursor |-> buffer[k]]
Parsed     == CHOOSE b \in Valid : Received = BytesOf(b)

Deserialize ==
    /\ hpc = "deserialize"
    /\ IF ~\E b \in Valid : Received = BytesOf(b) THEN Goto("error")
       ELSE IF parser THEN Goto("update") ELSE NullPointer
    /\ UNCHANGED <<mainVars, bufferVars, config, procVars, clientVars, cur, historyVars>>

(* Mutant: the result of Update is ignored.                                *)
UpdateResultIgnored ==
    /\ hpc = "update"
    /\ IF ~manager THEN NullPointer /\ UNCHANGED config
       ELSE config' \in {config, Parsed} /\ Goto("stop")
    /\ UNCHANGED <<mainVars, bufferVars, procVars, clientVars, cur, historyVars>>

Update ==
    /\ hpc = "update"
    /\ IF ~manager THEN NullPointer /\ UNCHANGED config
       ELSE \/ config' = Parsed /\ Goto("stop")
            \/ Goto("error") /\ UNCHANGED config
    /\ UNCHANGED <<mainVars, bufferVars, procVars, clientVars, cur, historyVars>>

(* Mutant: the processing is not stopped before it is started again.       *)
StopForgotten ==
    /\ hpc = "stop"
    /\ IF service THEN Goto("start") ELSE NullPointer
    /\ UNCHANGED <<mainVars, bufferVars, config, procVars, clientVars, cur, historyVars>>

StopProcessing ==
    /\ hpc = "stop"
    /\ \/ /\ service
          /\ Goto("start") /\ Stopped
          /\ early' = (boot # "done") /\ broken' = FALSE
       \/ /\ service /\ "Stop" \in Throwing
          /\ Goto("threw")
          /\ Stopped \/ UNCHANGED procVars
          /\ broken' = TRUE /\ UNCHANGED early
       \/ ~service /\ NullPointer /\ UNCHANGED <<procVars, historyVars>>
    /\ UNCHANGED <<mainVars, bufferVars, config, clientVars, cur>>

StartProcessing ==
    /\ hpc = "start"
    /\ \/ Goto("ok") /\ Started /\ UNCHANGED broken
       \/ /\ "Start" \in Throwing
          /\ Goto("threw")
          /\ Started \/ UNCHANGED procVars
          /\ broken' = TRUE
    /\ UNCHANGED <<mainVars, bufferVars, config, clientVars, cur, early>>

(* What the handler returns; the client may be gone.                       *)
Answers == {IF hpc = "ok" THEN "ok" ELSE "error", "network"}

(* Mutant: a failed update is tried again instead of reported.             *)
RespondRetries ==
    /\ hpc \in {"ok", "error", "threw"}
    /\ IF hpc = "error"
         THEN hpc' = "deserialize" /\ UNCHANGED <<cursor, cur, outcome, open>>
         ELSE /\ \E o \in Answers : Answer(cur, o)
              /\ cursor' = 0
              /\ hpc' = "idle" /\ cur' = Nobody
    /\ UNCHANGED <<mainVars, buffer, config, procVars, req, accepted, fault,
                   historyVars>>

(* The end of the handler, after its catch if anything threw.              *)
Respond ==
    /\ hpc \in {"ok", "error", "threw"}
    /\ \E o \in Answers : Answer(cur, o)
    /\ cursor' = 0
    /\ hpc' = "idle" /\ cur' = Nobody
    /\ UNCHANGED <<mainVars, buffer, config, procVars, req, accepted, fault,
                   historyVars>>

HandlerSteps ==
    \/ Deserialize \/ Update \/ StopProcessing \/ StartProcessing \/ Respond

Requests == [post : {FALSE}, body : {Nobody}, done : {0}]
              \cup [post : {TRUE}, body : Bodies, done : {0}]

Serve(c) == Get(c) \/ PostChunk(c) \/ Abort(c)

(* A null pointer or an uncaught exception stops the device, until it is    *)
(* started again.                                                          *)
Up == ~fault /\ boot # "terminated"

ApiNext ==
    \/ /\ Up
       /\ \/ Main \/ HandlerSteps
          \/ \E c \in Clients : Serve(c) \/ \E r \in Requests : Accept(c, r)
    \/ PowerLoss
    \/ (~Up \/ accepted = MaxRequests) /\ UNCHANGED apiVars

(* The server's thread keeps running, and a client that stalls is aborted   *)
(* by the server's inactivity timeout.                                     *)
ApiSpec ==
    /\ ApiInit /\ [][ApiNext]_apiVars
    /\ WF_apiVars(Up /\ HandlerSteps)
    /\ \A c \in Clients : WF_apiVars(Up /\ Serve(c))

-----------------------------------------------------------------------------
(* Every variable has its type.                                            *)
ApiTypeOK ==
    /\ boot \in BootSteps
    /\ size \in {0, BufferSize}
    /\ parser \in BOOLEAN /\ manager \in BOOLEAN /\ service \in BOOLEAN
    /\ fault \in BOOLEAN /\ early \in BOOLEAN /\ broken \in BOOLEAN
    /\ buffer \in [1..BufferSize -> Byte] /\ cursor \in 0..BufferSize
    /\ config \in Bodies \cup {Nobody}
    /\ runs \in Nat /\ running \in Bodies \cup {Nobody}
    /\ open \subseteq Clients /\ req \in [Clients -> Request]
    /\ outcome \in [Clients -> Outcome]
    /\ hpc \in HandlerPC /\ cur \in Clients \cup {Nobody}
    /\ accepted \in Nat

(* What the POST handler deserializes is exactly the body of the request it *)
(* serves: no byte of an earlier, aborted or refused upload or of another   *)
(* client, although buffer and cursor are shared by all requests.          *)
OwnBodyParsed ==
    hpc = "deserialize" => Received = BytesOf(req[cur].body)

(* The endpoint is the store its clients rely on, ConfigStore: a POST that  *)
(* was answered with success has replaced the configuration by its own      *)
(* whole body, one answered with an error has changed nothing, unless the   *)
(* processing service may throw, which comes too late, and nothing else     *)
(* changes what the device holds but the setup that follows a loss of       *)
(* power, also if it comes in the middle of an upload or an update.  A POST *)
(* counts as applied while its handler is past Update.                     *)
Store == INSTANCE ConfigStore WITH
           LateErrors <- Throwing # {},
           booting <- boot \in {"fs", "setup", "failed"},
           req  <- [c \in Clients |-> [post |-> req[c].post, body |-> req[c].body]],
           done <- IF hpc \in {"stop", "start", "ok", "threw"} THEN {cur} ELSE {}
ImplementsStore == Store!StoreSpec

(* Once main has started it, the sensor processing runs with the            *)
(* configuration the manager holds whenever no update is under way, however *)
(* updates were refused, aborted, rejected or interrupted by a loss of      *)
(* power; it was started once, or twice if the last update came before      *)
(* main's own start.  After an exception of Stop or Start nothing is known  *)
(* of it, up to the next update that stops and starts it.                  *)
ProcessingFollowsConfig ==
    boot = "done" /\ hpc = "idle" /\ ~broken =>
      runs = (IF early THEN 2 ELSE 1) /\ running = config

(* Handlers meet null pointers only before HttpServer::Initialize has       *)
(* finished; a POST is refused for as long as its buffer is empty.          *)
FaultsOnlyDuringBoot ==
    [][~fault /\ fault' =>
         /\ boot \notin {"processing", "done"}
         /\ cur # Nobody => boot \in {"parser", "manager", "service"}]_apiVars

(* Every accepted request is answered or its connection ends, unless the    *)
(* device stops: the only slot of the server is always freed.              *)
RequestsEnd == \A c \in Clients : c \in open ~> c \notin open \/ ~Up
=============================================================================
