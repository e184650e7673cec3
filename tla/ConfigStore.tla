---------------------------- MODULE ConfigStore ----------------------------
(***************************************************************************)
(* What the clients of /api/sensors/config rely on: the device holds one   *)
(* sensors configuration.  A GET that succeeds returns it; a POST that     *)
(* succeeds has replaced it by the whole body of that POST; a POST that is *)
(* answered with an error has not, unless errors may come late, after the  *)
(* configuration was replaced; and of one whose connection is lost the     *)
(* client knows nothing.  The configuration outlives a loss of power, but  *)
(* the boot that follows may put the built-in one in its place.            *)
(***************************************************************************)
CONSTANTS
    Clients,   \* connections
    Bodies,    \* POST bodies
    Valid,     \* the ones that are sensors configurations
    BuiltIn,   \* the one main sets up
    Nobody,    \* no body, and the configuration before the first
    LateErrors \* a POST may be answered with an error after it was applied

VARIABLES
    config,    \* the configuration the device holds
    booting,   \* main has not set the configuration up yet
    open,      \* connections with a request in progress
    req,       \* the last request on each connection
    done,      \* the ones whose POST has replaced the configuration
    outcome    \* what the client was told

storeVars == <<config, booting, open, req, done, outcome>>

Statuses == {"ok", "error", "network"}
GetRequest     == [post |-> FALSE, body |-> Nobody]
PostRequest(b) == [post |-> TRUE, body |-> b]
NoOutcome      == [status |-> "none", config |-> Nobody]

StoreInit ==
    /\ config \in Valid \cup {Nobody} /\ booting = TRUE
    /\ open = {} /\ done = {}
    /\ req = [c \in Clients |-> GetRequest]
    /\ outcome = [c \in Clients |-> NoOutcome]

Request(c, r) ==
    /\ c \notin open
    /\ open' = open \cup {c}
    /\ req' = [req EXCEPT ![c] = r]
    /\ outcome' = [outcome EXCEPT ![c] = NoOutcome]
    /\ UNCHANGED <<config, booting, done>>

Apply(c) ==
    /\ ~booting
    /\ c \in open \ done /\ req[c].post /\ req[c].body \in Valid
    /\ config' = req[c].body
    /\ done' = done \cup {c}
    /\ UNCHANGED <<booting, open, req, outcome>>

(* Mutant: success is reported whether the POST was applied or not.        *)
ReplyUnchecked(c, s) ==
    /\ c \in open
    /\ s = "error" => req[c].post /\ (c \notin done \/ LateErrors)
    /\ outcome' = [outcome EXCEPT ![c] =
                     [status |-> s,
                      config |-> IF s = "ok" /\ ~req[c].post THEN config ELSE Nobody]]
    /\ open' = open \ {c}
    /\ done' = done \ {c}
    /\ UNCHANGED <<config, booting, req>>

Reply(c, s) ==
    /\ c \in open
    /\ s = "ok" => ~booting /\ (req[c].post => c \in done)
    /\ s = "error" => req[c].post /\ (c \notin done \/ LateErrors)
    /\ outcome' = [outcome EXCEPT ![c] =
                     [status |-> s,
                      config |-> IF s = "ok" /\ ~req[c].post THEN config ELSE Nobody]]
    /\ open' = open \ {c}
    /\ done' = done \ {c}
    /\ UNCHANGED <<config, booting, req>>

Setup ==
    /\ booting /\ booting' = FALSE
    /\ config' \in {config, BuiltIn}
    /\ UNCHANGED <<open, req, done, outcome>>

(* All connections are lost with the power, and the requests on them.      *)
PowerLoss ==
    /\ booting' = TRUE
    /\ outcome' = [c \in Clients |-> IF c \in open
                     THEN [status |-> "network", config |-> Nobody] ELSE outcome[c]]
    /\ open' = {} /\ done' = {}
    /\ UNCHANGED <<config, req>>

StoreNext ==
    \/ Setup \/ PowerLoss
    \/ \E c \in Clients :
         \/ \E r \in {GetRequest} \cup {PostRequest(b) : b \in Bodies} : Request(c, r)
         \/ Apply(c)
         \/ \E s \in Statuses : Reply(c, s)

StoreSpec == StoreInit /\ [][StoreNext]_storeVars
=============================================================================
