--------------------------- MODULE InfoHubServer ---------------------------
(***************************************************************************)
(* The information hub process (cmd/infohub/main.go) composed with the     *)
(* Export requests it serves (InfoHubExport).                              *)
(*                                                                         *)
(* main loads its configuration, connects to MongoDB, pings it through     *)
(* storage.New, wires the clients and services, optionally builds the      *)
(* authentication middleware, and hands the HTTP server to                 *)
(* graceful.Shutdown.  Each of these steps ends the process on error       *)
(* (log.Fatal, logger.Fatal, or g.Wait returning).  On SIGTERM the server  *)
(* stops accepting requests and gives the running handlers 20 seconds;     *)
(* then main returns and the process exits, cutting every handler that is  *)
(* still running, e.g. in the middle of the Evaluate loop of               *)
(* triggerExport.  The process supervisor starts it again.  The Cache and  *)
(* the Policy service live on outside the process.                         *)
(***************************************************************************)
EXTENDS InfoHubExport

CONSTANTS
    AuthEnabled,    \* AUTH_ENABLED
    MaxSignals      \* bound on the SIGTERMs in a behaviour

ASSUME AuthEnabled \in BOOLEAN /\ MaxSignals \in Nat

VARIABLES
    server,     \* where the process is: a startup step, serving, draining, stopped
    signals,    \* SIGTERMs received so far
    lost        \* lost[r]: the write deadline of r's connection has passed

Phases == {"config", "mongo", "storage", "wire", "auth", "listen",
           "serving", "draining", "stopped"}

svars == <<vars, server, signals, lost>>

Running(r) == pc[r] \in {"lookup", "get", "trigger"}

ServerInit == /\ Init /\ server = "config" /\ signals = 0
              /\ lost = [r \in Requests |-> FALSE]

(* What the caller of r receives once r's handler has returned: the       *)
(* answer, or a failed connection when the write deadline passed first.    *)
Received(r) == IF lost[r] THEN "errOther" ELSE resp[r]

(* A startup step fails and the process exits.                             *)
Fatal == Fault /\ server' = "stopped"

Step(from, to) ==
    /\ server = from
    /\ \/ server' = to /\ UNCHANGED faults
       \/ Fatal
    /\ UNCHANGED <<pc, reqVars, resp, cache, inflight, signals, lost>>

(* envconfig.Process (a required variable missing) and createLogger (an    *)
(* unknown LOG_LEVEL).                                                     *)
LoadConfig == Step("config", "mongo")

(* mongo.Connect: an invalid MONGO_ADDR.                                   *)
ConnectMongo == Step("mongo", "storage")

(* storage.New pings MongoDB.                                              *)
NewStorage == Step("storage", "wire")

(* The clients, services, endpoints and handlers are built; nothing here   *)
(* can fail.                                                               *)
Wire ==
    /\ server = "wire"
    /\ server' = IF AuthEnabled THEN "auth" ELSE "listen"
    /\ UNCHANGED <<vars, signals, lost>>

(* auth.NewMiddleware fetches the JWK set.                                 *)
AuthMiddleware == Step("auth", "listen")

(* graceful.Shutdown starts the HTTP server; a listen error is returned    *)
(* through g.Wait and main exits.                                          *)
Listen == Step("listen", "serving")

(* SIGTERM: the listener closes; running handlers may finish.              *)
Signal ==
    /\ server = "serving"
    /\ signals < MaxSignals
    /\ server' = "draining"
    /\ signals' = signals + 1
    /\ UNCHANGED <<vars, lost>>

(* http.Server.Shutdown returns once no handler runs; main returns.        *)
Drained ==
    /\ server = "draining"
    /\ \A r \in Requests : ~Running(r)
    /\ server' = "stopped"
    /\ UNCHANGED <<vars, signals, lost>>

(* The 20 second shutdown timeout fires with handlers still running; main  *)
(* returns and the process exits under them: their callers see the        *)
(* connection fail.                                                        *)
GraceExpired ==
    /\ server = "draining"
    /\ \E r \in Requests : Running(r)
    /\ server' = "stopped"
    /\ pc' = [r \in Requests |-> IF Running(r) THEN "done" ELSE pc[r]]
    /\ resp' = [r \in Requests |-> IF Running(r) THEN "errOther" ELSE resp[r]]
    /\ UNCHANGED <<reqVars, cache, inflight, faults, signals, lost>>

(* The supervisor starts the process again.                                *)
Restart ==
    /\ server = "stopped"
    /\ server' = "config"
    /\ UNCHANGED <<vars, signals, lost>>

(* Mutant of WriteTimeout: a deadline shorter than a handler's ordinary    *)
(* run (HTTP_WRITE_TIMEOUT set below the latency of the Cache reads and    *)
(* the Signer call), so that it may pass during every request.             *)
WriteTimeoutEveryRequest(r) ==
    /\ server \in {"serving", "draining"}
    /\ Running(r)
    /\ ~lost[r]
    /\ lost' = [lost EXCEPT ![r] = TRUE]
    /\ UNCHANGED <<vars, server, signals>>

(* http.Server WriteTimeout (HTTP_WRITE_TIMEOUT, 10s by default): the      *)
(* write deadline of r's connection passes while its handler still runs,   *)
(* e.g. after a Cache.Get and an Evaluate that each took close to the      *)
(* client's own 10s timeout.  The request context is not canceled: the     *)
(* handler goes on with its collaborator calls, and its answer is then     *)
(* lost.  Counted as a fault, so that in the liveness argument it happens  *)
(* a bounded number of times.                                              *)
WriteTimeout(r) ==
    /\ server \in {"serving", "draining"}
    /\ Running(r)
    /\ ~lost[r]
    /\ Fault
    /\ lost' = [lost EXCEPT ![r] = TRUE]
    /\ UNCHANGED <<pc, reqVars, resp, cache, inflight, server, signals>>

Startup == LoadConfig \/ ConnectMongo \/ NewStorage \/ Wire \/ AuthMiddleware
           \/ Listen

(* Only a listening server accepts a request; handlers run while serving   *)
(* and draining.                                                           *)
ServerRequest(r) ==
    /\ server = "serving"
    /\ Request(r)
    /\ lost' = [lost EXCEPT ![r] = FALSE]
    /\ UNCHANGED <<server, signals>>
ServerHandler(r) ==
    /\ server \in {"serving", "draining"}
    /\ Cancel(r) \/ Handler(r)
    /\ UNCHANGED <<server, signals, lost>>
Environment(k) ==
    /\ PolicyStore(k) \/ PolicyStoreFails(k) \/ Expire(k)
    /\ UNCHANGED <<server, signals, lost>>

ServerNext ==
    \/ Startup \/ Signal \/ Drained \/ GraceExpired \/ Restart
    \/ \E r \in Requests : ServerRequest(r) \/ ServerHandler(r) \/ WriteTimeout(r)
    \/ \E k \in Keys : Environment(k)

(* The process makes progress, the shutdown timer fires, the supervisor    *)
(* restarts the process, handlers run, callers retry, and the Policy       *)
(* service stores what it accepted.                                        *)
ServerFairness ==
    /\ WF_svars(Startup) /\ WF_svars(Drained \/ GraceExpired) /\ WF_svars(Restart)
    /\ \A r \in Requests : WF_svars(server \in {"serving", "draining"} /\ Handler(r)
                                    /\ UNCHANGED <<server, signals, lost>>)
                           /\ WF_svars(ServerRequest(r))
    /\ \A k \in Keys : WF_svars(PolicyStore(k) /\ UNCHANGED <<server, signals, lost>>)

ServerSpec == ServerInit /\ [][ServerNext]_svars
FairServerSpec == ServerSpec /\ ServerFairness

-----------------------------------------------------------------------------
(* A caller that re-sends Export after every answer it receives, "accepted" *)
(* or a failed connection, eventually receives a presentation, across      *)
(* failed startups, a SIGTERM whose grace period cuts handlers, and        *)
(* answers lost to the write deadline after the handler had triggered the  *)
(* evaluations or read the results.                                        *)
CallerEventuallyExported ==
    \A r \in Requests : []<>(pc[r] = "done" /\ Received(r) = "presentation")

=============================================================================
