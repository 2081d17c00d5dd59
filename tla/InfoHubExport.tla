--------------------------- MODULE InfoHubExport ---------------------------
(***************************************************************************)
(* The Export operation of the information hub (Service.Export in          *)
(* internal/service/infohub/service.go) running as concurrent HTTP         *)
(* requests against a shared Cache, together with the asynchronous Policy  *)
(* service that stores evaluation results in that Cache under the          *)
(* evaluation id the hub passes it.                                        *)
(*                                                                         *)
(* Each request is one handler goroutine.  Every collaborator call          *)
(* (Storage lookup, one Cache.Get, one Policy.Evaluate, Signer call) is a   *)
(* step of its own, so that the steps of several requests, the Policy      *)
(* service and the Cache's TTL expiry interleave.  Go map iteration order   *)
(* is random: the next policy to read or evaluate is any one not yet done. *)
(* A cached value is abstracted to whether it decodes as a JSON object.    *)
(***************************************************************************)
EXTENDS Naturals, FiniteSets

CONSTANTS
    Requests,       \* concurrent Export requests (handler goroutines)
    ExportNames,    \* export names a caller may ask for
    Policies,       \* policy names ('group/policy/version')
    Config,         \* the export configurations kept in MongoDB:
                    \* a function from configured export names to policy sets
    HasTTL,         \* configured export names whose configuration sets CacheTTL
    ObjectResults,  \* policies whose evaluation result is a JSON object
    BadURLPolicies, \* policies whose name makes the evaluation URL invalid
    MaxFaults       \* bound on failed collaborator calls in a behaviour

ASSUME \A n \in DOMAIN Config : Config[n] \subseteq Policies
ASSUME HasTTL \subseteq DOMAIN Config /\ ObjectResults \subseteq Policies
ASSUME BadURLPolicies \subseteq Policies
ASSUME MaxFaults \in Nat

VARIABLES
    pc,         \* pc[r]: where request r is in Service.Export
    name,       \* name[r]: req.ExportName
    toRead,     \* toRead[r]: policies getExportData has still to read
    read,       \* read[r]: policies whose cached result r has read
    missed,     \* missed[r]: a Cache.Get of r returned NotFound
    toEval,     \* toEval[r]: policies triggerExport has still to evaluate
    evaluated,  \* evaluated[r]: policies r has called Policy.Evaluate for
    signed,     \* signed[r]: r has called Signer.CreatePresentation
    resp,       \* resp[r]: the result or error kind Export returned
    cache,      \* the set of keys present in the Cache
    inflight,   \* keys whose evaluation the Policy service will store
    faults,     \* failed collaborator calls so far
    canceled,   \* canceled[r]: the context of request r was canceled
    afterCancel \* afterCancel[r]: collaborator calls r issued after that

reqVars == <<name, toRead, read, missed, toEval, evaluated, signed,
             canceled, afterCancel>>
vars == <<pc, reqVars, resp, cache, inflight, faults>>

Responses == {"none", "presentation", "accepted", "errNotFound",
              "errBadRequest", "errOther"}

(* Mutant of exportCacheKey: the operands concatenated the wrong way round *)
(* (policy + ":" + exportName).                                            *)
exportCacheKeySwapped(exportName, policyName) == <<policyName, exportName>>

(* exportCacheKey: the key under which a policy result of an export is     *)
(* cached.  The string concatenation name + ":" + policy is modelled as    *)
(* the pair it is meant to encode.                                         *)
exportCacheKey(exportName, policyName) == <<exportName, policyName>>

Keys == (DOMAIN Config) \X Policies

TypeOK ==
    /\ pc \in [Requests -> {"idle", "lookup", "get", "trigger", "done"}]
    /\ name \in [Requests -> ExportNames]
    /\ toRead \in [Requests -> SUBSET Policies]
    /\ read \in [Requests -> SUBSET Policies]
    /\ missed \in [Requests -> BOOLEAN]
    /\ toEval \in [Requests -> SUBSET Policies]
    /\ evaluated \in [Requests -> SUBSET Policies]
    /\ signed \in [Requests -> BOOLEAN]
    /\ resp \in [Requests -> Responses]
    /\ cache \subseteq Keys
    /\ inflight \subseteq Keys
    /\ faults \in 0..MaxFaults
    /\ canceled \in [Requests -> BOOLEAN]
    /\ afterCancel \in [Requests -> Nat]

Init ==
    /\ pc = [r \in Requests |-> "idle"]
    /\ name \in [Requests -> ExportNames]
    /\ toRead = [r \in Requests |-> {}]
    /\ read = [r \in Requests |-> {}]
    /\ missed = [r \in Requests |-> FALSE]
    /\ toEval = [r \in Requests |-> {}]
    /\ evaluated = [r \in Requests |-> {}]
    /\ signed = [r \in Requests |-> FALSE]
    /\ resp = [r \in Requests |-> "none"]
    /\ cache = {}
    /\ inflight = {}
    /\ faults = 0
    /\ canceled = [r \in Requests |-> FALSE]
    /\ afterCancel = [r \in Requests |-> 0]

(* A collaborator call fails (network error, timeout, error status).       *)
Fault == /\ faults < MaxFaults
         /\ faults' = faults + 1

(* Export returns v to the caller.                                         *)
Finish(r, v) == /\ resp' = [resp EXCEPT ![r] = v]
                /\ pc' = [pc EXCEPT ![r] = "done"]

(* Request r issues a collaborator call: counted once its context is       *)
(* canceled.                                                               *)
Issue(r) ==
    afterCancel' = [afterCancel EXCEPT ![r] = IF canceled[r] THEN @ + 1 ELSE @]

(* A collaborator call of request r fails: a fault, or any call made on a  *)
(* canceled context (the Mongo driver and the HTTP clients return the      *)
(* context's error).                                                       *)
CallFails(r) == \/ canceled[r] /\ UNCHANGED faults
                \/ Fault

-----------------------------------------------------------------------------
(* The caller sends GET /v1/export/{exportName}; it sends a new request    *)
(* after each response, as the "accepted" result asks it to.               *)
Request(r) ==
    /\ pc[r] \in {"idle", "done"}
    /\ \E n \in ExportNames : name' = [name EXCEPT ![r] = n]
    /\ pc' = [pc EXCEPT ![r] = "lookup"]
    /\ resp' = [resp EXCEPT ![r] = "none"]
    /\ toRead' = [toRead EXCEPT ![r] = {}]
    /\ read' = [read EXCEPT ![r] = {}]
    /\ missed' = [missed EXCEPT ![r] = FALSE]
    /\ toEval' = [toEval EXCEPT ![r] = {}]
    /\ evaluated' = [evaluated EXCEPT ![r] = {}]
    /\ signed' = [signed EXCEPT ![r] = FALSE]
    /\ canceled' = [canceled EXCEPT ![r] = FALSE]
    /\ afterCancel' = [afterCancel EXCEPT ![r] = 0]
    /\ UNCHANGED <<cache, inflight, faults>>

(* The caller goes away (or the server shuts down) while the handler runs: *)
(* the request context is canceled.  It counts as a failure, so that       *)
(* cancellations, like faults, stop in the liveness argument.              *)
Cancel(r) ==
    /\ pc[r] \in {"lookup", "get", "trigger"}
    /\ ~canceled[r]
    /\ Fault
    /\ canceled' = [canceled EXCEPT ![r] = TRUE]
    /\ UNCHANGED <<pc, name, toRead, read, missed, toEval, evaluated, signed,
                   afterCancel, resp, cache, inflight>>

(* storage.ExportConfiguration: NotFound when no document matches, another *)
(* error when MongoDB fails; otherwise getExportData starts on the names   *)
(* of the configured policies.                                             *)
LookupConfiguration(r) ==
    /\ pc[r] = "lookup"
    /\ Issue(r)
    /\ \/ /\ ~canceled[r]
          /\ name[r] \notin DOMAIN Config
          /\ Finish(r, "errNotFound")
          /\ UNCHANGED <<toRead, faults>>
       \/ /\ ~canceled[r]
          /\ name[r] \in DOMAIN Config
          /\ pc' = [pc EXCEPT ![r] = "get"]
          /\ toRead' = [toRead EXCEPT ![r] = Config[name[r]]]
          /\ UNCHANGED <<resp, faults>>
       \/ /\ CallFails(r)
          /\ Finish(r, "errOther")
          /\ UNCHANGED toRead
    /\ UNCHANGED <<name, read, missed, toEval, evaluated, signed, cache, inflight,
                   canceled>>

(* Mutant of getExportData, for checking that the properties below can    *)
(* fail: it triggers only the policy whose result was missing.             *)
GetExportDataTriggerMissing(r) ==
    /\ pc[r] = "get"
    /\ Issue(r)
    /\ \E p \in toRead[r] :
        LET k == exportCacheKey(name[r], p) IN
        \/ /\ ~canceled[r]
           /\ k \in cache
           /\ toRead' = [toRead EXCEPT ![r] = @ \ {p}]
           /\ read' = [read EXCEPT ![r] = @ \cup {p}]
           /\ UNCHANGED <<pc, resp, missed, toEval, faults>>
        \/ /\ ~canceled[r]
           /\ k \notin cache
           /\ missed' = [missed EXCEPT ![r] = TRUE]
           /\ pc' = [pc EXCEPT ![r] = "trigger"]
           /\ toEval' = [toEval EXCEPT ![r] = {p}]
           /\ UNCHANGED <<toRead, read, resp, faults>>
        \/ /\ CallFails(r)
           /\ Finish(r, "errOther")
           /\ UNCHANGED <<toRead, read, missed, toEval>>
    /\ UNCHANGED <<name, evaluated, signed, cache, inflight, canceled>>

(* One iteration of getExportData: Cache.Get of exportCacheKey.  A         *)
(* NotFound makes Export take the trigger path for every configured        *)
(* policy; any other error is returned.                                    *)
GetExportData(r) ==
    /\ pc[r] = "get"
    /\ Issue(r)
    /\ \E p \in toRead[r] :
        LET k == exportCacheKey(name[r], p) IN
        \/ /\ ~canceled[r]
           /\ k \in cache
           /\ toRead' = [toRead EXCEPT ![r] = @ \ {p}]
           /\ read' = [read EXCEPT ![r] = @ \cup {p}]
           /\ UNCHANGED <<pc, resp, missed, toEval, faults>>
        \/ /\ ~canceled[r]
           /\ k \notin cache
           /\ missed' = [missed EXCEPT ![r] = TRUE]
           /\ pc' = [pc EXCEPT ![r] = "trigger"]
           /\ toEval' = [toEval EXCEPT ![r] = Config[name[r]]]
           /\ UNCHANGED <<toRead, read, resp, faults>>
        \/ /\ CallFails(r)
           /\ Finish(r, "errOther")
           /\ UNCHANGED <<toRead, read, missed, toEval>>
    /\ UNCHANGED <<name, evaluated, signed, cache, inflight, canceled>>

(* json.Unmarshal of every result read into a map succeeds.               *)
DecodesAsObjects(policies) == policies \subseteq ObjectResults

(* signer.Client.CreatePresentation: one POST to the Signer; a transport   *)
(* error, a status other than 200 or an undecodable answer is an error.    *)
CreatePresentation(r) ==
    \/ /\ ~canceled[r]
       /\ Finish(r, "presentation")
       /\ UNCHANGED faults
    \/ /\ CallFails(r)
       /\ Finish(r, "errOther")

(* All results read: decode each as a JSON object ("error creating         *)
(* export" on the first failure), then Signer.CreatePresentation.          *)
CreateExport(r) ==
    /\ pc[r] = "get"
    /\ toRead[r] = {}
    /\ \/ /\ DecodesAsObjects(read[r])
          /\ signed' = [signed EXCEPT ![r] = TRUE]
          /\ Issue(r)
          /\ CreatePresentation(r)
       \/ /\ ~DecodesAsObjects(read[r])
          /\ Finish(r, "errOther")
          /\ UNCHANGED <<signed, faults, afterCancel>>
    /\ UNCHANGED <<name, toRead, read, missed, toEval, evaluated, cache, inflight,
                   canceled>>

(* policy.Client.Evaluate builds the URL addr/policy/<policy>/evaluation;  *)
(* url.ParseRequestURI rejects it with a BadRequest before any call.       *)
InvalidEvaluationURL(p) == p \in BadURLPolicies

(* policy.Client.Evaluate: the POST with x-evaluation-id = k and           *)
(* x-cache-ttl, answered 200: the Policy service will store the result.    *)
EvaluateAccepted(r, k) ==
    /\ ~canceled[r]
    /\ inflight' = inflight \cup {k}
    /\ UNCHANGED faults

(* The call fails: a transport error or timeout (the request may have      *)
(* reached the service all the same), or a status other than 200.          *)
EvaluateFails(r, k) ==
    /\ CallFails(r)
    /\ \E reached \in BOOLEAN :
          inflight' = IF reached THEN inflight \cup {k} ELSE inflight

(* Mutant of triggerExport, for checking NoCallsAfterCancel: a failed      *)
(* Evaluate is logged and the loop goes on with the next policy.           *)
TriggerExportContinueOnError(r) ==
    /\ pc[r] = "trigger"
    /\ \E p \in toEval[r] :
        LET k == exportCacheKey(name[r], p) IN
        /\ evaluated' = [evaluated EXCEPT ![r] = @ \cup {p}]
        /\ toEval' = [toEval EXCEPT ![r] = @ \ {p}]
        /\ \/ /\ InvalidEvaluationURL(p)
              /\ UNCHANGED <<inflight, faults, afterCancel>>
           \/ /\ ~InvalidEvaluationURL(p)
              /\ Issue(r)
              /\ EvaluateAccepted(r, k) \/ EvaluateFails(r, k)
        /\ IF toEval'[r] = {}
              THEN Finish(r, "accepted")
              ELSE UNCHANGED <<pc, resp>>
    /\ UNCHANGED <<name, toRead, read, missed, signed, cache, canceled>>

(* One iteration of triggerExport: Policy.Evaluate with the cache key as   *)
(* evaluation id.  A failed call ends Export with its error and the        *)
(* evaluations already started stay started.  After the last policy Export *)
(* returns the "accepted" result.                                          *)
TriggerExport(r) ==
    /\ pc[r] = "trigger"
    /\ \E p \in toEval[r] :
        LET k == exportCacheKey(name[r], p) IN
        /\ evaluated' = [evaluated EXCEPT ![r] = @ \cup {p}]
        /\ toEval' = [toEval EXCEPT ![r] = @ \ {p}]
        /\ \/ /\ InvalidEvaluationURL(p)
              /\ Finish(r, "errBadRequest")
              /\ UNCHANGED <<inflight, faults, afterCancel>>
           \/ /\ ~InvalidEvaluationURL(p)
              /\ Issue(r)
              /\ \/ /\ EvaluateAccepted(r, k)
                    /\ IF toEval'[r] = {}
                          THEN Finish(r, "accepted")
                          ELSE UNCHANGED <<pc, resp>>
                 \/ /\ EvaluateFails(r, k)
                    /\ Finish(r, "errOther")
    /\ UNCHANGED <<name, toRead, read, missed, signed, cache, canceled>>

-----------------------------------------------------------------------------
(* The Policy service stores the result of an evaluation under its         *)
(* evaluation id, or fails to.                                             *)
PolicyStore(k) ==
    /\ k \in inflight
    /\ inflight' = inflight \ {k}
    /\ cache' = cache \cup {k}
    /\ UNCHANGED <<pc, reqVars, resp, faults>>

PolicyStoreFails(k) ==
    /\ k \in inflight
    /\ Fault
    /\ inflight' = inflight \ {k}
    /\ UNCHANGED <<pc, reqVars, resp, cache>>

(* The Cache drops an entry whose export configuration set CacheTTL.       *)
Expire(k) ==
    /\ k \in cache
    /\ k[1] \in HasTTL
    /\ cache' = cache \ {k}
    /\ UNCHANGED <<pc, reqVars, resp, inflight, faults>>

Handler(r) ==
    \/ LookupConfiguration(r)
    \/ GetExportData(r)
    \/ CreateExport(r)
    \/ TriggerExport(r)

Next ==
    \/ \E r \in Requests : Request(r) \/ Cancel(r) \/ Handler(r)
    \/ \E k \in Keys : PolicyStore(k) \/ PolicyStoreFails(k) \/ Expire(k)

Spec == Init /\ [][Next]_vars

-----------------------------------------------------------------------------
(* The response of an Export request agrees with the collaborator calls it  *)
(* made (spec P1-P4): a presentation is signed from a result read for every *)
(* configured policy and without any evaluation; "accepted" follows a cache *)
(* miss and an evaluation of every configured policy, never the Signer;    *)
(* NotFound reaches the caller only from the configuration lookup, never   *)
(* from a Cache.Get miss; BadRequest only from a policy whose evaluation   *)
(* URL is invalid; an evaluation is only ever started after a miss.       *)
ResponseContract ==
    \A r \in Requests :
        /\ resp[r] = "presentation" =>
              /\ name[r] \in DOMAIN Config
              /\ read[r] = Config[name[r]]
              /\ ~missed[r] /\ evaluated[r] = {}
        /\ resp[r] = "accepted" =>
              /\ missed[r] /\ ~signed[r]
              /\ evaluated[r] = Config[name[r]]
        /\ resp[r] = "errNotFound" =>
              /\ name[r] \notin DOMAIN Config
              /\ read[r] = {} /\ ~missed[r]
        /\ resp[r] = "errBadRequest" =>
              /\ missed[r] /\ evaluated[r] \cap BadURLPolicies # {}
        /\ evaluated[r] # {} => missed[r] /\ ~signed[r]

(* Spec section 5: once its context is canceled, an Export request issues  *)
(* no collaborator call beyond the one that observes the cancellation:    *)
(* each of the Storage lookup, the Cache reads, the Evaluate loop and the  *)
(* Signer call returns on the first error.                                 *)
NoCallsAfterCancel ==
    \A r \in Requests : afterCancel[r] <= 1

=============================================================================
