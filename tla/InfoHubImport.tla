--------------------------- MODULE InfoHubImport ---------------------------
(***************************************************************************)
(* The Import operation of the information hub (Service.Import in          *)
(* internal/service/infohub/service.go) running as concurrent HTTP         *)
(* requests against a shared Cache.                                        *)
(*                                                                         *)
(* A request verifies the presentation with the Signer, parses it, and     *)
(* then walks its credentials in order: a credential that is not a JSON    *)
(* object, or whose credentialSubject is missing or not an object, aborts  *)
(* the import with BadRequest; a valid one gets a fresh uuid and its       *)
(* subject is stored with Cache.Set under it; a failed Set skips the       *)
(* credential.  A subject is abstracted to the pair <<request, position>>, *)
(* which identifies its bytes.                                             *)
(*                                                                         *)
(* The HTTP server's write deadline may pass while a handler runs; the     *)
(* handler goes on, and its caller receives a failed connection.  A caller *)
(* re-sends the same presentation after a failure, or after an answer      *)
(* that imported fewer credentials than it sent.                           *)
(***************************************************************************)
EXTENDS Naturals, Sequences, FiniteSets, TLC

CONSTANTS
    Requests,   \* concurrent Import requests (handler goroutines)
    MaxCreds,   \* bound on the number of credentials in a presentation
    MaxFaults   \* bound on failed collaborator calls in a behaviour

ASSUME MaxCreds \in Nat /\ MaxFaults \in Nat

(* The shapes a credential of a parsed presentation can have, as far as    *)
(* Service.Import tells them apart.                                        *)
CredentialKinds == {"valid", "notMap", "badSubject"}

(* The bodies a caller can send: a presentation whose proof the Signer     *)
(* rejects, one the parser rejects, or one with up to MaxCreds credentials.*)
Presentations ==
    [proof : {FALSE}, schema : {TRUE}, creds : {<<>>}]
    \cup [proof : {TRUE}, schema : {FALSE}, creds : {<<>>}]
    \cup [proof : {TRUE}, schema : {TRUE},
          creds : UNION {[1..n -> CredentialKinds] : n \in 0..MaxCreds}]

(* uuid.NewString never repeats; the model draws ids from a counter.  An    *)
(* attempt that does not import every credential costs a fault, so a      *)
(* caller makes at most MaxFaults + 1 attempts that store anything.        *)
MaxIds == Cardinality(Requests) * MaxCreds * (MaxFaults + 1)
ImportIds == 1..MaxIds
Subjects == Requests \X (1..MaxCreds)

VARIABLES
    pc,         \* pc[r]: where request r is in Service.Import
    vp,         \* vp[r]: the body r was sent (req.Data)
    idx,        \* idx[r]: the credential the loop is at
    ids,        \* ids[r]: importedCredentials
    skipped,    \* skipped[r]: credentials skipped after a failed Cache.Set
    resp,       \* resp[r]: the result or error kind Import returned
    cache,      \* the Cache entries: a function from import ids to subjects
    nextId,     \* the next uuid
    faults,     \* failed collaborator calls so far
    canceled,   \* canceled[r]: the context of request r was canceled
    afterCancel,\* afterCancel[r]: collaborator calls r issued after that
    lost        \* lost[r]: the write deadline of r's connection has passed

vars == <<pc, vp, idx, ids, skipped, resp, cache, nextId, faults,
          canceled, afterCancel, lost>>

Responses == {"none", "ok", "errBadRequest", "errOther"}

TypeOK ==
    /\ pc \in [Requests -> {"verify", "parse", "store", "done"}]
    /\ vp \in [Requests -> Presentations]
    /\ idx \in [Requests -> 1..(MaxCreds + 1)]
    /\ ids \in [Requests -> Seq(ImportIds)]
    /\ skipped \in [Requests -> 0..MaxCreds]
    /\ resp \in [Requests -> Responses]
    /\ DOMAIN cache \subseteq ImportIds
    /\ \A id \in DOMAIN cache : cache[id] \in Subjects
    /\ nextId \in 1..(MaxIds + 1)
    /\ faults \in 0..MaxFaults
    /\ canceled \in [Requests -> BOOLEAN]
    /\ afterCancel \in [Requests -> 0..(MaxCreds + 2)]
    /\ lost \in [Requests -> BOOLEAN]

Init ==
    /\ pc = [r \in Requests |-> "verify"]
    /\ vp \in [Requests -> Presentations]
    /\ idx = [r \in Requests |-> 1]
    /\ ids = [r \in Requests |-> <<>>]
    /\ skipped = [r \in Requests |-> 0]
    /\ resp = [r \in Requests |-> "none"]
    /\ cache = <<>>
    /\ nextId = 1
    /\ faults = 0
    /\ canceled = [r \in Requests |-> FALSE]
    /\ afterCancel = [r \in Requests |-> 0]
    /\ lost = [r \in Requests |-> FALSE]

Fault == /\ faults < MaxFaults
         /\ faults' = faults + 1

Finish(r, v) == /\ resp' = [resp EXCEPT ![r] = v]
                /\ pc' = [pc EXCEPT ![r] = "done"]

-----------------------------------------------------------------------------
(* A collaborator call issued by request r: counted when r's context is   *)
(* already canceled.                                                       *)
Issue(r) ==
    afterCancel' = [afterCancel EXCEPT ![r] = IF canceled[r] THEN @ + 1 ELSE @]

(* The caller goes away or the server shuts down: the request context is   *)
(* canceled while the handler runs.  Counted as a fault.                   *)
Cancel(r) ==
    /\ pc[r] # "done"
    /\ ~canceled[r]
    /\ Fault
    /\ canceled' = [canceled EXCEPT ![r] = TRUE]
    /\ UNCHANGED <<pc, vp, idx, ids, skipped, resp, cache, nextId,
                   afterCancel, lost>>

(* http.Server WriteTimeout: the write deadline of r's connection passes   *)
(* while the handler runs.  The context is not canceled: the handler goes  *)
(* on storing subjects, and its answer is lost.                            *)
WriteTimeout(r) ==
    /\ pc[r] # "done"
    /\ ~lost[r]
    /\ Fault
    /\ lost' = [lost EXCEPT ![r] = TRUE]
    /\ UNCHANGED <<pc, vp, idx, ids, skipped, resp, cache, nextId, canceled,
                   afterCancel>>

(* What the caller of r receives once r's handler has returned.            *)
Received(r) == IF lost[r] THEN "errOther" ELSE resp[r]

(* The caller re-sends the same presentation after a failed request, or    *)
(* after a result with fewer ids than credentials; BadRequest is final.    *)
Resend(r) ==
    /\ pc[r] = "done"
    /\ \/ Received(r) = "errOther"
       \/ Received(r) = "ok" /\ Len(ids[r]) < Len(vp[r].creds)
    /\ pc' = [pc EXCEPT ![r] = "verify"]
    /\ idx' = [idx EXCEPT ![r] = 1]
    /\ ids' = [ids EXCEPT ![r] = <<>>]
    /\ skipped' = [skipped EXCEPT ![r] = 0]
    /\ resp' = [resp EXCEPT ![r] = "none"]
    /\ canceled' = [canceled EXCEPT ![r] = FALSE]
    /\ afterCancel' = [afterCancel EXCEPT ![r] = 0]
    /\ lost' = [lost EXCEPT ![r] = FALSE]
    /\ UNCHANGED <<vp, cache, nextId, faults>>

(* Signer.VerifyPresentation: an error status, an undecodable answer or    *)
(* valid = false end the import; on a canceled context the HTTP call       *)
(* fails.                                                                  *)
VerifyPresentation(r) ==
    /\ pc[r] = "verify"
    /\ Issue(r)
    /\ \/ /\ ~canceled[r]
          /\ vp[r].proof
          /\ pc' = [pc EXCEPT ![r] = "parse"]
          /\ UNCHANGED <<resp, faults>>
       \/ /\ ~canceled[r]
          /\ ~vp[r].proof
          /\ Finish(r, "errOther")
          /\ UNCHANGED faults
       \/ /\ canceled[r]
          /\ Finish(r, "errOther")
          /\ UNCHANGED faults
       \/ /\ Fault
          /\ Finish(r, "errOther")
    /\ UNCHANGED <<vp, idx, ids, skipped, cache, nextId, canceled, lost>>

(* Credentials.ParsePresentation with strict validation; it loads JSON-LD  *)
(* contexts over HTTP, which may fail.  It takes no context, so it runs    *)
(* the same whether or not the request was canceled.                       *)
ParsePresentation(r) ==
    /\ pc[r] = "parse"
    /\ Issue(r)
    /\ \/ /\ vp[r].schema
          /\ pc' = [pc EXCEPT ![r] = "store"]
          /\ UNCHANGED <<resp, faults>>
       \/ /\ ~vp[r].schema
          /\ Finish(r, "errOther")
          /\ UNCHANGED faults
       \/ /\ Fault
          /\ Finish(r, "errOther")
    /\ UNCHANGED <<vp, idx, ids, skipped, cache, nextId, canceled, lost>>

(* The subject stored for credential i of request r.                       *)
SubjectOf(r, i) == <<r, i>>

(* Mutant of Cache.Set and its error branch, for checking                  *)
(* ImportResultStored: without the "continue", the id of a credential      *)
(* whose Set failed is appended.                                           *)
CacheSetAppendOnFailure(r, i, importID) ==
    /\ Issue(r)
    /\ ids' = [ids EXCEPT ![r] = Append(@, importID)]
    /\ \/ /\ ~canceled[r]
          /\ cache' = (importID :> SubjectOf(r, i)) @@ cache
          /\ UNCHANGED <<skipped, faults>>
       \/ /\ Fault
          /\ skipped' = [skipped EXCEPT ![r] = @ + 1]
          /\ \E reached \in BOOLEAN :
                cache' = IF reached
                            THEN (importID :> SubjectOf(r, i)) @@ cache
                            ELSE cache

(* Cache.Set(ctx, importID, "", "", subjectBytes) and its error branch: a  *)
(* failed Set (which may still have reached the Cache when it timed out)   *)
(* skips the credential; on a canceled context the HTTP call fails before  *)
(* it is sent, and the loop goes on with the next credential.              *)
CacheSet(r, i, importID) ==
    /\ Issue(r)
    /\ \/ /\ ~canceled[r]
          /\ cache' = (importID :> SubjectOf(r, i)) @@ cache
          /\ ids' = [ids EXCEPT ![r] = Append(@, importID)]
          /\ UNCHANGED <<skipped, faults>>
       \/ /\ Fault
          /\ skipped' = [skipped EXCEPT ![r] = @ + 1]
          /\ \E reached \in BOOLEAN :
                cache' = IF reached
                            THEN (importID :> SubjectOf(r, i)) @@ cache
                            ELSE cache
          /\ UNCHANGED ids
       \/ /\ canceled[r]
          /\ skipped' = [skipped EXCEPT ![r] = @ + 1]
          /\ UNCHANGED <<cache, ids, faults>>

(* Mutant of the loop, for checking TypeOK: the id is read off the counter *)
(* one step behind, so the first credential gets no valid uuid.            *)
ImportCredentialPrevId(r) ==
    /\ pc[r] = "store"
    /\ idx[r] <= Len(vp[r].creds)
    /\ LET i == idx[r] IN
       \/ /\ vp[r].creds[i] # "valid"
          /\ Finish(r, "errBadRequest")
          /\ UNCHANGED <<idx, ids, skipped, cache, nextId, faults, afterCancel>>
       \/ /\ vp[r].creds[i] = "valid"
          /\ nextId' = nextId + 1
          /\ idx' = [idx EXCEPT ![r] = i + 1]
          /\ CacheSet(r, i, nextId - 1)
          /\ UNCHANGED <<pc, resp>>
    /\ UNCHANGED <<vp, canceled, lost>>

(* Mutant of the loop, for checking ImportEventuallyComplete: a failed     *)
(* Cache.Set ends the request with a BadRequest error instead of going on. *)
ImportCredentialSetErrorIsBadRequest(r) ==
    /\ pc[r] = "store"
    /\ idx[r] <= Len(vp[r].creds)
    /\ LET i == idx[r] IN
       \/ /\ vp[r].creds[i] # "valid"
          /\ Finish(r, "errBadRequest")
          /\ UNCHANGED <<idx, ids, skipped, cache, nextId, faults, afterCancel>>
       \/ /\ vp[r].creds[i] = "valid"
          /\ nextId' = nextId + 1
          /\ idx' = [idx EXCEPT ![r] = i + 1]
          /\ CacheSet(r, i, nextId)
          /\ IF skipped'[r] > skipped[r] THEN Finish(r, "errBadRequest")
                                         ELSE UNCHANGED <<pc, resp>>
    /\ UNCHANGED <<vp, canceled, lost>>

(* One iteration of the loop over vp.Credentials(): the shape checks, then *)
(* json.Marshal, uuid.NewString and Cache.Set.                             *)
ImportCredential(r) ==
    /\ pc[r] = "store"
    /\ idx[r] <= Len(vp[r].creds)
    /\ LET i == idx[r] IN
       \/ /\ vp[r].creds[i] # "valid"
          /\ Finish(r, "errBadRequest")
          /\ UNCHANGED <<idx, ids, skipped, cache, nextId, faults, afterCancel>>
       \/ /\ vp[r].creds[i] = "valid"
          /\ nextId' = nextId + 1
          /\ idx' = [idx EXCEPT ![r] = i + 1]
          /\ CacheSet(r, i, nextId)
          /\ UNCHANGED <<pc, resp>>
    /\ UNCHANGED <<vp, canceled, lost>>

(* After the last credential Import returns importedCredentials.           *)
ReturnImportIds(r) ==
    /\ pc[r] = "store"
    /\ idx[r] > Len(vp[r].creds)
    /\ Finish(r, "ok")
    /\ UNCHANGED <<vp, idx, ids, skipped, cache, nextId, faults, canceled,
                   afterCancel, lost>>

(* Every request has been answered: the behaviour stutters.               *)
Answered ==
    /\ \A r \in Requests : pc[r] = "done"
    /\ UNCHANGED vars

(* One step of Service.Import: verify, parse, one credential, or return.  *)
Handler(r) ==
    \/ VerifyPresentation(r)
    \/ ParsePresentation(r)
    \/ ImportCredential(r)
    \/ ReturnImportIds(r)

Next ==
    \/ Answered
    \/ \E r \in Requests : Cancel(r) \/ WriteTimeout(r) \/ Handler(r) \/ Resend(r)

(* TLC's deadlock check finds a request that is stuck without a response. *)
Spec == Init /\ [][Next]_vars

(* Handlers run to completion (every HTTP call has a 10s timeout) and the  *)
(* caller keeps re-sending as long as Resend says.                         *)
FairSpec == Spec /\ \A r \in Requests : WF_vars(Handler(r)) /\ WF_vars(Resend(r))

-----------------------------------------------------------------------------
(* The ids Import returns (spec P5, P6): on success they are distinct, in  *)
(* the order of the credentials, and the Cache holds under each one the    *)
(* subject of a distinct valid credential of this very request, taken in   *)
(* order; every valid credential is either reported or was skipped after  *)
(* a failed Cache.Set, also while other imports write the same Cache.      *)
ImportResultStored ==
    \A r \in Requests : resp[r] = "ok" =>
        LET res == ids[r]
            valid == {i \in DOMAIN vp[r].creds : vp[r].creds[i] = "valid"}
        IN
        /\ \A j \in DOMAIN res : res[j] \in DOMAIN cache
        /\ \E pos \in [DOMAIN res -> valid] :
              /\ \A j \in DOMAIN res : cache[res[j]] = SubjectOf(r, pos[j])
              /\ \A j, l \in DOMAIN res : j < l => pos[j] < pos[l]
        /\ Len(res) + skipped[r] = Cardinality(valid)

(* A structural fault in any credential fails the whole import with        *)
(* BadRequest and leaves no Cache entry of that request behind (spec P7:   *)
(* "zero cache writes for any credential in that call").                   *)
NoWritesOnFatalImport ==
    \A r \in Requests : resp[r] = "errBadRequest" =>
        \A id \in DOMAIN cache : cache[id][1] # r

(* Spec section 5: once the request context is canceled, the core issues  *)
(* no further collaborator call; only the one call that observes the      *)
(* cancellation may be made.  Service.Import goes on with ParsePresentation*)
(* (which takes no context) and calls Cache.Set for every remaining       *)
(* credential, answering success with the ids it still got.              *)
NoCallsAfterCancel ==
    \A r \in Requests : afterCancel[r] <= 1

(* A caller that re-sends a presentation of valid credentials after every  *)
(* failure, lost answer or short result eventually receives one id for     *)
(* each credential, each naming a stored Cache entry (spec P5), once       *)
(* failures, cancellations and lost answers stop; every earlier attempt    *)
(* may have stored subjects under ids the caller never received.           *)
ImportEventuallyComplete ==
    \A r \in Requests :
        (\A i \in DOMAIN vp[r].creds : vp[r].creds[i] = "valid") /\ vp[r].proof
            /\ vp[r].schema
        => <>(/\ pc[r] = "done" /\ Received(r) = "ok"
              /\ Len(ids[r]) = Len(vp[r].creds)
              /\ \A j \in DOMAIN ids[r] : ids[r][j] \in DOMAIN cache)

=============================================================================
