# TLA+ models of the trusted information hub

These modules model the orchestration core of the information hub
(`src/internal/service/infohub/service.go`): the **Export** operation, which
serves policy results from a Cache and triggers their computation on a miss,
and the **Import** operation, which verifies a presentation and fans its
credential subjects out into the Cache. Everything else in the repository is a
thin client of an external service or bootstrap code; how those parts enter
the models is listed below.

## 1. Inventory

### Components

| Component | Source | State it keeps | Operations |
|---|---|---|---|
| Export orchestrator | `service.go` `Export`, `getExportData`, `triggerExport`, `exportCacheKey` | none across requests; per request: the configuration, the results read so far, the position in the trigger loop | `Export(exportName)` |
| Import pipeline | `service.go` `Import` | none across requests; per request: the position in the credential loop and the ids collected | `Import(bytes)` |
| Configuration store | `internal/storage/storage.go` | export configurations in MongoDB (read-only to the hub) | `ExportConfiguration(name)`: NotFound, error or a record |
| Policy client / Policy service | `internal/clients/policy/client.go` | the external service writes each result to the Cache under the `x-evaluation-id` header, with the `x-cache-ttl` header's TTL | `Evaluate(policy, input, evaluationID, ttl)` |
| Cache | external (`microservice-core-go/pkg/cache`, not in `src/`) | key → bytes, with TTL | `Get`, `Set` |
| Signer client | `internal/clients/signer/client.go` | none | `CreatePresentation`, `VerifyPresentation` (error status, bad answer, `valid=false`) |
| Credential parser | `internal/credential/credentials.go` | JSON-LD document cache | `ParsePresentation` (strict schema, proof check off); `NewCredential`, `NewPresentation` (not called by the service) |
| Web key fetcher | `internal/credential/keyfetcher` | none | `fetch(issuerID, keyID)`: GET the verification method, decode its JWK, `keyParams`; not wired into the service |
| Process | `cmd/infohub/main.go`, `internal/config/config.go` | startup phase | load config, connect and ping MongoDB, wire, auth middleware, listen; SIGTERM with a 20 s grace period; exit |
| Health, design, gen, vendor | | none | constant responses, generated and third-party code |

### How they interact

Each HTTP request runs `Export` or `Import` in its own goroutine. The
goroutines share nothing in the process; they share the **Cache** (and, for
Export, the Policy service that writes into it). All collaborator calls are
synchronous HTTP calls with a 10 s client timeout (`cmd/infohub/main.go`).

* Export: configuration lookup → `Cache.Get(name:policy)` for each policy in
  random (Go map) order, stopping at the first error → either decode every
  result and call the Signer, or, if a Get said NotFound, call
  `Policy.Evaluate` for **every** policy with key `name:policy` as evaluation
  id and answer `{"result": "export request is accepted"}`. The Policy service
  later stores the result under that key; the caller is expected to retry.
* Import: `Signer.VerifyPresentation` → `ParsePresentation` → for each
  credential in order: shape checks (not an object, no subject, subject not an
  object: BadRequest for the whole import) → `uuid.NewString` →
  `Cache.Set(id, subject)`; a failed Set skips that credential only.

### What is hard

* Concurrent Exports of one export interleave their reads and triggers with
  each other, with the Policy service's asynchronous writes and with TTL
  expiry.
* Partial failure: an Evaluate failing after others succeeded (no rollback);
  an Evaluate or Set timing out after the remote side did the work.
* Liveness of the accepted-then-retry protocol.
* Import writes before it validates the rest of the presentation.
* Boundaries: an export with no policies; a cached result that is not a JSON
  object; keys built by string concatenation.

### What makes each component correct

* Export: the answer agrees with the calls made (spec P1–P4); a retrying caller
  eventually gets a presentation; results of different exports never share a
  key (for export names without `:`).
* Import: the returned ids name, in order, the caller's own subjects in the
  Cache (P5, P6); a structural fault leaves no write (P7); verification comes
  first (P8).

`PROJECT.json` lists every component, and under `hazards` each hard case at
its line with the properties that cover it.

## 2. Modules

### `InfoHubExport` (Export orchestrator, with Configuration store, Policy client and service, Cache, Signer client)

State: per request `r` — `pc[r]` (`idle`, `lookup`, `get`, `trigger`,
`done`), `name[r]`, `toRead[r]`/`read[r]` (the loop of `getExportData`),
`missed[r]` (a Get said NotFound), `toEval[r]`/`evaluated[r]` (the loop of
`triggerExport`), `signed[r]`, `resp[r]`, `canceled[r]` (the request context
was canceled) and `afterCancel[r]` (collaborator calls issued after that);
shared — `cache` (keys present), `inflight` (evaluations the Policy service
will store), `faults`.

Actions: `Request` (the caller sends a request; it re-sends after every
answer), `Cancel` (the caller goes away), `LookupConfiguration`
(`storage.ExportConfiguration`), `GetExportData` (one `Cache.Get`: hit,
NotFound → trigger path, error), `CreateExport` (decode all results, then
`CreatePresentation`, the Signer client), `TriggerExport` (one iteration of
the loop: `InvalidEvaluationURL` → BadRequest without a call,
`EvaluateAccepted`, or `EvaluateFails`, a failure that may still have reached
the service; after the last one, "accepted"), `PolicyStore` /
`PolicyStoreFails` (the external service), `Expire` (TTL). Every call made on
a canceled context fails (`CallFails`), as the Mongo driver and the HTTP
clients return the context's error. A cached value is abstracted to whether
it decodes as a JSON object (`ObjectResults`); the key `name + ":" + policy`
is the pair it encodes (its string form is `CacheKey`).

### `CacheKey` (the key over strings)

Names are sequences of characters; `exportCacheKey(e, p) == e \o <<":">> \o p`.
Two configurations (distinct export names, one policy each) `Evaluate`
(the Policy service stores under the key the result of that configuration)
and `Read` (`getExportData`'s `Cache.Get`) through one Cache.

### `InfoHubImport` (Import pipeline, with Signer client, parser, Cache)

State: per request — `pc[r]` (`verify`, `parse`, `store`, `done`), `vp[r]`
(the body: proof valid, schema valid, the kinds of its credentials),
`idx[r]`, `ids[r]` (`importedCredentials`), `skipped[r]`, `resp[r]`,
`canceled[r]`, `afterCancel[r]`, `lost[r]` (the write deadline passed);
shared — `cache` (id → subject, a subject
being `<<request, position>>`), `nextId` (uuids never repeat), `faults`.

Actions: `Cancel`, `VerifyPresentation`, `ParsePresentation` (takes no
context, so it runs also after cancellation), `ImportCredential` (one loop
iteration; its `Cache.Set` is `CacheSet`: success, a failure before or after
reaching the Cache, or failure on a canceled context, each followed by the
next credential), `ReturnImportIds`, and `Answered` (all requests answered;
the behaviour stutters, so that the deadlock check only reports a stuck
request). `json.Marshal` of a parsed subject cannot fail (it was decoded from
JSON), so that error path is not an input.

`WriteTimeout` is the `http.Server` write deadline of `main.go`: it does not
cancel the handler, which goes on storing subjects, and the caller receives
a failed connection (`Received(r)`). `Resend` is the caller: after a failure,
a lost answer or an `ok` with fewer ids than credentials it sends the same
presentation again; BadRequest is final. `Cancel` and `WriteTimeout` each
cost a fault, so a retrying caller makes at most `MaxFaults + 1` attempts
that store anything, which bounds the uuid counter (`MaxIds`).

### `InfoHubServer` (the process, composed with Export)

`EXTENDS InfoHubExport` and adds `server` (the startup step, `serving`,
`draining`, `stopped`) and `signals`. Startup steps `LoadConfig`
(envconfig with the required variables of `config.go`), `ConnectMongo`,
`NewStorage` (ping), `Wire`, `AuthMiddleware` (when `AuthEnabled`) and
`Listen` each may end the process (`Fatal`). `Signal` (SIGTERM) closes the
listener; `Drained` stops once no handler runs; `GraceExpired` (the 20 s
timeout) stops with handlers running and cuts them, e.g. in the middle of the
trigger loop; `Restart` is the supervisor. Requests are accepted only while
serving; handlers run while serving and draining; the Policy service and the
Cache are outside the process and keep going.

`WriteTimeout` is the `http.Server` write deadline (`HTTP_WRITE_TIMEOUT`,
10 s, the same as every client call): it may pass while a handler still runs
(`lost[r]`). Go does not cancel the handler for it, so the handler goes on
with its calls and triggers, and what the caller receives, `Received(r)`, is a
failed connection instead of the answer. It counts as a fault.

### `WebKeyFetcher` (the key fetcher)

`fetch(issuer, keyID, answer)` follows `fetch` line by line: `TrimPrefix` of
one `#`, `ParseRequestURI` of the address, the 404 and other-status exits,
the decode error, the nil `publicKeyJWK`, and `keyParams`, the type switch on
the decoded Go key. `GoJoseKey` states which Go type the JWK decoder produces
for each `kty` (pointers for EC and RSA, the `ed25519.PublicKey` value for
OKP). `ExpectedKey` and `Served` are the reference: the key a JWK
verification-method fetch should return. `Fetch` is one call over every
input.

### `ConfigLookup` (the collation of the lookup)

`ExportConfiguration(n)` returns any stored configuration whose name equals
`n` case-folded (`Fold`, the strength-2 collation), or NotFound if none does.
The store holds any set of names unique as strings.

### MC modules

`MCInfoHubExport`, `MCInfoHubImport`, `MCCacheKey`, `MCInfoHubServer`,
`MCWebKeyFetcher` and `MCConfigLookup` give the
constants: model values for requests, export names and policies,
the configuration function, and for `CacheKey` every name of one or two
characters.

## 3. Runs

| Run | cfg | Checks | Shows |
|---|---|---|---|
| export_safety | `MCInfoHubExport.cfg` | `TypeOK`, `ResponseContract`, `NoCallsAfterCancel` | 2 requests; export `e1` = {p1, p2} with TTL, `e4` = {p1, p3} with p3 an invalid evaluation URL, empty `e3`, unknown `e2`; p2's result not an object; 2 faults or cancellations: every answer agrees with the calls made (P1–P4), and a canceled request makes at most the one call that sees the cancellation. 562k states. |
| import_safety | `MCInfoHubImport.cfg` | `TypeOK`, `ImportResultStored`, `ImportEventuallyComplete` | 2 concurrent imports of any body of up to 2 credentials, 2 faults (failures, cancellations, lost answers), a re-sending caller: returned ids are stored, ordered, own, and account for every valid credential (P5, P6); a caller of a valid presentation eventually holds one stored id per credential, while earlier attempts leave entries under ids it never received. 286k states. |
| import_fatal_writes | `MCInfoHubImportFatal.cfg` | `NoWritesOnFatalImport` | **Violated**: a valid credential followed by a structurally invalid one (not a JSON object, or without a subject map) leaves a Cache entry although Import fails with BadRequest (against P7). |
| import_cancel | `MCInfoHubImportCancel.cfg` | `NoCallsAfterCancel` | **Violated** (one fault: the cancellation): after cancellation Import parses and calls `Cache.Set` for each remaining credential (against §5). |
| cachekey_plain | `MCCacheKey.cfg` | `ExportReadsOwnResult` | With export names free of `:` (policy names may contain it) keys never collide: the first `:` ends the export name. |
| server_liveness | `MCInfoHubServerLive.cfg` | `CallerEventuallyExported` | What the caller receives: a presentation, infinitely often, across failed startups, a SIGTERM whose grace period cuts handlers mid-loop, and answers lost to the write deadline after the handler did its work. 632k states, about 2 minutes. |
| keyfetcher_ed25519 | `MCWebKeyFetcherEd25519.cfg` | `FetchAcceptsServedKeys` | **Violated**: a served Ed25519 key is rejected as "unknown key type". |
| config_lookup_case | `MCConfigLookup.cfg` | `ResolvesExportName` | **Violated**: an Export of `"A"` is answered from the configuration `"a"`. |

Bounds: two requests are the least that interleave; two policies are the
least for which "trigger all" differs from "trigger the missing one", for
which reads can straddle an expiry and for which a loop can be cut or
canceled between two calls; two credentials are the least for a write before
a structural fault and for order. Two faults let a failure and a lost
evaluation (or a cancellation) happen in one behaviour. Policy names of up to two
characters over `{a, :}` are the least that contain a separator inside a
name. One SIGTERM lets a grace period cut a handler and the process restart.
Symmetry over requests is used only in the safety run of Export.

Fairness (import_safety): handler steps and the caller's re-send are weakly
fair; cancellations, lost answers and Cache failures are faults, bounded by
`MaxFaults`, and get no fairness.

Fairness (server_liveness): handler steps are weakly fair (every HTTP call
returns within the 10 s client timeout set in `main.go`); the Policy service
eventually stores what it accepted; the caller keeps re-sending, as the
accepted result asks. Failures and cancellations are bounded by `MaxFaults`
and SIGTERMs by `MaxSignals`, i.e. they stop eventually; startup steps, the
shutdown timer and the supervisor's restart are weakly fair. TTL is off,
since an entry expiring before every retry defeats any retry protocol, as is
an invalid evaluation URL, which fails every retry.

Every property of a passing run has a mutant in `PROJECT.json` that TLC finds
violated: keys concatenated the wrong way round; trigger only the missing
policy; an Evaluate failure logged and the loop
continued; the `continue` after a failed Set dropped; the uuid taken one step
behind; the separator left out of the key; a write deadline shorter than
every request; a failed Set answered as BadRequest (the caller stops).

## 4. Findings

1. **P7** (`import_fatal_writes`). `Service.Import` stores each credential
   before examining the next one (`service.go:84-114`), so a malformed
   credential after valid ones fails the import with BadRequest while the
   earlier subjects remain in the Cache under ids nobody receives. Spec P7
   requires zero cache writes in that case.
2. **Cancellation** (`import_cancel`). The credential loop never looks at the
   context and `ParsePresentation` takes none: after the caller cancels,
   Import parses, calls `Cache.Set` for every remaining credential (all fail),
   and answers success with a shortened list. Spec §5: no further collaborator
   calls once the context is canceled. Export, which returns on every error,
   satisfies the same property (`export_safety`).
3. **Ed25519 keys** (`keyfetcher_ed25519`, a bug). `keyParams` switches on
   `*ed25519.PublicKey`, but the JWK decoder yields the value type
   `ed25519.PublicKey`, so every Ed25519 key fails with "unknown key type"
   (`web_key_fetcher.go:98`); the case would also name the curve `ED25519`
   where the JWK says `Ed25519`.
4. **Case-insensitive lookup** (`config_lookup_case`). The collation of
   `storage.go:43-46` matches names of another case: an Export of `A` is
   answered from configuration `a` instead of NotFound, and when `a` and
   `A` are both stored either may answer. The spec makes the name the
   configuration's unique (string) key. The Cache key is built from the
   stored name, so the keys stay consistent with the configuration found.

## 5. Not modelled

* Evaluation rounds: results are present or absent, so a presentation mixing
  results of two evaluation rounds is not told apart. The Policy service
  writing over a stored result is what spec §4.1.5 and P2 ask of it (the
  write-once rule of §3 concerns the orchestrator, which only reads
  results), so it is not checked as a fault.
* An abstract Export as one atomic snapshot read: without TTL no key ever
  leaves the Cache, so such a refinement holds by construction, and with
  TTL it fails for a snapshot the spec does not promise; no run checks it.
* Key collisions through a `:` in an export or policy name: spec §3 only
  promises distinct keys for one policy under different export names, and
  policy names have the form `group/policy/version`; `cachekey_plain`
  checks injectivity for export names without `:`.
* `NewCredential` and `NewPresentation` (`credentials.go`): nothing in
  `src` calls them, and the literal `defaultContexts` has no spare
  capacity, so `append` always copies.
* Time: timeouts are faults that may happen at any step, not durations.
  The entries an Import attempt leaves under ids its caller never received
  (its answer lost, or the request failed later) stay in the Cache; the spec
  promises nothing about entries across calls, so no property asks for
  their removal.
* Export and Import over one Cache: import ids are uuids, which contain no
  `:`, and every export key contains one, so the two never share a key; no
  run is needed for that.
* URL and body encodings, logging, metrics, the OAuth2 client, the health
  service (constant "up", no state or error path), generated and
  vendored code: no control flow of the hub depends on them.

## 6. Plan

1. (done) `InfoHubExport`: Export with concurrency, TTL, failures, liveness.
2. (done) `InfoHubImport`: Import with concurrency, partial failures; P7 finding.
3. (done) Cancellation in both; finding for Import.
4. (done) `CacheKey` over strings.
5. (withdrawn) An atomic-snapshot refinement of Export: without TTL it
   holds by construction.
6. (done) `InfoHubServer`: startup, graceful shutdown, restart with Export.
7. Versioned results: a result records the evaluation round that wrote it;
   a property on mixed rounds in one presentation.
8. (done) The write deadline; key fetcher; the lookup's collation.
9. (done) The write deadline and the caller's retry for Import.
10. The same lifecycle composed with Import (a cut loop leaves writes whose
   ids were never returned).
