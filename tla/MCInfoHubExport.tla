-------------------------- MODULE MCInfoHubExport --------------------------
(* Instantiates InfoHubExport for TLC: two concurrent requests, an export  *)
(* configured with two policies, one configured with no policy, one whose  *)
(* policies include one with an invalid evaluation URL, and an export name *)
(* with no configuration.                                                  *)
EXTENDS InfoHubExport, TLC

CONSTANTS r1, r2, e1, e2, e3, e4, p1, p2, p3

MCRequests == {r1, r2}
MCPolicies == {p1, p2}
MCAllPolicies == {p1, p2, p3}

(* e1 evaluates p1 and p2, e3 evaluates nothing, e2 is not configured.     *)
MCConfig == (e1 :> {p1, p2}) @@ (e3 :> {})
MCExportNames == {e1, e2, e3}

(* The safety run adds e4, which evaluates p1 and p3, p3 being a policy    *)
(* name that url.ParseRequestURI rejects.                                  *)
MCSafetyConfig == MCConfig @@ (e4 :> {p1, p3})
MCSafetyExportNames == {e1, e2, e3, e4}
MCBadURLPolicies == {p3}

(* e1's configuration sets CacheTTL.                                       *)
MCHasTTL == {e1}

(* the result of p2 is not a JSON object (say, a bare string)              *)
MCObjectResults == {p1}

(* the liveness run asks for e1 only                                       *)
MCLiveNames == {e1}

RequestSymmetry == Permutations(MCRequests)
=============================================================================
