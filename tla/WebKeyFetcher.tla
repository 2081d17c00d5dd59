--------------------------- MODULE WebKeyFetcher ---------------------------
(***************************************************************************)
(* The public key fetcher of internal/credential/keyfetcher: fetch asks    *)
(* issuerID + "/" + keyID (one leading '#' of keyID removed) for a         *)
(* verification method, decodes its publicKeyJWK with go-jose and hands    *)
(* the key, with the curve and key type keyParams derives from the decoded *)
(* Go key, to the Aries verifiers.  Each fetch is one call with one HTTP   *)
(* answer; the model enumerates key ids, answers and the JWK served, and   *)
(* compares fetch with what a JWK verification-method fetch should return  *)
(* (RFC 7517/7518/8037 key parameters).                                    *)
(***************************************************************************)
EXTENDS Naturals, Sequences

CONSTANTS
    KeyIDs,     \* key ids the verifier passes, as sequences of characters
    Issuers     \* issuer ids: "abs" (an absolute URL) or "rel" (not a URL)

Statuses == {200, 404, 500}
Bodies == {"method", "methodWithoutKey", "notJSON"}

(* JWKs the key server may serve, by their kty and crv.                    *)
JWKs == {[kty |-> "EC", crv |-> "P-256"], [kty |-> "EC", crv |-> "P-384"],
         [kty |-> "OKP", crv |-> "Ed25519"], [kty |-> "RSA", crv |-> ""],
         [kty |-> "oct", crv |-> ""]}

(* The Go type go-jose's JSONWebKey.UnmarshalJSON stores in Key for a      *)
(* public JWK: pointers for EC and RSA, the ed25519.PublicKey value (a     *)
(* byte slice) for OKP/Ed25519, a byte slice for a symmetric key.          *)
GoJoseKey(jwk) ==
    CASE jwk.kty = "EC"  -> [type |-> "*ecdsa.PublicKey", curve |-> jwk.crv]
      [] jwk.kty = "OKP" -> [type |-> "ed25519.PublicKey", curve |-> ""]
      [] jwk.kty = "RSA" -> [type |-> "*rsa.PublicKey", curve |-> ""]
      [] OTHER           -> [type |-> "[]byte", curve |-> ""]

Answers == [status : Statuses, body : Bodies, jwk : JWKs]

Hash == "#"

(* strings.TrimPrefix(keyID, "#")                                          *)
TrimPrefix(s) == IF s # <<>> /\ Head(s) = Hash THEN Tail(s) ELSE s

(* url.ParseRequestURI(issuerID + "/" + keyID) accepts an absolute URL.    *)
ParseRequestURI(issuer) == issuer = "abs"

Error(kind) == [result |-> kind, url |-> <<>>, kty |-> "", crv |-> ""]

(* keyParams: the curve and key type of the decoded key, by its Go type.   *)
keyParams(key) ==
    CASE key.type = "*ecdsa.PublicKey"   -> [ok |-> TRUE, crv |-> key.curve, kty |-> "EC"]
      [] key.type = "*ed25519.PublicKey" -> [ok |-> TRUE, crv |-> "ED25519", kty |-> "OKP"]
      [] key.type = "*rsa.PublicKey"     -> [ok |-> TRUE, crv |-> "", kty |-> "RSA"]
      [] OTHER                           -> [ok |-> FALSE, crv |-> "", kty |-> ""]

(* fetch: the URL, the GET, the status (404 is NotFound, any other non-200 *)
(* status an error of its kind), the decoding, the nil check of            *)
(* publicKeyJWK and keyParams, each returning its error.                   *)
fetch(issuer, keyID, answer) ==
    LET url == <<issuer, TrimPrefix(keyID)>>
        params == keyParams(GoJoseKey(answer.jwk))
    IN  CASE ~ParseRequestURI(issuer)            -> Error("errURL")
          [] answer.status = 404                 -> Error("errNotFound")
          [] answer.status # 200                 -> Error("errStatus")
          [] answer.body = "notJSON"             -> Error("errDecode")
          [] answer.body = "methodWithoutKey"    -> Error("errNoKey")
          [] ~params.ok                          -> Error("errKeyType")
          [] OTHER -> [result |-> "key", url |-> url,
                       kty |-> params.kty, crv |-> params.crv]

(* What the fetch of a JWK verification method should return: for a 200    *)
(* answer carrying a public key of a type the Aries verifiers take (EC,    *)
(* OKP Ed25519, RSA), that key with its JWK kty and crv, fetched from the  *)
(* issuer's URL for the key name; nothing otherwise.                       *)
Supported(jwk) == jwk.kty \in {"EC", "OKP", "RSA"}

ExpectedKey(issuer, keyID, answer) ==
    [result |-> "key", url |-> <<issuer, TrimPrefix(keyID)>>,
     kty |-> answer.jwk.kty, crv |-> answer.jwk.crv]

Served(issuer, answer) ==
    /\ ParseRequestURI(issuer)
    /\ answer.status = 200
    /\ answer.body = "method"
    /\ Supported(answer.jwk)

VARIABLES
    call,   \* the arguments of the last fetch and the answer it got
    out     \* what that fetch returned

vars == <<call, out>>

Init == /\ call = [issuer |-> "none", keyID |-> <<>>, answer |-> "none"]
        /\ out = Error("none")

(* The verifier calls the fetcher for some issuer and key id; the key      *)
(* server answers.                                                         *)
Fetch ==
    \E i \in Issuers, k \in KeyIDs, a \in Answers :
        /\ call' = [issuer |-> i, keyID |-> k, answer |-> a]
        /\ out' = fetch(i, k, a)

Spec == Init /\ [][Fetch]_vars

-----------------------------------------------------------------------------
(* keyParams names *ed25519.PublicKey among the key types it supports      *)
(* (web_key_fetcher.go:98), and the comment above its call says the        *)
(* verifiers need the curve and key type of the key served: every          *)
(* supported public key served with a 200 answer is returned, with its     *)
(* kty and crv.                                                            *)
FetchAcceptsServedKeys ==
    call.issuer # "none" /\ Served(call.issuer, call.answer) =>
        out = ExpectedKey(call.issuer, call.keyID, call.answer)

=============================================================================
