\* Every supported public key served with a 200 answer is returned; an
\* Ed25519 key is not (keyParams switches on *ed25519.PublicKey).
CONSTANTS
    KeyIDs <- MCKeyIDs
    Issuers <- MCIssuers
SPECIFICATION Spec
INVARIANT FetchAcceptsServedKeys
