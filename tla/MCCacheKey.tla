------------------------------ MODULE MCCacheKey ------------------------------
(* Instantiates CacheKey for TLC with every non-empty name of up to two    *)
(* characters over a two-letter alphabet.                                  *)
EXTENDS CacheKey

(* names of up to MaxNameLength characters of alphabet A                   *)
MaxNameLength == 2
Names(A) == SeqOf(A, MaxNameLength) \ {<<>>}

(* export names without the separator                                      *)
MCPlainExportNames == Names({"a", "b"})

(* policy names may contain the separator                                   *)
MCPolicyNames == Names({"a", ":"})
=============================================================================
