-------------------------- MODULE MCInfoHubImport --------------------------
(* Instantiates InfoHubImport for TLC: two concurrent imports of up to two *)
(* credentials each.                                                       *)
EXTENDS InfoHubImport

CONSTANTS i1, i2

MCRequests == {i1, i2}

RequestSymmetry == Permutations(MCRequests)
=============================================================================
