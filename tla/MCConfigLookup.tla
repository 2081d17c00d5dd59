--------------------------- MODULE MCConfigLookup ---------------------------
(* Instantiates ConfigLookup for TLC with every name of one or two letters *)
(* over a, A and b.                                                        *)
EXTENDS ConfigLookup, SequencesExt

MCNames == SeqOf({"a", "A", "b"}, 2) \ {<<>>}
MCLower == [ch \in {"a", "A", "b"} |-> IF ch = "A" THEN "a" ELSE ch]
=============================================================================
