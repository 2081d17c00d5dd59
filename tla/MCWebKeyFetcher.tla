-------------------------- MODULE MCWebKeyFetcher --------------------------
(* Instantiates WebKeyFetcher for TLC with every key id of up to two       *)
(* characters over '#' and 'k', and both kinds of issuer id.               *)
EXTENDS WebKeyFetcher, SequencesExt

MCKeyIDs == SeqOf({"#", "k"}, 2)
MCIssuers == {"abs", "rel"}
=============================================================================
