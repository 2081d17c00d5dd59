------------------------------ MODULE CacheKey ------------------------------
(***************************************************************************)
(* The Cache key of a policy result, exportCacheKey in                     *)
(* internal/service/infohub/service.go, over strings.  Export names and    *)
(* policy names are strings of characters (sequences), the key is          *)
(* exportName + ":" + policyName, and two export configurations with       *)
(* different export names (the name is the configuration's unique key)     *)
(* write and read their results through the shared Cache:                  *)
(*   - triggerExport passes the key to Policy.Evaluate as the evaluation   *)
(*     id, under which the Policy service stores the result;               *)
(*   - getExportData reads the result back with Cache.Get of the key.      *)
(* Neither the API design nor the Configuration store restricts the        *)
(* characters of either name.                                              *)
(***************************************************************************)
EXTENDS Naturals, SequencesExt

CONSTANTS
    ExportNames,    \* export names a configuration may carry
    PolicyNames     \* policy names ('group/policy/version') it may list

Separator == <<":">>

(* Mutant of exportCacheKey: the separator left out.                       *)
exportCacheKeyNoSeparator(exportName, policyName) == exportName \o policyName

(* exportName + ":" + policyName                                           *)
exportCacheKey(exportName, policyName) ==
    exportName \o Separator \o policyName

(* Two configurations, 1 and 2, each with one policy.                      *)
Configs == {1, 2}

(* No result, or the configuration whose evaluation wrote it.              *)
Miss == 0

VARIABLES
    conf,   \* conf[c]: <<export name, policy name>> of configuration c
    store,  \* the Cache: key -> the configuration whose evaluation wrote it
    got     \* got[c]: what the last getExportData of c read

vars == <<conf, store, got>>

KeyOf(c) == exportCacheKey(conf[c][1], conf[c][2])

TypeOK ==
    /\ conf \in [Configs -> ExportNames \X PolicyNames]
    /\ \A k \in DOMAIN store : store[k] \in Configs
    /\ got \in [Configs -> Configs \cup {Miss}]

Init ==
    /\ conf \in {f \in [Configs -> ExportNames \X PolicyNames] :
                    f[1][1] # f[2][1]}
    /\ store = <<>>
    /\ got = [c \in Configs |-> Miss]

(* triggerExport: Policy.Evaluate with the key as evaluation id; the       *)
(* Policy service stores the result under it, replacing what was there.    *)
Evaluate(c) ==
    /\ store' = (KeyOf(c) :> c) @@ store
    /\ UNCHANGED <<conf, got>>

(* getExportData: Cache.Get of the key.                                    *)
Read(c) ==
    /\ got' = [got EXCEPT ![c] = IF KeyOf(c) \in DOMAIN store
                                     THEN store[KeyOf(c)] ELSE Miss]
    /\ UNCHANGED <<conf, store>>

Next == \E c \in Configs : Evaluate(c) \/ Read(c)

Spec == Init /\ [][Next]_vars

-----------------------------------------------------------------------------
(* Spec section 3 (Policy Result Key): results computed for one export     *)
(* configuration cannot collide with those of another export.  An Export   *)
(* of configuration c that reads its key finds nothing or a result its own *)
(* evaluation wrote, never one written for the other configuration.        *)
ExportReadsOwnResult ==
    \A c \in Configs : got[c] \in {Miss, c}

=============================================================================
