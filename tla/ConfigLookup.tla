---------------------------- MODULE ConfigLookup ----------------------------
(***************************************************************************)
(* The lookup of an export configuration, Storage.ExportConfiguration in   *)
(* internal/storage/storage.go: FindOne on {"exportName": name} with the   *)
(* collation {Locale: "en", Strength: 2}, which compares base letters and  *)
(* accents but not case.  NotFound is returned only when no document       *)
(* matches; when several match, MongoDB returns whichever it meets first.  *)
(* Export then works with the ExportName of the document found            *)
(* (service.go:138, 200).  The Configuration Store, owned outside the      *)
(* service, holds configurations whose names are unique as strings.        *)
(***************************************************************************)
EXTENDS Sequences

CONSTANTS
    Names,      \* export names, as sequences of characters
    Lower       \* Lower[ch]: the lower-case form of each character

NotFound == <<"notFound">>

(* Strength 2 compares the case-folded names.                              *)
Fold(n) == [i \in DOMAIN n |-> Lower[n[i]]]

VARIABLES
    store,      \* the names of the configurations in the collection
    asked,      \* the export name of the last request
    found       \* the ExportName of the configuration the lookup returned

vars == <<store, asked, found>>

Init ==
    /\ store \in SUBSET Names
    /\ asked = <<>>
    /\ found = <<>>

(* Storage.ExportConfiguration(ctx, exportName): FindOne with the          *)
(* collation; "no documents in result" becomes NotFound.                   *)
ExportConfiguration(n) ==
    LET matches == {s \in store : Fold(s) = Fold(n)} IN
    /\ asked' = n
    /\ \/ matches = {} /\ found' = NotFound
       \/ \E s \in matches : found' = s
    /\ UNCHANGED store

Next == \E n \in Names : ExportConfiguration(n)

Spec == Init /\ [][Next]_vars

-----------------------------------------------------------------------------
(* Spec section 4.1 step 1 with section 2: Export resolves exportName, the *)
(* configuration's unique key, in the Configuration Store and fails with   *)
(* NotFound when there is none.  The lookup answers a name with the        *)
(* configuration of that name, or NotFound.                                *)
ResolvesExportName ==
    asked # <<>> => found \in {asked, NotFound}

=============================================================================
