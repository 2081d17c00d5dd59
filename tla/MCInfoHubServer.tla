-------------------------- MODULE MCInfoHubServer --------------------------
(* Instantiates InfoHubServer with the constants of MCInfoHubExport.       *)
EXTENDS InfoHubServer, MCInfoHubExport
=============================================================================
