---------------------------- MODULE MCHubClient ----------------------------
(* Instances of HubClient for TLC: the configurations give its constants     *)
(* their values.                                                             *)
EXTENDS HubClient
=============================================================================
