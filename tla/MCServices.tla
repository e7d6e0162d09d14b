----------------------------- MODULE MCServices -----------------------------
(* Three tasks that the daemon runs in the background and that share no      *)
(* state: the file watcher (with the reindex), the table of nodes, and the   *)
(* client of the hub.  A behaviour is one of one of them, while the others   *)
(* have not begun.                                                           *)
EXTENDS FileIndex, NodeDiscovery, HubClient

CONSTANTS a, b, self

ThreeNodes == {a, b, self}

VARIABLE service

services == <<service, fileVars, nodeVars, hubVars>>

OfFiles(A) == service = "files" /\ A /\ UNCHANGED <<service, nodeVars, hubVars>>
OfNodes(A) == service = "nodes" /\ A /\ UNCHANGED <<service, fileVars, hubVars>>
OfHub(A)   == service = "hub" /\ A /\ UNCHANGED <<service, fileVars, nodeVars>>

MCInit == /\ service \in {"files", "nodes", "hub"}
          /\ FilesInit /\ (service = "files" \/ \A f \in Files : disk[f] = Absent)
          /\ NodesInit /\ HubInit
MCNext == OfFiles(FilesNext) \/ OfNodes(NodesNext) \/ OfHub(HubNext)

MCSpec == /\ MCInit /\ [][MCNext]_services
          /\ WF_services(OfFiles(Watch)) /\ WF_services(OfFiles(Walk))
          /\ WF_services(OfNodes(Loop)) /\ SF_services(OfNodes(TimeOut))
          /\ WF_services(OfHub(Client)) /\ SF_services(OfHub(TakeOut))
=============================================================================
