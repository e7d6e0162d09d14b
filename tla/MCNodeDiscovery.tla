--------------------------- MODULE MCNodeDiscovery ---------------------------
(* NodeDiscovery with one other node, for a look at what gets lost.          *)
EXTENDS NodeDiscovery

CONSTANTS a, self

BothNodes == {a, self}
=============================================================================
