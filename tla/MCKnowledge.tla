---------------------------- MODULE MCKnowledge ----------------------------
(* The entity graph and a routed query, on small instances.  A query takes   *)
(* what a search finds as any list, so the two share no state: a behaviour   *)
(* is one of one of them, the other has not begun.                           *)
EXTENDS EntityGraph, QueryRouter, TLC

CONSTANTS a1, a2, a3, e1, e2, x1, x2, x3, s1, s2, n1, n2, alice, bob, carol

ThreeArticles == {a1, a2, a3}
TwoEntities   == {e1, e2}
\* Every list that names each entity at most once.
SomeLists == {<<e>> : e \in Entities} \cup {<<e1, e2>>, <<e2, e1>>}

ThreeIds  == {x1, x2, x3}
TwoStores == {s1, s2}
Types     == s1 :> "personal" @@ s2 :> "family"
Owners    == s1 :> alice @@ s2 :> bob
SomeUsers == {alice, bob, carol}
TwoNodes  == {n1, n2}
NoneOrAll == {0, 10}

Interchangeable == Permutations(Articles) \cup Permutations(Entities)

VARIABLE part

parts == <<part, graphVars, vars>>

OfGraph(A)  == part = "graph" /\ A /\ UNCHANGED <<part, vars>>
OfRouter(A) == part = "router" /\ A /\ UNCHANGED <<part, graphVars>>

MCInit == part \in {"graph", "router"} /\ GraphInit /\ Init
MCSpec == MCInit /\ [][OfGraph(GraphNext) \/ OfRouter(Next)]_parts
=============================================================================
