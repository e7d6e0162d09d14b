---------------------------- MODULE MCStoreBoot ----------------------------
(* StoreBoot on one machine: an owner, a store and an article with tags.     *)
EXTENDS StoreBoot

OneTagged == {3}
=============================================================================
