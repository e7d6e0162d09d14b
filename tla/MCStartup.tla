----------------------------- MODULE MCStartup -----------------------------
(* What a start prepares, and what becomes of it: the PID file, the record   *)
(* store with its migrations, and the table of capabilities.  They share no  *)
(* state: a behaviour is one of one of them, the others have not begun.      *)
EXTENDS StoreBoot, AgentProcess, CapabilityRegistry

CONSTANTS p1, p2, p3, search, other, service, c1, c2

ThreeIds    == {p1, p2, p3}
TwoNames    == {search, other}
OwnSearch   == {search}
OneService  == {service}
TwoCalls    == {c1, c2}
\* An owner, a store, two articles with tags, and one more row.
TwoTagged == {3, 4}

VARIABLE part

parts == <<part, vars, procVars, capVars>>

OfStore(A)    == part = "store" /\ A /\ UNCHANGED <<part, procVars, capVars>>
OfProcess(A)  == part = "process" /\ A /\ UNCHANGED <<part, vars, capVars>>
OfRegistry(A) == part = "registry" /\ A /\ UNCHANGED <<part, vars, procVars>>

MCInit == /\ part \in {"store", "process", "registry"}
          /\ Init /\ (part = "store" \/ origin = "nothing")
          /\ ProcInit
          /\ CapabilitiesInit
          /\ (part = "registry" \/ \A n \in Names : entries[n] = IF n \in BuiltIn THEN Mine(n) ELSE Nothing)
MCNext == OfStore(Next) \/ OfProcess(ProcNext) \/ OfRegistry(CapabilitiesNext)
MCSpec == MCInit /\ [][MCNext]_parts
=============================================================================
