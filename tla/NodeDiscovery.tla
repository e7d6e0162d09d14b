---------------------------- MODULE NodeDiscovery ----------------------------
(***************************************************************************)
(* The table of other nodes (src/discovery/mdns.rs, registry.rs): one loop *)
(* registers the nodes that mDNS resolves, and after every interval without *)
(* an event asks all registered ones for their health.  The receive of such *)
(* a silent interval is a thread that cannot be called off: it stays behind *)
(* and takes a later event, which nobody handles.                           *)
(*                                                                         *)
(* Each action is what the loop does up to its next await; registering is  *)
(* one with receiving, since nobody else writes the table in between.      *)
(***************************************************************************)
EXTENDS Integers, Sequences, FiniteSets

CONSTANTS
  Nodes,
  Trusted,      \* discovery.trusted_node_ids
  Self,         \* the id of this node
  Addresses,    \* an address stands for an endpoint as well
  Nowhere,
  Unregistered,
  MaxMoves,     \* bound on the comings, goings and moves of nodes
  MaxFaults,    \* bound on failures of the store and ends of the daemon
  MaxEvents,    \* bound on events that nobody has taken yet
  MaxAbandoned  \* bound on receives that are left behind; more behave alike

ASSUME NodeDiscoveryAssumption ==
  /\ Trusted \subseteq Nodes
  /\ Nowhere \notin Addresses
  /\ Unregistered \notin [endpoint : Addresses, healthy : BOOLEAN]
  /\ Unregistered \notin [endpoint : Addresses, refuted : BOOLEAN]
  /\ MaxMoves \in Nat /\ MaxFaults \in Nat /\ MaxEvents \in Nat /\ MaxAbandoned \in Nat

VARIABLES
  where,     \* the address of each node, or Nowhere
  table,     \* discovered_node, in the record store
  events,    \* resolved services that nobody has taken yet
  loop,      \* where the loop stands
  snapshot,  \* the nodes a check has still to ask, as it read them
  answer,    \* what the one asked last has answered
  abandoned, \* receives left behind
  moves, faults,
  heard,     \* history: what was registered last of each node, and whether a
             \* request to that endpoint failed since
  fate       \* history: what became of the latest announcement of each node

nodeVars == <<where, table, events, loop, snapshot, answer, abandoned, moves, faults, heard, fate>>
network  == <<where, moves>>
check    == <<snapshot, answer>>

Record  == [endpoint : Addresses, healthy : BOOLEAN]
Unasked == [n \in Nodes |-> Unregistered]
NoOne   == [node |-> Self, alive |-> FALSE]
Known   == {n \in Nodes : table[n] # Unregistered}
ToAsk   == {n \in Nodes : snapshot[n] # Unregistered}

Announced(n)     == \E k \in DOMAIN events : events[k].node = n
Reachable(e)     == \E n \in Nodes : where[n] = e
Proceed(from, to) == loop = from /\ loop' = to
Fault            == faults < MaxFaults /\ faults' = faults + 1

\* Seeded faults: events are handled while a check is under way; who is known
\* is not registered again; nobody recovers.
AlwaysReceiving   == loop # "down"
OnlyNew(n, e)     == IF table[n] = Unregistered THEN [endpoint |-> e, healthy |-> TRUE] ELSE table[n]
NeverRecovered(r) == FALSE

Accepted(n)      == n # Self /\ n \in Trusted
Receiving        == loop = "receive"
Registered(n, e) == [endpoint |-> e, healthy |-> TRUE]
Recovered(r)     == ~r.healthy
Marked(r, health) == [endpoint |-> r.endpoint, healthy |-> health]
Refuted(h)       == [endpoint |-> h.endpoint, refuted |-> TRUE]

NodesInit ==
  /\ where = [n \in Nodes |-> Nowhere]
  /\ table = Unasked
  /\ events = << >> /\ loop = "down"
  /\ snapshot = Unasked /\ answer = NoOne
  /\ abandoned = 0 /\ moves = 0 /\ faults = 0
  /\ heard = Unasked
  /\ fate = [n \in Nodes |-> "handled"]
-----------------------------------------------------------------------------
(* The network.  A node that comes or moves announces itself, which this one *)
(* hears or not.  It may announce itself again and again, but minutes apart: *)
(* what came before is taken by then.  A node that goes changes nothing      *)
(* here: ServiceRemoved is left to the checks.                               *)
Hear(n, e) ==
  /\ loop # "down" /\ Len(events) < MaxEvents
  /\ events' = Append(events, [node |-> n, endpoint |-> e])
  /\ fate' = [fate EXCEPT ![n] = "handled"]

Move(n, e) ==
  /\ moves < MaxMoves /\ moves' = moves + 1
  /\ e # where[n] /\ ~Reachable(e)
  /\ where' = [where EXCEPT ![n] = e]
  /\ \/ Hear(n, e)
     \/ UNCHANGED events /\ fate' = [fate EXCEPT ![n] = "unheard"]
  /\ UNCHANGED <<table, loop, check, abandoned, faults, heard>>

Depart(n) ==
  /\ moves < MaxMoves /\ moves' = moves + 1
  /\ where[n] # Nowhere
  /\ where' = [where EXCEPT ![n] = Nowhere]
  /\ UNCHANGED <<table, events, loop, check, abandoned, faults, heard, fate>>

Announce(n) ==
  /\ where[n] # Nowhere /\ events = << >>
  /\ Hear(n, where[n])
  /\ UNCHANGED <<network, table, loop, check, abandoned, faults, heard>>
-----------------------------------------------------------------------------
(* Events.                                                                   *)
First == Head(events)
Ended(how) == fate' = [fate EXCEPT ![First.node] =
                IF \E k \in DOMAIN events : k > 1 /\ events[k].node = First.node THEN @ ELSE how]

NextService == events # << >> /\ events' = Tail(events)

Register ==
  /\ Receiving /\ NextService
  /\ Accepted(First.node)
  /\ table' = [table EXCEPT ![First.node] = Registered(First.node, First.endpoint)]
  /\ heard' = [heard EXCEPT ![First.node] = [endpoint |-> First.endpoint, refuted |-> FALSE]]
  /\ UNCHANGED <<network, loop, check, abandoned, faults, fate>>

\* A failure of the store is logged.
FailRegister ==
  /\ Receiving /\ NextService /\ Fault
  /\ Accepted(First.node)
  /\ Ended("failed")
  /\ UNCHANGED <<network, table, loop, check, abandoned, heard>>

IgnoreService ==
  /\ Receiving /\ NextService
  /\ ~Accepted(First.node)
  /\ UNCHANGED <<network, table, loop, check, abandoned, faults, heard, fate>>

\* A receive left behind gets the event.
Swallow ==
  /\ abandoned > 0 /\ abandoned' = abandoned - 1
  /\ NextService
  /\ Ended("swallowed")
  /\ UNCHANGED <<network, table, loop, check, faults, heard>>
-----------------------------------------------------------------------------
(* The check: after a silent interval, one node after the other.             *)
Abandon == abandoned' = IF abandoned < MaxAbandoned THEN abandoned + 1 ELSE abandoned

TimeOut ==
  /\ Proceed("receive", "ask") /\ events = << >>
  /\ Abandon
  /\ snapshot' = table
  /\ UNCHANGED <<network, table, events, answer, faults, heard, fate>>

FailList ==
  /\ loop = "receive" /\ events = << >> /\ Fault
  /\ Abandon
  /\ UNCHANGED <<network, table, events, loop, check, heard, fate>>

Ask(n) ==
  /\ Proceed("ask", "note") /\ n \in ToAsk
  /\ answer' = [node |-> n, alive |-> Reachable(snapshot[n].endpoint)]
  /\ heard' = IF ~answer'.alive /\ heard[n].endpoint = snapshot[n].endpoint
              THEN [heard EXCEPT ![n] = Refuted(@)] ELSE heard
  /\ UNCHANGED <<network, table, events, snapshot, abandoned, faults, fate>>

Asked == snapshot' = [snapshot EXCEPT ![answer.node] = Unregistered] /\ answer' = NoOne

\* UPDATE ... SET healthy = false.
MarkUnhealthy ==
  /\ Proceed("note", "ask") /\ Asked
  /\ ~answer.alive /\ snapshot[answer.node].healthy
  /\ table' = [table EXCEPT ![answer.node] = Marked(@, FALSE)]
  /\ UNCHANGED <<network, events, abandoned, faults, heard, fate>>

\* The record goes back as it was read, but for its health.
MarkHealthy ==
  /\ Proceed("note", "ask") /\ Asked
  /\ answer.alive /\ Recovered(snapshot[answer.node])
  /\ table' = [table EXCEPT ![answer.node] = Marked(snapshot[answer.node], TRUE)]
  /\ UNCHANGED <<network, events, abandoned, faults, heard, fate>>

AsBefore ==
  /\ Proceed("note", "ask") /\ Asked
  /\ IF answer.alive THEN ~Recovered(snapshot[answer.node]) ELSE ~snapshot[answer.node].healthy
  /\ UNCHANGED <<network, table, events, abandoned, faults, heard, fate>>

EndCheck ==
  /\ Proceed("ask", "receive") /\ ToAsk = {}
  /\ UNCHANGED <<network, table, events, check, abandoned, faults, heard, fate>>

\* A failure of the store ends the check of all nodes.
FailMark ==
  /\ Proceed("note", "receive") /\ Fault
  /\ answer.alive # snapshot[answer.node].healthy
  /\ snapshot' = Unasked /\ answer' = NoOne
  /\ UNCHANGED <<network, table, events, abandoned, heard, fate>>
-----------------------------------------------------------------------------
(* The daemon ends, with its events and threads, and starts again.           *)
Browse ==
  /\ Proceed("down", "receive")
  /\ UNCHANGED <<network, table, events, check, abandoned, faults, heard, fate>>

Shutdown ==
  /\ loop # "down" /\ loop' = "down" /\ Fault
  /\ events' = << >> /\ abandoned' = 0
  /\ snapshot' = Unasked /\ answer' = NoOne
  /\ fate' = [n \in Nodes |-> IF Announced(n) THEN "unheard" ELSE fate[n]]
  /\ UNCHANGED <<network, table, heard>>

Loop == Browse \/ Register \/ IgnoreService \/ MarkUnhealthy \/ MarkHealthy \/ AsBefore \/ EndCheck
        \/ \E n \in Nodes : Ask(n)

NodesNext ==
  \/ \E n \in Nodes : Depart(n) \/ Announce(n) \/ \E e \in Addresses : Move(n, e)
  \/ Loop \/ TimeOut \/ Swallow
  \/ FailRegister \/ FailList \/ FailMark \/ Shutdown

NodesSpec == NodesInit /\ [][NodesNext]_nodeVars

(* The runtime polls the loop.  Announcements do not keep coming within each *)
(* interval for ever, so again and again one of them is silent.              *)
NodesFairSpec == NodesSpec /\ WF_nodeVars(Loop) /\ SF_nodeVars(TimeOut)
-----------------------------------------------------------------------------
(* The shape of every variable; nobody is in the table who is not trusted.   *)
NodesTypeOK ==
  /\ where \in [Nodes -> Addresses \cup {Nowhere}]
  /\ table \in [Nodes -> Record \cup {Unregistered}]
  /\ \A n \in Known : n \in Trusted /\ n # Self
  /\ events \in Seq([node : Nodes, endpoint : Addresses]) /\ Len(events) <= MaxEvents
  /\ loop \in {"down", "receive", "ask", "note"}
  /\ snapshot \in [Nodes -> Record \cup {Unregistered}]
  /\ answer \in [node : Nodes \cup {Self}, alive : BOOLEAN]
  /\ abandoned \in 0..MaxAbandoned /\ moves \in 0..MaxMoves /\ faults \in 0..MaxFaults
  /\ heard \in [Nodes -> [endpoint : Addresses, refuted : BOOLEAN] \cup {Unregistered}]
  /\ fate \in [Nodes -> {"handled", "unheard", "failed", "swallowed"}]

(* A trusted node whose latest announcement is worked off is in the table at *)
(* the address it has, however checks and restarts came in between: unless   *)
(* that announcement was not heard, the store failed, or a receive that was  *)
(* left behind has taken it.                                                 *)
UpToDate(n) == table[n] # Unregistered /\ table[n].endpoint = where[n]

AnnouncedIsRegistered ==
  \A n \in Nodes : Accepted(n) /\ where[n] # Nowhere /\ ~Announced(n) /\ fate[n] = "handled" =>
    UpToDate(n)

(* A check never undoes an announcement: the endpoint in the table is the    *)
(* one announced last, though the check writes back what it read before it   *)
(* asked, and a node is unhealthy only if a request to that endpoint failed. *)
ChecksRespectAnnouncements ==
  \A n \in Nodes :
    /\ (table[n] = Unregistered) = (heard[n] = Unregistered)
    /\ table[n] # Unregistered =>
         table[n].endpoint = heard[n].endpoint /\ (table[n].healthy \/ heard[n].refuted)

(* Once nodes stay where they are, the table's health becomes true and       *)
(* remains so: healthy if and only if somebody answers at the endpoint.      *)
HealthConverges ==
  <>[](\A n \in Known : table[n].healthy = Reachable(table[n].endpoint))

(* docs/K2K_PROTOCOL.md:550 says that a trusted node, once resolved, is       *)
(* registered: so the announcements this node has heard are in the table,    *)
(* unless the store failed.  Those that a receive left behind took are not.  *)
HeardIsRegistered ==
  \A n \in Nodes :
    Accepted(n) /\ where[n] # Nowhere /\ ~Announced(n) /\ fate[n] \in {"handled", "swallowed"} =>
      UpToDate(n)
=============================================================================
