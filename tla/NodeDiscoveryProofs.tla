------------------------ MODULE NodeDiscoveryProofs ------------------------
(***************************************************************************)
(* Invariants of the table of nodes for every set of nodes, addresses and  *)
(* trusted ids, and however many moves, failures and lost events.          *)
(***************************************************************************)
EXTENDS NodeDiscovery, SequenceTheorems, TLAPS

Checking == loop \in {"ask", "note"}

(* While a check is under way nothing is registered: the rows of the nodes    *)
(* it has still to ask are those it has read.                                 *)
SnapshotIsCurrent ==
  /\ Checking => \A n \in Nodes : snapshot[n] # Unregistered => snapshot[n] = table[n]
  /\ loop = "note" => answer.node \in ToAsk

(* A node that is about to be called unhealthy did not answer at the          *)
(* endpoint that was announced last.                                          *)
SilenceIsProof == loop = "note" /\ ~answer.alive => heard[answer.node].refuted

CheckInv == NodesTypeOK /\ SnapshotIsCurrent /\ SilenceIsProof /\ ChecksRespectAnnouncements

(* k is the place of the last announcement of n that waits.                   *)
Last(n, k) == /\ k \in 1..Len(events) /\ events[k].node = n
              /\ \A j \in 1..Len(events) : k < j => events[j].node # n

(* What was heard of a node last is where it is, and is in the table unless   *)
(* it still waits.                                                            *)
HeardLast ==
  \A n \in Nodes : where[n] # Nowhere /\ fate[n] = "handled" =>
    \A k \in 1..Len(events) : Last(n, k) => events[k].endpoint = where[n]

DiscoveryInv == CheckInv /\ HeardLast /\ AnnouncedIsRegistered
-----------------------------------------------------------------------------
Event == [node : Nodes, endpoint : Addresses]

(* The first event, and what remains when it is taken.                        *)
LEMMA TakeFirst ==
  ASSUME NodesTypeOK, NextService
  PROVE  /\ First \in Event /\ First = events[1] /\ Len(events) \in Nat \ {0}
         /\ events' \in Seq(Event) /\ Len(events') = Len(events) - 1 /\ Len(events') <= MaxEvents
         /\ \A k \in 1..Len(events') : events'[k] = events[k + 1]
<1>1. events \in Seq(Event) /\ Len(events) <= MaxEvents
  BY DEF NodesTypeOK, Event
<1>2. events # << >> /\ events' = Tail(events)
  BY DEF NextService
<1>3. Len(events) \in Nat \ {0} /\ Head(events) = events[1]
  BY <1>1, <1>2, EmptySeq
<1>4. QED
  BY <1>1, <1>2, <1>3, HeadTailProperties, NodeDiscoveryAssumption DEF First

LEMMA HearStep ==
  ASSUME NodesTypeOK, NEW n \in Nodes, NEW e \in Addresses, Hear(n, e)
  PROVE  /\ events' \in Seq(Event) /\ Len(events') <= MaxEvents
         /\ Len(events) \in Nat /\ Len(events') = Len(events) + 1
         /\ events'[Len(events) + 1] = [node |-> n, endpoint |-> e]
         /\ \A k \in 1..Len(events) : events'[k] = events[k]
         /\ fate' \in [Nodes -> {"handled", "unheard", "failed", "swallowed"}]
<1>1. events \in Seq(Event)
  BY DEF NodesTypeOK, Event
<1>2. /\ [node |-> n, endpoint |-> e] \in Event
      /\ events' = Append(events, [node |-> n, endpoint |-> e]) /\ Len(events) < MaxEvents
  BY DEF Hear, Event
<1>3. Len(events) \in Nat
  BY <1>1, LenProperties
<1>4. fate' \in [Nodes -> {"handled", "unheard", "failed", "swallowed"}]
  BY DEF Hear, NodesTypeOK
<1>5. QED
  BY <1>1, <1>2, <1>3, <1>4, AppendProperties, NodeDiscoveryAssumption

(* Rows are rows: no record is taken for the mark of a node without one.      *)
LEMMA RowsAreRecords ==
  ASSUME NodesTypeOK, NEW n \in Nodes
  PROVE  /\ table[n] # Unregistered => table[n] \in Record
         /\ snapshot[n] # Unregistered => snapshot[n] \in Record
         /\ heard[n] # Unregistered => heard[n] \in [endpoint : Addresses, refuted : BOOLEAN]
  BY DEF NodesTypeOK

-----------------------------------------------------------------------------
(* A check's answer is worked off, or its first failure ends it.              *)
LEMMA AskStep ==
  ASSUME CheckInv, NEW n \in Nodes, Ask(n)
  PROVE  CheckInv'
<1>1. /\ loop = "ask" /\ loop' = "note" /\ snapshot[n] # Unregistered
      /\ answer' = [node |-> n, alive |-> Reachable(snapshot[n].endpoint)]
      /\ UNCHANGED <<where, moves, table, events, snapshot, abandoned, faults, fate>>
  BY DEF Ask, Proceed, ToAsk, network
<1>2. snapshot[n] = table[n] /\ table[n] \in Record /\ heard[n] # Unregistered
      /\ heard[n].endpoint = snapshot[n].endpoint
  BY <1>1, RowsAreRecords DEF CheckInv, SnapshotIsCurrent, Checking, ChecksRespectAnnouncements
<1>3. answer' \in [node : Nodes \cup {Self}, alive : BOOLEAN] /\ answer'.node = n
  BY <1>1 DEF Reachable
<1>4. heard[n] \in [endpoint : Addresses, refuted : BOOLEAN]
  BY <1>2, RowsAreRecords DEF CheckInv
<1>5. \/ ~answer'.alive /\ heard' = [heard EXCEPT ![n] = Refuted(heard[n])]
      \/ answer'.alive /\ heard' = heard
  <2>1. heard' = IF ~answer'.alive /\ heard[n].endpoint = snapshot[n].endpoint
                 THEN [heard EXCEPT ![n] = Refuted(heard[n])] ELSE heard
    BY DEF Ask
  <2>2. QED
    BY <1>2, <2>1, Zenon
<1>6. /\ heard' \in [Nodes -> [endpoint : Addresses, refuted : BOOLEAN] \cup {Unregistered}]
      /\ heard'[n] \in [endpoint : Addresses, refuted : BOOLEAN]
      /\ heard'[n].endpoint = heard[n].endpoint
      /\ \A m \in Nodes \ {n} : heard'[m] = heard[m]
      /\ ~answer'.alive => heard'[n].refuted
      /\ heard[n].refuted => heard'[n].refuted
  <2>1. heard \in [Nodes -> [endpoint : Addresses, refuted : BOOLEAN] \cup {Unregistered}]
    BY DEF CheckInv, NodesTypeOK
  <2>2. /\ Refuted(heard[n]) \in [endpoint : Addresses, refuted : BOOLEAN]
        /\ Refuted(heard[n]).endpoint = heard[n].endpoint /\ Refuted(heard[n]).refuted
    BY <1>4 DEF Refuted
  <2>3. CASE ~answer'.alive /\ heard' = [heard EXCEPT ![n] = Refuted(heard[n])]
    BY <2>1, <2>2, <2>3
  <2>4. CASE answer'.alive /\ heard' = heard
    BY <1>4, <2>1, <2>4
  <2>5. QED
    BY <1>5, <2>3, <2>4
<1>7. NodesTypeOK'
  BY <1>1, <1>3, <1>6 DEF CheckInv, NodesTypeOK, Known
<1>8. SnapshotIsCurrent'
  BY <1>1, <1>3 DEF CheckInv, SnapshotIsCurrent, Checking, ToAsk
<1>9. SilenceIsProof'
  BY <1>3, <1>6 DEF SilenceIsProof
<1>10. ChecksRespectAnnouncements'
  <2>1. SUFFICES ASSUME NEW m \in Nodes
                 PROVE  /\ (table[m] = Unregistered) = (heard'[m] = Unregistered)
                        /\ table[m] # Unregistered =>
                             /\ table[m].endpoint = heard'[m].endpoint
                             /\ table[m].healthy \/ heard'[m].refuted
    BY <1>1 DEF ChecksRespectAnnouncements
  <2>2. CASE m # n
    BY <1>6, <2>2 DEF CheckInv, ChecksRespectAnnouncements
  <2>3. CASE m = n
    <3>1. heard'[n] # Unregistered /\ table[n] # Unregistered
      BY <1>1, <1>2, <1>6, NodeDiscoveryAssumption
    <3>2. table[n].healthy \/ heard'[n].refuted
      BY <1>1, <1>2, <1>6 DEF CheckInv, ChecksRespectAnnouncements
    <3>3. QED
      BY <1>2, <1>6, <2>3, <3>1, <3>2
  <2>4. QED
    BY <2>2, <2>3
<1>11. QED
  BY <1>7, <1>8, <1>9, <1>10 DEF CheckInv

(* The node that is asked is one of those the check has still to work off.    *)
LEMMA Answered ==
  ASSUME CheckInv, loop = "note", Asked
  PROVE  /\ answer.node \in Nodes
         /\ table[answer.node] \in Record /\ snapshot[answer.node] = table[answer.node]
         /\ heard[answer.node] # Unregistered
         /\ snapshot' \in [Nodes -> Record \cup {Unregistered}] /\ answer' = NoOne
         /\ \A n \in Nodes : snapshot'[n] # Unregistered =>
              n # answer.node /\ snapshot'[n] = snapshot[n]
<1>1. answer.node \in Nodes /\ snapshot[answer.node] # Unregistered
  BY DEF CheckInv, SnapshotIsCurrent, ToAsk
<1>2. snapshot[answer.node] = table[answer.node] /\ table[answer.node] \in Record
  BY <1>1, RowsAreRecords DEF CheckInv, SnapshotIsCurrent, Checking
<1>3. heard[answer.node] # Unregistered
  BY <1>1, <1>2 DEF CheckInv, ChecksRespectAnnouncements
<1>4. snapshot' = [snapshot EXCEPT ![answer.node] = Unregistered] /\ answer' = NoOne
  BY DEF Asked
<1>5. snapshot \in [Nodes -> Record \cup {Unregistered}]
  BY DEF CheckInv, NodesTypeOK
<1>6. QED
  BY <1>1, <1>2, <1>3, <1>4, <1>5

(* A step that leaves the table and what was heard alone keeps what relates   *)
(* them.                                                                      *)
LEMMA Untouched ==
  ASSUME CheckInv, NodesTypeOK', SnapshotIsCurrent', loop' # "note", UNCHANGED <<table, heard>>
  PROVE  CheckInv'
  BY DEF CheckInv, SilenceIsProof, ChecksRespectAnnouncements

(* Both marks put the row back with a health that the answer bears out.       *)
LEMMA MarkKeeps ==
  ASSUME CheckInv, loop = "note", loop' = "ask", Asked, NEW health \in BOOLEAN,
         health \/ heard[answer.node].refuted,
         table' = [table EXCEPT ![answer.node] = Marked(table[answer.node], health)],
         UNCHANGED <<where, moves, events, abandoned, faults, heard, fate>>
  PROVE  /\ CheckInv'
         /\ \A n \in Nodes : /\ table[n] # Unregistered => table'[n] # Unregistered
                             /\ table'[n].endpoint = table[n].endpoint
<1> DEFINE a == answer.node
<1>1. /\ a \in Nodes /\ table[a] \in Record /\ heard[a] # Unregistered
      /\ snapshot' \in [Nodes -> Record \cup {Unregistered}] /\ answer' = NoOne
      /\ \A n \in Nodes : snapshot'[n] # Unregistered => n # a /\ snapshot'[n] = snapshot[n]
  BY Answered
<1>2. /\ Marked(table[a], health) \in Record
      /\ Marked(table[a], health).endpoint = table[a].endpoint
      /\ Marked(table[a], health).healthy = health
  BY <1>1 DEF Marked, Record
<1>3. table \in [Nodes -> Record \cup {Unregistered}]
  BY DEF CheckInv, NodesTypeOK
<1>4. /\ table' \in [Nodes -> Record \cup {Unregistered}]
      /\ table'[a] = Marked(table[a], health)
      /\ \A n \in Nodes \ {a} : table'[n] = table[n]
  BY <1>1, <1>2, <1>3
<1>5. table[a] # Unregistered /\ table'[a] # Unregistered
  BY <1>1, <1>2, <1>4, NodeDiscoveryAssumption DEF Record
<1>6. NodesTypeOK'
  <2>1. answer' \in [node : Nodes \cup {Self}, alive : BOOLEAN]
    BY <1>1 DEF NoOne
  <2>2. \A n \in Nodes : table'[n] # Unregistered => n \in Trusted /\ n # Self
    BY <1>4, <1>5 DEF CheckInv, NodesTypeOK, Known
  <2>3. QED
    BY <1>1, <1>4, <2>1, <2>2 DEF CheckInv, NodesTypeOK, Known
<1>7. SnapshotIsCurrent'
  BY <1>1, <1>4 DEF CheckInv, SnapshotIsCurrent, Checking
<1>8. SilenceIsProof'
  BY DEF SilenceIsProof
<1>9. ChecksRespectAnnouncements'
  <2>1. SUFFICES ASSUME NEW m \in Nodes
                 PROVE  /\ (table'[m] = Unregistered) = (heard[m] = Unregistered)
                        /\ table'[m] # Unregistered =>
                             /\ table'[m].endpoint = heard[m].endpoint
                             /\ table'[m].healthy \/ heard[m].refuted
    BY DEF ChecksRespectAnnouncements
  <2>2. CASE m # a
    BY <1>4, <2>2 DEF CheckInv, ChecksRespectAnnouncements
  <2>3. CASE m = a
    <3>1. table[a].endpoint = heard[a].endpoint
      BY <1>1, <1>5 DEF CheckInv, ChecksRespectAnnouncements
    <3>2. table'[a].healthy \/ heard[a].refuted
      BY <1>2, <1>4
    <3>3. QED
      BY <1>1, <1>2, <1>4, <1>5, <2>3, <3>1, <3>2
  <2>4. QED
    BY <2>2, <2>3
<1>10. CheckInv'
  BY <1>6, <1>7, <1>8, <1>9 DEF CheckInv
<1>11. QED
  BY <1>2, <1>4, <1>5, <1>10

(* What a step of the check leaves as it was.                                 *)
EndpointsKept ==
  /\ UNCHANGED <<where, events, fate>>
  /\ \A n \in Nodes : /\ table[n] # Unregistered => table'[n] # Unregistered
                      /\ table'[n].endpoint = table[n].endpoint

LEMMA CheckStep ==
  ASSUME CheckInv,
         \/ \E n \in Nodes : Ask(n)
         \/ MarkUnhealthy \/ MarkHealthy \/ AsBefore \/ EndCheck \/ FailMark \/ TimeOut \/ FailList
  PROVE  CheckInv' /\ EndpointsKept
<1> USE NodeDiscoveryAssumption
<1>1. CASE \E n \in Nodes : Ask(n)
  <2>1. PICK n \in Nodes : Ask(n)
    BY <1>1
  <2>2. CheckInv'
    BY <2>1, AskStep
  <2>3. QED
    BY <2>1, <2>2 DEF Ask, network, EndpointsKept
<1>2. CASE MarkUnhealthy
  <2>1. /\ loop = "note" /\ loop' = "ask" /\ Asked /\ ~answer.alive
        /\ table' = [table EXCEPT ![answer.node] = Marked(table[answer.node], FALSE)]
        /\ UNCHANGED <<where, moves, events, abandoned, faults, heard, fate>>
    BY <1>2 DEF MarkUnhealthy, Proceed, network
  <2>2. heard[answer.node].refuted
    BY <2>1 DEF CheckInv, SilenceIsProof
  <2>3. QED
    BY <2>1, <2>2, MarkKeeps DEF EndpointsKept
<1>3. CASE MarkHealthy
  <2>1. /\ loop = "note" /\ loop' = "ask" /\ Asked
        /\ table' = [table EXCEPT ![answer.node] = Marked(snapshot[answer.node], TRUE)]
        /\ UNCHANGED <<where, moves, events, abandoned, faults, heard, fate>>
    BY <1>3 DEF MarkHealthy, Proceed, network
  <2>2. table' = [table EXCEPT ![answer.node] = Marked(table[answer.node], TRUE)]
    BY <2>1, Answered
  <2>3. QED
    BY <2>1, <2>2, MarkKeeps DEF EndpointsKept
<1>4. CASE AsBefore
  <2>1. /\ loop = "note" /\ loop' = "ask" /\ Asked
        /\ UNCHANGED <<where, moves, table, events, abandoned, faults, heard, fate>>
    BY <1>4 DEF AsBefore, Proceed, network
  <2>0. /\ snapshot' \in [Nodes -> Record \cup {Unregistered}] /\ answer' = NoOne
        /\ \A n \in Nodes : snapshot'[n] # Unregistered => snapshot'[n] = snapshot[n]
    BY <2>1, Answered
  <2>2. NodesTypeOK'
    BY <2>1, <2>0 DEF CheckInv, NodesTypeOK, Known, NoOne
  <2>3. SnapshotIsCurrent'
    BY <2>1, <2>0 DEF CheckInv, SnapshotIsCurrent, Checking
  <2>4. QED
    BY <2>1, <2>2, <2>3, Untouched DEF EndpointsKept
<1>5. CASE EndCheck
  <2>1. /\ loop' = "receive"
        /\ UNCHANGED <<where, moves, table, events, snapshot, answer, abandoned, faults, heard, fate>>
    BY <1>5 DEF EndCheck, Proceed, network, check
  <2>2. NodesTypeOK' /\ SnapshotIsCurrent'
    BY <2>1 DEF CheckInv, NodesTypeOK, Known, SnapshotIsCurrent, Checking
  <2>3. QED
    BY <2>1, <2>2, Untouched DEF EndpointsKept
<1>6. CASE FailMark
  <2>1. /\ loop' = "receive" /\ faults < MaxFaults /\ faults' = faults + 1
        /\ snapshot' = Unasked /\ answer' = NoOne
        /\ UNCHANGED <<where, moves, table, events, abandoned, heard, fate>>
    BY <1>6 DEF FailMark, Proceed, Fault, network
  <2>2. NodesTypeOK'
    BY <2>1 DEF CheckInv, NodesTypeOK, Known, NoOne, Unasked
  <2>3. SnapshotIsCurrent'
    BY <2>1 DEF SnapshotIsCurrent, Checking
  <2>4. QED
    BY <2>1, <2>2, <2>3, Untouched DEF EndpointsKept
<1>7. CASE TimeOut
  <2>1. /\ loop' = "ask" /\ Abandon /\ snapshot' = table
        /\ UNCHANGED <<where, moves, table, events, answer, faults, heard, fate>>
    BY <1>7 DEF TimeOut, Proceed, network
  <2>2. NodesTypeOK'
    BY <2>1 DEF CheckInv, NodesTypeOK, Known, Abandon
  <2>3. SnapshotIsCurrent'
    BY <2>1 DEF SnapshotIsCurrent, Checking
  <2>4. QED
    BY <2>1, <2>2, <2>3, Untouched DEF EndpointsKept
<1>8. CASE FailList
  <2>1. /\ loop = "receive" /\ loop' = loop /\ faults < MaxFaults /\ faults' = faults + 1 /\ Abandon
        /\ UNCHANGED <<where, moves, table, events, snapshot, answer, heard, fate>>
    BY <1>8 DEF FailList, Fault, network, check
  <2>2. NodesTypeOK'
    BY <2>1 DEF CheckInv, NodesTypeOK, Known, Abandon
  <2>3. SnapshotIsCurrent'
    BY <2>1 DEF SnapshotIsCurrent, Checking
  <2>4. QED
    BY <2>1, <2>2, <2>3, Untouched DEF EndpointsKept
<1>9. QED
  BY <1>1, <1>2, <1>3, <1>4, <1>5, <1>6, <1>7, <1>8
-----------------------------------------------------------------------------
(* Nothing of the table's side changes: the network, the start and the end of *)
(* the daemon, and events that come to nothing.                               *)
LEMMA QuietStep ==
  ASSUME CheckInv,
         \/ \E n \in Nodes : Depart(n) \/ Announce(n) \/ \E e \in Addresses : Move(n, e)
         \/ Browse \/ IgnoreService \/ FailRegister \/ Swallow \/ Shutdown
  PROVE  CheckInv'
<1> USE NodeDiscoveryAssumption
<1>0. NodesTypeOK /\ SnapshotIsCurrent
  BY DEF CheckInv
<1>1. CASE \E n \in Nodes : Depart(n) \/ Announce(n) \/ \E e \in Addresses : Move(n, e)
  <2>1. /\ UNCHANGED <<table, loop, snapshot, answer, abandoned, faults, heard>>
        /\ where' \in [Nodes -> Addresses \cup {Nowhere}] /\ moves' \in 0..MaxMoves
        /\ events' \in Seq([node : Nodes, endpoint : Addresses]) /\ Len(events') <= MaxEvents
        /\ fate' \in [Nodes -> {"handled", "unheard", "failed", "swallowed"}]
    <3>1. PICK n \in Nodes : Depart(n) \/ Announce(n) \/ \E e \in Addresses : Move(n, e)
      BY <1>1
    <3>2. CASE Depart(n)
      BY <1>0, <3>2 DEF Depart, NodesTypeOK, check
    <3>3. CASE Announce(n)
      <4>1. where[n] \in Addresses /\ Hear(n, where[n])
        BY <1>0, <3>3 DEF Announce, NodesTypeOK
      <4>2. /\ events' \in Seq([node : Nodes, endpoint : Addresses]) /\ Len(events') <= MaxEvents
            /\ fate' \in [Nodes -> {"handled", "unheard", "failed", "swallowed"}]
        BY <1>0, <4>1, HearStep DEF Event
      <4>3. QED
        BY <1>0, <3>3, <4>2 DEF Announce, NodesTypeOK, check, network
    <3>4. CASE \E e \in Addresses : Move(n, e)
      <4>1. PICK e \in Addresses : Move(n, e)
        BY <3>4
      <4>2. /\ events' \in Seq([node : Nodes, endpoint : Addresses]) /\ Len(events') <= MaxEvents
            /\ fate' \in [Nodes -> {"handled", "unheard", "failed", "swallowed"}]
        <5>1. CASE Hear(n, e)
          BY <1>0, <5>1, HearStep DEF Event
        <5>2. CASE UNCHANGED events /\ fate' = [fate EXCEPT ![n] = "unheard"]
          BY <1>0, <5>2 DEF NodesTypeOK
        <5>3. QED
          BY <4>1, <5>1, <5>2 DEF Move
      <4>3. moves' \in 0..MaxMoves
        BY <1>0, <4>1 DEF Move, NodesTypeOK
      <4>4. where' \in [Nodes -> Addresses \cup {Nowhere}]
        BY <1>0, <4>1 DEF Move, NodesTypeOK
      <4>5. QED
        BY <4>1, <4>2, <4>3, <4>4 DEF Move, check
    <3>5. QED
      BY <3>1, <3>2, <3>3, <3>4
  <2>2. NodesTypeOK'
    BY <1>0, <2>1 DEF NodesTypeOK, Known
  <2>3. CheckInv'
    BY <2>1, <2>2 DEF CheckInv, SnapshotIsCurrent, SilenceIsProof, ChecksRespectAnnouncements,
                      Checking, ToAsk
  <2>4. QED
    BY <2>3
<1>2. CASE Browse
  <2>1. loop' = "receive"
        /\ UNCHANGED <<where, moves, table, events, snapshot, answer, abandoned, faults, heard, fate>>
    BY <1>2 DEF Browse, Proceed, network, check
  <2>2. NodesTypeOK' /\ SnapshotIsCurrent'
    BY <1>0, <2>1 DEF NodesTypeOK, Known, SnapshotIsCurrent, Checking
  <2>3. QED
    BY <2>1, <2>2, Untouched
<1>3. CASE IgnoreService \/ FailRegister \/ Swallow
  <2>1. /\ NextService /\ UNCHANGED <<where, moves, table, loop, snapshot, answer, heard>>
        /\ faults' \in 0..MaxFaults /\ abandoned' \in 0..MaxAbandoned
        /\ fate' \in [Nodes -> {"handled", "unheard", "failed", "swallowed"}]
    <3>1. CASE IgnoreService
      BY <1>0, <3>1 DEF IgnoreService, NodesTypeOK, network, check
    <3>2. CASE FailRegister
      <4>1. fate' \in [Nodes -> {"handled", "unheard", "failed", "swallowed"}]
        BY <1>0, <3>2 DEF FailRegister, Ended, NodesTypeOK
      <4>2. QED
        BY <1>0, <3>2, <4>1 DEF FailRegister, Fault, NodesTypeOK, network, check
    <3>3. CASE Swallow
      <4>1. fate' \in [Nodes -> {"handled", "unheard", "failed", "swallowed"}]
        BY <1>0, <3>3 DEF Swallow, Ended, NodesTypeOK
      <4>2. abandoned' \in 0..MaxAbandoned
        BY <1>0, <3>3 DEF Swallow, NodesTypeOK
      <4>3. QED
        BY <1>0, <3>3, <4>1, <4>2 DEF Swallow, NodesTypeOK, network, check
    <3>4. QED
      BY <1>3, <3>1, <3>2, <3>3
  <2>2. events' \in Seq([node : Nodes, endpoint : Addresses]) /\ Len(events') <= MaxEvents
    BY <1>0, <2>1, TakeFirst DEF Event
  <2>3. NodesTypeOK'
    BY <1>0, <2>1, <2>2 DEF NodesTypeOK, Known
  <2>4. QED
    BY <2>1, <2>3 DEF CheckInv, SnapshotIsCurrent, SilenceIsProof, ChecksRespectAnnouncements,
                      Checking, ToAsk
<1>4. CASE Shutdown
  <2>1. /\ loop' = "down" /\ faults < MaxFaults /\ faults' = faults + 1
        /\ events' = << >> /\ abandoned' = 0 /\ snapshot' = Unasked /\ answer' = NoOne
        /\ fate' = [n \in Nodes |-> IF Announced(n) THEN "unheard" ELSE fate[n]]
        /\ UNCHANGED <<where, moves, table, heard>>
    BY <1>4 DEF Shutdown, Fault, network
  <2>2. /\ fate' \in [Nodes -> {"handled", "unheard", "failed", "swallowed"}]
        /\ snapshot' \in [Nodes -> Record \cup {Unregistered}]
        /\ answer' \in [node : Nodes \cup {Self}, alive : BOOLEAN]
    BY <1>0, <2>1 DEF NodesTypeOK, Unasked, NoOne
  <2>3. events' \in Seq([node : Nodes, endpoint : Addresses]) /\ Len(events') <= MaxEvents
        /\ faults' \in 0..MaxFaults /\ abandoned' \in 0..MaxAbandoned
    BY <1>0, <2>1, EmptySeq DEF NodesTypeOK
  <2>4. NodesTypeOK'
    BY <1>0, <2>1, <2>2, <2>3 DEF NodesTypeOK, Known
  <2>5. SnapshotIsCurrent'
    BY <2>1 DEF SnapshotIsCurrent, Checking
  <2>6. QED
    BY <2>1, <2>4, <2>5, Untouched
<1>5. QED
  BY <1>1, <1>2, <1>3, <1>4

(* A registered announcement is the row and what was heard last.              *)
LEMMA RegisterStep ==
  ASSUME CheckInv, Register
  PROVE  /\ CheckInv'
         /\ table'[First.node] # Unregistered /\ table'[First.node].endpoint = First.endpoint
         /\ \A n \in Nodes \ {First.node} : table'[n] = table[n]
<1> DEFINE f == First.node
           row == [endpoint |-> First.endpoint, healthy |-> TRUE]
           said == [endpoint |-> First.endpoint, refuted |-> FALSE]
<1>0. NodesTypeOK
  BY DEF CheckInv
<1>1. /\ loop = "receive" /\ NextService /\ f \in Trusted /\ f # Self
      /\ table' = [table EXCEPT ![f] = row] /\ heard' = [heard EXCEPT ![f] = said]
      /\ UNCHANGED <<where, moves, loop, snapshot, answer, abandoned, faults, fate>>
  BY DEF Register, Receiving, Accepted, Registered, network, check
<1>2. /\ First \in Event /\ events' \in Seq(Event) /\ Len(events') <= MaxEvents
  BY <1>0, <1>1, TakeFirst
<1>3. /\ f \in Nodes /\ row \in Record /\ said \in [endpoint : Addresses, refuted : BOOLEAN]
  BY <1>2 DEF Event, Record
<1>4. row # Unregistered /\ said # Unregistered
  BY <1>3, NodeDiscoveryAssumption DEF Record
<1>5. /\ table' \in [Nodes -> Record \cup {Unregistered}] /\ table'[f] = row
      /\ \A n \in Nodes \ {f} : table'[n] = table[n]
  BY <1>0, <1>1, <1>3 DEF NodesTypeOK
<1>6. /\ heard' \in [Nodes -> [endpoint : Addresses, refuted : BOOLEAN] \cup {Unregistered}]
      /\ heard'[f] = said /\ \A n \in Nodes \ {f} : heard'[n] = heard[n]
  BY <1>0, <1>1, <1>3 DEF NodesTypeOK
<1>7. NodesTypeOK'
  <2>1. \A n \in Nodes : table'[n] # Unregistered => n \in Trusted /\ n # Self
    BY <1>0, <1>1, <1>5 DEF NodesTypeOK, Known
  <2>2. QED
    BY <1>0, <1>1, <1>2, <1>5, <1>6, <2>1 DEF NodesTypeOK, Known, Event
<1>8. SnapshotIsCurrent' /\ SilenceIsProof'
  BY <1>1 DEF SnapshotIsCurrent, SilenceIsProof, Checking
<1>9. ChecksRespectAnnouncements'
  BY <1>4, <1>5, <1>6 DEF CheckInv, ChecksRespectAnnouncements
<1>10. QED
  BY <1>4, <1>5, <1>7, <1>8, <1>9 DEF CheckInv
-----------------------------------------------------------------------------
(* Places in the queue instead of its DOMAIN.                                 *)
LEMMA Waiting ==
  ASSUME NodesTypeOK, NEW n \in Nodes
  PROVE  Announced(n) <=> \E k \in 1..Len(events) : events[k].node = n
<1>1. events \in Seq(Event)
  BY DEF NodesTypeOK, Event
<1>2. DOMAIN events = 1..Len(events)
  BY <1>1, LenProperties
<1>3. QED
  BY <1>2 DEF Announced

LEMMA WaitingAfter ==
  ASSUME NodesTypeOK', NEW n \in Nodes
  PROVE  Announced(n)' <=> \E k \in 1..Len(events') : events'[k].node = n
<1>1. events' \in Seq(Event)
  BY DEF NodesTypeOK, Event
<1>2. DOMAIN events' = 1..Len(events')
  BY <1>1, LenProperties
<1>3. QED
  BY <1>2 DEF Announced

Delivered == HeardLast /\ AnnouncedIsRegistered

(* The check puts a row back with the endpoint it had.                        *)
LEMMA CheckDelivers ==
  ASSUME Delivered, EndpointsKept
  PROVE  Delivered'
<1>1. UNCHANGED <<where, events, fate>>
  BY DEF EndpointsKept
<1>2. HeardLast'
  BY <1>1 DEF Delivered, HeardLast, Last
<1>3. AnnouncedIsRegistered'
  BY <1>1 DEF Delivered, AnnouncedIsRegistered, UpToDate, Announced, Accepted, EndpointsKept
<1>4. QED
  BY <1>2, <1>3 DEF Delivered

(* An event that is taken was the first: the last of its node stays the last. *)
LEMMA TakenInOrder ==
  ASSUME NodesTypeOK, NodesTypeOK', HeardLast, NextService, UNCHANGED where,
         NEW CONSTANT f, f = First.node,
         \A n \in Nodes : fate'[n] = "handled" => fate[n] = "handled"
  PROVE  /\ HeardLast'
         /\ \A n \in Nodes \ {f} : Announced(n)' <=> Announced(n)
         /\ f \in Nodes
         /\ ~Announced(f)' /\ fate[f] = "handled" /\ where[f] # Nowhere
              => First.endpoint = where[f]
<1>1. /\ First \in Event /\ First = events[1] /\ Len(events) \in Nat \ {0}
      /\ Len(events') = Len(events) - 1
      /\ \A k \in 1..Len(events') : events'[k] = events[k + 1]
  BY TakeFirst
<1>f. f \in Nodes /\ events[1].node = f
  BY <1>1 DEF Event
<1>2. \A n \in Nodes, k \in 1..Len(events') :
        Last(n, k)' => Last(n, k + 1) /\ events'[k] = events[k + 1]
  <2>1. SUFFICES ASSUME NEW n \in Nodes, NEW k \in 1..Len(events'), Last(n, k)'
                 PROVE  Last(n, k + 1)
    BY <1>1
  <2>2. k + 1 \in 1..Len(events) /\ events[k + 1].node = n
    BY <1>1, <2>1 DEF Last
  <2>3. ASSUME NEW j \in 1..Len(events), k + 1 < j PROVE events[j].node # n
    <3>1. j - 1 \in 1..Len(events') /\ k < j - 1 /\ (j - 1) + 1 = j
      BY <1>1, <2>3
    <3>2. events'[j - 1].node # n /\ events'[j - 1] = events[j]
      BY <1>1, <2>1, <3>1 DEF Last
    <3>3. QED
      BY <3>2
  <2>4. QED
    BY <2>2, <2>3 DEF Last
<1>3. HeardLast'
  <2>1. SUFFICES ASSUME NEW n \in Nodes, where'[n] # Nowhere, fate'[n] = "handled",
                        NEW k \in 1..Len(events'), Last(n, k)'
                 PROVE  events'[k].endpoint = where'[n]
    BY DEF HeardLast
  <2>2. Last(n, k + 1) /\ events'[k] = events[k + 1] /\ k + 1 \in 1..Len(events)
    BY <1>1, <1>2, <2>1
  <2>3. where[n] # Nowhere /\ fate[n] = "handled" /\ where'[n] = where[n]
    BY <2>1
  <2>4. events[k + 1].endpoint = where[n]
    BY <2>2, <2>3 DEF HeardLast
  <2>5. QED
    BY <2>2, <2>3, <2>4
<1>4. ASSUME NEW n \in Nodes \ {f}
      PROVE  Announced(n)' <=> Announced(n)
  <2>1. ASSUME NEW k \in 1..Len(events), events[k].node = n
        PROVE  \E j \in 1..Len(events') : events'[j].node = n
    <3>1. k # 1
      BY <1>1, <1>f, <2>1
    <3>2. k - 1 \in 1..Len(events') /\ (k - 1) + 1 = k
      BY <1>1, <3>1
    <3>3. events'[k - 1] = events[k]
      BY <1>1, <3>2
    <3>4. QED
      BY <2>1, <3>2, <3>3
  <2>2. ASSUME NEW k \in 1..Len(events'), events'[k].node = n
        PROVE  \E j \in 1..Len(events) : events[j].node = n
    <3>1. k + 1 \in 1..Len(events) /\ events'[k] = events[k + 1]
      BY <1>1
    <3>2. QED
      BY <2>2, <3>1
  <2>3. QED
    BY <2>1, <2>2, Waiting, WaitingAfter
<1>5. ASSUME ~Announced(f)', fate[f] = "handled", where[f] # Nowhere
      PROVE  First.endpoint = where[f]
  <2>1. \A j \in 1..Len(events') : events'[j].node # f
    BY <1>f, <1>5, WaitingAfter
  <2>2. ASSUME NEW j \in 1..Len(events), 1 < j PROVE events[j].node # f
    <3>1. j - 1 \in 1..Len(events') /\ (j - 1) + 1 = j
      BY <1>1, <2>2
    <3>2. QED
      BY <1>1, <2>1, <3>1
  <2>3. Last(f, 1) /\ 1 \in 1..Len(events)
    BY <1>1, <1>f, <2>2 DEF Last
  <2>4. QED
    BY <1>1, <1>f, <1>5, <2>3 DEF HeardLast
<1>6. QED
  BY <1>3, <1>4, <1>5, <1>f

(* Whoever took the event: if its node is up to date or its fate is known,    *)
(* what is delivered stays delivered.                                         *)
LEMMA TakeDelivers ==
  ASSUME NodesTypeOK, NodesTypeOK', Delivered, NextService, UNCHANGED where,
         NEW CONSTANT f, f = First.node,
         \A n \in Nodes : fate'[n] = "handled" => fate[n] = "handled",
         \A n \in Nodes \ {f} : table'[n] = table[n],
         \/ ~Accepted(f)
         \/ table'[f] # Unregistered /\ table'[f].endpoint = First.endpoint
         \/ fate'[f] # "handled" \/ Announced(f)'
  PROVE  Delivered'
<1>1. /\ HeardLast'
      /\ \A n \in Nodes \ {f} : Announced(n)' <=> Announced(n)
      /\ f \in Nodes
      /\ ~Announced(f)' /\ fate[f] = "handled" /\ where[f] # Nowhere => First.endpoint = where[f]
  BY TakenInOrder DEF Delivered
<1>2. SUFFICES ASSUME NEW n \in Nodes,
                      Accepted(n) /\ where[n] # Nowhere /\ ~Announced(n)' /\ fate'[n] = "handled"
               PROVE  table'[n] # Unregistered /\ table'[n].endpoint = where[n]
  BY <1>1 DEF Delivered, AnnouncedIsRegistered, UpToDate, Accepted
<1>3. CASE n # f
  BY <1>1, <1>2, <1>3 DEF Delivered, AnnouncedIsRegistered, UpToDate
<1>4. CASE n = f
  BY <1>1, <1>2, <1>4
<1>5. QED
  BY <1>3, <1>4

(* An announcement that is heard is the last, and says where the node is.     *)
LEMMA HearDelivers ==
  ASSUME NodesTypeOK, NodesTypeOK', Delivered, NEW n \in Nodes, NEW e \in Addresses, Hear(n, e),
         where'[n] = e, \A m \in Nodes \ {n} : where'[m] = where[m], UNCHANGED table
  PROVE  Delivered'
<1>1. /\ Len(events) \in Nat /\ Len(events') = Len(events) + 1
      /\ events'[Len(events) + 1] = [node |-> n, endpoint |-> e]
      /\ \A k \in 1..Len(events) : events'[k] = events[k]
  BY HearStep
<1>2. \A m \in Nodes \ {n} : fate'[m] = fate[m]
  BY DEF Hear, NodesTypeOK
<1>3. ASSUME NEW m \in Nodes \ {n}, NEW k \in 1..Len(events'), Last(m, k)'
      PROVE  k \in 1..Len(events) /\ Last(m, k) /\ events'[k] = events[k]
  <2>1. events'[k].node = m /\ events'[Len(events) + 1].node = n
    BY <1>1, <1>3 DEF Last
  <2>2. k \in 1..Len(events)
    BY <1>1, <2>1
  <2>3. QED
    BY <1>1, <1>3, <2>1, <2>2 DEF Last
<1>4. ASSUME NEW k \in 1..Len(events'), Last(n, k)' PROVE k = Len(events) + 1
  <2>1. Len(events) + 1 \in 1..Len(events') /\ events'[Len(events) + 1].node = n
    BY <1>1
  <2>2. ~(k < Len(events) + 1)
    BY <1>4, <2>1 DEF Last
  <2>3. QED
    BY <1>1, <2>2
<1>5. HeardLast'
  <2>1. SUFFICES ASSUME NEW m \in Nodes, where'[m] # Nowhere, fate'[m] = "handled",
                        NEW k \in 1..Len(events'), Last(m, k)'
                 PROVE  events'[k].endpoint = where'[m]
    BY DEF HeardLast
  <2>2. CASE m = n
    BY <1>1, <1>4, <2>1, <2>2
  <2>3. CASE m # n
    <3>1. k \in 1..Len(events) /\ Last(m, k) /\ events'[k] = events[k]
      BY <1>3, <2>1, <2>3
    <3>2. where[m] = where'[m] /\ fate[m] = "handled"
      BY <1>2, <2>1, <2>3
    <3>3. QED
      BY <2>1, <3>1, <3>2 DEF Delivered, HeardLast
  <2>4. QED
    BY <2>2, <2>3
<1>6. Announced(n)'
  BY <1>1, WaitingAfter
<1>7. \A m \in Nodes : Announced(m) => Announced(m)'
  <2>1. SUFFICES ASSUME NEW m \in Nodes, NEW k \in 1..Len(events), events[k].node = m
                 PROVE  Announced(m)'
    BY Waiting
  <2>2. k \in 1..Len(events') /\ events'[k].node = m
    BY <1>1, <2>1
  <2>3. QED
    BY <2>2, WaitingAfter
<1>8. AnnouncedIsRegistered'
  <2>1. SUFFICES ASSUME NEW m \in Nodes,
                        Accepted(m) /\ where'[m] # Nowhere /\ ~Announced(m)' /\ fate'[m] = "handled"
                 PROVE  table[m] # Unregistered /\ table[m].endpoint = where'[m]
    BY DEF AnnouncedIsRegistered, UpToDate, Accepted
  <2>2. m # n /\ ~Announced(m)
    BY <1>6, <1>7, <2>1
  <2>3. where'[m] = where[m] /\ fate[m] = "handled"
    BY <1>2, <2>1, <2>2
  <2>4. QED
    BY <2>1, <2>2, <2>3 DEF Delivered, AnnouncedIsRegistered, UpToDate
<1>9. QED
  BY <1>5, <1>8 DEF Delivered
-----------------------------------------------------------------------------
LEMMA Initially == NodesInit => DiscoveryInv
<1> SUFFICES ASSUME NodesInit PROVE DiscoveryInv
  OBVIOUS
<1> USE NodeDiscoveryAssumption
<1>1. NodesTypeOK
  BY EmptySeq DEF NodesInit, NodesTypeOK, Known, Unasked, NoOne
<1>2. SnapshotIsCurrent /\ SilenceIsProof /\ ChecksRespectAnnouncements
  BY DEF NodesInit, SnapshotIsCurrent, SilenceIsProof, ChecksRespectAnnouncements, Checking, Unasked
<1>3. HeardLast /\ AnnouncedIsRegistered
  BY DEF NodesInit, HeardLast, AnnouncedIsRegistered
<1>4. QED
  BY <1>1, <1>2, <1>3 DEF DiscoveryInv, CheckInv

LEMMA Step ==
  ASSUME DiscoveryInv, NodesNext
  PROVE  DiscoveryInv'
<1>0. CheckInv /\ NodesTypeOK /\ Delivered
  BY DEF DiscoveryInv, CheckInv, Delivered
<1>1. CASE \/ \E n \in Nodes : Ask(n)
           \/ MarkUnhealthy \/ MarkHealthy \/ AsBefore \/ EndCheck \/ FailMark \/ TimeOut \/ FailList
  BY <1>0, <1>1, CheckStep, CheckDelivers DEF DiscoveryInv, Delivered
<1>2. CASE Register
  <2>1. CheckInv' /\ NodesTypeOK'
    BY <1>0, <1>2, RegisterStep DEF CheckInv
  <2>2. PICK f : f = First.node
    OBVIOUS
  <2>3. /\ table'[f] # Unregistered /\ table'[f].endpoint = First.endpoint
        /\ \A n \in Nodes \ {f} : table'[n] = table[n]
    BY <1>0, <1>2, <2>2, RegisterStep
  <2>4. NextService /\ UNCHANGED <<where, fate>>
    BY <1>2 DEF Register, network
  <2>5. Delivered'
    BY <1>0, <2>1, <2>2, <2>3, <2>4, TakeDelivers
  <2>6. QED
    BY <2>1, <2>5 DEF DiscoveryInv, Delivered
<1>3. CASE IgnoreService
  <2>1. CheckInv' /\ NodesTypeOK'
    BY <1>0, <1>3, QuietStep DEF CheckInv
  <2>2. PICK f : f = First.node
    OBVIOUS
  <2>3. NextService /\ UNCHANGED <<where, fate, table>> /\ ~Accepted(f)
    BY <1>3, <2>2 DEF IgnoreService, network
  <2>4. Delivered'
    BY <1>0, <2>1, <2>2, <2>3, TakeDelivers
  <2>5. QED
    BY <2>1, <2>4 DEF DiscoveryInv, Delivered
<1>4. CASE FailRegister \/ Swallow
  <2>1. CheckInv' /\ NodesTypeOK'
    BY <1>0, <1>4, QuietStep DEF CheckInv
  <2>2. PICK f : f = First.node
    OBVIOUS
  <2>3. NextService /\ UNCHANGED <<where, table>> /\ (Ended("failed") \/ Ended("swallowed"))
    BY <1>4 DEF FailRegister, Swallow, network
  <2>4. f \in Nodes /\ Len(events) \in Nat \ {0} /\ Len(events') = Len(events) - 1
        /\ \A k \in 1..Len(events') : events'[k] = events[k + 1]
    BY <1>0, <2>2, <2>3, TakeFirst DEF Event
  <2>5. /\ \A n \in Nodes : fate'[n] = "handled" => fate[n] = "handled"
        /\ fate'[f] # "handled" \/ \E k \in DOMAIN events : k > 1 /\ events[k].node = f
    BY <1>0, <2>2, <2>3, <2>4 DEF Ended, NodesTypeOK
  <2>6. ASSUME NEW k \in DOMAIN events, k > 1, events[k].node = f
        PROVE  Announced(f)'
    <3>1. events \in Seq(Event)
      BY <1>0 DEF NodesTypeOK, Event
    <3>2. k \in 1..Len(events)
      BY <2>6, <3>1, LenProperties
    <3>3. k - 1 \in 1..Len(events') /\ (k - 1) + 1 = k
      BY <2>4, <2>6, <3>2
    <3>4. events'[k - 1].node = f
      BY <2>4, <2>6, <3>3
    <3>5. QED
      BY <2>1, <2>4, <3>3, <3>4, WaitingAfter
  <2>7. Delivered'
    BY <1>0, <2>1, <2>2, <2>3, <2>5, <2>6, TakeDelivers
  <2>8. QED
    BY <2>1, <2>7 DEF DiscoveryInv, Delivered
<1>5. CASE \E n \in Nodes : Depart(n) \/ Announce(n) \/ \E e \in Addresses : Move(n, e)
  <2>1. CheckInv' /\ NodesTypeOK'
    BY <1>0, <1>5, QuietStep DEF CheckInv
  <2>2. PICK n \in Nodes : Depart(n) \/ Announce(n) \/ \E e \in Addresses : Move(n, e)
    BY <1>5
  <2>3. CASE Depart(n)
    <3>1. /\ where'[n] = Nowhere /\ \A m \in Nodes \ {n} : where'[m] = where[m]
          /\ UNCHANGED <<table, events, fate>>
      BY <1>0, <2>3 DEF Depart, NodesTypeOK
    <3>2. HeardLast'
      BY <1>0, <3>1 DEF Delivered, HeardLast, Last
    <3>3. AnnouncedIsRegistered'
      BY <1>0, <3>1 DEF Delivered, AnnouncedIsRegistered, UpToDate, Announced, Accepted
    <3>4. QED
      BY <2>1, <3>2, <3>3 DEF DiscoveryInv
  <2>4. CASE Announce(n)
    <3>1. where[n] \in Addresses /\ Hear(n, where[n]) /\ UNCHANGED <<where, table>>
      BY <1>0, <2>4 DEF Announce, NodesTypeOK, network
    <3>2. PICK e \in Addresses : e = where[n]
      BY <3>1
    <3>3. Delivered'
      BY <1>0, <2>1, <3>1, <3>2, HearDelivers
    <3>4. QED
      BY <2>1, <3>3 DEF DiscoveryInv, Delivered
  <2>5. CASE \E e \in Addresses : Move(n, e)
    <3>1. PICK e \in Addresses : Move(n, e)
      BY <2>5
    <3>2. /\ where'[n] = e /\ (\A m \in Nodes \ {n} : where'[m] = where[m]) /\ UNCHANGED table
          /\ Hear(n, e) \/ (UNCHANGED events /\ fate' = [fate EXCEPT ![n] = "unheard"])
      BY <1>0, <3>1 DEF Move, NodesTypeOK
    <3>3. CASE Hear(n, e)
      <4>1. Delivered'
        BY <1>0, <2>1, <3>2, <3>3, HearDelivers
      <4>2. QED
        BY <2>1, <4>1 DEF DiscoveryInv, Delivered
    <3>4. CASE UNCHANGED events /\ fate' = [fate EXCEPT ![n] = "unheard"]
      <4>1. fate'[n] = "unheard" /\ \A m \in Nodes \ {n} : fate'[m] = fate[m]
        BY <1>0, <3>4 DEF NodesTypeOK
      <4>2. HeardLast'
        BY <1>0, <3>2, <3>4, <4>1 DEF Delivered, HeardLast, Last
      <4>3. AnnouncedIsRegistered'
        BY <1>0, <3>2, <3>4, <4>1 DEF Delivered, AnnouncedIsRegistered, UpToDate, Announced, Accepted
      <4>4. QED
        BY <2>1, <4>2, <4>3 DEF DiscoveryInv
    <3>5. QED
      BY <3>2, <3>3, <3>4
  <2>6. QED
    BY <2>2, <2>3, <2>4, <2>5
<1>6. CASE Browse
  <2>1. CheckInv' /\ UNCHANGED <<where, table, events, fate>>
    BY <1>0, <1>6, QuietStep DEF Browse, network
  <2>2. Delivered'
    BY <1>0, <2>1, CheckDelivers DEF EndpointsKept
  <2>3. QED
    BY <2>1, <2>2 DEF DiscoveryInv, Delivered
<1>7. CASE Shutdown
  <2>1. CheckInv'
    BY <1>0, <1>7, QuietStep
  <2>2. /\ UNCHANGED <<where, table>> /\ events' = << >>
        /\ fate' = [n \in Nodes |-> IF Announced(n) THEN "unheard" ELSE fate[n]]
    BY <1>7 DEF Shutdown, network
  <2>3. HeardLast'
    BY <2>2 DEF HeardLast
  <2>4. \A n \in Nodes : fate'[n] = "handled" => ~Announced(n) /\ fate[n] = "handled"
    BY <2>2
  <2>5. AnnouncedIsRegistered'
    BY <1>0, <2>2, <2>4 DEF Delivered, AnnouncedIsRegistered, UpToDate, Accepted
  <2>6. QED
    BY <2>1, <2>3, <2>5 DEF DiscoveryInv
<1>8. QED
  BY <1>1, <1>2, <1>3, <1>4, <1>5, <1>6, <1>7 DEF NodesNext, Loop

LEMMA Stutter == DiscoveryInv /\ UNCHANGED nodeVars => DiscoveryInv'
<1> SUFFICES ASSUME DiscoveryInv, UNCHANGED nodeVars PROVE DiscoveryInv'
  OBVIOUS
<1>1. UNCHANGED <<where, table, events, loop, snapshot, answer, abandoned, moves, faults, heard, fate>>
  BY DEF nodeVars
<1>2. NodesTypeOK' /\ SnapshotIsCurrent'
  BY <1>1 DEF DiscoveryInv, CheckInv, NodesTypeOK, Known, SnapshotIsCurrent, Checking, ToAsk
<1>3. SilenceIsProof' /\ ChecksRespectAnnouncements'
  BY <1>1 DEF DiscoveryInv, CheckInv, SilenceIsProof, ChecksRespectAnnouncements
<1>4. Delivered'
  BY <1>1, CheckDelivers DEF DiscoveryInv, Delivered, EndpointsKept
<1>5. QED
  BY <1>2, <1>3, <1>4 DEF DiscoveryInv, CheckInv, Delivered

LEMMA Invariance == NodesSpec => []DiscoveryInv
<1>1. NodesInit => DiscoveryInv
  BY Initially
<1>2. DiscoveryInv /\ [NodesNext]_nodeVars => DiscoveryInv'
  BY Step, Stutter
<1>3. QED
  BY <1>1, <1>2, PTL DEF NodesSpec

(* Every variable keeps its shape, and only trusted nodes get into the table. *)
THEOREM TypeCorrectness == NodesSpec => []NodesTypeOK
<1>1. DiscoveryInv => NodesTypeOK
  BY DEF DiscoveryInv, CheckInv
<1>2. QED
  BY <1>1, Invariance, PTL

(* A health check never undoes an announcement, however long it takes and     *)
(* wherever it fails (registry.rs:55-75 writes back what it read).            *)
THEOREM ChecksAreHarmless == NodesSpec => []ChecksRespectAnnouncements
<1>1. DiscoveryInv => ChecksRespectAnnouncements
  BY DEF DiscoveryInv, CheckInv
<1>2. QED
  BY <1>1, Invariance, PTL

(* What was announced last and worked off is in the table, unless it was not  *)
(* heard, the store failed, or a receive left behind took it (mdns.rs:95-102).*)
THEOREM AnnouncementsArrive == NodesSpec => []AnnouncedIsRegistered
<1>1. DiscoveryInv => AnnouncedIsRegistered
  BY DEF DiscoveryInv
<1>2. QED
  BY <1>1, Invariance, PTL
-----------------------------------------------------------------------------
(* What makes health converge, but for the fairness that starts and ends      *)
(* checks.  The health in the table is that of the endpoint in the table.     *)
Right(n) == table[n] # Unregistered => table[n].healthy = Reachable(table[n].endpoint)
AllRight == \A n \in Nodes : Right(n)

(* Nothing under way tells of a node where it is no longer.                   *)
NothingOutdated ==
  /\ \A k \in 1..Len(events) : events[k].endpoint = where[events[k].node]
  /\ loop = "note" => answer.alive = Reachable(snapshot[answer.node].endpoint)

(* Whom the check has asked already is right.                                 *)
TrueSoFar == NothingOutdated /\ (Checking => \A n \in Known \ ToAsk : Right(n))

(* While nodes stay where they are: a check that begins when what was under   *)
(* way is worked off is true so far until it ends, then all nodes are right;  *)
(* and right they stay, whatever is announced, lost or fails.                 *)
ChecksComeTrue ==
  [][where' = where =>
       /\ TrueSoFar => TrueSoFar'
       /\ TrueSoFar /\ EndCheck => AllRight'
       /\ NothingOutdated /\ AllRight => NothingOutdated' /\ AllRight']_nodeVars

LEMMA NobodyMoves ==
  ASSUME NodesTypeOK, where' = where, NEW n \in Nodes
  PROVE  ~Depart(n) /\ \A e \in Addresses : ~Move(n, e)
  BY NodeDiscoveryAssumption DEF Depart, Move, NodesTypeOK

(* The answer of a node is put into the table.                                *)
LEMMA AnswerIsNoted ==
  ASSUME CheckInv, NothingOutdated, where' = where, MarkUnhealthy \/ MarkHealthy \/ AsBefore,
         NEW m, m = answer.node
  PROVE  /\ m \in Nodes /\ Right(m)' /\ loop' = "ask" /\ events' = events
         /\ \A n \in Nodes \ {m} : table'[n] = table[n] /\ snapshot'[n] = snapshot[n]
<1>0. PICK r : r = table[m]
  OBVIOUS
<1>1. loop = "note" /\ loop' = "ask" /\ events' = events
  BY DEF MarkUnhealthy, MarkHealthy, AsBefore, Proceed
<1>2. m \in Nodes /\ snapshot[m] # Unregistered /\ snapshot[m] = r /\ r \in Record
  BY <1>0, <1>1, RowsAreRecords DEF CheckInv, SnapshotIsCurrent, ToAsk, Checking
<1>3. answer.alive = Reachable(r.endpoint) /\ answer.alive \in BOOLEAN
  BY <1>1, <1>2 DEF NothingOutdated, CheckInv, NodesTypeOK
<1>4. snapshot' = [snapshot EXCEPT ![m] = Unregistered]
  BY DEF MarkUnhealthy, MarkHealthy, AsBefore, Asked
<1>5. \A n \in Nodes \ {m} : snapshot'[n] = snapshot[n]
  BY <1>4 DEF CheckInv, NodesTypeOK
<1>6. table \in [Nodes -> Record \cup {Unregistered}]
  BY DEF CheckInv, NodesTypeOK
<1>7. \A e : Reachable(e)' = Reachable(e)
  BY DEF Reachable
<1>8. CASE MarkUnhealthy
  <2>1. table' = [table EXCEPT ![m] = [endpoint |-> r.endpoint, healthy |-> FALSE]] /\ ~answer.alive
    BY <1>0, <1>8 DEF MarkUnhealthy, Marked
  <2>2. /\ table'[m] = [endpoint |-> r.endpoint, healthy |-> FALSE]
        /\ \A n \in Nodes \ {m} : table'[n] = table[n]
    BY <1>2, <1>6, <2>1
  <2>3. Right(m)'
    <3>1. table'[m].endpoint = r.endpoint /\ table'[m].healthy = FALSE
      BY <2>2
    <3>2. answer.alive = FALSE
      BY <1>3, <2>1
    <3> QED
      BY <1>3, <1>7, <3>1, <3>2 DEF Right
  <2> QED
    BY <1>1, <1>2, <1>5, <2>2, <2>3
<1>9. CASE MarkHealthy
  <2>1. table' = [table EXCEPT ![m] = [endpoint |-> r.endpoint, healthy |-> TRUE]] /\ answer.alive
    BY <1>2, <1>9 DEF MarkHealthy, Marked
  <2>2. /\ table'[m] = [endpoint |-> r.endpoint, healthy |-> TRUE]
        /\ \A n \in Nodes \ {m} : table'[n] = table[n]
    BY <1>2, <1>6, <2>1
  <2>3. Right(m)'
    <3>1. table'[m].endpoint = r.endpoint /\ table'[m].healthy = TRUE
      BY <2>2
    <3>2. answer.alive = TRUE
      BY <1>3, <2>1
    <3> QED
      BY <1>3, <1>7, <3>1, <3>2 DEF Right
  <2> QED
    BY <1>1, <1>2, <1>5, <2>2, <2>3
<1>10. CASE AsBefore
  <2>1. table' = table /\ (answer.alive = r.healthy)
    BY <1>2, <1>3, <1>10 DEF AsBefore, Recovered, Record
  <2>2. Right(m)'
    BY <1>0, <1>3, <1>7, <2>1 DEF Right
  <2> QED
    BY <1>1, <1>2, <1>5, <2>1, <2>2
<1> QED
  BY <1>8, <1>9, <1>10

(* Who registers while nobody moves is where it says.                         *)
LEMMA RegisteredIsRight ==
  ASSUME CheckInv, NothingOutdated, where' = where, Register, NEW m, m = First.node
  PROVE  m \in Nodes /\ Right(m)' /\ \A n \in Nodes \ {m} : table'[n] = table[n]
<1>1. First \in Event /\ First = events[1] /\ Len(events) \in Nat \ {0}
  BY TakeFirst DEF CheckInv, Register
<1>2. m \in Nodes /\ First.endpoint = where[m]
  BY <1>1 DEF NothingOutdated, Event
<1>3. table' = [table EXCEPT ![m] = [endpoint |-> where[m], healthy |-> TRUE]]
  BY <1>2 DEF Register, Registered
<1>4. /\ table'[m] = [endpoint |-> where[m], healthy |-> TRUE]
      /\ \A n \in Nodes \ {m} : table'[n] = table[n]
  BY <1>2, <1>3 DEF CheckInv, NodesTypeOK
<1>5. table'[m].healthy = TRUE /\ table'[m].endpoint = where[m]
  BY <1>4
<1>6. \E n \in Nodes : where'[n] = table'[m].endpoint
  BY <1>2, <1>5
<1> QED
  BY <1>2, <1>4, <1>5, <1>6 DEF Right, Reachable

LEMMA RightStaysRight ==
  ASSUME CheckInv, NothingOutdated, where' = where, [NodesNext]_nodeVars
  PROVE  \A n \in Nodes : Right(n) => Right(n)'
<1> SUFFICES ASSUME NEW n \in Nodes, Right(n) PROVE Right(n)'
  OBVIOUS
<1>0. \A e : Reachable(e)' = Reachable(e)
  BY DEF Reachable
<1>1. table'[n] = table[n] => Right(n)'
  BY <1>0 DEF Right
<1>2. CASE MarkUnhealthy \/ MarkHealthy \/ AsBefore
  BY <1>1, <1>2, AnswerIsNoted
<1>3. CASE Register
  BY <1>1, <1>3, RegisteredIsRight
<1>4. CASE UNCHANGED table
  BY <1>1, <1>4
<1> HIDE DEF Right
<1>5. MarkUnhealthy \/ MarkHealthy \/ AsBefore \/ Register \/ UNCHANGED table
  <2>1. CASE \E m \in Nodes : Ask(m) \/ Depart(m) \/ Announce(m) \/ \E e \in Addresses : Move(m, e)
    BY <2>1 DEF Ask, Depart, Announce, Move
  <2>2. CASE Browse \/ IgnoreService \/ EndCheck \/ TimeOut \/ Swallow
    BY <2>2 DEF Browse, IgnoreService, EndCheck, TimeOut, Swallow
  <2>3. CASE FailRegister \/ FailList \/ FailMark \/ Shutdown \/ UNCHANGED nodeVars
    BY <2>3 DEF FailRegister, FailList, FailMark, Shutdown, nodeVars
  <2> QED
    BY <2>1, <2>2, <2>3 DEF NodesNext, Loop
<1> QED
  BY <1>2, <1>3, <1>4, <1>5

LEMMA NewsStayTrue ==
  ASSUME CheckInv, NothingOutdated, where' = where, [NodesNext]_nodeVars
  PROVE  NothingOutdated'
<1> DEFINE Events == \A k \in 1..Len(events) : events[k].endpoint = where[events[k].node]
           Answer == loop = "note" => answer.alive = Reachable(snapshot[answer.node].endpoint)
<1>1. Events /\ Answer
  BY DEF NothingOutdated
<1>2. ASSUME UNCHANGED events PROVE Events'
  BY <1>1, <1>2
<1>3. ASSUME NextService PROVE Events'
  <2>1. /\ Len(events) \in Nat \ {0} /\ Len(events') = Len(events) - 1
        /\ \A k \in 1..Len(events') : events'[k] = events[k + 1]
    BY <1>3, TakeFirst DEF CheckInv
  <2>2. \A k \in 1..Len(events') : k + 1 \in 1..Len(events)
    BY <2>1
  <2> QED
    BY <1>1, <2>1, <2>2
<1>4. ASSUME UNCHANGED <<loop, snapshot, answer>> PROVE Answer'
  BY <1>1, <1>4 DEF Reachable
<1>5. ASSUME loop' # "note" PROVE Answer'
  BY <1>5
<1> HIDE DEF Events, Answer
<1>6. CASE \E n \in Nodes : Announce(n)
  <2>1. PICK n \in Nodes : Announce(n)
    BY <1>6
  <2>2. where[n] \in Addresses /\ Hear(n, where[n]) /\ UNCHANGED <<loop, snapshot, answer>>
    BY <2>1 DEF Announce, check, CheckInv, NodesTypeOK
  <2>3. /\ Len(events) \in Nat /\ Len(events') = Len(events) + 1
        /\ events'[Len(events) + 1] = [node |-> n, endpoint |-> where[n]]
        /\ \A k \in 1..Len(events) : events'[k] = events[k]
    BY <2>2, HearStep DEF CheckInv
  <2>4. \A k \in 1..Len(events') : k \in 1..Len(events) \/ k = Len(events) + 1
    BY <2>3
  <2>5. Events'
    BY <1>1, <2>3, <2>4 DEF Events
  <2> QED
    BY <1>4, <2>2, <2>5 DEF NothingOutdated, Events, Answer
<1>7. CASE \E n \in Nodes : Ask(n)
  <2>1. PICK n \in Nodes : Ask(n)
    BY <1>7
  <2>2. /\ UNCHANGED <<events, snapshot>>
        /\ answer' = [node |-> n, alive |-> Reachable(snapshot[n].endpoint)]
    BY <2>1 DEF Ask
  <2>3. Answer'
    BY <2>2 DEF Answer, Reachable
  <2> QED
    BY <1>2, <2>2, <2>3 DEF NothingOutdated, Events, Answer
<1>8. CASE MarkUnhealthy \/ MarkHealthy \/ AsBefore \/ EndCheck \/ Browse \/ TimeOut \/ FailMark
  <2>1. UNCHANGED events /\ loop' # "note"
    BY <1>8 DEF MarkUnhealthy, MarkHealthy, AsBefore, EndCheck, Browse, TimeOut, FailMark, Proceed
  <2> QED
    BY <1>2, <1>5, <2>1 DEF NothingOutdated, Events, Answer
<1>9. CASE Register \/ IgnoreService \/ FailRegister \/ Swallow
  <2>1. NextService /\ UNCHANGED <<loop, snapshot, answer>>
    BY <1>9 DEF Register, IgnoreService, FailRegister, Swallow, check
  <2> QED
    BY <1>3, <1>4, <2>1 DEF NothingOutdated, Events, Answer
<1>10. CASE Shutdown
  <2>1. events' = << >> /\ loop' # "note"
    BY <1>10 DEF Shutdown
  <2>2. Events'
    BY <2>1 DEF Events
  <2> QED
    BY <1>5, <2>1, <2>2 DEF NothingOutdated, Events, Answer
<1>11. CASE FailList \/ UNCHANGED nodeVars
  <2>1. UNCHANGED <<events, loop, snapshot, answer>>
    BY <1>11 DEF FailList, check, nodeVars
  <2> QED
    BY <1>2, <1>4, <2>1 DEF NothingOutdated, Events, Answer
<1>12. \A n \in Nodes : ~Depart(n) /\ \A e \in Addresses : ~Move(n, e)
  BY NobodyMoves DEF CheckInv
<1> QED
  BY <1>6, <1>7, <1>8, <1>9, <1>10, <1>11, <1>12 DEF NodesNext, Loop

LEMMA ChecksGoOnTrue ==
  ASSUME CheckInv, TrueSoFar, where' = where, [NodesNext]_nodeVars
  PROVE  TrueSoFar'
<1>1. NothingOutdated' /\ \A n \in Nodes : Right(n) => Right(n)'
  BY NewsStayTrue, RightStaysRight DEF TrueSoFar
<1>2. Checking => \A n \in Known \ ToAsk : Right(n)
  BY DEF TrueSoFar
<1>3. ASSUME Checking, \A n \in Nodes : snapshot'[n] = snapshot[n],
             \A n \in Nodes : table'[n] # Unregistered => table[n] # Unregistered
      PROVE  \A n \in (Known \ ToAsk)' : Right(n)'
  BY <1>1, <1>2, <1>3 DEF Known, ToAsk
<1>4. CASE MarkUnhealthy \/ MarkHealthy \/ AsBefore
  <2>1. PICK m : m = answer.node
    OBVIOUS
  <2>2. /\ m \in Nodes /\ Right(m)' /\ Checking
        /\ \A n \in Nodes \ {m} : table'[n] = table[n] /\ snapshot'[n] = snapshot[n]
    <3>1. Checking
      BY <1>4 DEF MarkUnhealthy, MarkHealthy, AsBefore, Proceed, Checking
    <3> QED
      BY <1>4, <2>1, <3>1, AnswerIsNoted DEF TrueSoFar
  <2>3. \A n \in (Known \ ToAsk)' : Right(n)'
    BY <1>1, <1>2, <2>2 DEF Known, ToAsk
  <2> QED
    BY <1>1, <2>3 DEF TrueSoFar
<1>5. CASE TimeOut
  <2>1. snapshot' = table /\ table' = table
    BY <1>5 DEF TimeOut
  <2>2. (Known \ ToAsk)' = {}
    BY <2>1 DEF Known, ToAsk
  <2> QED
    BY <1>1, <2>2 DEF TrueSoFar
<1>6. CASE \/ \E n \in Nodes : Ask(n) \/ Announce(n)
           \/ Swallow \/ UNCHANGED nodeVars
  <2>1. UNCHANGED <<table, snapshot>> /\ (Checking' => Checking)
    BY <1>6 DEF Ask, Announce, Swallow, Proceed, Checking, check, nodeVars
  <2> QED
    BY <1>1, <1>3, <2>1 DEF TrueSoFar
<1>7. CASE \/ EndCheck \/ Browse \/ FailMark \/ Register \/ IgnoreService \/ FailRegister
           \/ FailList \/ Shutdown
  <2>1. ~Checking'
    BY <1>7 DEF EndCheck, Browse, FailMark, Register, IgnoreService, FailRegister, FailList,
                Shutdown, Proceed, Receiving, Checking
  <2> QED
    BY <1>1, <2>1 DEF TrueSoFar
<1>8. \A n \in Nodes : ~Depart(n) /\ \A e \in Addresses : ~Move(n, e)
  BY NobodyMoves DEF CheckInv
<1> QED
  BY <1>4, <1>5, <1>6, <1>7, <1>8 DEF NodesNext, Loop

(* Once the nodes stay where they are, one whole check makes the table's      *)
(* health true, and nothing unmakes it (registry.rs:56-75): with the fairness *)
(* that lets a check begin and end, health converges.                         *)
THEOREM HealthComesTrue == NodesSpec => ChecksComeTrue
<1> DEFINE Truth == where' = where =>
                      /\ TrueSoFar => TrueSoFar'
                      /\ TrueSoFar /\ EndCheck => AllRight'
                      /\ NothingOutdated /\ AllRight => NothingOutdated' /\ AllRight'
<1>1. ASSUME CheckInv, [NodesNext]_nodeVars PROVE Truth
  <2> SUFFICES ASSUME where' = where PROVE
                 /\ TrueSoFar => TrueSoFar'
                 /\ TrueSoFar /\ EndCheck => AllRight'
                 /\ NothingOutdated /\ AllRight => NothingOutdated' /\ AllRight'
    OBVIOUS
  <2>1. TrueSoFar => TrueSoFar'
    BY <1>1, ChecksGoOnTrue
  <2>2. NothingOutdated /\ AllRight => NothingOutdated' /\ AllRight'
    BY <1>1, NewsStayTrue, RightStaysRight DEF AllRight
  <2>3. ASSUME TrueSoFar, EndCheck PROVE AllRight'
    <3>1. Checking /\ ToAsk = {}
      BY <2>3 DEF EndCheck, Proceed, Checking
    <3>2. AllRight
      BY <2>3, <3>1 DEF TrueSoFar, AllRight, Right, Known
    <3> QED
      BY <2>2, <2>3, <3>2 DEF TrueSoFar
  <2> QED
    BY <2>1, <2>2, <2>3
<1> HIDE DEF Truth
<1>2. DiscoveryInv /\ [NodesNext]_nodeVars => [Truth]_nodeVars
  BY <1>1 DEF DiscoveryInv
<1>3. NodesSpec => [][Truth]_nodeVars
  BY <1>2, Invariance, PTL DEF NodesSpec
<1> QED
  BY <1>3, PTL DEF ChecksComeTrue, Truth
=============================================================================
