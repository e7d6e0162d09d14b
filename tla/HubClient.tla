----------------------------- MODULE HubClient -----------------------------
(***************************************************************************)
(* The WebSocket client of the agent hub (src/connection/client.rs): the   *)
(* loop that reconnects, and the loop of one connection, which selects     *)
(* between a message to send and a message to read.  Answers and           *)
(* heartbeats go through a bounded channel that only this loop empties.    *)
(*                                                                         *)
(* A client without a hub URL or a token sleeps for ever and is not        *)
(* modelled.  The connection state kept for display is read by nobody.     *)
(***************************************************************************)
EXTENDS Integers, SequencesExt

CONSTANTS
  Capacity,          \* places of the outgoing channel: 32
  ReconnectEnabled,  \* reconnect.enabled
  MaxAttempts,       \* reconnect.max_attempts, 0 for no limit
  InitialDelay, MaxDelay,  \* reconnect delays, in tenths of a second
  HubWindow,         \* requests the hub leaves unanswered at once
  Beats,             \* heartbeats that fall due before the loop gets to send
  MaxRequests,       \* bound: requests in a behaviour
  MaxLosses          \* bound: refused or broken connections in a behaviour

ASSUME HubClientAssumption ==
  /\ Capacity \in Nat \ {0}
  /\ ReconnectEnabled \in BOOLEAN
  /\ MaxAttempts \in Nat
  /\ InitialDelay \in Nat /\ MaxDelay \in Nat
  /\ HubWindow \in Nat \ {0} /\ Beats \in Nat
  /\ MaxRequests \in Nat /\ MaxLosses \in Nat

\* The powers of two that a backoff takes, of which the prover knows nothing.
ASSUME PowersAreNatural == \A k \in 0..30 : 2^k \in Nat

Requests == 1..MaxRequests
Beat     == 0       \* a heartbeat; an answer is the number of its request
Close    == -1
Notice   == -2      \* acknowledgements, errors, text that does not parse
NoMessage == -3

VARIABLES
  phase,     \* where the client stands
  link,      \* of the connection: "up", "closing" once the hub has closed it, "broken"
  incoming,  \* what the hub sent and the loop has not read
  outgoing,  \* the channel
  hand,      \* the request being answered or the message being written
  attempt,   \* reconnect_attempt
  delay,     \* of the last backoff
  sent,      \* requests sent in the behaviour
  received,  \* history: the requests read on this connection
  written,   \* history: the answers written on it
  losses,    \* history: failures in a row since a connection was established
  lost       \* how many connections were refused or broken

line    == <<link, incoming, sent>>
sending == <<outgoing, hand, received, written>>
retries == <<attempt, delay, losses>>
hubVars == <<phase, line, sending, retries, lost>>

InLoop == phase \in {"select", "handle", "send", "write"}

\* Seeded faults: the channel outlives its connection, or has a place less; an
\* answer that finds another message waiting is dropped.
KeptChannel  == outgoing
PlaceLess    == Len(outgoing) + 1 < Capacity
DroppedIfAnyWait == IF outgoing = << >> THEN <<hand>> ELSE outgoing

NewChannel   == << >>
PlaceLeft    == Len(outgoing) < Capacity
FreshAttempt == 0
TooMany(n)   == MaxAttempts > 0 /\ n >= MaxAttempts
Exponent(n)  == (IF n < 31 THEN n ELSE 31) - 1
Backoff(n)   == LET d == InitialDelay * 2^Exponent(n) IN
                IF d < MaxDelay THEN d ELSE MaxDelay
AnswerQueued == Append(outgoing, hand)
HowMany(s, S) == Cardinality({n \in 1..Len(s) : s[n] \in S})

HubInit ==
  /\ phase = "connect"
  /\ link = "broken" /\ incoming = << >> /\ sent = 0
  /\ outgoing = << >> /\ hand = NoMessage /\ received = << >> /\ written = << >>
  /\ attempt = 0 /\ delay = 0 /\ losses = 0
  /\ lost = 0

-----------------------------------------------------------------------------
(* run: the outer loop.                                                      *)
Connect ==
  /\ phase = "connect" /\ phase' = "auth"
  /\ UNCHANGED <<line, sending, retries, lost>>

\* The hub accepts the token: attempts start anew, with a channel and a
\* heartbeat of this connection.  The heartbeat of a connection that was lost
\* still has the sender of a channel nobody reads, so its next send ends it.
Authenticated ==
  /\ phase = "auth" /\ phase' = "select"
  /\ link' = "up" /\ incoming' = << >>
  /\ outgoing' = NewChannel
  /\ received' = << >> /\ written' = << >>
  /\ attempt' = FreshAttempt
  /\ losses' = 0
  /\ UNCHANGED <<sent, hand, delay, lost>>

\* connect_and_run returned an error: back off (with up to 10% of jitter), or
\* give up.
Retry ==
  /\ losses' = losses + 1
  /\ IF ReconnectEnabled
     THEN /\ attempt' = attempt + 1
          /\ IF TooMany(attempt')
             THEN phase' = "gave up" /\ UNCHANGED delay
             ELSE /\ phase' = "sleep"
                  /\ \E jitter \in {0, Backoff(attempt') \div 10} :
                       delay' = Backoff(attempt') + jitter
     ELSE phase' = "gave up" /\ UNCHANGED <<attempt, delay>>

\* No connection or no answer within 30 seconds, a refused token.
RefuseConnection ==
  /\ phase \in {"connect", "auth"}
  /\ lost < MaxLosses /\ lost' = lost + 1
  /\ Retry
  /\ UNCHANGED <<line, sending>>

Wake ==
  /\ phase = "sleep" /\ phase' = "connect"
  /\ UNCHANGED <<line, sending, retries, lost>>

-----------------------------------------------------------------------------
(* connect_and_run: the loop of one connection.                              *)
Unread == phase = "select" /\ incoming # << >>

\* handle_message: a query or a chat message is answered whatever comes of the
\* search; everything else is only logged.
ReadRequest ==
  /\ Unread /\ Head(incoming) \in Requests
  /\ phase' = "handle"
  /\ hand' = Head(incoming)
  /\ received' = Append(received, Head(incoming))
  /\ incoming' = Tail(incoming)
  /\ UNCHANGED <<link, sent, outgoing, written, retries, lost>>

ReadNotice ==
  /\ Unread /\ Head(incoming) = Notice
  /\ incoming' = Tail(incoming)
  /\ UNCHANGED <<phase, link, sent, sending, retries, lost>>

\* A close frame, or an error of the socket: connect_and_run returns Ok.
ReadEnd ==
  /\ \/ Unread /\ Head(incoming) = Close
     \/ phase = "select" /\ incoming = << >> /\ link = "broken"
  /\ phase' = "closed"
  /\ UNCHANGED <<line, sending, retries, lost>>

Search ==
  /\ phase = "handle" /\ phase' = "send"
  /\ UNCHANGED <<line, sending, retries, lost>>

\* tx.send(...).await waits for a place; the loop does not select meanwhile.
QueueAnswer ==
  /\ phase = "send" /\ PlaceLeft
  /\ phase' = "select"
  /\ outgoing' = AnswerQueued
  /\ hand' = NoMessage
  /\ UNCHANGED <<line, received, written, retries, lost>>

TakeOut ==
  /\ phase = "select" /\ outgoing # << >>
  /\ phase' = "write"
  /\ hand' = Head(outgoing)
  /\ outgoing' = Tail(outgoing)
  /\ UNCHANGED <<line, received, written, retries, lost>>

\* A socket that is broken may still take what is written to it.
Write ==
  /\ phase = "write" /\ phase' = "select"
  /\ written' = IF hand = Beat THEN written ELSE Append(written, hand)
  /\ hand' = NoMessage
  /\ UNCHANGED <<line, outgoing, received, retries, lost>>

WriteFails ==
  /\ phase = "write" /\ link = "broken"
  /\ hand' = NoMessage
  /\ Retry
  /\ UNCHANGED <<line, outgoing, received, written, lost>>

\* The heartbeat task.  No more than Beats heartbeats wait in the channel: the
\* time it takes the loop to answer a window of requests is bounded.
HeartBeat ==
  /\ InLoop /\ PlaceLeft
  /\ HowMany(outgoing, {Beat}) < Beats
  /\ outgoing' = Append(outgoing, Beat)
  /\ UNCHANGED <<phase, line, hand, received, written, retries, lost>>

-----------------------------------------------------------------------------
(* The hub and the network.                                                  *)
Unanswered == HowMany(incoming, Requests) + Len(received) - Len(written)

HubSends ==
  /\ InLoop /\ link = "up"
  /\ \/ /\ Unanswered < HubWindow
        /\ sent < MaxRequests /\ sent' = sent + 1
        /\ incoming' = Append(incoming, sent')
     \/ /\ Notice \notin Range(incoming)
        /\ incoming' = Append(incoming, Notice)
        /\ UNCHANGED sent
  /\ UNCHANGED <<phase, link, sending, retries, lost>>

HubCloses ==
  /\ InLoop /\ link = "up" /\ link' = "closing"
  /\ incoming' = Append(incoming, Close)
  /\ UNCHANGED <<phase, sent, sending, retries, lost>>

\* What was not read yet may be lost with the connection.
Break ==
  /\ InLoop /\ link # "broken" /\ link' = "broken"
  /\ lost < MaxLosses /\ lost' = lost + 1
  /\ incoming' \in {incoming, << >>}
  /\ UNCHANGED <<phase, sent, sending, retries>>

-----------------------------------------------------------------------------
Client == \/ Connect \/ Authenticated \/ Wake
          \/ ReadRequest \/ ReadNotice \/ ReadEnd
          \/ Search \/ QueueAnswer \/ TakeOut \/ Write \/ WriteFails
Network == RefuseConnection \/ HeartBeat \/ HubSends \/ HubCloses \/ Break

HubNext == Client \/ Network

HubSpec == HubInit /\ [][HubNext]_hubVars

(* The runtime polls the client whenever it can move, the hub reads what is  *)
(* written to it, and searches end.  select! starts with a branch picked at  *)
(* random, so a message that can be sent is not passed over for ever.        *)
HubFairSpec == HubSpec /\ WF_hubVars(Client) /\ SF_hubVars(TakeOut)

-----------------------------------------------------------------------------
(* The shape of every variable.                                              *)
HubTypeOK ==
  /\ phase \in {"connect", "auth", "select", "handle", "send", "write", "sleep",
                "closed", "gave up"}
  /\ link \in {"up", "closing", "broken"}
  /\ incoming \in Seq(Requests \cup {Notice, Close})
  /\ outgoing \in Seq(Requests \cup {Beat}) /\ Len(outgoing) <= Capacity
  /\ hand \in Requests \cup {Beat, NoMessage}
  /\ attempt \in 0..MaxLosses /\ losses \in 0..MaxLosses
  /\ delay \in 0..(MaxDelay + MaxDelay \div 10)
  /\ sent \in 0..MaxRequests /\ lost \in 0..MaxLosses
  /\ received \in Seq(Requests) /\ written \in Seq(Requests)

(* Answers go out in the order of the requests, each once, and only on the   *)
(* connection its request came from.                                         *)
AnswersMatchRequests == IsPrefix(written, received)

(* The client implements the stream of answers: what the hub can rely on.    *)
Stream == INSTANCE AnswerStream WITH
  Asks <- Requests, open <- InLoop, asked <- received, answered <- written

StreamSpec == Stream!Spec

(* With a hub that leaves at most HubWindow requests unanswered, and no more *)
(* than Capacity - HubWindow heartbeats due meanwhile, the loop never waits  *)
(* for room in the channel that it alone empties.                            *)
LoopNeverWaitsForItself == phase = "send" => PlaceLeft

(* The loop catches up again and again: whatever was read is answered, or    *)
(* the connection has ended.  Since no answer is taken back, every request   *)
(* that is read is answered unless its connection ends.                      *)
EveryRequestAnswered == []<>(InLoop => Range(received) \subseteq Range(written))

(* The client gives up only if it is not to reconnect, or after as many      *)
(* failures in a row as were allowed.                                        *)
GivesUpOnlyAfterMaxAttempts ==
  phase = "gave up" =>
    ~ReconnectEnabled \/ (MaxAttempts > 0 /\ losses >= MaxAttempts)

(* src/connection/mod.rs:3: "Maintains persistent connection with automatic  *)
(* reconnection."  A client that is to reconnect without limit never stops.  *)
ConnectionIsPersistent ==
  ReconnectEnabled /\ MaxAttempts = 0 => phase \notin {"closed", "gave up"}
=============================================================================
