--------------------------- MODULE HubClientProofs ---------------------------
(***************************************************************************)
(* Invariants of the hub connection for every size of the channel, every   *)
(* delay and limit, and any number of requests and losses.                 *)
(***************************************************************************)
EXTENDS HubClient, SequenceTheorems, FiniteSetTheorems, TLAPS

(* Failures in a row are no more than connections lost, and attempts are no   *)
(* more than failures; an established connection starts both anew.            *)
Retries ==
  /\ attempt <= losses /\ losses <= lost
  /\ InLoop => attempt = 0 /\ losses = 0
  /\ InLoop /\ link = "broken" => lost > 0

(* The client holds a message only while it answers or writes it.             *)
HandMatchesPhase ==
  /\ phase \in {"handle", "send"} => hand \in Requests
  /\ phase = "write" => hand \in Requests \cup {Beat}
  /\ phase \notin {"handle", "send", "write"} => hand = NoMessage

ClientInv == HubTypeOK /\ Retries /\ HandMatchesPhase /\ GivesUpOnlyAfterMaxAttempts
-----------------------------------------------------------------------------
(* The delay, with its jitter, is bounded by the cap and a tenth of it.       *)
LEMMA DelayBounded ==
  ASSUME NEW n \in Nat \ {0}, NEW jitter \in {0, Backoff(n) \div 10}
  PROVE  Backoff(n) + jitter \in 0..(MaxDelay + MaxDelay \div 10)
<1>1. Exponent(n) \in 0..30
  BY DEF Exponent
<1>2. InitialDelay * 2^Exponent(n) \in Nat
  <2>1. 2^Exponent(n) \in Nat
    BY <1>1, PowersAreNatural
  <2>2. QED
    BY <2>1, HubClientAssumption
<1>3. Backoff(n) \in 0..MaxDelay
  BY <1>2, HubClientAssumption DEF Backoff
<1>4. ASSUME NEW b \in Nat, NEW m \in Nat, b <= m
      PROVE  b \div 10 \in 0..(m \div 10)
  BY <1>4
<1>5. jitter \in 0..(MaxDelay \div 10)
  <2>1. MaxDelay \in Nat /\ MaxDelay \div 10 \in Nat
    BY HubClientAssumption
  <2>2. Backoff(n) \div 10 \in 0..(MaxDelay \div 10)
    BY <1>3, <1>4, <2>1
  <2>3. QED
    BY <2>1, <2>2
<1>6. QED
  BY <1>3, <1>5, HubClientAssumption

(* The counters are numbers.                                                  *)
LEMMA CountersAreNumbers ==
  ASSUME HubTypeOK
  PROVE  attempt \in Nat /\ losses \in Nat /\ lost \in Nat /\ sent \in Nat
<1>1. /\ attempt \in 0..MaxLosses /\ losses \in 0..MaxLosses
      /\ lost \in 0..MaxLosses /\ sent \in 0..MaxRequests
  BY DEF HubTypeOK
<1>2. QED
  BY <1>1, HubClientAssumption

(* What a failed connection leaves behind.                                    *)
LEMMA RetryStep ==
  ASSUME HubTypeOK, Retries, Retry, UNCHANGED <<link, incoming, outgoing, sent, received, written>>,
         hand' = NoMessage,
         lost' \in 0..MaxLosses, losses + 1 <= lost'
  PROVE  HubTypeOK' /\ Retries' /\ HandMatchesPhase' /\ GivesUpOnlyAfterMaxAttempts'
<1>1. attempt' \in 0..MaxLosses /\ losses' \in 0..MaxLosses /\ attempt' <= losses' /\ losses' <= lost'
  <2>1. losses' = losses + 1 /\ (attempt' = attempt + 1 \/ attempt' = attempt)
    BY Zenon DEF Retry
  <2>2. attempt \in Nat /\ losses \in Nat /\ attempt <= losses
    BY CountersAreNumbers DEF Retries
  <2>3. QED
    BY <2>1, <2>2, HubClientAssumption
<1>2. phase' \in {"sleep", "gave up"}
  BY DEF Retry
<1>3. delay' \in 0..(MaxDelay + MaxDelay \div 10)
  <2>1. CASE ReconnectEnabled /\ ~TooMany(attempt')
    <3>1. attempt' = attempt + 1
      BY <2>1 DEF Retry
    <3>2. attempt' \in Nat \ {0}
      BY <3>1, CountersAreNumbers
    <3>3. PICK jitter \in {0, Backoff(attempt') \div 10} : delay' = Backoff(attempt') + jitter
      BY <2>1 DEF Retry
    <3>4. QED
      BY <3>2, <3>3, DelayBounded
  <2>2. CASE ~(ReconnectEnabled /\ ~TooMany(attempt'))
    BY <2>2 DEF Retry, HubTypeOK
  <2>3. QED
    BY <2>1, <2>2
<1>4. HubTypeOK'
  BY <1>1, <1>2, <1>3, HubClientAssumption DEF HubTypeOK
<1>5. Retries' /\ HandMatchesPhase'
  BY <1>1, <1>2 DEF Retries, HandMatchesPhase, InLoop
<1>6. GivesUpOnlyAfterMaxAttempts'
  <2>1. phase' = "gave up" => ~ReconnectEnabled \/ (MaxAttempts > 0 /\ attempt' >= MaxAttempts)
    BY DEF Retry, TooMany
  <2>2. losses' \in Nat /\ attempt' \in Nat /\ attempt' <= losses'
    BY <1>1, HubClientAssumption
  <2>3. attempt' >= MaxAttempts => losses' >= MaxAttempts
    BY <2>2, HubClientAssumption
  <2>4. QED
    BY <2>1, <2>2, <2>3 DEF GivesUpOnlyAfterMaxAttempts
<1>7. QED
  BY <1>4, <1>5, <1>6

(* Every step of the loops, the hub and the network keeps the invariant.      *)
LEMMA ClientStep ==
  ASSUME ClientInv, [HubNext]_hubVars
  PROVE  ClientInv'
<1> DEFINE Counts == /\ attempt \in 0..MaxLosses /\ losses \in 0..MaxLosses
                     /\ lost \in 0..MaxLosses /\ sent \in 0..MaxRequests
<1> USE DEF ClientInv
<1>t. Counts
  BY DEF HubTypeOK
<1>1. CASE Connect
  BY <1>1 DEF Connect, HubTypeOK, Retries, HandMatchesPhase, GivesUpOnlyAfterMaxAttempts, InLoop,
       line, sending, retries
<1>2. CASE Authenticated
  <2>1. HubTypeOK'
    BY <1>2, HubClientAssumption
       DEF Authenticated, HubTypeOK, FreshAttempt, NewChannel, HandMatchesPhase
  <2>2. Retries'
    BY <1>2, CountersAreNumbers DEF Authenticated, Retries, InLoop, FreshAttempt
  <2>3. HandMatchesPhase' /\ GivesUpOnlyAfterMaxAttempts'
    BY <1>2 DEF Authenticated, HandMatchesPhase, GivesUpOnlyAfterMaxAttempts
  <2>4. QED
    BY <2>1, <2>2, <2>3
<1>3. CASE Wake
  BY <1>3 DEF Wake, HubTypeOK, Retries, HandMatchesPhase, GivesUpOnlyAfterMaxAttempts, InLoop,
       line, sending, retries
<1>4. CASE RefuseConnection
  <2>1. lost' \in 0..MaxLosses /\ losses + 1 <= lost'
    BY <1>4, <1>t, CountersAreNumbers, HubClientAssumption DEF RefuseConnection, Retries
  <2>2. UNCHANGED <<link, incoming, outgoing, sent, received, written>> /\ hand' = NoMessage
    BY <1>4 DEF RefuseConnection, line, sending, HandMatchesPhase
  <2>3. QED
    BY <1>4, <2>1, <2>2, RetryStep DEF RefuseConnection
<1>5. CASE ReadRequest
  <2>1. /\ hand' \in Requests /\ received' \in Seq(Requests)
        /\ incoming' \in Seq(Requests \cup {Notice, Close})
    <3>1. Head(incoming) \in Requests /\ incoming # << >>
      BY <1>5 DEF ReadRequest, Unread
    <3>2. QED
      BY <1>5, <3>1, AppendProperties, HeadTailProperties DEF ReadRequest, HubTypeOK
  <2>2. QED
    BY <1>5, <2>1 DEF ReadRequest, Unread, HubTypeOK, Retries, HandMatchesPhase,
         GivesUpOnlyAfterMaxAttempts, InLoop, retries
<1>6. CASE ReadNotice
  <2>1. incoming' \in Seq(Requests \cup {Notice, Close})
    BY <1>6, HeadTailProperties DEF ReadNotice, Unread, HubTypeOK
  <2>2. QED
    BY <1>6, <2>1 DEF ReadNotice, HubTypeOK, Retries, HandMatchesPhase,
         GivesUpOnlyAfterMaxAttempts, InLoop, sending, retries
<1>7. CASE ReadEnd
  BY <1>7 DEF ReadEnd, Unread, HubTypeOK, Retries, HandMatchesPhase, GivesUpOnlyAfterMaxAttempts,
       InLoop, line, sending, retries
<1>8. CASE Search
  BY <1>8 DEF Search, HubTypeOK, Retries, HandMatchesPhase, GivesUpOnlyAfterMaxAttempts,
       InLoop, line, sending, retries
<1>9. CASE QueueAnswer
  <2>1. hand \in Requests
    BY <1>9 DEF QueueAnswer, HandMatchesPhase
  <2>2. outgoing' \in Seq(Requests \cup {Beat}) /\ Len(outgoing') <= Capacity
    BY <1>9, <2>1, AppendProperties, HubClientAssumption
       DEF QueueAnswer, AnswerQueued, PlaceLeft, HubTypeOK
  <2>3. QED
    BY <1>9, <2>2 DEF QueueAnswer, HubTypeOK, Retries, HandMatchesPhase,
         GivesUpOnlyAfterMaxAttempts, InLoop, line, retries
<1>10. CASE TakeOut
  <2>1. /\ hand' \in Requests \cup {Beat}
        /\ outgoing' \in Seq(Requests \cup {Beat}) /\ Len(outgoing') <= Capacity
    BY <1>10, HeadTailProperties, LenProperties, HubClientAssumption DEF TakeOut, HubTypeOK
  <2>2. QED
    BY <1>10, <2>1 DEF TakeOut, HubTypeOK, Retries, HandMatchesPhase,
         GivesUpOnlyAfterMaxAttempts, InLoop, line, retries
<1>11. CASE Write
  <2>1. hand \in Requests \cup {Beat}
    BY <1>11 DEF Write, HandMatchesPhase
  <2>2. written' \in Seq(Requests)
    BY <1>11, <2>1, AppendProperties DEF Write, HubTypeOK
  <2>3. QED
    BY <1>11, <2>2 DEF Write, HubTypeOK, Retries, HandMatchesPhase,
         GivesUpOnlyAfterMaxAttempts, InLoop, line, retries
<1>12. CASE WriteFails
  <2>1. lost' \in 0..MaxLosses /\ losses + 1 <= lost'
    BY <1>12, <1>t, CountersAreNumbers DEF WriteFails, Retries, InLoop
  <2>2. UNCHANGED <<link, incoming, outgoing, sent, received, written>> /\ hand' = NoMessage
    BY <1>12 DEF WriteFails, line
  <2>3. QED
    BY <1>12, <2>1, <2>2, RetryStep DEF WriteFails
<1>13. CASE HeartBeat
  <2>1. outgoing' \in Seq(Requests \cup {Beat}) /\ Len(outgoing') <= Capacity
    <3>1. PlaceLeft /\ outgoing' = Append(outgoing, Beat)
      BY <1>13, Zenon DEF HeartBeat
    <3>2. QED
      <4>1. outgoing \in Seq(Requests \cup {Beat})
        BY DEF HubTypeOK
      <4>2. QED
        BY <3>1, <4>1, AppendProperties, LenProperties, HubClientAssumption DEF PlaceLeft
  <2>2. QED
    BY <1>13, <2>1 DEF HeartBeat, HubTypeOK, Retries, HandMatchesPhase,
         GivesUpOnlyAfterMaxAttempts, InLoop, line, retries
<1>14. CASE HubSends
  <2>1. sent' \in 0..MaxRequests /\ incoming' \in Seq(Requests \cup {Notice, Close})
    <3>1. CASE sent < MaxRequests /\ sent' = sent + 1 /\ incoming' = Append(incoming, sent')
      <4>1. sent' \in Requests /\ sent' \in 0..MaxRequests
        BY <3>1, <1>t, HubClientAssumption DEF Requests
      <4>2. QED
        BY <3>1, <4>1, AppendProperties DEF HubTypeOK
    <3>2. CASE incoming' = Append(incoming, Notice) /\ UNCHANGED sent
      BY <3>2, <1>t, AppendProperties DEF HubTypeOK
    <3>3. QED
      BY <1>14, <3>1, <3>2 DEF HubSends
  <2>2. UNCHANGED <<phase, link, sending, retries, lost>>
    BY <1>14 DEF HubSends
  <2>3. QED
    BY <2>1, <2>2 DEF HubTypeOK, Retries, HandMatchesPhase,
         GivesUpOnlyAfterMaxAttempts, InLoop, sending, retries
<1>15. CASE HubCloses
  <2>1. incoming' \in Seq(Requests \cup {Notice, Close})
    BY <1>15, AppendProperties DEF HubCloses, HubTypeOK
  <2>2. QED
    BY <1>15, <2>1 DEF HubCloses, HubTypeOK, Retries, HandMatchesPhase,
         GivesUpOnlyAfterMaxAttempts, InLoop, sending, retries
<1>16. CASE Break
  <2>1. lost' = lost + 1 /\ lost' \in 0..MaxLosses /\ lost' > 0
    <3>1. lost < MaxLosses /\ lost' = lost + 1
      BY <1>16 DEF Break
    <3>2. QED
      BY <3>1, CountersAreNumbers, HubClientAssumption
  <2>2. incoming' \in Seq(Requests \cup {Notice, Close})
    <3>1. incoming' = incoming \/ incoming' = << >>
      BY <1>16 DEF Break
    <3>2. QED
      BY <3>1, EmptySeq DEF HubTypeOK
  <2>3. HubTypeOK'
    <3>1. link' = "broken" /\ UNCHANGED <<phase, sent, sending, retries>>
      BY <1>16 DEF Break
    <3>2. QED
      BY <2>1, <2>2, <3>1 DEF HubTypeOK, sending, retries
  <2>4. Retries'
    BY <1>16, <2>1, CountersAreNumbers DEF Break, Retries, InLoop, retries
  <2>5. QED
    BY <1>16, <2>3, <2>4 DEF Break, HandMatchesPhase, GivesUpOnlyAfterMaxAttempts, sending, retries
<1>17. CASE UNCHANGED hubVars
  BY <1>17 DEF hubVars, HubTypeOK, Retries, HandMatchesPhase, GivesUpOnlyAfterMaxAttempts, InLoop,
       line, sending, retries
<1>18. QED
  BY <1>1, <1>2, <1>3, <1>4, <1>5, <1>6, <1>7, <1>8, <1>9, <1>10, <1>11, <1>12, <1>13, <1>14,
     <1>15, <1>16, <1>17 DEF HubNext, Client, Network
-----------------------------------------------------------------------------
(* Requests arrive in the order of their numbers, which all that is on its    *)
(* way through the client keeps.                                              *)
Ascending(s) ==
  \A i, j \in 1..Len(s) : i < j /\ s[i] \in Requests /\ s[j] \in Requests => s[i] < s[j]

InOrder ==
  /\ Ascending(incoming) /\ Ascending(outgoing) /\ Ascending(received)
  /\ \A k \in 1..Len(received) : received[k] <= sent
  /\ \A i \in 1..Len(incoming) : incoming[i] \in Requests =>
       incoming[i] <= sent /\ \A k \in 1..Len(received) : received[k] < incoming[i]
  /\ phase \in {"handle", "send"} =>
       \A i \in 1..Len(outgoing) : outgoing[i] \in Requests => outgoing[i] < hand
  /\ phase = "write" /\ hand \in Requests =>
       \A i \in 1..Len(outgoing) : outgoing[i] \in Requests => hand < outgoing[i]

(* r was read and its answer is not written yet.                              *)
Owed(r) == \E k \in 1..Len(received) : Len(written) < k /\ received[k] = r
OwedThen(r) == \E k \in 1..Len(received') : Len(written') < k /\ received'[k] = r

(* What is in the channel or in hand is owed, and nothing else is.            *)
NothingElseOwed ==
  /\ \A i \in 1..Len(outgoing) : outgoing[i] \in Requests => Owed(outgoing[i])
  /\ hand \in Requests => Owed(hand)
  /\ \A k \in 1..Len(received) : Len(written) < k =>
       received[k] = hand \/ \E i \in 1..Len(outgoing) : outgoing[i] = received[k]

WrittenInOrder ==
  /\ Len(written) <= Len(received)
  /\ \A k \in 1..Len(written) : written[k] = received[k]

AnswerInv == ClientInv /\ WrittenInOrder /\ (InLoop => InOrder /\ NothingElseOwed)

LEMMA PrefixIsWrittenInOrder ==
  ASSUME HubTypeOK, WrittenInOrder
  PROVE  AnswersMatchRequests
<1>1. written \in Seq(Requests) /\ received \in Seq(Requests)
  BY DEF HubTypeOK
<1>2. Len(written) \in Nat /\ Len(received) \in Nat
  BY <1>1, LenProperties
<1> DEFINE p == SubSeq(received, 1, Len(written))
<1>3. /\ \A i \in 1..Len(written) : received[i] \in Requests
      /\ \A i \in 1..Len(written) : written[i] \in Requests
  BY <1>1, <1>2, ElementOfSeq DEF WrittenInOrder
<1>4. /\ p \in Seq(Requests) /\ Len(p) = Len(written)
      /\ \A i \in 1..Len(written) : p[i] = received[i]
  BY <1>2, <1>3, SubSeqProperties
<1>5. p = written
  BY <1>1, <1>2, <1>4, SeqEqual DEF WrittenInOrder
<1>6. SubSeq(written, 1, Len(written)) = written
  BY <1>1, SubSeqFull
<1>7. QED
  BY <1>5, <1>6 DEF AnswersMatchRequests, IsPrefix, WrittenInOrder

-----------------------------------------------------------------------------
LEMMA InitEstablishes == HubInit => AnswerInv
<1> SUFFICES ASSUME HubInit PROVE AnswerInv
  OBVIOUS
<1> USE HubClientAssumption DEF HubInit
<1>1. HubTypeOK
  BY EmptySeq DEF HubTypeOK
<1>2. Retries /\ HandMatchesPhase /\ GivesUpOnlyAfterMaxAttempts
  BY DEF Retries, HandMatchesPhase, GivesUpOnlyAfterMaxAttempts, InLoop
<1>3. WrittenInOrder /\ ~InLoop
  BY EmptySeq DEF WrittenInOrder, InLoop
<1>4. QED
  BY <1>1, <1>2, <1>3 DEF AnswerInv, ClientInv
-----------------------------------------------------------------------------
(* Everything a channel or a socket holds is a number.                        *)
Messages == Requests \cup {Beat, Notice, Close}

LEMMA MessagesAreNumbers ==
  /\ Messages \subseteq Int /\ Requests \subseteq Messages
  /\ Beat \notin Requests /\ Notice \notin Requests /\ Close \notin Requests
  /\ NoMessage \notin Requests
  /\ \A r \in Requests : r \in Int
  BY HubClientAssumption DEF Messages, Requests, Beat, Notice, Close, NoMessage

LEMMA SequencesOfMessages ==
  ASSUME HubTypeOK
  PROVE  /\ incoming \in Seq(Messages) /\ outgoing \in Seq(Messages)
         /\ received \in Seq(Requests) /\ written \in Seq(Requests)
         /\ received \in Seq(Messages)
  BY SeqMonotonic DEF HubTypeOK, Messages

LEMMA TailAscends ==
  ASSUME NEW s \in Seq(Messages), s # << >>, Ascending(s)
  PROVE  Ascending(Tail(s))
  BY HeadTailProperties, LenProperties DEF Ascending

LEMMA AppendAscends ==
  ASSUME NEW s \in Seq(Messages), Ascending(s), NEW x \in Messages,
         x \in Requests => \A i \in 1..Len(s) : s[i] \in Requests => s[i] < x
  PROVE  Ascending(Append(s, x))
<1>1. Len(s) \in Nat /\ Len(Append(s, x)) = Len(s) + 1
  BY LenProperties, AppendProperties
<1>2. Append(s, x)[Len(s) + 1] = x /\ \A i \in 1..Len(s) : Append(s, x)[i] = s[i]
  BY AppendProperties
<1>3. SUFFICES ASSUME NEW i \in 1..(Len(s) + 1), NEW j \in 1..(Len(s) + 1), i < j,
                      Append(s, x)[i] \in Requests, Append(s, x)[j] \in Requests
               PROVE  Append(s, x)[i] < Append(s, x)[j]
  BY <1>1 DEF Ascending
<1>4. i \in 1..Len(s)
  BY <1>1, <1>3
<1>5. CASE j = Len(s) + 1
  BY <1>2, <1>3, <1>4, <1>5
<1>6. CASE j \in 1..Len(s)
  BY <1>2, <1>3, <1>4, <1>6 DEF Ascending
<1>7. QED
  BY <1>1, <1>5, <1>6

(* A new last message: what is at each place of the sequence.                 *)
LEMMA AppendPlaces ==
  ASSUME NEW S, NEW s \in Seq(S), NEW x \in S
  PROVE  /\ 1..Len(Append(s, x)) = 1..Len(s) \cup {Len(s) + 1}
         /\ \A i \in 1..Len(s) : Append(s, x)[i] = s[i]
         /\ Append(s, x)[Len(s) + 1] = x
  BY AppendProperties, LenProperties

-----------------------------------------------------------------------------
(* One lemma per step that touches messages.                                  *)
LEMMA ReadRequestStep ==
  ASSUME AnswerInv, ReadRequest
  PROVE  WrittenInOrder' /\ InOrder' /\ NothingElseOwed'
<1> DEFINE h == Head(incoming)
<1>1. /\ phase = "select" /\ h \in Requests /\ incoming # << >>
      /\ phase' = "handle" /\ hand' = h
      /\ received' = Append(received, h) /\ incoming' = Tail(incoming)
      /\ UNCHANGED <<outgoing, written, sent>>
  BY DEF ReadRequest, Unread
<1>2. InLoop /\ InOrder /\ NothingElseOwed /\ WrittenInOrder /\ hand = NoMessage /\ HubTypeOK
  BY <1>1 DEF InLoop, AnswerInv, ClientInv, HandMatchesPhase
<1>3. /\ incoming \in Seq(Messages) /\ outgoing \in Seq(Messages)
      /\ received \in Seq(Requests) /\ received \in Seq(Messages) /\ written \in Seq(Requests)
  BY <1>2, SequencesOfMessages
<1>4. Len(incoming) \in Nat \ {0} /\ incoming[1] = h
  BY <1>1, <1>3, EmptySeq
<1>5. Len(received) \in Nat /\ Len(written) \in Nat
  BY <1>3, LenProperties
<1>6. /\ Len(incoming') = Len(incoming) - 1
      /\ \A n \in 1..Len(incoming') : incoming'[n] = incoming[n + 1]
  BY <1>1, <1>3, HeadTailProperties
<1>7. /\ 1..Len(received') = 1..Len(received) \cup {Len(received) + 1}
      /\ \A k \in 1..Len(received) : received'[k] = received[k] /\ received[k] \in Requests
      /\ received'[Len(received) + 1] = h /\ Len(received') = Len(received) + 1
  BY <1>1, <1>3, AppendPlaces, AppendProperties, ElementOfSeq
<1>8. h <= sent /\ \A k \in 1..Len(received) : received[k] < h
  BY <1>1, <1>2, <1>4 DEF InOrder
<1>9. InOrder'
  <2>1. Ascending(incoming)' /\ Ascending(outgoing)' /\ Ascending(received)'
    <3>1. Ascending(Tail(incoming)) /\ Ascending(outgoing)
      BY <1>1, <1>2, <1>3, TailAscends DEF InOrder
    <3>2. Ascending(Append(received, h))
      BY <1>1, <1>2, <1>3, <1>8, AppendAscends, MessagesAreNumbers DEF InOrder
    <3>3. QED
      BY <1>1, <3>1, <3>2 DEF Ascending
  <2>2. \A k \in 1..Len(received') : received'[k] <= sent'
    BY <1>1, <1>2, <1>7, <1>8 DEF InOrder
  <2>3. ASSUME NEW n \in 1..Len(incoming'), incoming'[n] \in Requests
        PROVE  incoming'[n] <= sent' /\ \A k \in 1..Len(received') : received'[k] < incoming'[n]
    <3>1. n + 1 \in 1..Len(incoming) /\ incoming'[n] = incoming[n + 1]
      BY <2>3, <1>4, <1>6
    <3>2. h < incoming[n + 1]
      BY <1>1, <1>2, <1>4, <2>3, <3>1 DEF InOrder, Ascending
    <3>3. QED
      BY <1>1, <1>2, <1>7, <2>3, <3>1, <3>2 DEF InOrder
  <2>4. \A n \in 1..Len(outgoing) : outgoing[n] \in Requests => outgoing[n] < h
    BY <1>2, <1>8 DEF NothingElseOwed, Owed, OwedThen
  <2>5. QED
    BY <1>1, <2>1, <2>2, <2>3, <2>4 DEF InOrder
<1>10. WrittenInOrder'
  BY <1>1, <1>2, <1>5, <1>7 DEF WrittenInOrder
<1>11. NothingElseOwed'
  <2>1. \A r : Owed(r) => OwedThen(r)
    BY <1>1, <1>7 DEF Owed, OwedThen
  <2>2. OwedThen(h)
    BY <1>1, <1>2, <1>5, <1>7 DEF OwedThen, WrittenInOrder
  <2>3. ASSUME NEW k \in 1..Len(received'), Len(written') < k
        PROVE  received'[k] = hand' \/ \E n \in 1..Len(outgoing') : outgoing'[n] = received'[k]
    <3>1. CASE k = Len(received) + 1
      BY <1>1, <1>7, <3>1
    <3>2. CASE k \in 1..Len(received)
      BY <1>1, <1>2, <1>7, <2>3, <3>2, MessagesAreNumbers DEF NothingElseOwed
    <3>3. QED
      BY <1>7, <3>1, <3>2
  <2>4. \A n \in 1..Len(outgoing') : outgoing'[n] \in Requests => OwedThen(outgoing'[n])
    BY <1>1, <1>2, <2>1 DEF NothingElseOwed
  <2>5. hand' \in Requests => OwedThen(hand')
    BY <1>1, <2>2
  <2>6. QED
    BY <2>3, <2>4, <2>5 DEF NothingElseOwed, Owed, OwedThen
<1>12. QED
  BY <1>9, <1>10, <1>11

LEMMA QueueAnswerStep ==
  ASSUME AnswerInv, QueueAnswer
  PROVE  WrittenInOrder' /\ InOrder' /\ NothingElseOwed'
<1>1. /\ phase = "send" /\ phase' = "select"
      /\ outgoing' = Append(outgoing, hand) /\ hand' = NoMessage
      /\ UNCHANGED <<incoming, received, written, sent>>
  BY DEF QueueAnswer, AnswerQueued, line
<1>2. InLoop /\ InOrder /\ NothingElseOwed /\ WrittenInOrder /\ hand \in Requests /\ HubTypeOK
  BY <1>1 DEF InLoop, AnswerInv, ClientInv, HandMatchesPhase
<1>3. outgoing \in Seq(Messages) /\ hand \in Messages
  BY <1>2, SequencesOfMessages, MessagesAreNumbers
<1>4. /\ 1..Len(outgoing') = 1..Len(outgoing) \cup {Len(outgoing) + 1}
      /\ \A n \in 1..Len(outgoing) : outgoing'[n] = outgoing[n]
      /\ outgoing'[Len(outgoing) + 1] = hand
  BY <1>1, <1>3, AppendPlaces
<1>5. \A n \in 1..Len(outgoing) : outgoing[n] \in Requests => outgoing[n] < hand
  BY <1>1, <1>2 DEF InOrder
<1>6. Ascending(outgoing)'
  <2>1. Ascending(Append(outgoing, hand))
    BY <1>2, <1>3, <1>5, AppendAscends DEF InOrder
  <2>2. QED
    BY <1>1, <2>1 DEF Ascending
<1>7. InOrder'
  BY <1>1, <1>2, <1>6 DEF InOrder, Ascending
<1>8. WrittenInOrder'
  BY <1>1, <1>2 DEF WrittenInOrder
<1>9. NothingElseOwed'
  <2>1. \A r : Owed(r) => OwedThen(r)
    BY <1>1 DEF Owed, OwedThen
  <2>2. \A n \in 1..Len(outgoing') : outgoing'[n] \in Requests => OwedThen(outgoing'[n])
    BY <1>2, <1>4, <2>1 DEF NothingElseOwed
  <2>3. ASSUME NEW k \in 1..Len(received), Len(written) < k
        PROVE  \E n \in 1..Len(outgoing') : outgoing'[n] = received[k]
    BY <1>2, <1>4, <2>3 DEF NothingElseOwed
  <2>4. QED
    BY <1>1, <2>2, <2>3, MessagesAreNumbers DEF NothingElseOwed, Owed, OwedThen
<1>10. QED
  BY <1>7, <1>8, <1>9

LEMMA TakeOutStep ==
  ASSUME AnswerInv, TakeOut
  PROVE  WrittenInOrder' /\ InOrder' /\ NothingElseOwed'
<1>1. /\ phase = "select" /\ phase' = "write" /\ outgoing # << >>
      /\ hand' = Head(outgoing) /\ outgoing' = Tail(outgoing)
      /\ UNCHANGED <<incoming, received, written, sent>>
  BY DEF TakeOut, line
<1>2. InLoop /\ InOrder /\ NothingElseOwed /\ WrittenInOrder /\ hand = NoMessage /\ HubTypeOK
  BY <1>1 DEF InLoop, AnswerInv, ClientInv, HandMatchesPhase
<1>3. outgoing \in Seq(Messages) /\ received \in Seq(Requests)
  BY <1>2, SequencesOfMessages
<1>4. Len(outgoing) \in Nat \ {0} /\ outgoing[1] = hand'
  BY <1>1, <1>3, EmptySeq
<1>5. /\ Len(outgoing') = Len(outgoing) - 1
      /\ \A n \in 1..Len(outgoing') : outgoing'[n] = outgoing[n + 1]
  BY <1>1, <1>3, HeadTailProperties
<1>6. \A n \in 1..Len(outgoing') : n + 1 \in 1..Len(outgoing) /\ 1 < n + 1
  BY <1>4, <1>5
<1>7. InOrder'
  <2>1. Ascending(outgoing)'
    <3>1. Ascending(Tail(outgoing))
      BY <1>1, <1>2, <1>3, TailAscends DEF InOrder
    <3>2. QED
      BY <1>1, <3>1 DEF Ascending
  <2>2. hand' \in Requests =>
          \A n \in 1..Len(outgoing') : outgoing'[n] \in Requests => hand' < outgoing'[n]
    BY <1>2, <1>4, <1>5, <1>6 DEF InOrder, Ascending
  <2>3. QED
    BY <1>1, <1>2, <2>1, <2>2 DEF InOrder, Ascending
<1>8. WrittenInOrder'
  BY <1>1, <1>2 DEF WrittenInOrder
<1>9. NothingElseOwed'
  <2>1. \A r : Owed(r) => OwedThen(r)
    BY <1>1 DEF Owed, OwedThen
  <2>2. \A n \in 1..Len(outgoing') : outgoing'[n] \in Requests => OwedThen(outgoing'[n])
    BY <1>2, <1>5, <1>6, <2>1 DEF NothingElseOwed
  <2>3. hand' \in Requests => OwedThen(hand')
    BY <1>2, <1>4, <2>1 DEF NothingElseOwed
  <2>4. ASSUME NEW k \in 1..Len(received), Len(written) < k
        PROVE  received[k] = hand' \/ \E n \in 1..Len(outgoing') : outgoing'[n] = received[k]
    <3>1. received[k] \in Requests
      BY <1>3, ElementOfSeq
    <3>2. PICK n \in 1..Len(outgoing) : outgoing[n] = received[k]
      BY <1>2, <2>4, <3>1, MessagesAreNumbers DEF NothingElseOwed
    <3>3. CASE n = 1
      BY <1>4, <3>2, <3>3
    <3>4. CASE n # 1
      <4>1. n - 1 \in 1..Len(outgoing') /\ outgoing'[n - 1] = outgoing[n]
        BY <1>4, <1>5, <3>4
      <4>2. QED
        BY <3>2, <4>1
    <3>5. QED
      BY <3>3, <3>4
  <2>5. QED
    BY <1>1, <2>2, <2>3, <2>4 DEF NothingElseOwed, Owed, OwedThen
<1>10. QED
  BY <1>7, <1>8, <1>9

(* The answer in hand is the next one to be written.                          *)
LEMMA WriteStep ==
  ASSUME AnswerInv, Write
  PROVE  WrittenInOrder' /\ InOrder' /\ NothingElseOwed'
<1>1. /\ phase = "write" /\ phase' = "select" /\ hand' = NoMessage
      /\ UNCHANGED <<incoming, outgoing, received, sent>>
  BY DEF Write, line
<1>2. InLoop /\ InOrder /\ NothingElseOwed /\ WrittenInOrder /\ HubTypeOK
      /\ hand \in Requests \cup {Beat}
  BY <1>1 DEF InLoop, AnswerInv, ClientInv, HandMatchesPhase
<1>3. received \in Seq(Requests) /\ written \in Seq(Requests)
  BY <1>2, SequencesOfMessages
<1>4. Len(received) \in Nat /\ Len(written) \in Nat
  BY <1>3, LenProperties
<1>5. InOrder'
  BY <1>1, <1>2 DEF InOrder, Ascending
<1>6. CASE hand = Beat
  <2>1. written' = written
    BY <1>6 DEF Write
  <2>2. \A k \in 1..Len(received) : received[k] # Beat
    BY <1>3, ElementOfSeq, MessagesAreNumbers
  <2>3. \A r : Owed(r) => OwedThen(r)
    BY <1>1, <2>1 DEF Owed, OwedThen
  <2>4. NothingElseOwed'
    BY <1>1, <1>2, <1>6, <2>1, <2>2, <2>3, MessagesAreNumbers DEF NothingElseOwed, Owed, OwedThen
  <2>5. QED
    BY <1>1, <1>2, <1>5, <2>1, <2>4 DEF WrittenInOrder
<1>7. CASE hand \in Requests
  <2> DEFINE next == Len(written) + 1
  <2>1. written' = Append(written, hand)
    BY <1>7, MessagesAreNumbers DEF Write
  <2>2. /\ Len(written') = next /\ written'[next] = hand
        /\ \A k \in 1..Len(written) : written'[k] = written[k]
    BY <1>3, <1>7, <2>1, AppendProperties
  <2>3. PICK p \in 1..Len(received) : Len(written) < p /\ received[p] = hand
    BY <1>2, <1>7 DEF NothingElseOwed, Owed, OwedThen
  <2>4. next \in 1..Len(received) /\ next <= p
    BY <1>4, <2>3
  <2>5. received[next] \in Requests
    BY <1>3, <2>4, ElementOfSeq
  <2>a. hand \in Int
    BY <1>7, MessagesAreNumbers
  <2>b. received[next] \in Int
    BY <2>5, MessagesAreNumbers
  <2>6. \A n \in 1..Len(outgoing) : outgoing[n] \in Requests => hand < outgoing[n]
    BY <1>1, <1>2, <1>7 DEF InOrder
  <2>7. received[next] <= hand
    <3>1. CASE next = p
      BY <2>3, <2>a, <3>1
    <3>2. CASE next < p
      <4>1. received[next] < received[p]
        BY <1>2, <1>7, <2>3, <2>4, <2>5, <3>2 DEF InOrder, Ascending
      <4>2. QED
        BY <2>3, <2>a, <2>b, <4>1
    <3>3. QED
      BY <1>4, <2>3, <2>4, <3>1, <3>2
  <2>8. received[next] = hand
    <3>1. received[next] = hand \/ \E n \in 1..Len(outgoing) : outgoing[n] = received[next]
      BY <1>2, <1>4, <2>4 DEF NothingElseOwed
    <3>2. QED
      BY <2>5, <2>6, <2>7, <2>a, <2>b, <3>1
  <2>9. WrittenInOrder'
    <3>1. ASSUME NEW k \in 1..Len(written') PROVE written'[k] = received'[k]
      BY <1>1, <1>2, <1>4, <2>2, <2>8, <3>1 DEF WrittenInOrder
    <3>2. QED
      BY <1>1, <1>4, <2>2, <2>4, <3>1 DEF WrittenInOrder
  <2>10. ASSUME NEW r, Owed(r), r # hand
         PROVE  OwedThen(r)
    BY <1>1, <1>4, <2>2, <2>8, <2>10 DEF Owed, OwedThen
  <2>11. \A n \in 1..Len(outgoing) : outgoing[n] \in Requests => OwedThen(outgoing[n])
    <3>1. SUFFICES ASSUME NEW n \in 1..Len(outgoing), outgoing[n] \in Requests
                   PROVE  OwedThen(outgoing[n])
      OBVIOUS
    <3>2. outgoing[n] # hand
      BY <1>7, <2>6, <3>1, MessagesAreNumbers
    <3>3. Owed(outgoing[n])
      BY <1>2, <3>1 DEF NothingElseOwed
    <3>4. QED
      BY <1>1, <2>10, <3>2, <3>3
  <2>12. ASSUME NEW k \in 1..Len(received), next < k
         PROVE  \E n \in 1..Len(outgoing) : outgoing[n] = received[k]
    <3>1. received[k] \in Requests
      BY <1>3, ElementOfSeq
    <3>2. received[next] < received[k]
      BY <1>2, <2>4, <2>5, <2>12, <3>1 DEF InOrder, Ascending
    <3>3. received[k] # hand
      BY <1>7, <2>8, <3>1, <3>2, MessagesAreNumbers
    <3>4. QED
      BY <1>2, <1>4, <2>12, <3>3 DEF NothingElseOwed
  <2>13. NothingElseOwed'
    BY <1>1, <2>2, <2>11, <2>12, MessagesAreNumbers DEF NothingElseOwed, Owed, OwedThen
  <2>14. QED
    BY <1>5, <2>9, <2>13
<1>8. QED
  BY <1>2, <1>6, <1>7

LEMMA HeartBeatStep ==
  ASSUME AnswerInv, HeartBeat
  PROVE  WrittenInOrder' /\ InOrder' /\ NothingElseOwed'
<1>1. /\ InLoop /\ outgoing' = Append(outgoing, Beat)
      /\ UNCHANGED <<phase, incoming, hand, received, written, sent>>
  BY Zenon DEF HeartBeat, line
<1>2. InOrder /\ NothingElseOwed /\ WrittenInOrder /\ HubTypeOK
  BY <1>1 DEF AnswerInv, ClientInv
<1>3. outgoing \in Seq(Messages) /\ Beat \in Messages /\ Beat \notin Requests
  BY <1>2, SequencesOfMessages, MessagesAreNumbers DEF Messages
<1>4. /\ 1..Len(outgoing') = 1..Len(outgoing) \cup {Len(outgoing) + 1}
      /\ \A n \in 1..Len(outgoing) : outgoing'[n] = outgoing[n]
      /\ outgoing'[Len(outgoing) + 1] = Beat
  BY <1>1, <1>3, AppendPlaces
<1>5. Ascending(outgoing)'
  <2>1. Ascending(Append(outgoing, Beat))
    BY <1>2, <1>3, AppendAscends DEF InOrder
  <2>2. QED
    BY <1>1, <2>1 DEF Ascending
<1>6. \A n \in 1..Len(outgoing') : outgoing'[n] \in Requests =>
        n \in 1..Len(outgoing) /\ outgoing'[n] = outgoing[n]
  BY <1>3, <1>4
<1>7. InOrder'
  BY <1>1, <1>2, <1>5, <1>6 DEF InOrder, Ascending
<1>8. NothingElseOwed'
  <2>1. \A r : Owed(r) => OwedThen(r)
    BY <1>1 DEF Owed, OwedThen
  <2>2. \A n \in 1..Len(outgoing') : outgoing'[n] \in Requests => OwedThen(outgoing'[n])
    BY <1>2, <1>6, <2>1 DEF NothingElseOwed
  <2>3. \A k \in 1..Len(received) : Len(written) < k =>
          received[k] = hand \/ \E n \in 1..Len(outgoing') : outgoing'[n] = received[k]
    BY <1>2, <1>4 DEF NothingElseOwed
  <2>4. hand' \in Requests => OwedThen(hand')
    BY <1>1, <1>2, <2>1 DEF NothingElseOwed
  <2>5. QED
    BY <1>1, <2>2, <2>3, <2>4 DEF NothingElseOwed, Owed, OwedThen
<1>9. QED
  BY <1>1, <1>2, <1>7, <1>8 DEF WrittenInOrder

(* What the hub sends comes last and has the highest number.                  *)
LEMMA IncomingStep ==
  ASSUME AnswerInv, InLoop, NEW x \in Messages, incoming' = Append(incoming, x),
         x \in Requests => x = sent + 1, sent' \in Nat, sent <= sent', x \in Requests => sent' = x,
         UNCHANGED <<phase, sending>>
  PROVE  WrittenInOrder' /\ InOrder' /\ NothingElseOwed'
<1>1. InOrder /\ NothingElseOwed /\ WrittenInOrder /\ HubTypeOK /\ sent \in Nat
  BY CountersAreNumbers DEF AnswerInv, ClientInv
<1>2. incoming \in Seq(Messages) /\ received \in Seq(Requests)
  BY <1>1, SequencesOfMessages
<1>3. UNCHANGED <<phase, outgoing, hand, received, written>>
  BY DEF sending
<1>4. /\ 1..Len(incoming') = 1..Len(incoming) \cup {Len(incoming) + 1}
      /\ \A n \in 1..Len(incoming) : incoming'[n] = incoming[n]
      /\ incoming'[Len(incoming) + 1] = x
  BY <1>2, AppendPlaces
<1>5. \A k \in 1..Len(received) : received[k] \in Int /\ received[k] <= sent /\ received[k] <= sent'
  <2>1. SUFFICES ASSUME NEW k \in 1..Len(received)
                 PROVE  received[k] \in Int /\ received[k] <= sent /\ received[k] <= sent'
    OBVIOUS
  <2>2. received[k] \in Int
    BY <1>2, ElementOfSeq, MessagesAreNumbers
  <2>3. received[k] <= sent
    BY <1>1 DEF InOrder
  <2>4. QED
    BY <1>1, <2>2, <2>3
<1>6. Ascending(incoming)'
  <2>1. ASSUME x \in Requests, NEW n \in 1..Len(incoming), incoming[n] \in Requests
        PROVE  incoming[n] < x
    <3>1. incoming[n] \in Int
      BY <2>1, MessagesAreNumbers
    <3>2. incoming[n] <= sent
      BY <1>1, <2>1 DEF InOrder
    <3>3. QED
      BY <1>1, <2>1, <3>1, <3>2
  <2>2. Ascending(Append(incoming, x))
    BY <1>1, <1>2, <2>1, AppendAscends DEF InOrder
  <2>3. QED
    BY <2>2 DEF Ascending
<1>7. ASSUME NEW n \in 1..Len(incoming'), incoming'[n] \in Requests
      PROVE  incoming'[n] <= sent' /\ \A k \in 1..Len(received) : received[k] < incoming'[n]
  <2>1. CASE n \in 1..Len(incoming)
    <3>1. incoming[n] <= sent /\ \A k \in 1..Len(received) : received[k] < incoming[n]
      BY <1>1, <1>4, <1>7, <2>1 DEF InOrder
    <3>2. incoming'[n] = incoming[n] /\ incoming[n] \in Int
      BY <1>4, <1>7, <2>1, MessagesAreNumbers
    <3>3. QED
      BY <1>1, <3>1, <3>2
  <2>2. CASE n = Len(incoming) + 1
    BY <1>1, <1>4, <1>5, <1>7, <2>2
  <2>3. QED
    BY <1>4, <2>1, <2>2
<1>8. InOrder'
  BY <1>1, <1>3, <1>5, <1>6, <1>7 DEF InOrder, Ascending
<1>9. QED
  BY <1>1, <1>3, <1>8 DEF WrittenInOrder, NothingElseOwed, Owed, OwedThen

-----------------------------------------------------------------------------
(* Every step of the loops, the hub and the network keeps the answers in      *)
(* order.  A step out of the loop of a connection only has to leave what is   *)
(* written as it is; a new connection begins with nothing owed.               *)
LEMMA AnswerStep ==
  ASSUME AnswerInv, [HubNext]_hubVars
  PROVE  AnswerInv'
<1>1. ClientInv'
  BY ClientStep DEF AnswerInv
<1>2. ASSUME UNCHANGED <<received, written>>, ~InLoop'
      PROVE  WrittenInOrder' /\ (InLoop' => InOrder' /\ NothingElseOwed')
  BY <1>2 DEF AnswerInv, WrittenInOrder
<1>3. ASSUME UNCHANGED <<incoming, sending, sent>>, InLoop,
             phase' = phase \/ (phase = "handle" /\ phase' = "send")
      PROVE  WrittenInOrder' /\ (InLoop' => InOrder' /\ NothingElseOwed')
  BY <1>3 DEF AnswerInv, WrittenInOrder, InOrder, NothingElseOwed, Owed, Ascending, sending
<1>4. CASE Connect \/ Wake \/ RefuseConnection \/ ReadEnd \/ WriteFails
  <2>1. UNCHANGED <<received, written>>
    BY <1>4 DEF Connect, Wake, RefuseConnection, ReadEnd, WriteFails, sending
  <2>2. ~InLoop'
    BY <1>4 DEF Connect, Wake, RefuseConnection, ReadEnd, WriteFails, Retry, InLoop
  <2>3. QED
    BY <1>1, <1>2, <2>1, <2>2 DEF AnswerInv
<1>5. CASE Authenticated
  <2>1. /\ phase' = "select" /\ incoming' = << >> /\ outgoing' = << >>
        /\ received' = << >> /\ written' = << >> /\ hand' = NoMessage
    BY <1>5 DEF Authenticated, NewChannel, AnswerInv, ClientInv, HandMatchesPhase
  <2>2. Len(<< >>) = 0
    OBVIOUS
  <2>3. WrittenInOrder' /\ InOrder' /\ NothingElseOwed'
    BY <2>1, <2>2, MessagesAreNumbers DEF WrittenInOrder, InOrder, NothingElseOwed, Ascending
  <2>4. QED
    BY <1>1, <2>3 DEF AnswerInv
<1>6. CASE ReadRequest
  BY <1>1, <1>6, ReadRequestStep DEF AnswerInv
<1>7. CASE ReadNotice
  <2>1. /\ InLoop /\ incoming # << >> /\ incoming' = Tail(incoming)
        /\ UNCHANGED <<phase, sent, outgoing, hand, received, written>>
    BY <1>7 DEF ReadNotice, Unread, InLoop, sending
  <2>2. InOrder /\ NothingElseOwed /\ incoming \in Seq(Messages)
    BY <2>1, SequencesOfMessages DEF AnswerInv, ClientInv
  <2>3. /\ Len(incoming') = Len(incoming) - 1 /\ Len(incoming) \in Nat
        /\ \A n \in 1..Len(incoming') : incoming'[n] = incoming[n + 1]
    BY <2>1, <2>2, HeadTailProperties, LenProperties
  <2>4. Ascending(incoming)'
    <3>1. Ascending(Tail(incoming))
      BY <2>1, <2>2, TailAscends DEF InOrder
    <3>2. QED
      BY <2>1, <3>1 DEF Ascending
  <2>5. \A n \in 1..Len(incoming') : incoming'[n] \in Requests =>
          incoming'[n] <= sent /\ \A k \in 1..Len(received) : received[k] < incoming'[n]
    BY <2>2, <2>3 DEF InOrder
  <2>6. InOrder'
    BY <2>1, <2>2, <2>4, <2>5 DEF InOrder, Ascending
  <2>7. NothingElseOwed' /\ WrittenInOrder'
    BY <2>1, <2>2 DEF NothingElseOwed, Owed, WrittenInOrder, AnswerInv
  <2>8. QED
    BY <1>1, <2>6, <2>7 DEF AnswerInv
<1>8. CASE Search
  <2>1. UNCHANGED <<incoming, sending, sent>> /\ InLoop /\ phase = "handle" /\ phase' = "send"
    BY <1>8 DEF Search, InLoop, line
  <2>2. QED
    BY <1>1, <1>3, <2>1 DEF AnswerInv
<1>9. CASE QueueAnswer
  BY <1>1, <1>9, QueueAnswerStep DEF AnswerInv
<1>10. CASE TakeOut
  BY <1>1, <1>10, TakeOutStep DEF AnswerInv
<1>11. CASE Write
  BY <1>1, <1>11, WriteStep DEF AnswerInv
<1>12. CASE HeartBeat
  BY <1>1, <1>12, HeartBeatStep DEF AnswerInv
<1>13. CASE HubSends
  <2>1. InLoop /\ UNCHANGED <<phase, sending>> /\ sent \in Nat
    BY <1>13, CountersAreNumbers DEF HubSends, AnswerInv, ClientInv
  <2>2. CASE sent < MaxRequests /\ sent' = sent + 1 /\ incoming' = Append(incoming, sent')
    <3>1. sent' \in Messages /\ sent' = sent + 1 /\ sent' \in Nat
      BY <2>1, <2>2, HubClientAssumption DEF Messages, Requests
    <3>2. QED
      BY <1>1, <2>1, <2>2, <3>1, IncomingStep DEF AnswerInv
  <2>3. CASE incoming' = Append(incoming, Notice) /\ UNCHANGED sent
    <3>1. Notice \in Messages /\ Notice \notin Requests
      BY MessagesAreNumbers DEF Messages
    <3>2. QED
      BY <1>1, <2>1, <2>3, <3>1, IncomingStep DEF AnswerInv
  <2>4. QED
    BY <1>13, <2>2, <2>3 DEF HubSends
<1>14. CASE HubCloses
  <2>1. InLoop /\ UNCHANGED <<phase, sending, sent>> /\ incoming' = Append(incoming, Close) /\ sent \in Nat
    BY <1>14, CountersAreNumbers DEF HubCloses, AnswerInv, ClientInv
  <2>2. Close \in Messages /\ Close \notin Requests
    BY MessagesAreNumbers DEF Messages
  <2>3. QED
    BY <1>1, <2>1, <2>2, IncomingStep DEF AnswerInv
<1>15. CASE Break
  <2>1. InLoop /\ UNCHANGED <<phase, sending, sent>> /\ incoming' \in {incoming, << >>}
    BY <1>15 DEF Break
  <2>2. CASE incoming' = incoming
    BY <1>1, <1>3, <2>1, <2>2 DEF AnswerInv
  <2>3. CASE incoming' = << >>
    BY <1>1, <2>1, <2>3 DEF AnswerInv, WrittenInOrder, InOrder, NothingElseOwed, Owed, Ascending, sending
  <2>4. QED
    BY <2>1, <2>2, <2>3
<1>16. CASE UNCHANGED hubVars
  BY <1>1, <1>16 DEF hubVars, line, sending, AnswerInv, WrittenInOrder, InOrder, NothingElseOwed,
       Owed, Ascending, InLoop
<1>17. QED
  BY <1>4, <1>5, <1>6, <1>7, <1>8, <1>9, <1>10, <1>11, <1>12, <1>13, <1>14, <1>15, <1>16
     DEF HubNext, Client, Network

LEMMA Invariance == HubSpec => []AnswerInv
<1>1. AnswerInv /\ [HubNext]_hubVars => AnswerInv'
  BY AnswerStep
<1>2. QED
  BY InitEstablishes, <1>1, PTL DEF HubSpec
-----------------------------------------------------------------------------
(* The shape of every variable: channel and delay stay within their bounds,   *)
(* whatever is lost or refused.                                               *)
THEOREM TypeCorrectness == HubSpec => []HubTypeOK
<1>1. AnswerInv => HubTypeOK
  BY DEF AnswerInv, ClientInv
<1>2. QED
  BY Invariance, <1>1, PTL

(* Answers go out in the order of the requests, each once, on the connection  *)
(* of its request, for any size of the channel and any number of heartbeats.  *)
THEOREM AnswersInOrder == HubSpec => []AnswersMatchRequests
<1>1. AnswerInv => AnswersMatchRequests
  BY PrefixIsWrittenInOrder DEF AnswerInv, ClientInv
<1>2. QED
  BY Invariance, <1>1, PTL

\* What is read is new on its connection.
LEMMA TakesNew ==
  ASSUME AnswerInv, ReadRequest
  PROVE  Stream!Next
<1>1. /\ phase = "select" /\ phase' = "handle" /\ Head(incoming) \in Requests
      /\ received' = Append(received, Head(incoming)) /\ written' = written
      /\ incoming # << >>
  BY DEF ReadRequest, Unread
<1>2. InLoop /\ InLoop' /\ InOrder /\ HubTypeOK
  BY <1>1 DEF InLoop, AnswerInv, ClientInv
<1>3. 1 \in 1..Len(incoming) /\ incoming[1] = Head(incoming)
  BY <1>1, <1>2, SequencesOfMessages, EmptySeq
<1>4. \A n \in 1..Len(received) : received[n] # Head(incoming)
  <2>1. \A n \in 1..Len(received) : received[n] < Head(incoming)
    BY <1>1, <1>2, <1>3 DEF InOrder
  <2>2. Head(incoming) \in Int
    BY <1>1, MessagesAreNumbers
  <2> QED
    BY <2>1, <2>2
<1>5. Stream!Take(Head(incoming))
  BY <1>1, <1>2, <1>4 DEF Stream!Take
<1> QED
  BY <1>1, <1>5 DEF Stream!Next

\* What is written answers the first request that has no answer.
LEMMA AnswersFirst ==
  ASSUME AnswerInv, AnswerInv', Write
  PROVE  Stream!Next \/ UNCHANGED <<InLoop, received, written>>
<1>1. /\ phase = "write" /\ phase' = "select" /\ received' = received
      /\ hand = Beat => written' = written
      /\ hand # Beat => written' = Append(written, hand)
  BY DEF Write
<1>2. InLoop /\ InLoop' /\ hand \in Requests \cup {Beat} /\ HubTypeOK
  BY <1>1 DEF InLoop, AnswerInv, ClientInv, HandMatchesPhase
<1>3. CASE hand = Beat
  BY <1>1, <1>2, <1>3
<1>4. CASE hand # Beat
  <2>1. hand \in Requests /\ written \in Seq(Requests) /\ received \in Seq(Requests)
    BY <1>2, <1>4, SequencesOfMessages
  <2>2. /\ Len(written') = Len(written) + 1 /\ written'[Len(written) + 1] = hand
        /\ Len(written) \in Nat /\ Len(received) \in Nat
    BY <1>1, <1>4, <2>1, AppendProperties, LenProperties
  <2>3. Len(written') <= Len(received) /\ \A k \in 1..Len(written') : written'[k] = received[k]
    BY <1>1 DEF AnswerInv, WrittenInOrder
  <2>4. Len(written) < Len(received) /\ received[Len(written) + 1] = hand
    BY <2>2, <2>3
  <2>5. Stream!Answer
    BY <1>1, <1>2, <1>4, <2>4 DEF Stream!Answer
  <2> QED
    BY <2>5 DEF Stream!Next
<1> QED
  BY <1>3, <1>4

(* The client implements AnswerStream: reading a request takes it from the    *)
(* stream, writing an answer gives it, the handshake opens the stream, and    *)
(* all else that client, hub and network do leaves it as it is or ends it.    *)
THEOREM ImplementsStream == HubSpec => StreamSpec
<1>1. HubInit => Stream!Init
  BY DEF HubInit, Stream!Init, InLoop
<1>2. AnswerInv /\ AnswerInv' /\ [HubNext]_hubVars => [Stream!Next]_<<InLoop, received, written>>
  <2> SUFFICES ASSUME AnswerInv, AnswerInv', [HubNext]_hubVars
               PROVE  Stream!Next \/ UNCHANGED <<InLoop, received, written>>
    OBVIOUS
  <2>1. InLoop \in BOOLEAN /\ InLoop' \in BOOLEAN
    BY DEF InLoop
  <2> USE DEF InLoop, line, sending, retries
  <2>2. CASE Authenticated
    BY <2>2 DEF Authenticated, NewChannel, Stream!Next, Stream!Open
  <2>3. CASE ReadEnd \/ WriteFails
    <3>1. InLoop /\ phase' \in {"closed", "sleep", "gave up"} /\ UNCHANGED <<received, written>>
      BY <2>3 DEF ReadEnd, Unread, WriteFails, Retry
    <3>2. ~InLoop'
      BY <3>1
    <3>3. InLoop' = FALSE
      BY <2>1, <3>2
    <3> HIDE DEF InLoop
    <3>4. Stream!End
      BY <3>1, <3>3 DEF Stream!End
    <3> QED
      BY <3>4 DEF Stream!Next
  <2>4. CASE RefuseConnection
    <3>1. phase \in {"connect", "auth"} /\ phase' \in {"sleep", "gave up"}
          /\ UNCHANGED <<received, written>>
      BY <2>4 DEF RefuseConnection, Retry
    <3>2. ~InLoop /\ ~InLoop'
      BY <3>1
    <3> HIDE DEF InLoop
    <3> QED
      BY <2>1, <3>1, <3>2
  <2>5. CASE Connect \/ Wake \/ ReadNotice \/ Search
    BY <2>5 DEF Connect, Wake, ReadNotice, Unread, Search
  <2>6. CASE QueueAnswer \/ TakeOut
    BY <2>6 DEF QueueAnswer, TakeOut
  <2>7. CASE HeartBeat \/ HubSends \/ HubCloses \/ Break
    BY <2>7 DEF HeartBeat, HubSends, HubCloses, Break
  <2>8. CASE UNCHANGED hubVars
    BY <2>8 DEF hubVars
  <2> QED
    BY <2>2, <2>3, <2>4, <2>5, <2>6, <2>7, <2>8, TakesNew, AnswersFirst
       DEF HubNext, Client, Network
<1> QED
  BY <1>1, <1>2, Invariance, PTL DEF HubSpec, StreamSpec, Stream!Spec, Stream!streamVars

(* The client gives up only if it is not to reconnect, or after as many       *)
(* failures in a row as were allowed.                                         *)
THEOREM NoEarlySurrender == HubSpec => []GivesUpOnlyAfterMaxAttempts
<1>1. AnswerInv => GivesUpOnlyAfterMaxAttempts
  BY DEF AnswerInv, ClientInv
<1>2. QED
  BY Invariance, <1>1, PTL
-----------------------------------------------------------------------------
(* How many messages of a sequence are of a kind.                             *)
LEMMA HowManyIsNumber ==
  ASSUME NEW A, NEW s \in Seq(A), NEW S
  PROVE  /\ IsFiniteSet({n \in 1..Len(s) : s[n] \in S})
         /\ HowMany(s, S) \in Nat
<1>1. Len(s) \in Nat
  BY LenProperties
<1>2. IsFiniteSet(1..Len(s))
  BY <1>1, FS_Interval
<1>3. IsFiniteSet({n \in 1..Len(s) : s[n] \in S})
  BY <1>2, FS_Subset
<1>4. QED
  BY <1>3, FS_CardinalityType DEF HowMany

LEMMA HowManyInNone == \A S : HowMany(<< >>, S) = 0
<1>1. TAKE S
<1>2. {n \in 1..Len(<< >>) : << >>[n] \in S} = {}
  OBVIOUS
<1>3. QED
  BY <1>2, FS_EmptySet DEF HowMany

LEMMA HowManyAfterAppend ==
  ASSUME NEW A, NEW s \in Seq(A), NEW x \in A, NEW S
  PROVE  HowMany(Append(s, x), S) = HowMany(s, S) + (IF x \in S THEN 1 ELSE 0)
<1> DEFINE old == {n \in 1..Len(s) : s[n] \in S}
<1> DEFINE new == {n \in 1..Len(Append(s, x)) : Append(s, x)[n] \in S}
<1>1. Len(s) \in Nat /\ Len(s) + 1 \notin old
  BY LenProperties
<1>2. IsFiniteSet(old) /\ Cardinality(old) \in Nat
  BY HowManyIsNumber, FS_CardinalityType
<1>3. /\ 1..Len(Append(s, x)) = 1..Len(s) \cup {Len(s) + 1}
      /\ \A n \in 1..Len(s) : Append(s, x)[n] = s[n]
      /\ Append(s, x)[Len(s) + 1] = x
  BY AppendPlaces
<1>4. CASE x \in S
  <2>1. new = old \cup {Len(s) + 1}
    BY <1>3, <1>4
  <2>2. Cardinality(new) = Cardinality(old) + 1
    BY <1>1, <1>2, <2>1, FS_AddElement
  <2>3. QED
    BY <1>4, <2>2 DEF HowMany
<1>5. CASE x \notin S
  <2>1. new = old
    BY <1>1, <1>3, <1>5
  <2>2. HowMany(Append(s, x), S) = Cardinality(new) /\ HowMany(s, S) = Cardinality(old)
    BY DEF HowMany
  <2> HIDE DEF old, new
  <2>3. QED
    BY <1>2, <1>5, <2>1, <2>2
<1>6. QED
  BY <1>4, <1>5

(* All places but the first move up by one.                                   *)
LEMMA HowManyAfterTail ==
  ASSUME NEW A, NEW s \in Seq(A), s # << >>, NEW S
  PROVE  HowMany(s, S) = HowMany(Tail(s), S) + (IF Head(s) \in S THEN 1 ELSE 0)
<1> DEFINE old == {n \in 1..Len(s) : s[n] \in S}
<1> DEFINE new == {n \in 1..Len(Tail(s)) : Tail(s)[n] \in S}
<1> DEFINE up  == [n \in new |-> n + 1]
<1>1. /\ Len(s) \in Nat \ {0} /\ Head(s) = s[1]
      /\ Tail(s) \in Seq(A) /\ Len(Tail(s)) = Len(s) - 1
      /\ \A n \in 1..Len(Tail(s)) : Tail(s)[n] = s[n + 1]
  BY HeadTailProperties, LenProperties, EmptySeq
<1>2. /\ IsFiniteSet(old) /\ Cardinality(old) \in Nat
      /\ IsFiniteSet(new) /\ Cardinality(new) \in Nat
  BY <1>1, HowManyIsNumber, FS_CardinalityType
<1>3. up \in Bijection(new, old \ {1})
  <2>1. \A n \in new : n + 1 \in old \ {1}
    BY <1>1
  <2>2. \A m \in old \ {1} : m - 1 \in new /\ (m - 1) + 1 = m
    BY <1>1
  <2>3. up \in [new -> old \ {1}]
    BY <2>1
  <2>4. \A n, m \in new : up[n] = up[m] => n = m
    BY <1>1
  <2>5. \A m \in old \ {1} : \E n \in new : up[n] = m
    BY <2>2
  <2>6. QED
    BY <2>3, <2>4, <2>5 DEF Bijection, Injection, IsInjective, Surjection
<1>4. Cardinality(old \ {1}) = Cardinality(new)
  BY <1>2, <1>3, FS_Bijection DEF ExistsBijection
<1>5. Cardinality(old \ {1}) = IF 1 \in old THEN Cardinality(old) - 1 ELSE Cardinality(old)
  BY <1>2, FS_RemoveElement
<1>6. 1 \in old <=> Head(s) \in S
  BY <1>1
<1>7. HowMany(s, S) = Cardinality(old) /\ HowMany(Tail(s), S) = Cardinality(new)
  BY DEF HowMany
<1> HIDE DEF old, new
<1>8. QED
  BY <1>2, <1>4, <1>5, <1>6, <1>7

(* Two kinds between them.                                                    *)
LEMMA HowManyOfTwoKinds ==
  ASSUME NEW A, NEW B, A \cap B = {}, NEW s \in Seq(A \cup B)
  PROVE  HowMany(s, A) + HowMany(s, B) = Len(s)
<1> DEFINE a == {n \in 1..Len(s) : s[n] \in A}
<1> DEFINE b == {n \in 1..Len(s) : s[n] \in B}
<1>1. IsFiniteSet(a) /\ IsFiniteSet(b) /\ Cardinality(a) \in Nat /\ Cardinality(b) \in Nat
  BY HowManyIsNumber, FS_CardinalityType
<1>2. a \cup b = 1..Len(s) /\ a \cap b = {}
  BY ElementOfSeq
<1>3. Cardinality(a \cup b) = Cardinality(a) + Cardinality(b)
  <2>1. Cardinality(a \cup b) = Cardinality(a) + Cardinality(b) - Cardinality(a \cap b)
    <3> HIDE DEF a, b
    <3>1. QED
      BY <1>1, FS_Union
  <2>2. Cardinality(a \cap b) = 0
    BY <1>2, FS_EmptySet
  <2> HIDE DEF a, b
  <2>3. QED
    BY <1>1, <2>1, <2>2
<1>4. Len(s) \in Nat /\ Cardinality(1..Len(s)) = Len(s)
  BY LenProperties, FS_Interval
<1>5. QED
  BY <1>2, <1>3, <1>4 DEF HowMany
-----------------------------------------------------------------------------
(* The answers that are owed are those in the channel and the one in hand;    *)
(* the hub keeps to its window, and the heartbeats to what is due.            *)
InHand == IF hand \in Requests THEN 1 ELSE 0

Counts ==
  /\ HowMany(outgoing, Requests) + InHand = Len(received) - Len(written)
  /\ HowMany(outgoing, {Beat}) <= Beats
  /\ Unanswered <= HubWindow

RoomInv == ClientInv /\ (InLoop => Counts)

LEMMA CountsAreNumbers ==
  ASSUME HubTypeOK
  PROVE  /\ HowMany(outgoing, Requests) \in Nat /\ HowMany(outgoing, {Beat}) \in Nat
         /\ HowMany(incoming, Requests) \in Nat
         /\ Len(received) \in Nat /\ Len(written) \in Nat
  BY HowManyIsNumber, LenProperties DEF HubTypeOK

(* A message of a sequence of requests and beats is counted in one kind.      *)
LEMMA RoomForAnswer ==
  ASSUME HubTypeOK, HandMatchesPhase, Counts, phase = "send", HubWindow + Beats <= Capacity
  PROVE  PlaceLeft
<1>1. hand \in Requests
  BY DEF HandMatchesPhase
<1>2. HowMany(outgoing, Requests) + HowMany(outgoing, {Beat}) = Len(outgoing)
  <2>1. Requests \cap {Beat} = {}
    BY MessagesAreNumbers
  <2>2. outgoing \in Seq(Requests \cup {Beat})
    BY DEF HubTypeOK
  <2>3. QED
    BY <2>1, <2>2, HowManyOfTwoKinds
<1>3. HowMany(outgoing, Requests) + 1 <= HubWindow
  <2>1. HowMany(outgoing, Requests) + 1 = Len(received) - Len(written)
    BY <1>1 DEF Counts, InHand
  <2>2. HowMany(incoming, Requests) + Len(received) - Len(written) <= HubWindow
    BY DEF Counts, Unanswered
  <2>3. QED
    BY <2>1, <2>2, CountsAreNumbers, HubClientAssumption
<1>4. HowMany(outgoing, {Beat}) <= Beats
  BY DEF Counts
<1>5. QED
  BY <1>2, <1>3, <1>4, CountsAreNumbers, HubClientAssumption DEF PlaceLeft

(* Nothing but the incoming messages is touched, and none is a new request.   *)
LEMMA OnlyIncoming ==
  ASSUME Counts, UNCHANGED sending, Unanswered' <= HubWindow
  PROVE  Counts'
  BY DEF Counts, InHand, sending

LEMMA ReadRequestCounts ==
  ASSUME HubTypeOK, HandMatchesPhase, Counts, ReadRequest
  PROVE  Counts'
<1>1. /\ incoming # << >> /\ Head(incoming) \in Requests
      /\ incoming' = Tail(incoming) /\ received' = Append(received, Head(incoming))
      /\ hand' = Head(incoming) /\ UNCHANGED <<outgoing, written>>
      /\ phase = "select"
  BY DEF ReadRequest, Unread
<1>2. InHand = 0 /\ InHand' = 1
  BY <1>1, MessagesAreNumbers DEF HandMatchesPhase, InHand
<1>3. HowMany(incoming, Requests) = HowMany(incoming', Requests) + 1
  <2>1. incoming \in Seq(Requests \cup {Notice, Close})
    BY DEF HubTypeOK
  <2>2. HowMany(incoming, Requests) = HowMany(Tail(incoming), Requests) + 1
    BY <1>1, <2>1, HowManyAfterTail
  <2>3. QED
    BY <1>1, <2>2
<1>4. Len(received') = Len(received) + 1
  <2>1. received \in Seq(Requests)
    BY DEF HubTypeOK
  <2>2. QED
    BY <1>1, <2>1, AppendProperties
<1>5. HowMany(incoming', Requests) \in Nat
  <2>1. Tail(incoming) \in Seq(Requests \cup {Notice, Close})
    BY <1>1, HeadTailProperties DEF HubTypeOK
  <2>2. QED
    BY <1>1, <2>1, HowManyIsNumber
<1>6. Unanswered' = Unanswered
  <2>1. Unanswered' = HowMany(incoming', Requests) + Len(received') - Len(written')
    BY DEF Unanswered
  <2>2. QED
    BY <1>1, <1>3, <1>4, <1>5, <2>1, CountsAreNumbers DEF Unanswered
<1>7. HowMany(outgoing', Requests) + InHand' = Len(received') - Len(written')
  <2>1. HowMany(outgoing, Requests) + InHand = Len(received) - Len(written)
    BY DEF Counts
  <2>2. QED
    BY <1>1, <1>2, <1>4, <2>1, CountsAreNumbers
<1>8. QED
  BY <1>1, <1>6, <1>7 DEF Counts

LEMMA QueueAnswerCounts ==
  ASSUME HubTypeOK, HandMatchesPhase, Counts, QueueAnswer
  PROVE  Counts'
<1>1. /\ outgoing' = Append(outgoing, hand) /\ hand' = NoMessage
      /\ UNCHANGED <<incoming, received, written>> /\ hand \in Requests
  BY DEF QueueAnswer, AnswerQueued, line, HandMatchesPhase
<1>2. InHand = 1 /\ InHand' = 0
  BY <1>1, MessagesAreNumbers DEF InHand
<1>3. outgoing \in Seq(Requests \cup {Beat})
  BY DEF HubTypeOK
<1>4. HowMany(outgoing', Requests) = HowMany(outgoing, Requests) + 1
  <2>1. HowMany(Append(outgoing, hand), Requests) = HowMany(outgoing, Requests) + 1
    BY <1>1, <1>3, HowManyAfterAppend
  <2>2. QED
    BY <1>1, <2>1
<1>5. HowMany(outgoing', {Beat}) = HowMany(outgoing, {Beat})
  <2>1. HowMany(Append(outgoing, hand), {Beat}) = HowMany(outgoing, {Beat}) + 0
    <3>1. hand \notin {Beat}
      BY <1>1, MessagesAreNumbers
    <3>2. QED
      BY <1>1, <1>3, <3>1, HowManyAfterAppend
  <2>2. QED
    BY <1>1, <2>1, CountsAreNumbers
<1>6. Unanswered' = Unanswered
  BY <1>1 DEF Unanswered
<1>7. QED
  BY <1>1, <1>2, <1>4, <1>5, <1>6, CountsAreNumbers DEF Counts

LEMMA TakeOutCounts ==
  ASSUME HubTypeOK, HandMatchesPhase, Counts, TakeOut
  PROVE  Counts'
<1>1. /\ outgoing # << >> /\ hand' = Head(outgoing) /\ outgoing' = Tail(outgoing)
      /\ UNCHANGED <<incoming, received, written>> /\ hand = NoMessage
  BY DEF TakeOut, line, HandMatchesPhase
<1>2. outgoing \in Seq(Requests \cup {Beat}) /\ outgoing' \in Seq(Requests \cup {Beat})
  BY <1>1, HeadTailProperties DEF HubTypeOK
<1>3. InHand = 0
  BY <1>1, MessagesAreNumbers DEF InHand
<1>4. HowMany(outgoing, Requests) = HowMany(outgoing', Requests) + InHand'
  <2>1. HowMany(outgoing, Requests)
          = HowMany(Tail(outgoing), Requests) + (IF Head(outgoing) \in Requests THEN 1 ELSE 0)
    BY <1>1, <1>2, HowManyAfterTail
  <2>2. QED
    BY <1>1, <2>1 DEF InHand
<1>5. HowMany(outgoing', {Beat}) <= HowMany(outgoing, {Beat})
  <2>1. HowMany(outgoing, {Beat})
          = HowMany(Tail(outgoing), {Beat}) + (IF Head(outgoing) \in {Beat} THEN 1 ELSE 0)
    BY <1>1, <1>2, HowManyAfterTail
  <2>2. HowMany(Tail(outgoing), {Beat}) \in Nat
    BY <1>1, <1>2, HowManyIsNumber
  <2>3. QED
    BY <1>1, <2>1, <2>2
<1>6. HowMany(outgoing', {Beat}) \in Nat
  BY <1>2, HowManyIsNumber
<1>7. Unanswered' = Unanswered
  BY <1>1 DEF Unanswered
<1>8. HowMany(outgoing', {Beat}) <= Beats
  BY <1>5, <1>6, CountsAreNumbers, HubClientAssumption DEF Counts
<1>9. HowMany(outgoing', Requests) \in Nat /\ InHand' \in Nat
  BY <1>2, HowManyIsNumber DEF InHand
<1>10. QED
  BY <1>1, <1>3, <1>4, <1>7, <1>8, <1>9, CountsAreNumbers DEF Counts

LEMMA WriteCounts ==
  ASSUME HubTypeOK, HandMatchesPhase, Counts, Write
  PROVE  Counts'
<1>1. /\ hand' = NoMessage /\ UNCHANGED <<incoming, outgoing, received>>
      /\ hand \in Requests \cup {Beat}
      /\ written' = IF hand = Beat THEN written ELSE Append(written, hand)
  BY DEF Write, line, HandMatchesPhase
<1>2. InHand' = 0
  BY <1>1, MessagesAreNumbers DEF InHand
<1>3. Len(written') = Len(written) + InHand
  <2>1. CASE hand = Beat
    BY <1>1, <2>1, MessagesAreNumbers, CountsAreNumbers DEF InHand
  <2>2. CASE hand \in Requests
    <3>1. written \in Seq(Requests) /\ written' = Append(written, hand)
      BY <1>1, <2>2, MessagesAreNumbers DEF HubTypeOK
    <3>2. QED
      BY <2>2, <3>1, AppendProperties DEF InHand
  <2>3. QED
    BY <1>1, <2>1, <2>2
<1>4. InHand \in {0, 1}
  BY DEF InHand
<1>5. HowMany(outgoing', Requests) + InHand' = Len(received') - Len(written')
  <2>1. HowMany(outgoing, Requests) + InHand = Len(received) - Len(written)
    BY DEF Counts
  <2>2. QED
    BY <1>1, <1>2, <1>3, <1>4, <2>1, CountsAreNumbers
<1>6. Unanswered' <= HubWindow
  <2>1. Unanswered' = HowMany(incoming, Requests) + Len(received) - (Len(written) + InHand)
    BY <1>1, <1>3 DEF Unanswered
  <2>2. HowMany(incoming, Requests) + Len(received) - Len(written) <= HubWindow
    BY DEF Counts, Unanswered
  <2>3. QED
    BY <1>4, <2>1, <2>2, CountsAreNumbers, HubClientAssumption
<1>7. QED
  BY <1>1, <1>5, <1>6 DEF Counts

LEMMA HeartBeatCounts ==
  ASSUME HubTypeOK, Counts, HeartBeat
  PROVE  Counts'
<1>1. /\ outgoing' = Append(outgoing, Beat) /\ HowMany(outgoing, {Beat}) < Beats
      /\ UNCHANGED <<incoming, hand, received, written>>
  BY DEF HeartBeat, line
<1>2. outgoing \in Seq(Requests \cup {Beat})
  BY DEF HubTypeOK
<1>3. HowMany(outgoing', Requests) = HowMany(outgoing, Requests)
  <2>1. HowMany(Append(outgoing, Beat), Requests) = HowMany(outgoing, Requests) + 0
    BY <1>2, HowManyAfterAppend, MessagesAreNumbers
  <2>2. QED
    BY <1>1, <2>1, CountsAreNumbers
<1>4. HowMany(outgoing', {Beat}) <= Beats
  <2>1. HowMany(Append(outgoing, Beat), {Beat}) = HowMany(outgoing, {Beat}) + 1
    BY <1>2, HowManyAfterAppend
  <2>2. QED
    BY <1>1, <2>1, CountsAreNumbers, HubClientAssumption
<1>5. Unanswered' = Unanswered /\ InHand' = InHand
  BY <1>1 DEF Unanswered, InHand
<1>6. QED
  BY <1>1, <1>3, <1>4, <1>5 DEF Counts

(* A message that arrives is a request within the window, or no request.      *)
LEMMA ArrivalCounts ==
  ASSUME HubTypeOK, Counts, NEW x \in Requests \cup {Notice, Close},
         incoming' = Append(incoming, x), UNCHANGED sending,
         x \in Requests => Unanswered < HubWindow
  PROVE  Counts'
<1>1. incoming \in Seq(Requests \cup {Notice, Close})
  BY DEF HubTypeOK
<1>2. HowMany(incoming', Requests) = HowMany(incoming, Requests) + (IF x \in Requests THEN 1 ELSE 0)
  <2>1. HowMany(Append(incoming, x), Requests)
          = HowMany(incoming, Requests) + (IF x \in Requests THEN 1 ELSE 0)
    BY <1>1, HowManyAfterAppend
  <2>2. QED
    BY <2>1
<1>3. Unanswered' <= HubWindow
  <2>1. Unanswered' = HowMany(incoming', Requests) + Len(received) - Len(written)
    BY DEF Unanswered, sending
  <2>2. HowMany(incoming, Requests) + Len(received) - Len(written) <= HubWindow
    BY DEF Counts, Unanswered
  <2>3. x \in Requests => HowMany(incoming, Requests) + Len(received) - Len(written) < HubWindow
    BY DEF Unanswered
  <2>4. QED
    BY <1>2, <2>1, <2>2, <2>3, CountsAreNumbers, HubClientAssumption
<1>4. QED
  BY <1>3, OnlyIncoming

LEMMA RoomStep ==
  ASSUME RoomInv, [HubNext]_hubVars
  PROVE  RoomInv'
<1>1. ClientInv' /\ HubTypeOK /\ HandMatchesPhase
  BY ClientStep DEF RoomInv, ClientInv
<1>2. SUFFICES ASSUME InLoop'
               PROVE  Counts'
  BY <1>1 DEF RoomInv
<1>3. CASE Connect \/ Wake \/ RefuseConnection \/ ReadEnd \/ WriteFails
  BY <1>2, <1>3 DEF Connect, Wake, RefuseConnection, ReadEnd, WriteFails, Retry, InLoop
<1>4. CASE Authenticated
  <2>1. /\ incoming' = << >> /\ outgoing' = << >> /\ received' = << >> /\ written' = << >>
        /\ hand' = NoMessage
    BY <1>1, <1>4 DEF Authenticated, NewChannel, HandMatchesPhase
  <2>2. InHand' = 0
    BY <2>1, MessagesAreNumbers DEF InHand
  <2>3. /\ HowMany(outgoing', Requests) = 0 /\ HowMany(outgoing', {Beat}) = 0
        /\ HowMany(incoming', Requests) = 0
    BY <2>1, HowManyInNone
  <2>4. Len(received') = 0 /\ Len(written') = 0
    BY <2>1
  <2>5. Unanswered' = 0
    BY <2>3, <2>4 DEF Unanswered
  <2>6. QED
    BY <2>2, <2>3, <2>4, <2>5, HubClientAssumption DEF Counts
<1>5. ASSUME InLoop PROVE Counts
  BY <1>5 DEF RoomInv
<1>6. CASE ReadRequest
  BY <1>1, <1>5, <1>6, ReadRequestCounts DEF InLoop, ReadRequest, Unread
<1>7. CASE ReadNotice
  <2>1. Counts /\ incoming # << >> /\ incoming' = Tail(incoming) /\ UNCHANGED sending
    BY <1>5, <1>7 DEF InLoop, ReadNotice, Unread
  <2>2. incoming \in Seq(Requests \cup {Notice, Close}) /\ incoming' \in Seq(Requests \cup {Notice, Close})
    BY <1>1, <2>1, HeadTailProperties DEF HubTypeOK
  <2>3. HowMany(incoming', Requests) <= HowMany(incoming, Requests)
    <3>1. HowMany(incoming, Requests)
            = HowMany(Tail(incoming), Requests) + (IF Head(incoming) \in Requests THEN 1 ELSE 0)
      BY <2>1, <2>2, HowManyAfterTail
    <3>2. HowMany(Tail(incoming), Requests) \in Nat
      BY <2>1, <2>2, HowManyIsNumber
    <3>3. QED
      BY <2>1, <3>1, <3>2
  <2>4. Unanswered' <= HubWindow
    <3>1. Unanswered' = HowMany(incoming', Requests) + Len(received) - Len(written)
      BY <2>1 DEF Unanswered, sending
    <3>2. HowMany(incoming', Requests) \in Nat
      BY <2>2, HowManyIsNumber
    <3>3. HowMany(incoming, Requests) + Len(received) - Len(written) <= HubWindow
      BY <2>1 DEF Counts, Unanswered
    <3>4. QED
      BY <1>1, <2>3, <3>1, <3>2, <3>3, CountsAreNumbers, HubClientAssumption
  <2>5. QED
    BY <2>1, <2>4, OnlyIncoming
<1>8. CASE Search
  <2>1. Counts /\ UNCHANGED <<incoming, sending>>
    BY <1>5, <1>8 DEF InLoop, Search, line
  <2>2. QED
    BY <2>1 DEF Counts, InHand, Unanswered, sending
<1>9. CASE QueueAnswer
  BY <1>1, <1>5, <1>9, QueueAnswerCounts DEF InLoop, QueueAnswer
<1>10. CASE TakeOut
  BY <1>1, <1>5, <1>10, TakeOutCounts DEF InLoop, TakeOut
<1>11. CASE Write
  BY <1>1, <1>5, <1>11, WriteCounts DEF InLoop, Write
<1>12. CASE HeartBeat
  BY <1>1, <1>5, <1>12, HeartBeatCounts DEF HeartBeat
<1>13. CASE HubSends
  <2>1. Counts /\ UNCHANGED sending
    BY <1>5, <1>13 DEF HubSends
  <2>2. CASE Unanswered < HubWindow /\ sent < MaxRequests /\ sent' = sent + 1
             /\ incoming' = Append(incoming, sent')
    <3>1. sent' \in Requests
      BY <1>1, <2>2, CountersAreNumbers, HubClientAssumption DEF Requests
    <3>2. QED
      BY <1>1, <2>1, <2>2, <3>1, ArrivalCounts
  <2>3. CASE incoming' = Append(incoming, Notice)
    BY <1>1, <2>1, <2>3, ArrivalCounts, MessagesAreNumbers
  <2>4. QED
    BY <1>13, <2>2, <2>3 DEF HubSends
<1>14. CASE HubCloses
  <2>1. Counts /\ UNCHANGED sending /\ incoming' = Append(incoming, Close)
    BY <1>5, <1>14 DEF HubCloses
  <2>2. QED
    BY <1>1, <2>1, ArrivalCounts, MessagesAreNumbers
<1>15. CASE Break
  <2>1. Counts /\ UNCHANGED sending /\ (incoming' = incoming \/ incoming' = << >>)
    BY <1>5, <1>15 DEF Break
  <2>2. CASE incoming' = incoming
    BY <2>1, <2>2 DEF Counts, InHand, Unanswered, sending
  <2>3. CASE incoming' = << >>
    <3>1. Unanswered' = 0 + Len(received) - Len(written)
      BY <2>1, <2>3, HowManyInNone DEF Unanswered, sending
    <3>2. HowMany(incoming, Requests) + Len(received) - Len(written) <= HubWindow
      BY <2>1 DEF Counts, Unanswered
    <3>3. Unanswered' <= HubWindow
      BY <1>1, <3>1, <3>2, CountsAreNumbers, HubClientAssumption
    <3>4. QED
      BY <2>1, <3>3, OnlyIncoming
  <2>4. QED
    BY <2>1, <2>2, <2>3
<1>16. CASE UNCHANGED hubVars
  <2>1. Counts /\ UNCHANGED <<incoming, sending>>
    BY <1>2, <1>5, <1>16 DEF InLoop, hubVars, line
  <2>2. QED
    BY <2>1 DEF Counts, InHand, Unanswered, sending
<1>17. QED
  BY <1>3, <1>4, <1>6, <1>7, <1>8, <1>9, <1>10, <1>11, <1>12, <1>13, <1>14, <1>15, <1>16
     DEF HubNext, Client, Network

(* A channel with places for the hub's window and the heartbeats that fall    *)
(* due meanwhile always has one for the answer in hand: the loop, which alone *)
(* empties the channel, never waits for a place in it.                        *)
THEOREM AlwaysRoomForAnswers ==
  ASSUME HubWindow + Beats <= Capacity
  PROVE  HubSpec => []LoopNeverWaitsForItself
<1>1. HubInit => RoomInv
  <2>1. HubInit => ClientInv
    BY InitEstablishes DEF AnswerInv
  <2>2. HubInit => ~InLoop
    BY DEF HubInit, InLoop
  <2>3. QED
    BY <2>1, <2>2 DEF RoomInv
<1>2. RoomInv /\ [HubNext]_hubVars => RoomInv'
  BY RoomStep
<1>3. RoomInv => LoopNeverWaitsForItself
  BY RoomForAnswer DEF RoomInv, ClientInv, LoopNeverWaitsForItself, InLoop
<1>4. QED
  BY <1>1, <1>2, <1>3, PTL DEF HubSpec

\* The conditions of the steps of the loop that bring an answer to the wire.
AnswerCanMove ==
  \/ phase = "handle"
  \/ phase = "send" /\ PlaceLeft
  \/ phase = "write"
  \/ phase = "select" /\ outgoing # << >>

(* While a request that was read has no answer, the loop can bring one on.    *)
NoAnswerIsStuck == InLoop /\ Len(written) < Len(received) => AnswerCanMove

(* No answer is ever stuck between the search and the socket: it is in hand,  *)
(* or it is in the channel and the loop is free to take it out.               *)
THEOREM AnswersMoveOn ==
  ASSUME HubWindow + Beats <= Capacity
  PROVE  HubSpec => []NoAnswerIsStuck
<1>1. AnswerInv /\ LoopNeverWaitsForItself => NoAnswerIsStuck
  <2> SUFFICES ASSUME AnswerInv, LoopNeverWaitsForItself, phase = "select",
                      Len(written) < Len(received)
               PROVE  outgoing # << >>
    BY DEF NoAnswerIsStuck, AnswerCanMove, InLoop, LoopNeverWaitsForItself
  <2>1. NothingElseOwed /\ hand = NoMessage /\ HubTypeOK
    BY DEF AnswerInv, ClientInv, HandMatchesPhase, InLoop
  <2>2. received \in Seq(Requests) /\ Len(received) \in Nat /\ Len(written) \in Nat
    BY <2>1, SequencesOfMessages, LenProperties
  <2> DEFINE last == Len(received)
  <2>3. last \in 1..Len(received) /\ received[last] \in Requests
    BY <2>2, ElementOfSeq
  <2>4. received[last] # hand
    BY <2>1, <2>3, MessagesAreNumbers
  <2>5. PICK n \in 1..Len(outgoing) : outgoing[n] = received[last]
    BY <2>1, <2>3, <2>4 DEF NothingElseOwed
  <2> QED
    BY <2>5
<1> QED
  BY <1>1, Invariance, AlwaysRoomForAnswers, PTL
=============================================================================
