---------------------------- MODULE AnswerStream ----------------------------
(***************************************************************************)
(* What the client promises the hub, without its channel, its phases and   *)
(* its heartbeats: while a connection is open, each request that is taken  *)
(* from it is new, and answers come one by one, each to the first request  *)
(* that has none.  An end of the connection leaves nothing for the next.   *)
(***************************************************************************)
EXTENDS Naturals, Sequences

CONSTANT Asks  \* what may be asked

VARIABLES
  open,     \* is there a connection
  asked,    \* taken from it, in order
  answered  \* the answers given on it, each named after its request

streamVars == <<open, asked, answered>>

Init == open = FALSE /\ asked = << >> /\ answered = << >>

Open ==
  /\ ~open /\ open' = TRUE
  /\ asked' = << >> /\ answered' = << >>

Take(r) ==
  /\ open
  /\ \A n \in 1..Len(asked) : asked[n] # r
  /\ asked' = Append(asked, r)
  /\ UNCHANGED <<open, answered>>

Answer ==
  /\ open
  /\ Len(answered) < Len(asked)
  /\ answered' = Append(answered, asked[Len(answered) + 1])
  /\ UNCHANGED <<open, asked>>

End ==
  /\ open /\ open' = FALSE
  /\ UNCHANGED <<asked, answered>>

Next == Open \/ (\E r \in Asks : Take(r)) \/ Answer \/ End

Spec == Init /\ [][Next]_streamVars
=============================================================================
