------------------------------ MODULE SlotPool ------------------------------
(***************************************************************************)
(* What the task queue promises, without its locks, channels and events: a *)
(* job that is handed in waits, is active in one of the slots, and ends    *)
(* once, with an outcome that never changes.  Nobody can take a job back.  *)
(***************************************************************************)
EXTENDS Naturals, FiniteSets

CONSTANTS
  Jobs,
  Slots,     \* at least one
  Undecided  \* the outcome of a job that has not ended

VARIABLES phase, outcome

poolVars == <<phase, outcome>>

Active == {j \in Jobs : phase[j] = "active"}

Init ==
  /\ phase = [j \in Jobs |-> "new"]
  /\ outcome = [j \in Jobs |-> Undecided]

HandIn(j) ==
  /\ phase[j] = "new"
  /\ phase' = [phase EXCEPT ![j] = "pending"]
  /\ UNCHANGED outcome

Begin(j) ==
  /\ phase[j] = "pending"
  /\ Cardinality(Active) < Slots
  /\ phase' = [phase EXCEPT ![j] = "active"]
  /\ UNCHANGED outcome

End(j) ==
  /\ phase[j] = "active"
  /\ phase' = [phase EXCEPT ![j] = "ended"]
  /\ \E o \in {"completed", "failed"} : outcome' = [outcome EXCEPT ![j] = o]

Next == \E j \in Jobs : HandIn(j) \/ Begin(j) \/ End(j)

Spec == Init /\ [][Next]_poolVars
=============================================================================
