---------------------------- MODULE MCSubmission ----------------------------
(* What a submission passes: the check of the client's key and status, the   *)
(* rate limiter, and the task queue.  They share no state: a behaviour is    *)
(* one of one of them, the others have not begun.                            *)
EXTENDS TaskQueue, RateLimiter, KeyManager

CONSTANTS t1, t2, c1, c2, k1, k2, n1, n2, n3

TwoTasks    == {t1, t2}
OneClient   == {c1}
TwoCallers  == {c1, c2}
OneCapability == {k1}
TwoKeys     == {k1, k2}
ThreeTickets == {n1, n2, n3}
TwoReports  == <<50, 100>>    \* the last reports of the semantic search handler

VARIABLE part

parts == <<part, vars, limiterVars, keyVars>>

OfQueue(A)   == part = "queue" /\ A /\ UNCHANGED <<part, limiterVars, keyVars>>
OfLimiter(A) == part = "limiter" /\ A /\ UNCHANGED <<part, vars, keyVars>>
OfKeys(A)    == part = "keys" /\ A /\ UNCHANGED <<part, vars, limiterVars>>

MCInit == /\ part \in {"queue", "limiter", "keys"} /\ Init /\ LimiterInit
          /\ KeysInit /\ (part = "keys" \/ InFile = {})
MCNext == OfQueue(Next) \/ OfLimiter(LimiterNext) \/ OfKeys(KeysNext)

MCSpec ==
  /\ MCInit /\ [][MCNext]_parts
  /\ \A t \in Tasks :
       /\ WF_parts(OfQueue(Enqueue(t))) /\ WF_parts(OfQueue(Acquire(t)))
       /\ WF_parts(OfQueue(MarkRunning(t))) /\ WF_parts(OfQueue(Start(t)))
       /\ WF_parts(OfQueue(StoreProgress(t))) /\ WF_parts(OfQueue(TellProgress(t)))
       /\ WF_parts(OfQueue(Finish(t)))
=============================================================================
