---------------------------- MODULE MCTaskQueue ----------------------------
(* Instances of TaskQueue for TLC.                                           *)
EXTENDS TaskQueue

CONSTANTS t1, t2, c1, k1

TwoTasks   == {t1, t2}
OneClient  == {c1}
OneCapability == {k1}

NoReport  == << >>
TwoReports == <<50, 100>>    \* the last reports of the semantic search handler
=============================================================================
