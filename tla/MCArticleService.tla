-------------------------- MODULE MCArticleService --------------------------
(* Instances of ArticleService for TLC.                                      *)
EXTENDS ArticleService, TLC

CONSTANTS a1, a2, x1, x2, x3, i1, i2, i3

OneArticle  == {a1}
TwoArticles == {a1, a2}
OneText     == {x1}
TwoTexts    == {x1, x2}
ThreeTexts  == {x1, x2, x3}
ThreeCalls  == {i1, i2, i3}

DistinctTexts == [c \in Contents |-> c]
TwoAlike      == [c \in Contents |-> IF c = x2 THEN x1 ELSE c]

Requests     == {"create", "update", "delete"}
Everything   == Requests \cup {"merge", "reject"}

Interchangeable == Permutations(Articles) \cup Permutations(Calls)

-----------------------------------------------------------------------------
(* Calls and articles, which are interchangeable, come in one order.  Two    *)
(* bounds of articles_dedup: the first text is one of the two with a hash in *)
(* common, and the vector store refuses no delete, which has no bearing on   *)
(* the texts stored or on who ends; articles_race has refused deletes.       *)
Orderly ==
  /\ at'[i2] # "idle" => at'[i1] # "idle"
  /\ at'[i3] # "idle" => at'[i2] # "idle"
  /\ (\E i \in Calls : call'[i].article = a2) => \E i \in Calls : call'[i].article = a1
  /\ (\E i \in Calls : call'[i].content \in {x2, x3}) => \E i \in Calls : call'[i].content = x1
Obliging == \A a \in Articles : trouble'[a] \cap {"stale docs", "stale chunks"} = {}
=============================================================================
