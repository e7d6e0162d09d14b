---------------------------- MODULE QueryRouter ----------------------------
(***************************************************************************)
(* A routed query (src/router/mod.rs, POST /k2k/v1/route): plan the stores *)
(* to search, search each of them by vectors, keywords and the entity      *)
(* graph, ask the healthy nodes in parallel, merge all lists by reciprocal *)
(* rank fusion, rerank, and if nothing in the answer is convincing search  *)
(* the stores once more with an expanded query.                            *)
(*                                                                         *)
(* A result is its id, what the maps of the two mergers are keyed by; its  *)
(* text, store and metadata are left out.  What a search finds is any list *)
(* without repetitions of at most TopK ids, since nothing keeps the tables *)
(* still between two searches.  The order of stores and nodes is left open *)
(* because fusion does not depend on it.  Scores are exact integers.       *)
(***************************************************************************)
EXTENDS Integers, Sequences, FiniteSetsExt

CONSTANTS
  Ids,          \* article_id of a result: an article's or a chunk's
  Stores, StoreType, OwnerOf,
  Users, Nodes,
  TopK,         \* results asked for
  RrfK,         \* rrf_k of the configuration
  VectorWeight, KeywordWeight,   \* weights in tenths
  GraphWeights  \* graph_weight_max times the coverage of the query's terms

ASSUME QueryRouterAssumption ==
  /\ IsFiniteSet(Ids)
  /\ StoreType \in [Stores -> {"personal", "family", "shared"}]
  /\ OwnerOf \in [Stores -> Users]
  /\ TopK \in Nat \ {0} /\ RrfK \in Nat
  /\ VectorWeight \in Nat /\ KeywordWeight \in Nat /\ GraphWeights \subseteq Nat

Scopes == {"personal", "family", "all"}

\* Ranked lists of at most TopK ids, none of them twice.
Rankings == UNION {{s \in [1..n -> Ids] : \A i, j \in 1..n : s[i] = s[j] => i = j}
                     : n \in 0..TopK}

VARIABLES
  step,      \* where route() stands
  round,     \* 1: the query, 2: the expanded query
  plan,      \* store_collections
  left,      \* those still to search
  signals,   \* RankedSignals of the store being searched
  lists,     \* store_results of this round
  waiting,   \* nodes whose answer is awaited
  first,     \* the merged list of the first round
  merged     \* the merged list of this round; in the end, the answer

vars == <<step, round, plan, left, signals, lists, waiting, first, merged>>

Init ==
  /\ step = "plan" /\ round = 1 /\ plan = {} /\ left = {}
  /\ signals = << >> /\ lists = << >> /\ waiting = {}
  /\ first = << >> /\ merged = << >>
-----------------------------------------------------------------------------
\* Reciprocal rank fusion: weight / (k + rank + 1) with ranks from 0, over the
\* common multiple of the denominators.
Common(k)      == ProductSet({k + i : i \in 1..TopK})
Points(w, k, i) == w * (Common(k) \div (k + i))
Rank(s, x)     == CHOOSE i \in DOMAIN s : s[i] = x
Holding(ls, x) == {m \in DOMAIN ls : x \in Range(ls[m].results)}

\* Seeded faults: the first list an id occurs in does not count; a list is not
\* cut off; the expanded query always wins.
AfterFirst(ls, x) == Holding(ls, x) \ {Min(Holding(ls, x))}
Uncut(n)          == n
ExpandedWins(low) == TRUE

Counted(ls, x) == Holding(ls, x)
Cut(n)         == IF n > TopK THEN TopK ELSE n
Score(ls, k, x) ==
  SumFunction([m \in Counted(ls, x) |-> Points(ls[m].weight, k, Rank(ls[m].results, x))])

\* The orders into which the ids of ls may be sorted by score; equals in any order.
Fused(ls, k) ==
  LET found == UNION {Range(ls[m].results) : m \in DOMAIN ls}
      n     == Cut(Cardinality(found))
  IN  {s \in [1..n -> found] :
         /\ \A i, j \in 1..n : i < j => s[i] # s[j] /\ Score(ls, k, s[i]) >= Score(ls, k, s[j])
         /\ \A x \in found \ Range(s) : \A i \in 1..n : Score(ls, k, s[i]) >= Score(ls, k, x)}

Signal(list, w) == [results |-> list, weight |-> w]

\* merge_rrf: one list is passed through, more are fused with equal weights.
Merged(ls) ==
  IF Len(ls) = 1 THEN {ls[1]}
  ELSE Fused([m \in DOMAIN ls |-> Signal(ls[m], 1)], 60)
-----------------------------------------------------------------------------
Owned(u)    == {s \in Stores : OwnerOf[s] = u}
Personal(u) == {s \in Owned(u) : StoreType[s] = "personal"}
Planned(u, scope) ==
  CASE scope = "personal" -> IF Personal(u) # {} THEN Personal(u) ELSE Owned(u)
    [] scope = "family"   -> {s \in Stores : StoreType[s] \in {"family", "shared"}}
    [] scope = "all"      -> Stores

\* The scope is the hint of the request, or what classify() makes of its text.
Plan(u, scope) ==
  /\ step = "plan"
  /\ plan' = Planned(u, scope) /\ step' = "embed"
  /\ UNCHANGED <<round, left, signals, lists, waiting, first, merged>>

\* The embedding is computed once for all stores.
Embed ==
  /\ step = "embed"
  /\ left' = plan /\ lists' = << >> /\ step' = "search"
  /\ UNCHANGED <<round, plan, signals, waiting, first, merged>>

VectorSearch(s, list) ==
  /\ step = "search" /\ s \in left
  /\ left' = left \ {s}
  /\ signals' = <<Signal(list, VectorWeight)>>
  /\ step' = "keyword"
  /\ UNCHANGED <<round, plan, lists, waiting, first, merged>>

\* Where the record store, the model or the vector store is used, its error is
\* passed on, in the second round too.
Needed == step \in {"plan", "embed"} \/ (step = "search" /\ left # {})
Fail ==
  /\ Needed
  /\ step' = "failed"
  /\ UNCHANGED <<round, plan, left, signals, lists, waiting, first, merged>>

\* A keyword search or a graph search that fails counts as one that finds nothing.
KeywordSearch(list) ==
  /\ step = "keyword"
  /\ signals' = IF list = << >> THEN signals ELSE Append(signals, Signal(list, KeywordWeight))
  /\ step' = "graph"
  /\ UNCHANGED <<round, plan, left, lists, waiting, first, merged>>

GraphSearch(list, w) ==
  /\ step = "graph"
  /\ signals' = IF list = << >> \/ w = 0 THEN signals ELSE Append(signals, Signal(list, w))
  /\ step' = "fuse"
  /\ UNCHANGED <<round, plan, left, lists, waiting, first, merged>>

Fuse ==
  /\ step = "fuse"
  /\ \E s \in Fused(signals, RrfK) : lists' = Append(lists, s)
  /\ signals' = << >> /\ step' = "search"
  /\ UNCHANGED <<round, plan, left, waiting, first, merged>>

AllSearched == step = "search" /\ left = {}

\* The nodes that are healthy now are asked, each by a task of its own; none if
\* there is no registry or it cannot be read.  Only the first round asks.
AskNodes(healthy) ==
  /\ AllSearched /\ round = 1
  /\ waiting' = healthy /\ step' = "nodes"
  /\ UNCHANGED <<round, plan, left, signals, lists, first, merged>>

NodeAnswers(n, list) ==
  /\ step = "nodes" /\ n \in waiting
  /\ waiting' = waiting \ {n} /\ lists' = Append(lists, list)
  /\ UNCHANGED <<step, round, plan, left, signals, first, merged>>

\* No HTTPS, no connection, no answer in 10 seconds, an error or no JSON.
NodeFails(n) ==
  /\ step = "nodes" /\ n \in waiting
  /\ waiting' = waiting \ {n}
  /\ UNCHANGED <<step, round, plan, left, signals, lists, first, merged>>

Merge ==
  /\ (step = "nodes" /\ waiting = {}) \/ (AllSearched /\ round = 2)
  /\ \E s \in Merged(lists) :
       merged' = s /\ first' = IF round = 1 THEN s ELSE first
  /\ step' = "judge"
  /\ UNCHANGED <<round, plan, left, signals, lists, waiting>>

\* rerank adds up to 0.4 to scores that hardly differ: any order may come out.
Reordered(s) == {t \in Rankings : Range(t) = Range(s)}

\* low: every result is of low confidence.
Convincing(low) == merged # << >> /\ ~low
Best(low)       == IF round = 1 \/ Convincing(low) THEN merged ELSE first
Retried(low, expandable) == round = 1 /\ merged # << >> /\ low /\ expandable

\* Ends with the list of this round or, after an unconvincing second round, with
\* that of the first.
Answer(low, expandable) ==
  /\ step = "judge" /\ ~Retried(low, expandable)
  /\ \E s \in Reordered(Best(low)) : merged' = s
  /\ step' = "answered"
  /\ UNCHANGED <<round, plan, left, signals, lists, waiting, first>>

\* The planned stores are searched for a variant of the query.
Expand(low, expandable) ==
  /\ step = "judge" /\ Retried(low, expandable)
  /\ round' = 2 /\ step' = "embed"
  /\ UNCHANGED <<plan, left, signals, lists, waiting, first, merged>>

Next ==
  \/ \E u \in Users, scope \in Scopes : Plan(u, scope)
  \/ Embed \/ Fail \/ Fuse \/ Merge
  \/ \E s \in Stores, list \in Rankings : VectorSearch(s, list)
  \/ \E list \in Rankings : KeywordSearch(list)
  \/ \E list \in Rankings, w \in GraphWeights : GraphSearch(list, w)
  \/ \E healthy \in SUBSET Nodes : AskNodes(healthy)
  \/ \E n \in Nodes, list \in Rankings : NodeAnswers(n, list)
  \/ \E n \in Nodes : NodeFails(n)
  \/ \E low, expandable \in BOOLEAN : Answer(low, expandable) \/ Expand(low, expandable)

Spec == Init /\ [][Next]_vars
-----------------------------------------------------------------------------
Signals == [results : Rankings, weight : Nat]

(* The type invariant: the lists that are fused, merged and answered never  *)
(* hold an id twice or more than TopK ids.                                  *)
TypeOK ==
  /\ step \in {"plan", "embed", "search", "keyword", "graph", "fuse", "nodes",
               "judge", "answered", "failed"}
  /\ round \in 1..2
  /\ plan \subseteq Stores /\ left \subseteq Stores /\ waiting \subseteq Nodes
  /\ signals \in Seq(Signals) /\ lists \in Seq(Rankings)
  /\ first \in Rankings /\ merged \in Rankings

Above(s, x, y) == x \in Range(s) /\ (y \in Range(s) => Rank(s, x) < Rank(s, y))

(* An id that every list which holds y places above y is above y in the     *)
(* merged list as well, wherever else it occurs: merge_rrf respects what    *)
(* all stores and nodes agree on.                                           *)
AgreementIsKept ==
  step = "judge" =>
    \A x, y \in Ids :
      /\ \E m \in DOMAIN lists : y \in Range(lists[m])
      /\ \A m \in DOMAIN lists : y \in Range(lists[m]) => Above(lists[m], x, y)
      => (y \in Range(merged) => Above(merged, x, y))

(* A query fails only where it uses the record store, the model or the      *)
(* vector store: errors of keyword and graph searches and of nodes cost     *)
(* only their results.  And a query whose first round found something is    *)
(* not answered with nothing, whatever the expanded query finds.            *)
FoundIsAnswered ==
  [][/\ step' = "failed" => Needed
     /\ step' = "answered" /\ first # << >> => merged' # << >>]_vars
=============================================================================
