---------------------------- MODULE EntityGraph ----------------------------
(***************************************************************************)
(* The entity graph of P3 (src/knowledge/articles.rs): entities with a     *)
(* mention count, MENTIONS edges from articles to them, and RELATED_TO     *)
(* edges between articles that share entities.                             *)
(*                                                                         *)
(* embed_article extracts entities while it holds the embedding model (see *)
(* ArticleService), so extractions run one at a time; articles are deleted *)
(* without it, at any point of an extraction.  Each action is one query.   *)
(***************************************************************************)
EXTENDS Integers, Sequences, FiniteSets

CONSTANTS
  Articles,   \* article ids: fresh uuids
  Entities,   \* entity ids: type and slug of the name
  Lists,      \* what the language model may find in a text
  MaxExtractions,   \* bound: extractions of a behaviour
  None

ASSUME EntityGraphAssumption ==
  /\ Lists \subseteq Seq(Entities) \ {<< >>}
  /\ \A l \in Lists : \A m, n \in DOMAIN l : l[m] = l[n] => m = n
  /\ MaxExtractions \in Nat
  /\ None \notin Articles \cup Entities \cup Lists
  /\ None \notin Nat \X Nat

VARIABLES
  rows,      \* article table: "never", "stored" or "deleted"
  count,     \* mention_count of each entity, 0 if it has no record
  mentions,  \* MENTIONS edges
  related,   \* RELATED_TO edges: None or the strength as a fraction
  unread,    \* articles created or updated whose text awaits extraction
  at,        \* where the extraction stands
  subject,   \* its article
  found,     \* what the language model found in it
  k,         \* the position in found
  shared,    \* shared_counts: entities shared with each other article
  target, size,  \* the other article a strength is computed for, its entities
  failed,    \* history: articles with an extraction that broke off
  extractions

graph     == <<count, mentions, related>>
job       == <<subject, found, k, shared, target, size>>
graphVars == <<rows, graph, unread, at, job, failed, extractions>>

Stored == {a \in Articles : rows[a] = "stored"}
Mentioning(e)  == {a \in Articles : <<a, e>> \in mentions}
MentionedBy(a) == {e \in Entities : <<a, e>> \in mentions}
Linked(a, b)   == related[<<a, b>>] # None \/ related[<<b, a>>] # None

\* Seeded faults: the count is written and not incremented; the last entity is
\* not looked up; the denominator counts what only one side has.
Rewritten(n)       == 1
AllButLast         == k + 1 < Len(found)
OnlyOneSide(m, n, s) == m + n - 2 * s

Incremented(n)     == n + 1
More               == k < Len(found)
Union(m, n, s)     == m + n - s
Strength(s, d)     == IF d > 0 THEN <<s, d>> ELSE <<0, 1>>

NoneShared == [a \in Articles |-> 0]

GraphInit ==
  /\ rows     = [a \in Articles |-> "never"]
  /\ count    = [e \in Entities |-> 0]
  /\ mentions = {}
  /\ related  = [p \in Articles \X Articles |-> None]
  /\ unread   = {}
  /\ at = "idle" /\ subject = None /\ found = << >> /\ k = 1
  /\ shared = NoneShared /\ target = None /\ size = 0
  /\ failed = {} /\ extractions = 0

-----------------------------------------------------------------------------
(* Articles.                                                                 *)
Create(a) ==
  /\ rows[a] = "never"
  /\ rows' = [rows EXCEPT ![a] = "stored"]
  /\ unread' = unread \cup {a}
  /\ UNCHANGED <<graph, at, job, failed, extractions>>

Update(a) ==
  /\ a \in Stored \ unread
  /\ unread' = unread \cup {a}
  /\ UNCHANGED <<rows, graph, at, job, failed, extractions>>

\* The store drops the edges of a deleted record; no count is decremented.
Delete(a) ==
  /\ a \in Stored
  /\ rows' = [rows EXCEPT ![a] = "deleted"]
  /\ mentions' = {m \in mentions : m[1] # a}
  /\ related' = [p \in Articles \X Articles |->
                   IF a \in {p[1], p[2]} THEN None ELSE related[p]]
  /\ UNCHANGED <<count, unread, at, job, failed, extractions>>

-----------------------------------------------------------------------------
(* An extraction: embed_article and extract-entities.                        *)
Process(a, list) ==
  /\ at = "idle" /\ at' = "upsert"
  /\ extractions < MaxExtractions /\ extractions' = extractions + 1
  /\ subject' = a /\ found' = list /\ k' = 1
  /\ shared' = NoneShared
  /\ UNCHANGED <<rows, graph, target, size, failed>>

Extract(a, list) ==
  /\ a \in unread /\ unread' = unread \ {a}
  /\ Process(a, list)

\* Nothing found, or the language model failed: that is only logged.
ExtractNothing(a) ==
  /\ at = "idle"
  /\ a \in unread /\ unread' = unread \ {a}
  /\ UNCHANGED <<rows, graph, at, job, failed, extractions>>

\* The command opens the stores for itself, with nothing else running.
Backfill(a, list) ==
  /\ unread = {}
  /\ a \in Stored /\ MentionedBy(a) = {}
  /\ Process(a, list)
  /\ UNCHANGED unread

\* upsert_entity_and_increment: one statement.
Upsert ==
  /\ at = "upsert" /\ at' = "link"
  /\ count' = [count EXCEPT ![found[k]] = Incremented(@)]
  /\ UNCHANGED <<rows, mentions, related, unread, job, failed, extractions>>

\* create_mentions_edge: DELETE and RELATE, whether or not the article is there.
Link ==
  /\ at = "link"
  /\ mentions' = mentions \cup {<<subject, found[k]>>}
  /\ at' = IF k < Len(found) THEN "upsert" ELSE "gather"
  /\ k'  = IF k < Len(found) THEN k + 1 ELSE 1
  /\ UNCHANGED <<rows, count, related, unread, subject, found, shared, target, size,
                 failed, extractions>>

AfterShared == IF \E a \in Articles : shared'[a] > 0 THEN "relate" ELSE "idle"

\* list_articles_for_entity.
Gather ==
  /\ at = "gather"
  /\ shared' = [a \in Articles |->
       IF a \in (Stored \cap Mentioning(found[k])) \ {subject} THEN shared[a] + 1 ELSE shared[a]]
  /\ at' = IF More THEN "gather" ELSE AfterShared
  /\ k' = k + 1
  /\ UNCHANGED <<rows, graph, unread, subject, found, target, size, failed, extractions>>

\* list_entities_for_article, for the others in the order of a hash map.
Measure(a) ==
  /\ at = "relate" /\ at' = "write"
  /\ shared[a] > 0
  /\ target' = a
  /\ size' = Cardinality(MentionedBy(a))
  /\ UNCHANGED <<rows, graph, unread, subject, found, k, shared, failed, extractions>>

\* create_or_update_related_to_edge: DELETE and RELATE.
Relate ==
  /\ at = "write"
  /\ LET s == shared[target] IN
     related' = [related EXCEPT ![<<subject, target>>] =
                   Strength(s, Union(Len(found), size, s))]
  /\ shared' = [shared EXCEPT ![target] = 0]
  /\ at' = AfterShared
  /\ UNCHANGED <<rows, count, mentions, unread, subject, found, k, target, size,
                 failed, extractions>>

\* A query fails, or the process dies in it: between the two statements of an
\* edge the old edge is gone.
BreakOff ==
  /\ at # "idle" /\ at' = "idle"
  /\ mentions' \in IF at = "link" THEN {mentions, mentions \ {<<subject, found[k]>>}}
                                  ELSE {mentions}
  /\ related' \in IF at = "write"
                  THEN {related, [related EXCEPT ![<<subject, target>>] = None]}
                  ELSE {related}
  /\ failed' = failed \cup {subject}

FailExtraction ==
  /\ BreakOff
  /\ UNCHANGED <<rows, count, unread, job, extractions>>

Crash ==
  /\ \/ BreakOff
     \/ at = "idle" /\ unread # {} /\ UNCHANGED <<mentions, related, at, failed>>
  /\ unread' = {}
  /\ UNCHANGED <<rows, count, job, extractions>>

GraphNext ==
  \/ \E a \in Articles : Create(a) \/ Update(a) \/ Delete(a) \/ ExtractNothing(a) \/ Measure(a)
  \/ \E a \in Articles, l \in Lists : Extract(a, l) \/ Backfill(a, l)
  \/ Upsert \/ Link \/ Gather \/ Relate
  \/ FailExtraction \/ Crash

GraphSpec == GraphInit /\ [][GraphNext]_graphVars

-----------------------------------------------------------------------------
(* The shape of every variable.                                              *)
GraphTypeOK ==
  /\ rows \in [Articles -> {"never", "stored", "deleted"}]
  /\ count \in [Entities -> Nat]
  /\ mentions \subseteq Articles \X Entities
  /\ related \in [Articles \X Articles -> (Nat \X (Nat \ {0})) \cup {None}]
  /\ unread \subseteq Articles
  /\ at \in {"idle", "upsert", "link", "gather", "relate", "write"}
  /\ subject \in Articles \cup {None}
  /\ found \in Lists \cup {<< >>}
  /\ k \in Nat \ {0}
  /\ shared \in [Articles -> Nat]
  /\ target \in Articles \cup {None}
  /\ size \in Nat
  /\ failed \subseteq Articles
  /\ extractions \in 0..MaxExtractions

(* The count of an entity is never below the articles that mention it, so    *)
(* ranking by it misses none: not even while an extraction is at work, or    *)
(* after one broke off.                                                      *)
CountCoversMentions ==
  \A e \in Entities : Cardinality(Mentioning(e)) <= count[e]

(* Between extractions, two stored articles that mention the same entity are *)
(* related, in one direction or the other, unless an extraction of one of    *)
(* them broke off.                                                           *)
SharedMentionsRelate ==
  at = "idle" =>
    \A a, b \in Stored \ failed :
      a # b /\ MentionedBy(a) \cap MentionedBy(b) # {} => Linked(a, b)

(* The strength between stored articles is a fraction of at most 1 and more  *)
(* than 0, as long as the language model names each entity once.             *)
StrengthIsAFraction ==
  \A a, b \in Stored :
    related[<<a, b>>] # None =>
      related[<<a, b>>][1] \in 1..related[<<a, b>>][2]
=============================================================================
