------------------------- MODULE EntityGraphProofs -------------------------
(***************************************************************************)
(* Proofs about EntityGraph: its type invariant; that the count of an      *)
(* entity covers the articles that mention it; that articles which share   *)
(* an entity are related; and that strengths are fractions.                *)
(*                                                                         *)
(* The count is ahead by the edge that is about to be made (AheadInv), and *)
(* the sets counted are finite.  What an extraction has gathered of an     *)
(* article is never more than that article mentions (StrengthInv), and who *)
(* shares with the subject is related to it or still waits to be           *)
(* (RelationInv).                                                          *)
(***************************************************************************)
EXTENDS EntityGraph, FiniteSetTheorems, TLAPS

JobInv ==
  /\ at # "idle" => subject \in Articles /\ found \in Lists
  /\ at \in {"upsert", "link", "gather"} => k \in 1..Len(found)
  /\ at = "write" => target \in Articles

FiniteInv ==
  /\ \A e \in Entities : IsFiniteSet(Mentioning(e))
  /\ \A a \in Articles : IsFiniteSet(MentionedBy(a))

AheadInv ==
  at = "link" => Cardinality(Mentioning(found[k]) \cup {subject}) <= count[found[k]]

ShapeInv == GraphTypeOK /\ JobInv /\ FiniteInv
IInv == ShapeInv /\ CountCoversMentions /\ AheadInv

-----------------------------------------------------------------------------
LEMMA FoundEntity ==
  ASSUME ShapeInv, at \in {"upsert", "link", "gather"}
  PROVE  subject \in Articles /\ found[k] \in Entities
<1>1. subject \in Articles /\ found \in Lists /\ k \in 1..Len(found)
  BY DEF ShapeInv, JobInv
<1>2. found \in Seq(Entities)
  BY <1>1, EntityGraphAssumption
<1> QED
  BY <1>1, <1>2

\* Finite sets: adding one element or dropping some keeps them finite.
LEMMA FiniteKept ==
  ASSUME ShapeInv, mentions' \subseteq mentions
  PROVE  FiniteInv'
<1>1. ASSUME NEW e \in Entities
      PROVE  IsFiniteSet(Mentioning(e))'
  <2>1. Mentioning(e)' \subseteq Mentioning(e) /\ IsFiniteSet(Mentioning(e))
    BY DEF ShapeInv, FiniteInv, Mentioning
  <2> QED
    BY <2>1, FS_Subset
<1>2. ASSUME NEW a \in Articles
      PROVE  IsFiniteSet(MentionedBy(a))'
  <2>1. MentionedBy(a)' \subseteq MentionedBy(a) /\ IsFiniteSet(MentionedBy(a))
    BY DEF ShapeInv, FiniteInv, MentionedBy
  <2> QED
    BY <2>1, FS_Subset
<1> QED
  BY <1>1, <1>2 DEF FiniteInv

LEMMA FiniteLinked ==
  ASSUME ShapeInv, Link
  PROVE  FiniteInv'
<1>1. subject \in Articles /\ found[k] \in Entities
  BY FoundEntity DEF Link
<1>2. ASSUME NEW e \in Entities
      PROVE  IsFiniteSet(Mentioning(e))'
  <2>1. Mentioning(e)' \subseteq Mentioning(e) \cup {subject} /\ IsFiniteSet(Mentioning(e))
    BY DEF Link, ShapeInv, FiniteInv, Mentioning
  <2>2. IsFiniteSet(Mentioning(e) \cup {subject})
    BY <2>1, FS_AddElement
  <2> QED
    BY <2>1, <2>2, FS_Subset
<1>3. ASSUME NEW a \in Articles
      PROVE  IsFiniteSet(MentionedBy(a))'
  <2>1. MentionedBy(a)' \subseteq MentionedBy(a) \cup {found[k]} /\ IsFiniteSet(MentionedBy(a))
    BY DEF Link, ShapeInv, FiniteInv, MentionedBy
  <2>2. IsFiniteSet(MentionedBy(a) \cup {found[k]})
    BY <2>1, FS_AddElement
  <2> QED
    BY <2>1, <2>2, FS_Subset
<1> QED
  BY <1>2, <1>3 DEF FiniteInv

-----------------------------------------------------------------------------
(* Shapes: one lemma for the articles, one for the extraction.               *)
LEMMA ArticleShape ==
  ASSUME ShapeInv, NEW a \in Articles, Create(a) \/ Update(a) \/ Delete(a) \/ ExtractNothing(a)
  PROVE  ShapeInv'
<1>1. mentions' \subseteq mentions
  BY DEF Create, Update, Delete, ExtractNothing, graph
<1>2. FiniteInv'
  BY <1>1, FiniteKept
<1>3. JobInv'
  BY DEF Create, Update, Delete, ExtractNothing, job, ShapeInv, JobInv
<1>4. GraphTypeOK'
  <2>1. CASE Create(a)
    BY <2>1 DEF Create, graph, job, ShapeInv, GraphTypeOK
  <2>2. CASE Update(a) \/ ExtractNothing(a)
    BY <2>2 DEF Update, ExtractNothing, graph, job, ShapeInv, GraphTypeOK, Stored
  <2>3. CASE Delete(a)
    <3>1. related' \in [Articles \X Articles -> (Nat \X (Nat \ {0})) \cup {None}]
      BY <2>3 DEF Delete, ShapeInv, GraphTypeOK
    <3> QED
      BY <2>3, <3>1 DEF Delete, job, ShapeInv, GraphTypeOK
  <2> QED
    BY <2>1, <2>2, <2>3
<1> QED
  BY <1>2, <1>3, <1>4 DEF ShapeInv

LEMMA ProcessShape ==
  ASSUME ShapeInv, NEW a \in Articles, NEW l \in Lists, Extract(a, l) \/ Backfill(a, l)
  PROVE  ShapeInv'
<1>1. Process(a, l) /\ unread' \subseteq Articles
  BY DEF Extract, Backfill, ShapeInv, GraphTypeOK
<1>2. l \in Seq(Entities) /\ l # << >>
  BY EntityGraphAssumption
<1>3. Len(l) \in Nat \ {0}
  BY <1>2
<1>4. JobInv'
  BY <1>1, <1>3 DEF Process, JobInv
<1>5. FiniteInv'
  BY <1>1, FiniteKept DEF Process, graph
<1>6. extractions + 1 \in 0..MaxExtractions
  BY <1>1, EntityGraphAssumption DEF Process, ShapeInv, GraphTypeOK
<1>7. GraphTypeOK'
  BY <1>1, <1>6 DEF Process, graph, NoneShared, ShapeInv, GraphTypeOK
<1> QED
  BY <1>4, <1>5, <1>7 DEF ShapeInv

LEMMA StepShape ==
  ASSUME ShapeInv,
         \/ Upsert \/ Link \/ Gather \/ Relate \/ FailExtraction \/ Crash
         \/ \E a \in Articles : Measure(a)
  PROVE  ShapeInv'
<1>1. CASE Upsert
  <2>1. found[k] \in Entities
    BY <1>1, FoundEntity DEF Upsert
  <2>2. count' \in [Entities -> Nat]
    BY <1>1, <2>1 DEF Upsert, Incremented, ShapeInv, GraphTypeOK
  <2>3. GraphTypeOK'
    BY <1>1, <2>2 DEF Upsert, job, ShapeInv, GraphTypeOK
  <2>4. JobInv' /\ FiniteInv'
    BY <1>1, FiniteKept DEF Upsert, job, ShapeInv, JobInv
  <2> QED
    BY <2>3, <2>4 DEF ShapeInv
<1>2. CASE Link
  <2>1. subject \in Articles /\ found[k] \in Entities /\ found \in Lists /\ k \in 1..Len(found)
    BY <1>2, FoundEntity DEF Link, ShapeInv, JobInv
  <2>2. Len(found) \in Nat
    BY <2>1, EntityGraphAssumption
  <2>3. GraphTypeOK'
    BY <1>2, <2>1, <2>2 DEF Link, ShapeInv, GraphTypeOK
  <2>4. JobInv'
    BY <1>2, <2>1, <2>2 DEF Link, JobInv
  <2> QED
    BY <1>2, <2>3, <2>4, FiniteLinked DEF ShapeInv
<1>3. CASE Gather
  <2>1. found \in Lists /\ k \in 1..Len(found) /\ subject \in Articles
    BY <1>3 DEF Gather, ShapeInv, JobInv
  <2>2. Len(found) \in Nat
    BY <2>1, EntityGraphAssumption
  <2>3. shared' \in [Articles -> Nat] /\ k' \in Nat \ {0}
    BY <1>3, <2>1, <2>2 DEF Gather, ShapeInv, GraphTypeOK
  <2>4. at' \in {"gather", "relate", "idle"}
    BY <1>3 DEF Gather, AfterShared
  <2>5. GraphTypeOK'
    BY <1>3, <2>3, <2>4 DEF Gather, graph, ShapeInv, GraphTypeOK
  <2>6. JobInv'
    BY <1>3, <2>1, <2>2 DEF Gather, AfterShared, More, JobInv
  <2> QED
    BY <1>3, <2>5, <2>6, FiniteKept DEF Gather, graph, ShapeInv
<1>4. CASE Relate
  <2>1. found \in Lists /\ subject \in Articles /\ target \in Articles
    BY <1>4 DEF Relate, ShapeInv, JobInv
  <2>2. Len(found) \in Nat /\ shared[target] \in Nat /\ size \in Nat
    BY <2>1, EntityGraphAssumption DEF ShapeInv, GraphTypeOK
  <2>3. Strength(shared[target], Union(Len(found), size, shared[target])) \in Nat \X (Nat \ {0})
    BY <2>2 DEF Strength, Union
  <2>4. related' \in [Articles \X Articles -> (Nat \X (Nat \ {0})) \cup {None}]
    BY <1>4, <2>1, <2>3 DEF Relate, ShapeInv, GraphTypeOK
  <2>5. shared' \in [Articles -> Nat] /\ at' \in {"relate", "idle"}
    BY <1>4 DEF Relate, AfterShared, ShapeInv, GraphTypeOK
  <2>6. GraphTypeOK'
    BY <1>4, <2>4, <2>5 DEF Relate, ShapeInv, GraphTypeOK
  <2>7. JobInv'
    BY <1>4, <2>1, <2>5 DEF Relate, JobInv
  <2> QED
    BY <1>4, <2>6, <2>7, FiniteKept DEF Relate, ShapeInv
<1>5. ASSUME BreakOff, UNCHANGED <<rows, count, job, extractions>>, unread' \subseteq Articles
      PROVE  ShapeInv'
  <2>1. mentions' \subseteq mentions /\ subject \in Articles
    BY <1>5 DEF BreakOff, ShapeInv, JobInv
  <2>2. related' \in [Articles \X Articles -> (Nat \X (Nat \ {0})) \cup {None}]
    BY <1>5 DEF BreakOff, ShapeInv, GraphTypeOK, JobInv
  <2>3. GraphTypeOK'
    BY <1>5, <2>1, <2>2 DEF BreakOff, job, ShapeInv, GraphTypeOK
  <2>4. JobInv'
    BY <1>5 DEF BreakOff, JobInv
  <2> QED
    BY <2>1, <2>3, <2>4, FiniteKept DEF ShapeInv
<1>6. CASE FailExtraction
  BY <1>5, <1>6 DEF FailExtraction, ShapeInv, GraphTypeOK
<1>7. CASE Crash
  <2>1. CASE BreakOff
    BY <1>5, <1>7, <2>1 DEF Crash
  <2>2. CASE at = "idle" /\ UNCHANGED <<mentions, related, at, failed>>
    <3>1. GraphTypeOK' /\ JobInv'
      BY <1>7, <2>2 DEF Crash, job, ShapeInv, GraphTypeOK, JobInv
    <3> QED
      BY <2>2, <3>1, FiniteKept DEF ShapeInv
  <2> QED
    BY <1>7, <2>1, <2>2 DEF Crash
<1>8. ASSUME NEW a \in Articles, Measure(a)
      PROVE  ShapeInv'
  <2>1. Cardinality(MentionedBy(a)) \in Nat
    BY FS_CardinalityType DEF ShapeInv, FiniteInv
  <2>2. GraphTypeOK'
    BY <1>8, <2>1 DEF Measure, graph, ShapeInv, GraphTypeOK
  <2>3. JobInv'
    BY <1>8 DEF Measure, ShapeInv, JobInv
  <2> QED
    BY <1>8, <2>2, <2>3, FiniteKept DEF Measure, graph, ShapeInv
<1> QED
  BY <1>1, <1>2, <1>3, <1>4, <1>6, <1>7, <1>8

LEMMA ShapeStep ==
  ASSUME ShapeInv, [GraphNext]_graphVars
  PROVE  ShapeInv'
<1>1. CASE UNCHANGED graphVars
  <2>1. GraphTypeOK' /\ JobInv'
    BY <1>1 DEF graphVars, graph, job, ShapeInv, GraphTypeOK, JobInv
  <2> QED
    BY <1>1, <2>1, FiniteKept DEF graphVars, graph, ShapeInv
<1>2. CASE GraphNext
  BY <1>2, ArticleShape, ProcessShape, StepShape DEF GraphNext
<1> QED
  BY <1>1, <1>2

-----------------------------------------------------------------------------
(* Counts.                                                                   *)

\* Fewer mentions and no smaller count: covered as before.
LEMMA FewerMentions ==
  ASSUME ShapeInv, CountCoversMentions, mentions' \subseteq mentions,
         \A e \in Entities : count'[e] = count[e]
  PROVE  CountCoversMentions'
<1>1. SUFFICES ASSUME NEW e \in Entities
               PROVE  Cardinality(Mentioning(e)') <= count'[e]
  BY DEF CountCoversMentions, Mentioning
<1>2. Mentioning(e)' \subseteq Mentioning(e) /\ IsFiniteSet(Mentioning(e))
  BY DEF ShapeInv, FiniteInv, Mentioning
<1>3. /\ Cardinality(Mentioning(e)') <= Cardinality(Mentioning(e))
      /\ IsFiniteSet(Mentioning(e)')
  BY <1>2, FS_Subset
<1>4. Cardinality(Mentioning(e)') \in Nat /\ Cardinality(Mentioning(e)) \in Nat
  BY <1>2, <1>3, FS_CardinalityType
<1>5. Cardinality(Mentioning(e)) <= count[e] /\ count[e] \in Nat
  BY DEF CountCoversMentions, ShapeInv, GraphTypeOK
<1> QED
  BY <1>3, <1>4, <1>5

\* The same with the edge that is about to be made.
LEMMA FewerAhead ==
  ASSUME ShapeInv, AheadInv, mentions' \subseteq mentions,
         at' = "link" => at = "link" /\ UNCHANGED <<count, found, k, subject>>
  PROVE  AheadInv'
<1>1. SUFFICES ASSUME at' = "link"
               PROVE  Cardinality((Mentioning(found[k]) \cup {subject})') <= count'[found'[k']]
  BY DEF AheadInv, Mentioning
<1> DEFINE e == found[k]
           S == Mentioning(e) \cup {subject}
           T == (Mentioning(found[k]) \cup {subject})'
<1>2. at = "link" /\ UNCHANGED <<count, found, k, subject>> /\ e \in Entities
  BY <1>1, FoundEntity
<1>3. T \subseteq S
  BY <1>2 DEF Mentioning
<1>4. IsFiniteSet(S)
  BY <1>2, FS_AddElement DEF ShapeInv, FiniteInv
<1>5. Cardinality(T) <= Cardinality(S) /\ IsFiniteSet(T)
  BY <1>3, <1>4, FS_Subset
<1>6. Cardinality(T) \in Nat /\ Cardinality(S) \in Nat
  BY <1>4, <1>5, FS_CardinalityType
<1>7. Cardinality(S) <= count[e] /\ count[e] \in Nat
  BY <1>2 DEF AheadInv, ShapeInv, GraphTypeOK
<1>8. Cardinality(T) <= count[e]
  <2> HIDE DEF S, T, e
  <2> QED
    BY <1>5, <1>6, <1>7
<1> QED
  BY <1>2, <1>8

LEMMA UpsertCounts ==
  ASSUME IInv, Upsert
  PROVE  CountCoversMentions' /\ AheadInv'
<1> DEFINE e == found[k]
           S == Mentioning(e)
<1>1. e \in Entities /\ count \in [Entities -> Nat] /\ IsFiniteSet(S)
  BY FoundEntity DEF Upsert, IInv, ShapeInv, GraphTypeOK, FiniteInv
<1>2. /\ count' = [count EXCEPT ![e] = @ + 1]
      /\ UNCHANGED <<mentions, found, k, subject>>
  BY DEF Upsert, job, Incremented
<1>3. Cardinality(S) <= count[e] /\ Cardinality(S) \in Nat
  BY <1>1, FS_CardinalityType DEF IInv, CountCoversMentions
<1>4. CountCoversMentions'
  <2>1. SUFFICES ASSUME NEW f \in Entities
                 PROVE  Cardinality(Mentioning(f)') <= count'[f]
    BY DEF CountCoversMentions, Mentioning
  <2>2. Mentioning(f)' = Mentioning(f)
    BY <1>2 DEF Mentioning
  <2>3. Cardinality(Mentioning(f)) <= count[f] /\ IsFiniteSet(Mentioning(f))
    BY DEF IInv, CountCoversMentions, ShapeInv, FiniteInv
  <2>4. Cardinality(Mentioning(f)) \in Nat
    BY <2>3, FS_CardinalityType
  <2>5. count[f] \in Nat /\ count'[f] \in {count[f], count[f] + 1}
    BY <1>1, <1>2
  <2> QED
    BY <2>2, <2>3, <2>4, <2>5
<1>5. AheadInv'
  <2>1. /\ IsFiniteSet(S \cup {subject})
        /\ Cardinality(S \cup {subject}) \in {Cardinality(S), Cardinality(S) + 1}
    BY <1>1, FS_AddElement
  <2>2. count'[e] = count[e] + 1 /\ count[e] \in Nat
    BY <1>1, <1>2
  <2>3. Cardinality(S \cup {subject}) <= count'[e]
    <3> HIDE DEF S, e
    <3> QED
      BY <1>3, <2>1, <2>2
  <2>4. (Mentioning(found[k]) \cup {subject})' = S \cup {subject} /\ found'[k'] = e
    BY <1>2 DEF Mentioning
  <2> QED
    BY <2>3, <2>4 DEF AheadInv, Mentioning
<1> QED
  BY <1>4, <1>5

LEMMA LinkCounts ==
  ASSUME IInv, Link
  PROVE  CountCoversMentions' /\ AheadInv'
<1>1. subject \in Articles /\ found[k] \in Entities
  BY FoundEntity DEF Link, IInv
<1>2. SUFFICES ASSUME NEW f \in Entities
               PROVE  Cardinality(Mentioning(f)') <= count'[f]
  BY DEF Link, AheadInv, CountCoversMentions, Mentioning
<1>3. CASE f = found[k]
  <2>1. Mentioning(f)' = Mentioning(f) \cup {subject}
    BY <1>1, <1>3 DEF Link, Mentioning
  <2> QED
    BY <1>3, <2>1 DEF Link, IInv, AheadInv
<1>4. CASE f # found[k]
  <2>1. Mentioning(f)' = Mentioning(f)
    BY <1>4 DEF Link, Mentioning
  <2> QED
    BY <2>1 DEF Link, IInv, CountCoversMentions
<1> QED
  BY <1>3, <1>4

LEMMA CountStep ==
  ASSUME IInv, [GraphNext]_graphVars
  PROVE  CountCoversMentions' /\ AheadInv'
<1>1. CASE Upsert
  BY <1>1, UpsertCounts
<1>2. CASE Link
  BY <1>2, LinkCounts
<1>3. CASE ~Upsert /\ ~Link
  <2>1. mentions' \subseteq mentions /\ UNCHANGED count
    <3>1. CASE UNCHANGED graphVars
      BY <3>1 DEF graphVars, graph
    <3>2. ASSUME NEW a \in Articles,
                 Create(a) \/ Update(a) \/ Delete(a) \/ ExtractNothing(a) \/ Measure(a)
          PROVE  mentions' \subseteq mentions /\ UNCHANGED count
      BY <3>2 DEF Create, Update, Delete, ExtractNothing, Measure, graph
    <3>3. ASSUME NEW a \in Articles, NEW l \in Lists, Extract(a, l) \/ Backfill(a, l)
          PROVE  mentions' \subseteq mentions /\ UNCHANGED count
      BY <3>3 DEF Extract, Backfill, Process, graph
    <3>4. ASSUME Gather \/ Relate \/ FailExtraction \/ Crash
          PROVE  mentions' \subseteq mentions /\ UNCHANGED count
      BY <3>4 DEF Gather, Relate, FailExtraction, Crash, BreakOff, graph
    <3> QED
      BY <1>3, <3>1, <3>2, <3>3, <3>4 DEF GraphNext
  <2>2. at' = "link" => at = "link" /\ UNCHANGED <<count, found, k, subject>>
    <3>1. CASE UNCHANGED graphVars
      BY <3>1 DEF graphVars, graph, job
    <3>2. ASSUME NEW a \in Articles,
                 Create(a) \/ Update(a) \/ Delete(a) \/ ExtractNothing(a) \/ Measure(a)
          PROVE  at' = "link" => at = "link" /\ UNCHANGED <<count, found, k, subject>>
      BY <3>2 DEF Create, Update, Delete, ExtractNothing, Measure, graph, job
    <3>3. ASSUME NEW a \in Articles, NEW l \in Lists, Extract(a, l) \/ Backfill(a, l)
          PROVE  at' # "link"
      BY <3>3 DEF Extract, Backfill, Process
    <3>4. ASSUME Gather \/ Relate \/ FailExtraction \/ Crash
          PROVE  at' # "link"
      BY <3>4 DEF Gather, Relate, FailExtraction, Crash, BreakOff, AfterShared
    <3> QED
      BY <1>3, <3>1, <3>2, <3>3, <3>4 DEF GraphNext
  <2> QED
    BY <2>1, <2>2, FewerMentions, FewerAhead DEF IInv
<1> QED
  BY <1>1, <1>2, <1>3

-----------------------------------------------------------------------------
LEMMA InitIInv == GraphInit => IInv
<1> SUFFICES ASSUME GraphInit PROVE IInv
  OBVIOUS
<1>1. GraphTypeOK
  BY EntityGraphAssumption DEF GraphInit, GraphTypeOK, NoneShared
<1>2. JobInv /\ AheadInv
  BY DEF GraphInit, JobInv, AheadInv
<1>3. /\ \A e \in Entities : Mentioning(e) = {}
      /\ \A a \in Articles : MentionedBy(a) = {}
  BY DEF GraphInit, Mentioning, MentionedBy
<1>4. FiniteInv
  BY <1>3, FS_EmptySet DEF FiniteInv
<1>5. CountCoversMentions
  <2>1. \A e \in Entities : Cardinality(Mentioning(e)) = 0 /\ count[e] = 0
    BY <1>3, FS_EmptySet DEF GraphInit
  <2> QED
    BY <2>1 DEF CountCoversMentions
<1> QED
  BY <1>1, <1>2, <1>4, <1>5 DEF IInv, ShapeInv

(* The inductive invariant holds for any articles, entities and lists.       *)
THEOREM Invariance == GraphSpec => []IInv
<1>1. IInv /\ [GraphNext]_graphVars => IInv'
  BY ShapeStep, CountStep DEF IInv
<1> QED
  BY InitIInv, <1>1, PTL DEF GraphSpec

(* Every variable keeps its type: the denominator of a strength is never 0,  *)
(* whatever is deleted while it is computed.                                 *)
THEOREM TypeCorrectness == GraphSpec => []GraphTypeOK
<1>1. IInv => GraphTypeOK
  BY DEF IInv, ShapeInv
<1> QED
  BY Invariance, <1>1, PTL

(* No article that mentions an entity is left out of its count, however      *)
(* extractions, deletes, failures and crashes interleave.                    *)
THEOREM CountsCover == GraphSpec => []CountCoversMentions
<1>1. IInv => CountCoversMentions
  BY DEF IInv
<1> QED
  BY Invariance, <1>1, PTL
-----------------------------------------------------------------------------
(***************************************************************************)
(* Strengths and relations.  What the extraction has counted of another    *)
(* article stays true of it while it is stored, since only the subject's   *)
(* mentions grow (StrengthInv); and whom the subject shares an entity with *)
(* and is not related to yet is still to be found or to be related         *)
(* (RelationInv).                                                          *)
(***************************************************************************)
NeverInv ==
  \A a \in Articles : rows[a] = "never" =>
    /\ a \notin unread /\ MentionedBy(a) = {} /\ shared[a] = 0
    /\ \A b \in Articles : ~Linked(a, b)
    /\ at # "idle" => subject # a
    /\ at = "write" => target # a

\* The mentions of an article that have been looked up.
SharedOf(a) == {e \in MentionedBy(a) : \E j \in 1..(k - 1) : found[j] = e}

StrengthInv ==
  /\ at \in {"upsert", "link"} => \A a \in Articles : shared[a] = 0
  /\ at = "gather" => \A a \in Articles :
       shared[a] <= k - 1 /\ (a \in Stored => shared[a] <= Cardinality(SharedOf(a)))
  /\ at \in {"relate", "write"} => \A a \in Articles :
       shared[a] <= Len(found) /\ (a \in Stored => shared[a] <= Cardinality(MentionedBy(a)))
  /\ at = "write" => shared[target] > 0 /\ (target \in Stored => shared[target] <= size)
  /\ StrengthIsAFraction

Common(a, b)  == MentionedBy(a) \cap MentionedBy(b)
Cleared(a, b) == Common(a, b) = {} \/ Linked(a, b)

\* What is still to be done about b.
AwaitsRelation(b) ==
  /\ at \in {"upsert", "link"} =>
       \A e \in Common(subject, b) : \E j \in 1..(k - 1) : found[j] = e
  /\ at = "gather" =>
       \A e \in Common(subject, b) :
         \E j \in 1..Len(found) : found[j] = e /\ (j < k => shared[b] > 0)
  /\ at \in {"relate", "write"} => (Common(subject, b) # {} => shared[b] > 0)

RelationInv ==
  \A a, b \in Stored \ failed : a # b =>
    /\ at = "idle" \/ subject \notin {a, b} => Cleared(a, b)
    /\ at # "idle" /\ subject = a => Linked(a, b) \/ AwaitsRelation(b)

GraphInv == IInv /\ NeverInv /\ StrengthInv /\ RelationInv

LEMMA FoundIsSeq ==
  ASSUME IInv, at # "idle"
  PROVE  /\ found \in Lists /\ found \in Seq(Entities) /\ Len(found) \in Nat \ {0}
         /\ \A i, j \in 1..Len(found) : found[i] = found[j] => i = j
         /\ subject \in Articles
<1>1. found \in Lists /\ subject \in Articles
  BY DEF IInv, ShapeInv, JobInv
<1>2. found \in Seq(Entities) /\ found # << >>
  BY <1>1, EntityGraphAssumption
<1> QED
  BY <1>1, <1>2, EntityGraphAssumption

LEMMA SharedOfSizes ==
  ASSUME IInv, NEW a \in Articles
  PROVE  /\ IsFiniteSet(SharedOf(a)) /\ IsFiniteSet(MentionedBy(a))
         /\ Cardinality(SharedOf(a)) \in Nat /\ Cardinality(MentionedBy(a)) \in Nat
         /\ Cardinality(SharedOf(a)) <= Cardinality(MentionedBy(a))
<1>1. SharedOf(a) \subseteq MentionedBy(a) /\ IsFiniteSet(MentionedBy(a))
  BY DEF SharedOf, IInv, ShapeInv, FiniteInv
<1> QED
  BY <1>1, FS_Subset, FS_CardinalityType

(* Creates, updates, texts in which nothing is found, and deletes.           *)
LEMMA ArticleRelations ==
  ASSUME GraphInv, NEW x \in Articles, Create(x) \/ Update(x) \/ ExtractNothing(x) \/ Delete(x)
  PROVE  NeverInv' /\ StrengthInv' /\ RelationInv'
<1> USE DEF GraphInv, IInv, ShapeInv, GraphTypeOK, graph, job
<1>1. /\ UNCHANGED <<count, at, subject, found, k, shared, target, size, failed>>
      /\ unread' \subseteq unread \cup {x} /\ (x \in unread' => rows'[x] # "never")
      /\ \A a \in Articles \ {x} : rows'[a] = rows[a]
      /\ rows[x] # "never" => rows'[x] # "never"
  BY DEF Create, Update, ExtractNothing, Delete, Stored, NeverInv
<1>2. \A a \in Articles : a \in Stored' => MentionedBy(a)' = MentionedBy(a)
  <2>1. CASE Create(x) \/ Update(x) \/ ExtractNothing(x)
    BY <2>1 DEF Create, Update, ExtractNothing, MentionedBy
  <2>2. CASE Delete(x)
    BY <2>2 DEF Delete, MentionedBy, Stored
  <2> QED
    BY <2>1, <2>2
<1>3. \A a, b \in Articles :
        /\ MentionedBy(a)' \subseteq MentionedBy(a)
        /\ related'[<<a, b>>] \in {related[<<a, b>>], None}
        /\ a \in Stored' /\ b \in Stored' => related'[<<a, b>>] = related[<<a, b>>]
  <2>1. CASE Create(x) \/ Update(x) \/ ExtractNothing(x)
    BY <2>1 DEF Create, Update, ExtractNothing, MentionedBy
  <2>2. CASE Delete(x)
    BY <2>2 DEF Delete, MentionedBy, Stored
  <2> QED
    BY <2>1, <2>2
<1>4. \A a \in Stored' : a \in Stored \/ (a = x /\ rows[x] = "never")
  BY DEF Create, Update, ExtractNothing, Delete, Stored
<1>5. \A a, b \in Articles : a \in Stored' /\ b \in Stored' =>
        Linked(a, b)' = Linked(a, b) /\ Common(a, b)' = Common(a, b)
  BY <1>2, <1>3 DEF Linked, Common
<1>6. NeverInv'
  <2>1. \A a \in Articles : rows'[a] = "never" => rows[a] = "never" /\ (a \in unread' => a \in unread)
    BY <1>1
  <2>2. \A a, b \in Articles : Linked(a, b)' => Linked(a, b)
    BY <1>3 DEF Linked
  <2> QED
    BY <1>1, <1>3, <2>1, <2>2 DEF NeverInv
<1>7. StrengthInv'
  <2>1. \A a \in Stored' : SharedOf(a)' = SharedOf(a)
    BY <1>1, <1>2 DEF SharedOf, Stored
  <2>2. \A a \in Stored' \ Stored : shared[a] = 0 /\ (at = "write" => target # a)
    BY <1>4 DEF NeverInv
  <2>3. ASSUME NEW a \in Stored' \ Stored
        PROVE  shared[a] <= Cardinality(SharedOf(a)) /\ shared[a] <= Cardinality(MentionedBy(a))
    BY <2>2, <2>3, SharedOfSizes, SMTT(20) DEF Stored
  <2>4. StrengthIsAFraction'
    <3> SUFFICES ASSUME NEW a \in Stored', NEW b \in Stored', related'[<<a, b>>] # None
                 PROVE  related'[<<a, b>>][1] \in 1..related'[<<a, b>>][2]
      BY DEF StrengthIsAFraction
    <3>1. a \in Articles /\ b \in Articles
      BY DEF Stored
    <3>2. related'[<<a, b>>] = related[<<a, b>>]
      BY <1>3, <3>1
    <3>3. Linked(a, b) /\ Linked(b, a)
      BY <3>2 DEF Linked
    <3>4. a \in Stored /\ b \in Stored
      BY <1>4, <3>1, <3>3 DEF NeverInv
    <3> QED
      BY <3>2, <3>4 DEF StrengthInv, StrengthIsAFraction
  <2>5. at' = "gather" => \A a \in Articles :
          shared'[a] <= k' - 1 /\ (a \in Stored' => shared'[a] <= Cardinality(SharedOf(a)'))
    BY <1>1, <2>1, <2>3 DEF StrengthInv
  <2>6. at' \in {"relate", "write"} => \A a \in Articles :
          shared'[a] <= Len(found') /\ (a \in Stored' => shared'[a] <= Cardinality(MentionedBy(a)'))
    BY <1>1, <1>2, <2>3 DEF StrengthInv
  <2>7. at' = "write" => shared'[target'] > 0 /\ (target' \in Stored' => shared'[target'] <= size')
    BY <1>1, <2>2 DEF StrengthInv
  <2> QED
    BY <1>1, <2>4, <2>5, <2>6, <2>7 DEF StrengthInv
<1>8. RelationInv'
  <2> SUFFICES ASSUME NEW a \in Stored' \ failed, NEW b \in Stored' \ failed, a # b
               PROVE  /\ at = "idle" \/ subject \notin {a, b} => Cleared(a, b)'
                      /\ at # "idle" /\ subject = a => (Linked(a, b) \/ AwaitsRelation(b))'
    BY <1>1 DEF RelationInv
  <2>0. a \in Articles /\ b \in Articles
    BY DEF Stored
  <2>1. Linked(a, b)' = Linked(a, b) /\ Common(a, b)' = Common(a, b)
    BY <1>5, <2>0
  <2>2. ASSUME subject = a, AwaitsRelation(b) PROVE AwaitsRelation(b)'
    <3>1. Common(subject, b)' = Common(subject, b)
      <4>1. Common(subject, b)' = Common(a, b)'
        BY <1>1, <2>2 DEF Common, MentionedBy
      <4> QED
        BY <2>1, <2>2, <4>1
    <3> QED
      BY <1>1, <2>2, <3>1 DEF AwaitsRelation
  <2>3. CASE a \in Stored /\ b \in Stored
    BY <2>1, <2>2, <2>3 DEF RelationInv, Cleared
  <2>4. CASE a \notin Stored \/ b \notin Stored
    <3>1. Common(a, b) = {}
      BY <1>4, <2>0, <2>4 DEF NeverInv, Common
    <3>2. subject = a => AwaitsRelation(b)
      BY <3>1 DEF AwaitsRelation
    <3> QED
      BY <2>1, <2>2, <3>1, <3>2 DEF Cleared
  <2> QED
    BY <2>3, <2>4
<1> QED
  BY <1>6, <1>7, <1>8

(* An extraction begins.                                                     *)
LEMMA ProcessRelations ==
  ASSUME GraphInv, NEW x \in Articles, NEW l \in Lists, Extract(x, l) \/ Backfill(x, l)
  PROVE  NeverInv' /\ StrengthInv' /\ RelationInv'
<1> USE DEF GraphInv, IInv, ShapeInv, GraphTypeOK, graph
<1>1. /\ at = "idle" /\ at' = "upsert" /\ subject' = x /\ k' = 1
      /\ \A a \in Articles : shared'[a] = 0
      /\ UNCHANGED <<rows, mentions, related, failed>> /\ unread' \subseteq unread
      /\ x \in unread \/ rows[x] = "stored"
  BY DEF Extract, Backfill, Process, NoneShared, Stored
<1>2. \A a, b \in Articles : /\ MentionedBy(a)' = MentionedBy(a) /\ Linked(a, b)' = Linked(a, b)
                             /\ Common(a, b)' = Common(a, b)
  BY <1>1 DEF MentionedBy, Linked, Common
<1>3. Stored' = Stored
  BY <1>1 DEF Stored
<1>4. NeverInv'
  BY <1>1, <1>2 DEF NeverInv
<1>5. StrengthInv'
  BY <1>1, <1>3 DEF StrengthInv, StrengthIsAFraction
<1>6. RelationInv'
  <2> SUFFICES ASSUME NEW a \in Stored \ failed, NEW b \in Stored \ failed, a # b
               PROVE  Cleared(a, b)' /\ (x = a => (Linked(a, b) \/ AwaitsRelation(b))')
    BY <1>1, <1>3 DEF RelationInv
  <2>0. a \in Articles /\ b \in Articles
    BY DEF Stored
  <2>1. Cleared(a, b) /\ Cleared(a, b)' = Cleared(a, b)
    BY <1>1, <1>2, <2>0 DEF RelationInv, Cleared
  <2>2. ASSUME x = a, ~Linked(a, b) PROVE AwaitsRelation(b)'
    <3>1. Common(subject, b)' = {}
      BY <1>1, <1>2, <2>0, <2>1, <2>2 DEF Cleared, Common, MentionedBy
    <3> QED
      BY <1>1, <3>1 DEF AwaitsRelation
  <2> QED
    BY <1>2, <2>0, <2>1, <2>2
<1> QED
  BY <1>4, <1>5, <1>6

(* Mentions are made, of the subject alone.                                  *)
LEMMA MentionRelations ==
  ASSUME GraphInv, Upsert \/ Link
  PROVE  NeverInv' /\ StrengthInv' /\ RelationInv'
<1> USE DEF GraphInv, IInv, ShapeInv, GraphTypeOK
<1>0. /\ subject \in Articles /\ found[k] \in Entities /\ k \in 1..Len(found)
      /\ Len(found) \in Nat \ {0}
  BY FoundEntity, FoundIsSeq DEF Upsert, Link, JobInv
<1>1. /\ UNCHANGED <<rows, related, unread, subject, found, shared, target, size, failed>>
      /\ mentions' \in {mentions, mentions \cup {<<subject, found[k]>>}}
      /\ at \in {"upsert", "link"} /\ at' \in {"upsert", "link", "gather"}
  BY DEF Upsert, Link, job
<1>2. \A a, b \in Articles : Linked(a, b)' = Linked(a, b)
                             /\ (a # subject => MentionedBy(a)' = MentionedBy(a))
  BY <1>1 DEF MentionedBy, Linked
<1>3. Stored' = Stored /\ \A a, b \in Articles : subject \notin {a, b} => Common(a, b)' = Common(a, b)
  BY <1>1, <1>2 DEF Stored, Common
<1>4. NeverInv'
  BY <1>1, <1>2 DEF NeverInv
<1>5. StrengthInv'
  <2>1. at' = "gather" => k' = 1
    BY DEF Upsert, Link
  <2>2. at' = "gather" => \A a \in Articles :
          shared'[a] <= k' - 1 /\ (a \in Stored' => shared'[a] <= Cardinality(SharedOf(a)'))
    <3> SUFFICES ASSUME at' = "gather", NEW a \in Articles PROVE 0 <= Cardinality(SharedOf(a)')
      BY <1>1, <2>1 DEF StrengthInv
    <3>1. SharedOf(a)' = {}
      BY <2>1 DEF SharedOf
    <3> QED
      BY <3>1, FS_EmptySet
  <2> QED
    BY <1>1, <1>3, <2>2 DEF StrengthInv, StrengthIsAFraction
<1>6. RelationInv'
  <2> SUFFICES ASSUME NEW a \in Stored \ failed, NEW b \in Stored \ failed, a # b
               PROVE  /\ subject \notin {a, b} => Cleared(a, b)'
                      /\ subject = a => (Linked(a, b) \/ AwaitsRelation(b))'
    BY <1>1, <1>3 DEF RelationInv
  <2>0. a \in Articles /\ b \in Articles
    BY DEF Stored
  <2>1. subject \notin {a, b} => Cleared(a, b)'
    BY <1>1, <1>2, <1>3, <2>0 DEF RelationInv, Cleared
  <2>2. ASSUME subject = a, ~Linked(a, b) PROVE AwaitsRelation(b)'
    <3>1. \A e \in Common(subject, b) : \E j \in 1..(k - 1) : found[j] = e
      BY <1>1, <2>2 DEF RelationInv, AwaitsRelation
    <3>2. CASE Upsert
      BY <1>0, <1>1, <2>2, <3>1, <3>2 DEF Upsert, AwaitsRelation, Common, MentionedBy, job
    <3>3. CASE Link
      <4>1. \A e \in Common(subject, b)' : \E j \in 1..k : found[j] = e
        BY <1>0, <3>1, <3>3, <2>0, <2>2 DEF Link, Common, MentionedBy
      <4>3. CASE k < Len(found)
        BY <1>0, <1>1, <3>3, <4>1, <4>3 DEF Link, AwaitsRelation
      <4>4. CASE ~(k < Len(found))
        <5>1. at' = "gather" /\ k' = 1 /\ k = Len(found)
          BY <1>0, <3>3, <4>4 DEF Link
        <5>2. \A e \in Common(subject, b)' : \E j \in 1..Len(found) : found[j] = e /\ ~(j < k')
          BY <1>0, <4>1, <5>1
        <5> QED
          BY <1>1, <5>1, <5>2 DEF AwaitsRelation
      <4> QED
        BY <4>3, <4>4
    <3> QED
      BY <3>2, <3>3
  <2> QED
    BY <1>2, <2>0, <2>1, <2>2
<1> QED
  BY <1>4, <1>5, <1>6

(* The articles with a shared entity are counted.                            *)
LEMMA GatherRelations ==
  ASSUME GraphInv, Gather
  PROVE  NeverInv' /\ StrengthInv' /\ RelationInv'
<1> USE DEF GraphInv, IInv, ShapeInv, GraphTypeOK, graph
<1>0. /\ subject \in Articles /\ found[k] \in Entities /\ k \in 1..Len(found)
      /\ Len(found) \in Nat \ {0}
      /\ \A i, j \in 1..Len(found) : found[i] = found[j] => i = j
  BY FoundEntity, FoundIsSeq DEF Gather, JobInv
<1>1. /\ UNCHANGED <<rows, mentions, related, unread, subject, found, target, size, failed>>
      /\ at = "gather" /\ k' = k + 1
      /\ at' = IF More THEN "gather" ELSE AfterShared
      /\ \A a \in Articles : shared'[a] =
           IF a \in Stored /\ found[k] \in MentionedBy(a) /\ a # subject
           THEN shared[a] + 1 ELSE shared[a]
  BY <1>0 DEF Gather, Mentioning, MentionedBy
<1>2. /\ \A a, b \in Articles : Linked(a, b)' = Linked(a, b) /\ Common(a, b)' = Common(a, b)
      /\ \A a \in Articles : MentionedBy(a)' = MentionedBy(a)
      /\ Stored' = Stored
  BY <1>1 DEF MentionedBy, Linked, Common, Stored
<1>3. NeverInv'
  BY <1>1, <1>2 DEF NeverInv, AfterShared, Stored
<1>4. StrengthInv'
  <2>1. ASSUME NEW a \in Articles
        PROVE  /\ shared'[a] <= k
               /\ a \in Stored => shared'[a] <= Cardinality(SharedOf(a)')
               /\ Cardinality(SharedOf(a)') <= Cardinality(MentionedBy(a)) 
               /\ Cardinality(SharedOf(a)') \in Nat
    <3>1. SharedOf(a)' = IF found[k] \in MentionedBy(a) THEN SharedOf(a) \cup {found[k]}
                                                        ELSE SharedOf(a)
      <4>1. SharedOf(a)' = {e \in MentionedBy(a) : \E j \in 1..k : found[j] = e}
        BY <1>0, <1>1, <1>2 DEF SharedOf
      <4>2. \A j \in 1..k : j \in 1..(k - 1) \/ j = k
        BY <1>0
      <4>3. 1..(k - 1) \subseteq 1..k /\ k \in 1..k
        BY <1>0
      <4> QED
        BY <4>1, <4>2, <4>3 DEF SharedOf
    <3>2. found[k] \notin SharedOf(a)
      BY <1>0 DEF SharedOf
    <3>3. /\ IsFiniteSet(SharedOf(a)) /\ IsFiniteSet(MentionedBy(a))
          /\ Cardinality(SharedOf(a)) \in Nat
      BY SharedOfSizes
    <3>4. found[k] \in MentionedBy(a) => Cardinality(SharedOf(a)') = Cardinality(SharedOf(a)) + 1
      <4>1. Cardinality(SharedOf(a) \cup {found[k]}) = Cardinality(SharedOf(a)) + 1
        BY <3>2, <3>3, FS_AddElement
      <4> QED
        BY <3>1, <4>1
    <3>5. SharedOf(a)' \subseteq MentionedBy(a)
      <4>1. SharedOf(a) \subseteq MentionedBy(a)
        BY DEF SharedOf
      <4> QED
        BY <3>1, <4>1
    <3>6. Cardinality(SharedOf(a)') <= Cardinality(MentionedBy(a)) /\ Cardinality(SharedOf(a)') \in Nat
      BY <3>3, <3>5, FS_Subset, FS_CardinalityType
    <3>7. shared[a] <= k - 1 /\ shared[a] \in Nat
          /\ (a \in Stored => shared[a] <= Cardinality(SharedOf(a)))
      BY <1>1 DEF StrengthInv
    <3>8. ~(found[k] \in MentionedBy(a)) => SharedOf(a)' = SharedOf(a)
      BY <3>1
    <3>9. found[k] \in MentionedBy(a) \/ shared'[a] = shared[a]
      BY <1>1
    <3>10. shared'[a] \in {shared[a], shared[a] + 1}
      BY <1>1
    <3> QED
      BY <1>0, <3>3, <3>4, <3>6, <3>7, <3>8, <3>9, <3>10
  <2>2. CASE More
    <3>1. at' = "gather"
      BY <1>1, <2>2
    <3> QED
      BY <1>0, <1>1, <1>2, <2>1, <3>1 DEF StrengthInv, StrengthIsAFraction
  <2>3. CASE ~More
    <3>1. at' \in {"relate", "idle"} /\ k = Len(found)
      BY <1>0, <1>1, <2>3 DEF AfterShared, More
    <3>2. ASSUME NEW a \in Articles, a \in Stored
          PROVE  shared'[a] <= Cardinality(MentionedBy(a)')
      <4>1. shared[a] \in Nat /\ shared'[a] \in {shared[a], shared[a] + 1}
        BY <1>1, <3>2
      <4>2. Cardinality(MentionedBy(a)) \in Nat
        BY <3>2, SharedOfSizes
      <4> QED
        BY <1>2, <2>1, <3>2, <4>1, <4>2
    <3> QED
      BY <1>1, <1>2, <2>1, <3>1, <3>2 DEF StrengthInv, StrengthIsAFraction
  <2> QED
    BY <2>2, <2>3
<1>5. RelationInv'
  <2> SUFFICES ASSUME NEW a \in Stored \ failed, NEW b \in Stored \ failed, a # b
               PROVE  /\ at' = "idle" \/ subject \notin {a, b} => Cleared(a, b)'
                      /\ at' # "idle" /\ subject = a => (Linked(a, b) \/ AwaitsRelation(b))'
    BY <1>1, <1>2 DEF RelationInv
  <2>0. a \in Articles /\ b \in Articles
    BY DEF Stored
  <2>1. subject \notin {a, b} => Cleared(a, b)'
    BY <1>1, <1>2, <2>0 DEF RelationInv, Cleared
  <2>2. ASSUME NEW c \in Stored \ failed, c # subject, ~Linked(subject, c), subject \in Stored \ failed,
               NEW e \in Common(subject, c)
        PROVE  \E j \in 1..Len(found) : found[j] = e /\ (j < k + 1 => shared'[c] > 0)
    <3>1. PICK j \in 1..Len(found) : found[j] = e /\ (j < k => shared[c] > 0)
      BY <1>1, <2>2 DEF RelationInv, AwaitsRelation
    <3>2. c \in Articles /\ shared[c] \in Nat
      BY DEF Stored
    <3>3. j = k => shared'[c] = shared[c] + 1
      BY <1>1, <2>2, <3>1, <3>2 DEF Common
    <3>4. shared'[c] \in {shared[c], shared[c] + 1}
      BY <1>1, <3>2
    <3>5. j < k + 1 => shared'[c] > 0
      BY <1>0, <3>1, <3>2, <3>3, <3>4
    <3> QED
      BY <3>1, <3>5
  <2>3. ASSUME NEW c \in Stored \ failed, c # subject, ~Linked(subject, c), subject \in Stored \ failed
        PROVE  AwaitsRelation(c)' /\ (at' = "idle" => Common(subject, c) = {})
    <3>1. Common(subject, c)' = Common(subject, c)
      BY <1>1 DEF Common, MentionedBy
    <3>2. ~More => \A j \in 1..Len(found) : j < k + 1
      BY <1>0 DEF More
    <3>3. ~More => (Common(subject, c) # {} => shared'[c] > 0)
      BY <2>2, <2>3, <3>2
    <3>4. More => at' = "gather"
      BY <1>1
    <3>5. at' = "idle" => ~(shared'[c] > 0)
      BY <1>1 DEF AfterShared, Stored
    <3>6. AwaitsRelation(c)'
      BY <1>0, <1>1, <2>2, <2>3, <3>1, <3>3, <3>4 DEF AwaitsRelation, AfterShared
    <3> QED
      BY <3>3, <3>4, <3>5, <3>6
  <2>4. subject = a => (Linked(a, b) \/ AwaitsRelation(b))'
    BY <1>2, <2>0, <2>3
  <2>5. ASSUME at' = "idle", subject \in {a, b} PROVE Cleared(a, b)'
    <3>1. Linked(a, b) = Linked(b, a) /\ Common(a, b) = Common(b, a)
      BY DEF Linked, Common
    <3>2. Linked(a, b) \/ Common(a, b) = {}
      BY <2>3, <2>5, <3>1
    <3> QED
      BY <1>2, <2>0, <3>2 DEF Cleared
  <2> QED
    BY <2>1, <2>4, <2>5
<1> QED
  BY <1>3, <1>4, <1>5

(* One of them is measured.                                                  *)
LEMMA MeasureRelations ==
  ASSUME GraphInv, NEW x \in Articles, Measure(x)
  PROVE  NeverInv' /\ StrengthInv' /\ RelationInv'
<1> USE DEF GraphInv, IInv, ShapeInv, GraphTypeOK, graph
<1>1. /\ UNCHANGED <<rows, mentions, related, unread, subject, found, k, shared, failed>>
      /\ at = "relate" /\ at' = "write" /\ target' = x /\ shared[x] > 0
      /\ size' = Cardinality(MentionedBy(x))
  BY DEF Measure
<1>2. /\ \A a, b \in Articles : Linked(a, b)' = Linked(a, b) /\ Common(a, b)' = Common(a, b)
      /\ \A a \in Articles : MentionedBy(a)' = MentionedBy(a)
      /\ Stored' = Stored
  BY <1>1 DEF MentionedBy, Linked, Common, Stored
<1>3. NeverInv'
  BY <1>1, <1>2 DEF NeverInv
<1>4. StrengthInv'
  BY <1>1, <1>2 DEF StrengthInv, StrengthIsAFraction
<1>5. RelationInv'
  <2> SUFFICES ASSUME NEW a \in Stored \ failed, NEW b \in Stored \ failed, a # b
               PROVE  /\ subject \notin {a, b} => Cleared(a, b)'
                      /\ subject = a => (Linked(a, b) \/ AwaitsRelation(b))'
    BY <1>1, <1>2 DEF RelationInv
  <2>0. a \in Articles /\ b \in Articles
    BY DEF Stored
  <2>1. subject \notin {a, b} => Cleared(a, b)'
    BY <1>1, <1>2, <2>0 DEF RelationInv, Cleared
  <2>2. ASSUME subject = a, AwaitsRelation(b) PROVE AwaitsRelation(b)'
    <3>1. Common(subject, b)' = Common(subject, b)
      BY <1>1 DEF Common, MentionedBy
    <3> QED
      BY <1>1, <2>2, <3>1 DEF AwaitsRelation
  <2> QED
    BY <1>1, <1>2, <2>0, <2>1, <2>2 DEF RelationInv
<1> QED
  BY <1>3, <1>4, <1>5

(* And related.                                                              *)
LEMMA RelateRelations ==
  ASSUME GraphInv, Relate
  PROVE  NeverInv' /\ StrengthInv' /\ RelationInv'
<1> USE DEF GraphInv, IInv, ShapeInv, GraphTypeOK
<1>0. subject \in Articles /\ target \in Articles /\ Len(found) \in Nat /\ size \in Nat
      /\ shared[target] \in Nat /\ at = "write"
  BY FoundIsSeq DEF Relate, JobInv
<1> DEFINE n == Union(Len(found), size, shared[target])
           edge == Strength(shared[target], n)
<1>1. /\ UNCHANGED <<rows, mentions, unread, subject, found, k, target, size, failed>>
      /\ related' = [related EXCEPT ![<<subject, target>>] = edge]
      /\ shared' = [shared EXCEPT ![target] = 0]
      /\ at' = AfterShared /\ at' \in {"relate", "idle"}
  BY DEF Relate, AfterShared
<1>2. edge # None
  BY <1>0, EntityGraphAssumption DEF Strength, Union
<1>3. target \in Stored => edge[1] \in 1..edge[2]
  <2>1. shared[target] > 0 /\ shared[target] <= Len(found)
        /\ (target \in Stored => shared[target] <= size)
    BY <1>0 DEF StrengthInv
  <2> QED
    BY <1>0, <2>1 DEF Strength, Union
<1> HIDE DEF edge, n
<1>4. \A a, b \in Articles :
        related'[<<a, b>>] = IF a = subject /\ b = target THEN edge ELSE related[<<a, b>>]
  BY <1>0, <1>1
<1>5. /\ \A a, b \in Articles : Common(a, b)' = Common(a, b) /\ (Linked(a, b) => Linked(a, b)')
      /\ \A a \in Articles : MentionedBy(a)' = MentionedBy(a)
      /\ Stored' = Stored
  BY <1>1, <1>2, <1>4 DEF MentionedBy, Common, Stored, Linked
<1>6. related'[<<subject, target>>] # None
  BY <1>0, <1>2, <1>4
<1>7. \A a \in Articles : shared'[a] = IF a = target THEN 0 ELSE shared[a]
  BY <1>1
<1>8. NeverInv'
  <2>1. rows[subject] # "never" /\ rows[target] # "never"
    BY <1>0 DEF NeverInv
  <2> QED
    BY <1>1, <1>4, <1>5, <1>7, <2>1 DEF NeverInv, Linked
<1>9. StrengthInv'
  <2>1. StrengthIsAFraction'
    BY <1>1, <1>3, <1>4, <1>5 DEF StrengthInv, StrengthIsAFraction, Stored
  <2>2. \A a \in Articles : Cardinality(MentionedBy(a)) \in Nat
    BY SharedOfSizes
  <2>3. \A a \in Articles :
          shared'[a] <= Len(found) /\ (a \in Stored => shared'[a] <= Cardinality(MentionedBy(a)))
    BY <1>0, <1>7, <2>2 DEF StrengthInv
  <2> QED
    BY <1>1, <1>5, <2>1, <2>3 DEF StrengthInv
<1>10. RelationInv'
  <2> SUFFICES ASSUME NEW a \in Stored \ failed, NEW b \in Stored \ failed, a # b
               PROVE  /\ at' = "idle" \/ subject \notin {a, b} => Cleared(a, b)'
                      /\ at' # "idle" /\ subject = a => (Linked(a, b) \/ AwaitsRelation(b))'
    BY <1>1, <1>5 DEF RelationInv
  <2>0. a \in Articles /\ b \in Articles
    BY DEF Stored
  <2>1. subject \notin {a, b} => Cleared(a, b)'
    BY <1>0, <1>5, <2>0 DEF RelationInv, Cleared
  <2>2. ASSUME NEW c \in Stored \ failed, c # subject, subject \in Stored \ failed, ~Linked(subject, c)'
        PROVE  c # target /\ (Common(subject, c) # {} => shared'[c] > 0)
    <3>0. c \in Articles /\ Linked(subject, c)' = (related'[<<subject, c>>] # None \/ related'[<<c, subject>>] # None)
      BY <1>1, <2>2 DEF Linked, Stored
    <3>1. c # target
      BY <1>6, <2>2, <3>0
    <3>2. ~Linked(subject, c)
      BY <1>0, <1>2, <1>4, <2>2, <3>0 DEF Linked
    <3>3. AwaitsRelation(c)
      BY <1>0, <2>2, <3>2 DEF RelationInv
    <3> QED
      BY <1>0, <1>7, <3>0, <3>1, <3>3 DEF AwaitsRelation
  <2>3. subject = a => (Linked(a, b) \/ AwaitsRelation(b))'
    <3> SUFFICES ASSUME subject = a, ~Linked(subject, b)' PROVE AwaitsRelation(b)'
      BY <1>1
    <3>1. Common(subject, b)' = Common(subject, b)
      BY <1>1 DEF Common, MentionedBy
    <3> QED
      BY <1>1, <2>2, <3>1 DEF AwaitsRelation
  <2>4. ASSUME at' = "idle", subject \in {a, b} PROVE Cleared(a, b)'
    <3>1. Linked(a, b)' = Linked(b, a)' /\ Common(a, b) = Common(b, a)
      BY DEF Linked, Common
    <3>2. ~(shared'[a] > 0) /\ ~(shared'[b] > 0)
      BY <1>1, <2>0, <2>4 DEF AfterShared
    <3>3. Linked(a, b)' \/ Common(a, b) = {}
      <4>1. CASE subject = a
        <5>1. Linked(subject, b)' = Linked(a, b)'
          BY <1>1, <4>1 DEF Linked
        <5> QED
          BY <2>2, <3>2, <4>1, <5>1
      <4>2. CASE subject = b
        <5>1. Linked(subject, a)' = Linked(b, a)'
          BY <1>1, <4>2 DEF Linked
        <5> QED
          BY <2>2, <3>1, <3>2, <4>2, <5>1
      <4> QED
        BY <2>4, <4>1, <4>2
    <3> QED
      BY <1>5, <2>0, <3>3 DEF Cleared
  <2> QED
    BY <2>1, <2>3, <2>4
<1> QED
  BY <1>8, <1>9, <1>10

(* An extraction breaks off: only edges of its subject may be gone.          *)
LEMMA BreakOffRelations ==
  ASSUME GraphInv, FailExtraction \/ Crash \/ UNCHANGED graphVars
  PROVE  NeverInv' /\ StrengthInv' /\ RelationInv'
<1> USE DEF GraphInv, IInv, ShapeInv, GraphTypeOK, job, graph
<1>1. CASE BreakOff /\ (FailExtraction \/ Crash)
  <2>0. subject \in Articles /\ at # "idle" /\ at' = "idle" /\ failed' = failed \cup {subject}
    BY <1>1, FoundIsSeq DEF BreakOff
  <2>1. /\ UNCHANGED <<rows, shared, subject>> /\ unread' \subseteq unread
        /\ \A a \in Articles : /\ MentionedBy(a)' \subseteq MentionedBy(a)
                               /\ a # subject => MentionedBy(a)' = MentionedBy(a)
    BY <1>1 DEF FailExtraction, Crash, BreakOff, MentionedBy
  <2>2. \A a, b \in Articles : /\ related'[<<a, b>>] \in {related[<<a, b>>], None}
                               /\ a # subject => related'[<<a, b>>] = related[<<a, b>>]
    BY <1>1, <2>0 DEF BreakOff
  <2>3. Stored' = Stored
    BY <2>1 DEF Stored
  <2>4. NeverInv'
    BY <2>0, <2>1, <2>2 DEF NeverInv, Linked
  <2>5. StrengthInv'
    BY <2>0, <2>2, <2>3 DEF StrengthInv, StrengthIsAFraction, Stored
  <2>6. RelationInv'
    <3> SUFFICES ASSUME NEW a \in Stored \ failed', NEW b \in Stored \ failed', a # b
                 PROVE  Cleared(a, b)'
      BY <2>0, <2>3 DEF RelationInv
    <3>1. a \in Articles /\ b \in Articles /\ subject \notin {a, b} /\ Cleared(a, b)
      BY <2>0 DEF Stored, RelationInv
    <3> QED
      BY <2>1, <2>2, <3>1 DEF Cleared, Common, Linked
  <2> QED
    BY <2>4, <2>5, <2>6
<1>2. CASE ~BreakOff
  <2>1. /\ UNCHANGED <<rows, mentions, related, at, failed, subject, found, k, shared, target, size>>
        /\ unread' \subseteq unread
    BY <1>2 DEF FailExtraction, Crash, graphVars
  <2>2. /\ \A a, b \in Articles : Linked(a, b)' = Linked(a, b) /\ Common(a, b)' = Common(a, b)
        /\ \A a \in Articles : MentionedBy(a)' = MentionedBy(a) /\ SharedOf(a)' = SharedOf(a)
        /\ Stored' = Stored
    BY <2>1 DEF MentionedBy, Linked, Common, Stored, SharedOf
  <2>3. NeverInv'
    BY <2>1, <2>2 DEF NeverInv
  <2>4. StrengthInv'
    BY <2>1, <2>2 DEF StrengthInv, StrengthIsAFraction
  <2>5. RelationInv'
    <3>1. \A b \in Articles : AwaitsRelation(b)' = AwaitsRelation(b)
      BY <2>1 DEF AwaitsRelation, Common, MentionedBy
    <3>2. \A a, b \in Articles : Cleared(a, b)' = Cleared(a, b)
      BY <2>2 DEF Cleared
    <3> QED
      BY <2>1, <2>2, <3>1, <3>2 DEF RelationInv, Stored
  <2> QED
    BY <2>3, <2>4, <2>5
<1> QED
  BY <1>1, <1>2 DEF BreakOff, graphVars

THEOREM RelationInvariance == GraphSpec => []GraphInv
<1>1. GraphInit => NeverInv /\ StrengthInv /\ RelationInv
  BY DEF GraphInit, NeverInv, StrengthInv, RelationInv, Stored, MentionedBy, NoneShared, Linked,
         StrengthIsAFraction
<1>2. GraphInv /\ [GraphNext]_graphVars => NeverInv' /\ StrengthInv' /\ RelationInv'
  BY ArticleRelations, ProcessRelations, MentionRelations, GatherRelations, MeasureRelations,
     RelateRelations, BreakOffRelations DEF GraphNext
<1> QED
  BY <1>1, <1>2, Invariance, PTL DEF GraphSpec, GraphInv

(* Between extractions, stored articles that mention the same entity are     *)
(* related, but for those of which an extraction broke off.                  *)
THEOREM SharersAreRelated == GraphSpec => []SharedMentionsRelate
<1>1. GraphInv => SharedMentionsRelate
  BY DEF GraphInv, RelationInv, SharedMentionsRelate, Cleared, Common
<1> QED
  BY RelationInvariance, <1>1, PTL

(* A strength between stored articles is more than 0 and at most 1, whatever *)
(* is deleted while it is computed.                                          *)
THEOREM StrengthsAreFractions == GraphSpec => []StrengthIsAFraction
<1>1. GraphInv => StrengthIsAFraction
  BY DEF GraphInv, StrengthInv
<1> QED
  BY RelationInvariance, <1>1, PTL
============================================================================
