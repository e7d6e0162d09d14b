\* Creates, updates and deletes overlap extractions that may break off.
\* Two stores, two nodes, three results of which two are asked for; carol owns
\* no store.
CONSTANTS
  a1 = a1  a2 = a2  a3 = a3  e1 = e1  e2 = e2
  x1 = x1  x2 = x2  x3 = x3  s1 = s1  s2 = s2  n1 = n1  n2 = n2
  alice = alice  bob = bob  carol = carol
  None = None
  Articles <- ThreeArticles
  Entities <- TwoEntities
  Lists <- SomeLists
  MaxExtractions = 3
  Ids <- ThreeIds
  Stores <- TwoStores
  StoreType <- Types
  OwnerOf <- Owners
  Users <- SomeUsers
  Nodes <- TwoNodes
  TopK = 2
  RrfK = 60
  VectorWeight = 10
  KeywordWeight = 11
  GraphWeights <- NoneOrAll
SPECIFICATION MCSpec
CHECK_DEADLOCK FALSE
SYMMETRY Interchangeable
INVARIANTS
  CountCoversMentions
  SharedMentionsRelate
  StrengthIsAFraction
  TypeOK
  AgreementIsKept
PROPERTIES
  FoundIsAnswered
