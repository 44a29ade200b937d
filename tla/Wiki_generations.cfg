SPECIFICATION WikiSpec
CONSTANTS
  d1 = d1
  d2 = d2
  d3 = d3
  w1 = w1
  w2 = w2
  Docs <- MCDocs
  Workers <- MCWorkers
  Names <- MCNames
  Objects = {1, 2}
  Fragments <- MCFragments
  Similar <- MCSimilar
  MaxStores = 3
  Deletable = {d1}
  NoDoc = NoDoc
  NoPage = NoPage
  NoCompile = NoCompile
SYMMETRY WorkerSymmetry
INVARIANTS FreshWikiCoversEveryDocument PagesAreSound
PROPERTIES StoredKnowledgeIsKept
CHECK_DEADLOCK FALSE
