SPECIFICATION FairSpec
CONSTANTS
  Fields = {f1, f2}
  Hooks = {h1, h2}
  MaxEdits = 2
INVARIANTS SavedMeansStored 
PROPERTIES FlushStores EveryEditSettles ImplementsDraftStore
