SPECIFICATION DataSpec
CONSTANTS
  TxCallers = {t1, t2}
  TxPoolSize = 2
  TxAttempts = 2
  RowIds = {1, 2, 3, 4}
  Queries <- SomeQueries
  ServiceConds <- SomeConds
  DefaultSize = 3
  MaxSize = 3
  MaxSortFields = 2
  MaxWrites = 1
  Keys = {k1, k2}
  Actors = {a1, a2}
  NoOne = NoOne
  Bodies = {b1}
  Olds = {o1, o2}
  New = n
  Docs = {d1, d2}
  MaxIndexed = 2
  MaxMigrations = 2
  Sources <- SomeSources
  DocIds = {"a", "b"}
  NoId = "noid"
  MaxBulkAttempts = 2
  MaxSyncs = 2
  HitIds = {1, 2, 3, 4}
  DefaultHits = 3
  MaxEdits = 2
  ObjKeys = {1, 2}
  SubLevel = {2}
  UploadIds = {1, 2}
  MaxPuts = 1
  Boots = {r1, r2, r3}
  Latest = 3
  MaxRepairs = 1
  MaxFluent = 4
INVARIANTS
  TxContract
  FinderContract
  
  PagingContract
PROPERTIES
  ListContract
  
  
  StoreContract
  SchemaContract
CHECK_DEADLOCK FALSE
