SPECIFICATION Spec
CONSTANTS
  Writers = {w1, w2}
  Scans = {s1}
  Fields = {"owner", "n"}
  ann = ann
  bob = bob
  Values = {ann, bob, 1, 2}
  None = None
  Keys = {k1}
  Predicates <- MCPredicates
  Queries <- MCQueries
  Limit = 1
  Stored <- MCStored
  NewRows <- MCNewRows
  Patches <- MCPatches
  KeyOf = k1
  MaxId = 5
  MaxSeen = 6
  MaxStops = 1
INVARIANTS
  TypeOK
  PagesExact
  OneRecordPerKey
PROPERTIES
  DeletedForGood
CHECK_DEADLOCK FALSE
