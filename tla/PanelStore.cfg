SPECIFICATION Spec
CONSTANTS
  Programs = {panel, cli}
  Panel = panel
  Workers = {g1, g2}
  Items = {x, y}
  Services = {hysteria, api}
  NoMeta = NoMeta  NoState = NoState  NoOp = NoOp  Free = Free
  PruneEvery = 2
  MaxFiles = 1
  MaxBatch = 2
  Limit <- MCLimit
  MaxFaults = 1
  MaxCrashes = 1
  FirstStartsApart = TRUE
INVARIANTS TypeOK CountersAhead SnapshotsBounded
PROPERTIES NeverOverwritten ServicesKeepNumber PruneKeepsNewest
CHECK_DEADLOCK FALSE
SYMMETRY Symmetry
