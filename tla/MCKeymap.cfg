SPECIFICATION LiveSpec
CONSTANTS
  Clients = {a, b}
  Values = {v1, v2}
  Default = v1
  Migrated <- MCMigrated
  Revisions = 3
  None = None
  MaxCrashes = 1
  MaxFaults = 2
  MaxSaves = 2
INVARIANT KeymapSafety
PROPERTY NoLostUpdate
PROPERTY SavedIsStored
PROPERTY ImplementsRegister
PROPERTY VerdictComes
