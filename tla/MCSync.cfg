SPECIFICATION FairSpec
CONSTANTS
  c1 = c1
  c2 = c2
  CLIs <- const_CLIs
  Registered <- const_CLIs
  Source <- const_OneSource
  Versions = {v1, v2}
  NoVersion = NoVersion
  Images <- const_Images
  Syncs = {s1, s2}
  MaxReleases = 1
INVARIANTS
  SavedIsRequested
PROPERTIES
  SeenSnapshotIsKept
  TableCatchesUp
