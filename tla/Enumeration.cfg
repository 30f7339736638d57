SPECIFICATION FairSpec
CONSTANTS
  Segment <- Segments
  Order <- Objects
  EpisodeName = {"e1", "e2"}
  Manifest = "manifest"
  MaxDepth = 2
  MaxPrefixes = 4
  MaxChanges = 4
INVARIANTS TypeOK FindsWhatStays SnapshotIsWhole UnchangedHasItsManifest
 
