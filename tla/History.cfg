SPECIFICATION Spec
CONSTANTS
  MaxCommits = 5
  Versions <- SomeVersions
INVARIANTS
  TypeOK
  FaultNeedsFirstDeleted
  DisplayMissesLast
  InfosShowsNext
PROPERTY Implements
