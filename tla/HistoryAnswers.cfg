SPECIFICATION Spec
CONSTANTS
  MaxCommits = 3
  Versions <- SomeVersions
INVARIANT AnswersAsDocumented
