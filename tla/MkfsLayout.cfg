SPECIFICATION Spec
CONSTANTS
  ImageSizes <- Boundaries
  Wide <- MCWide
INVARIANT LayoutAsDocumented
