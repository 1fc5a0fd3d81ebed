SPECIFICATION Spec
CONSTANTS
  ImageSizes <- Boundaries
  Wide <- MCWide
INVARIANTS
  CountsAgree
  StaysInImage
  LayoutMatches
  UsedBlocksFit
  SuccessIsComplete
