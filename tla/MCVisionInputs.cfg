CONSTANTS
  None = None
  first = first
  again = again
  changed = changed
  second = second
  movie = movie
  plain = plain
  large = large
  wide = wide
  broken = broken
  audio = audio
  empty = empty
  Feat <- Features
  PixelBytes <- Pixels
  Tokens <- Grids
  OutBytes <- Sizes
  MaxBytes = 3
  Steps <- UpToThree
  MaxItems = 2
  MaxPixelBytes = 3
  MaxTokens = 4
  Dynamic = TRUE
  Broken = {broken}
SPECIFICATION Spec
INVARIANTS
  CountIsExact
  PromptsGetTheirOwnImages
  EncodesOnlyWhatIsMissing
PROPERTY
  EvictsLeastRecentlyUsed
