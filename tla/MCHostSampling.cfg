CONSTANTS
  Vocab = 7
  Batches <- AllBatches
  One = 8
  Rounding = 1
  Candidates <- Sizes
  Second = 4
SPECIFICATION SamplingSpec
INVARIANTS
  DrawsAsReference
  RowsKeepTheirTemperature
