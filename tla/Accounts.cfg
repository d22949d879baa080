CONSTANTS
  Names = {"alice", "Alice", "bob"}
  Fold <- Folded
  Columns <- TwoColumns
  Vals = {1, 2}
SPECIFICATION DbSpec
INVARIANTS
  DbTypeOK
  LossIsBounded
  WriterFindsRow
  RowsMatchCache
