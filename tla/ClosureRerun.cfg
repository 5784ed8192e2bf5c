SPECIFICATION Spec
CONSTANTS
  Blob <- MCBlob
  Base <- MCBase
  Flat <- MCFlat
  Unlisted = {5}
  Tables <- MCTables
  Baseline <- MCBaseline
  Marks = {"dash"}
  MaxEdits = 2
INVARIANT Idempotent
