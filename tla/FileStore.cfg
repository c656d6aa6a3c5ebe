CONSTANTS
  Names = {n1}
  Inputs <- MCInputs
  OverInputs <- MCOver
  Newline = 1
  Metas = {0, 1}
  MaxSize = 4
  NoFile = NoFile
  Threads = {t1}
  Flushers = {"periodic"}
  Entries = {1, 2}
  NoEntry = NoEntry
  PartSize = 2
  MaxBytes = 6
  MaxErrors = 1
  WriteBefore = FALSE
SPECIFICATION FairSpec

INVARIANTS OneEntryPerFile ReadsWhatWasWritten
PROPERTIES IsByteFile CacheDrains
