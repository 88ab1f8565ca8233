SPECIFICATION LibrarySpec
CONSTANTS
  StorageFails = FALSE
  Spoils = 2
INVARIANT
  RemovedRomIsGone
