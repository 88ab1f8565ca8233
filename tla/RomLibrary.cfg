SPECIFICATION LibrarySpec
CONSTANTS
  StorageFails = TRUE
  Spoils = 2
INVARIANTS
  StoredFilesAreWhole
  RemovalAsksAgain
PROPERTIES
  StartsFromVerifiedData
