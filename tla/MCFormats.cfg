SPECIFICATION Spec
CONSTANTS
  KdbxVaults <- MCKdbxVaults
  KdbxDatabases <- MCKdbxDatabases
  StreamBlock = 3
  Damaged = Damaged
  NoData = NoData
  Params <- MCParams
  Limb = 4
  AddrWords = 2
  Digest = 4
  Uppers <- MCUppers
  Lengths <- MCLengths
  Nothing = Nothing
  CsvVaults <- MCCsvVaults
  CsvTables <- MCCsvTables
  Characters <- MCCharacters
INVARIANTS
  ReadsWhatWasWritten ItemsComeBack
  RefersAsPrescribed NumbersAreExact
  CsvRoundTrip
CHECK_DEADLOCK FALSE
