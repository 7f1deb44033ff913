SPECIFICATION Spec
CONSTANTS
  Sources = {"s1"}
  Names = {"a.csv"}
  Bytes = {"one", "two", "dup"}
  Columns = {}
  Dates = {"d1"}
  Formats = {"csv"}
  NoDate = NoDate
  NoSource = NoSource
  NoFile = NoFile
  Torn = Torn
  Root = Root
  FormatOf <- MCFormatOf
  ParsesAs <- MCParsesAs
  Header <- MCHeader
  Ragged = {"dup"}
  OwnNames <- MCOwnNames
  MaxStamp = 3
  MaxCrashes = 2
  Recreate = FALSE
  SameSecond = FALSE
  FreeKeys = TRUE
INVARIANTS TypeOK HistoryIntact SettledSourceDescribed
PROPERTIES KeepsEveryVersion
