SPECIFICATION Spec
CONSTANTS
  Sources = {"s1"}
  Names = {"a.csv","w.xlsx"}
  Bytes = {"one","two","book"}
  Columns = {"amt"}
  Dates = {}
  Formats = {"csv","xlsx"}
  NoDate = NoDate
  NoSource = NoSource
  NoFile = NoFile
  Torn = Torn
  Root = Root
  FormatOf <- MCFormatOf
  ParsesAs <- MCParsesAs
  Header <- MCHeader
  Ragged = {}
  OwnNames <- MCOwnNames
  MaxStamp = 2
  MaxCrashes = 0
  Recreate = TRUE
  SameSecond = FALSE
  FreeKeys = FALSE
INVARIANTS OneCurrentFile SettledSourceDescribed KeysAreColumns
PROPERTIES EditsSurviveRefresh
