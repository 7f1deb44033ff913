--------------------------- MODULE MCSourceFiles ---------------------------
(* Small instances of SourceFiles: a source whose files are CSV and one that
   may be re-fetched as a workbook. *)
EXTENDS SourceFiles

MCFormatOf == [n \in Names |-> IF n = "w.xlsx" THEN "xlsx" ELSE "csv"]
\* A data/ name is used for one source only; the code does not see to that.
MCOwnNames == [s \in Sources |-> IF s = "s1" THEN Names \ {"b.csv"} ELSE {"b.csv"}]
MCParsesAs ==
  [c \in Bytes |-> IF c = "book" THEN {"xlsx"} ELSE {"csv"}]
MCHeader ==
  [c \in Bytes |-> Columns \cap (IF c = "two" THEN {"id", "amt"} ELSE {"id"})]
============================================================================
