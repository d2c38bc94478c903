CONSTANTS
  push = push  tag = tag
  Lines <- AllLines
  Imported <- AllImported
  Texts <- AllTexts
  Values <- AllValues
  Paths <- AllPaths
  Payloads <- AllPayloads
  Index <- Numerals
  Sprint <- Printed
  Marshal <- Marshalled
  IsJson <- ReadsAsJson
  Unmarshal <- Unmarshalled
  Joined <- Respaced
  Fields <- FieldsOf
  Hash <- IsHash
  Ahead <- Words
  Within <- Inside
SPECIFICATION Spec
INVARIANTS MatchConsistent DecisionKept
CHECK_DEADLOCK FALSE
