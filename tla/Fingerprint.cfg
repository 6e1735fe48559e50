\* Messages of up to five tokens, lines of a trace of up to four; two logs with
\* messages of up to two.
SPECIFICATION GroupingSpec
CONSTANTS
  Kinds <- SomeKinds
  MaxMessage = 5
  MaxLine = 4
  Services <- TwoNames
  ServiceText <- TextOfName
  Exceptions <- SomeExceptions
  Traces <- SomeTraces
  Messages <- SomeMessages
  NumLogs = 2
INVARIANTS
  ValuesDoNotSplit
  WordsSurvive
  OnlyBarsMerge
CHECK_DEADLOCK FALSE
