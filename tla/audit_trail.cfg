CONSTANTS
  Infos <- TwoCalls
  Cap = 2
  MaxIssued = 4
  NoRecord = NoRecord
  LogLimit = 3
  ChartPoints = 2
  ChartTools = 1
  MaxClock = 2
SPECIFICATION TelemetrySpec
INVARIANTS EachRecordOnce LoggedInOrder ChartIsTheRecentPast FiguresFit
PROPERTIES RecordsSettle
CHECK_DEADLOCK FALSE
