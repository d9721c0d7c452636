SPECIFICATION Spec
CONSTANTS
  Off = Off
  Repeats = 3
  Warmup = 1
  KeySets = {ka, kb}
  Nothing = Nothing
  MaxTouches = 2
  Sources = {1, 2, 3}
  InScope = {1, 2}
  Headers = {9}
  MaxEntries = 3
  Bundles = {"x", "y"}
  Tools = {"p", "q"}
  Given <- OneOrTwoTools
  Cwes = {"c1", "c2"}
  CaseLines = {2, 4}
  BadLines = {2, 3}
  GoodLines = {3, 4}
  FlawLines = {2, 3, 4}
  CaseChecks = {1}
  Matches <- FirstMatches
  Bounded = {"q"}
  MaxFindings = 2
  Lines = {1, 2}
  Columns = {1, 2}
  Checks = {1, 2}
  Severities = {1, 2}
  Reported <- SomeRecords
  MaxRecords = 2
  SectionOf <- SectionOfTwo
  MaxPin = 1
  None = None
  Places = {"in", "out"}
  TableScope = {"in"}
  Rules = {"r1", "r2"}
  CertOf <- TwoChecks
  Current = "current"
  Other = "other"
  MaxLabels = 3
INVARIANTS
  TypeOK
  ValidIsOneThing
  ColdCodebaseIsCold
  PassedRunMatchesRows
  ReportedLossesShow
  CountsAgree
  HitsAreMatched
  CommonIsCovered
  CutShortShows
  OrderStaysOut
  FileIsExact
  NoFalseAlarm
  MismatchIsDrift
PROPERTY LabelsOnlySettle
\* Every command ends.
CHECK_DEADLOCK FALSE
