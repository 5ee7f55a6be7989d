SPECIFICATION FairSpec
CONSTANTS
  MinutesPerHour = 2
  HoursPerDay = 2
  DaysPerWeek = 3
  MonthsPerYear = 2
  LongestMonth = 3
  SearchDays = 25
  DaysIn <- MCDaysIn
  Weekday <- MCWeekday
  Years <- MCYears
  MinuteFields <- MCMinutes
  HourFields <- MCHours
  DomFields <- MCDoms
  MonthFields <- MCMonths
  DowFields <- MCDows
  Froms <- MCFroms
CHECK_DEADLOCK FALSE
INVARIANTS
  CronTypeOK
  FoundIsAllowed
  NothingJumpedOver
  GivesUpForGoodReason
PROPERTIES
  SearchEnds
