SPECIFICATION Spec
CONSTANTS
  Era <- MCEra
  NtpDelta <- MCNtpDelta
  DayLength <- MCDayLength
  Rules = {"NA"}
  tz <- MCNewYork
  Starts <- MCStarts
  LastYears = {2036, 2104}
INVARIANTS
  ForwardInLocalTime
