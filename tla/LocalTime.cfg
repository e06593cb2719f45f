SPECIFICATION Spec
CONSTANTS
  Era <- MCEra
  NtpDelta <- MCNtpDelta
  DayLength <- MCDayLength
  Rules = {"NONE", "NA", "EU", "AU", "NZ", "CL", "IL"}
  tz = 0
  Starts <- MCStarts
  LastYears = {2036, 2104}
INVARIANTS
  WeekdayRight  EraConverted
