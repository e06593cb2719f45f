SPECIFICATION MCSpec
CONSTANTS
  Times <- MCTimes
  Synced = 3
  NtpErrors = {"NTP_DNS_ERROR", "NTP_TIMEOUT_ERROR"}
  WifiErrors = {"WIFI_AUTH_ERROR"}
  Dark = 64
  Bright = 384
  Readings = {0, 64, 200, 391}
  Patience = 60
INVARIANTS
  DigitsShown WatchdogShown Settles
PROPERTIES
  IconGoes FollowsLight
