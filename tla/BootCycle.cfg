SPECIFICATION FairSpec
CONSTANTS
  Configs = {c1, c2}
  NoConfig = NoConfig
  Torn = Torn
  NtpErrors <- MCNtpErrors
  Junk = "junk"
  IconInterval = 2
  ConnectTimeout = 2
  AbandonTimeout = 6
  BadAuthRetryCount = 3
  BadAuthRetryDelay = 1
  Lateness = 1
INVARIANTS
  TypeOK
  ReasonShown
  ConfigIsLastSaved
  ConnectBounded
PROPERTIES
  OffersWay
  FormTakesEffect
