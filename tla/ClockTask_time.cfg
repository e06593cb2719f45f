SPECIFICATION Spec
CONSTANTS
  Servers = {s1}
  Times = {t1}
  NoTime = NoTime
  NoServer = NoServer
  MsWrap = 5
  BootMs = 1
  NtpTimeout = 1
  SyncInterval = 4
  IntervalWrap = 10
  KodLimit = 5
  WatchdogTimeout = 2
  HoldTime = 2
  Datagrams <- MCDatagrams
INVARIANTS
  TypeOK StatusTruthful TimeoutJustified PendingBounded SyncBounded
   LedTruthful
