SPECIFICATION Spec
CONSTANTS
  Servers = {s1, s2}
  Times = {t1, t2}
  NoTime = NoTime
  NoServer = NoServer
  MsWrap = 4
  BootMs = 1
  NtpTimeout = 0
  SyncInterval = 1
  IntervalWrap = 4
  KodLimit = 2
  WatchdogTimeout = 2
  HoldTime = 1
  Datagrams <- MCDatagrams
SYMMETRY Symmetry
INVARIANTS
  NoLostUpdate FailureReasonKept
