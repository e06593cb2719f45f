SPECIFICATION FairSpec
CONSTANTS
  Servers = {s1}
  Times = {t1}
  NoTime = NoTime
  NoServer = NoServer
  MsWrap = 4
  BootMs = 1
  NtpTimeout = 0
  SyncInterval = 1
  IntervalWrap = 4
  KodLimit = 2
  WatchdogTimeout = 2
  HoldTime = 1
  Datagrams <- MCAnswers
PROPERTIES
  ImplementsClock KeepsSyncing ButtonServed
