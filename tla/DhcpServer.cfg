SPECIFICATION Spec
CONSTANTS
  Macs = {m1, m2, m3}
  NoMac = NoMac
  MaxIp = 2
  Unit = 4
  MsWrap = 24
  LeaseTime = 5
INVARIANTS
  TypeOK
  Exclusive
  OfferSafe
SYMMETRY Symmetry
