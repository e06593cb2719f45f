------------------------- MODULE DhcpServer_proofs -------------------------
(***************************************************************************)
(* Proofs about DhcpServer for every number of clients and addresses and   *)
(* every width of the millisecond counter and of the rounding of leases.   *)
(***************************************************************************)
EXTENDS DhcpServer, TLAPS

(* What most proofs need of the assumption. *)
LEMMA Widths ==
  /\ MaxIp \in Nat
  /\ MsWrap \in Nat \ {0} /\ Unit \in Nat \ {0} /\ LeaseTime \in Nat \ {0}
  /\ 2 * (LeaseTime + Unit) <= MsWrap
BY DhcpAssumption

(* A number within one turn of the counter is its own remainder. *)
LEMMA ModBelow ==
  ASSUME NEW w \in Nat \ {0}, NEW a \in 0 .. (w - 1)
  PROVE  a % w = a
OBVIOUS

(* A turn above, the remainder is a turn less. *)
LEMMA ModAbove ==
  ASSUME NEW w \in Nat \ {0}, NEW a \in w .. (2 * w - 1)
  PROVE  a % w = a - w
OBVIOUS

(* A turn below, it is a turn more. *)
LEMMA ModNegative ==
  ASSUME NEW w \in Nat \ {0}, NEW a \in (-w) .. (-1)
  PROVE  a % w = a + w
OBVIOUS

(* Rounding down to a unit and filling the lower half with ones loses less *)
(* than a unit, and never moves back.                                      *)
LEMMA Rounding ==
  ASSUME NEW t \in Nat, NEW u \in Nat \ {0}
  PROVE  /\ t \div u \in Nat
         /\ (t \div u) * u + (u - 1) \in t .. (t + u - 1)
OBVIOUS

(* The expiry of a time on the counter fits its 16 bits. *)
LEMMA ExpiryFits ==
  ASSUME NEW t \in 0 .. (MsWrap - 1)
  PROVE  t \div Unit \in 0 .. (MsWrap \div Unit - 1)
BY DhcpAssumption

-----------------------------------------------------------------------------
(* The initial state is well typed. *)
LEMMA TypeInit == Init => TypeOK
BY DhcpAssumption DEF Init, TypeOK, NoReply, Ips

(* Every step keeps the types: one case per action. *)
LEMMA TypeNext == TypeOK /\ [Next]_vars => TypeOK'
<1> SUFFICES ASSUME TypeOK, [Next]_vars
             PROVE  TypeOK'
  OBVIOUS
<1> DEFINE Entry == [mac : Macs \cup {NoMac},
                     expiry : 0 .. (MsWrap \div Unit - 1)]
           Message == [type : {"NONE", "OFFER", "ACK"},
                       mac : Macs \cup {NoMac}, ip : 0 .. MaxIp]
<1>1. lease \in [Ips -> Entry] /\ held \in [Macs -> [Ips -> 0 .. LeaseTime]]
  BY DEF TypeOK
<1>2. Ips \subseteq 0 .. MaxIp
  BY Widths DEF Ips
<1>3. ASSUME NEW mac \in Macs, NEW i \in Ips, NEW type \in {"OFFER", "ACK"}
      PROVE  [type |-> type, mac |-> mac, ip |-> i] \in Message
  BY <1>2
<1>4. ASSUME NEW mac \in Macs, Discover(mac)
      PROVE  TypeOK'
  <2>1. \A i \in Ips : [lease[i] EXCEPT !.mac = NoMac] \in Entry
    BY <1>1
  <2>2. lease' \in [Ips -> Entry]
    <3> HIDE DEF Entry
    <3> QED
      BY <1>1, <1>4, <2>1 DEF Discover
  <2>3. reply' \in Message
    BY <1>3, <1>4 DEF Discover
  <2>4. QED
    BY <1>4, <2>2, <2>3 DEF Discover, TypeOK
<1>5. ASSUME NEW mac \in Macs, NEW i \in Ips, Request(mac, i)
      PROVE  TypeOK'
  <2>1. (ms + LeaseTime) % MsWrap \in 0 .. (MsWrap - 1)
    BY Widths DEF TypeOK
  <2>2. [mac |-> mac, expiry |-> Expiry] \in Entry
    BY <2>1, ExpiryFits DEF Expiry
  <2>3. lease' \in [Ips -> Entry]
    <3> HIDE DEF Entry
    <3> QED
      BY <1>1, <1>5, <2>2 DEF Request, Grant
  <2>4. held' \in [Macs -> [Ips -> 0 .. LeaseTime]]
    <3>1. LeaseTime \in 0 .. LeaseTime
      BY Widths
    <3>2. QED
      BY <1>1, <1>5, <3>1 DEF Request, Grant
  <2>5. reply' \in Message /\ ms' = ms
    BY <1>3, <1>5 DEF Request, Grant
  <2>6. QED
    BY <2>3, <2>4, <2>5 DEF TypeOK
<1>6. CASE Tick
  <2>1. held' \in [Macs -> [Ips -> 0 .. LeaseTime]]
    <3>1. \A left \in 0 .. LeaseTime :
            (IF left > 0 THEN left - 1 ELSE 0) \in 0 .. LeaseTime
      BY Widths
    <3>2. QED
      BY <1>1, <1>6, <3>1 DEF Tick
  <2>2. ms' \in 0 .. (MsWrap - 1)
    BY <1>6, Widths DEF Tick, TypeOK
  <2>3. QED
    BY <1>6, <2>1, <2>2 DEF Tick, TypeOK
<1>7. CASE UNCHANGED vars
  BY <1>7 DEF vars, TypeOK
<1>8. QED
  BY <1>4, <1>5, <1>6, <1>7 DEF Next

(* Type correctness: leases keep their 16-bit expiry and the clients hold  *)
(* no address for longer than dhcpserver.c's DEFAULT_LEASE_TIME_S.         *)
THEOREM TypeCorrect == Spec => []TypeOK
BY TypeInit, TypeNext, PTL DEF Spec
-----------------------------------------------------------------------------
(* When a client's lease ends, on the counter. *)
EndOf(left) == (ms + left) % MsWrap

(* Who may use an address is entered with it, and the expiry is the end of *)
(* that use, rounded down: the end stays where it is on the counter while  *)
(* the time left runs out.                                                 *)
HeldInv ==
  \A m \in Macs, i \in Ips :
    held[m][i] > 0 => /\ lease[i].mac = m
                      /\ lease[i].expiry = EndOf(held[m][i]) \div Unit

(* What is offered is an address of the range, and safe. *)
OfferInv ==
  /\ reply.type = "OFFER" => reply.ip \in Ips
  /\ OfferSafe

(* A millisecond later, with a millisecond less left, the end is the same. *)
LEMMA EndStays ==
  ASSUME NEW t \in 0 .. (MsWrap - 1), NEW left \in 1 .. LeaseTime
  PROVE  (((t + 1) % MsWrap) + (left - 1)) % MsWrap = (t + left) % MsWrap
<1>1. CASE t + 1 = MsWrap
  <2>1. (t + 1) % MsWrap = 0
    BY <1>1, ModAbove, Widths
  <2>2. (left - 1) % MsWrap = left - 1
    BY ModBelow, Widths
  <2>3. (t + left) % MsWrap = t + left - MsWrap
    BY <1>1, ModAbove, Widths
  <2>4. QED
    BY <1>1, <2>1, <2>2, <2>3, Widths
<1>2. CASE t + 1 # MsWrap
  <2>1. (t + 1) % MsWrap = t + 1
    BY <1>2, ModBelow, Widths
  <2>2. (t + 1) + (left - 1) = t + left
    BY Widths
  <2>3. QED
    BY <2>1, <2>2
<1>3. QED
  BY <1>1, <1>2

(* The difference of two counts is the time between them if that is not    *)
(* negative and less than a turn.                                          *)
LEMMA Ahead ==
  ASSUME NEW w \in Nat \ {0}, NEW t \in 0 .. (w - 1), NEW left \in Nat,
         NEW u \in Nat \ {0}, 2 * (left + u) <= w,
         NEW until \in (t + left) % w .. (((t + left) % w) + u - 1)
  PROVE  (until - t) % w \in left .. (left + u - 1)
<1> DEFINE end == (t + left) % w
<1>1. CASE t + left < w
  <2>1. end = t + left
    BY <1>1, ModBelow
  <2>2. until - t \in left .. (left + u - 1)
    BY <2>1
  <2>3. (until - t) % w = until - t
    <3>1. until - t \in 0 .. (w - 1)
      BY <2>2
    <3>2. QED
      BY <3>1, ModBelow
  <2>4. QED
    BY <2>2, <2>3
<1>2. CASE t + left >= w
  <2>1. end = t + left - w
    <3>1. t + left \in w .. (2 * w - 1)
      BY <1>2
    <3>2. \A a \in w .. (2 * w - 1) : a % w = a - w
      BY ModAbove
    <3>3. (t + left) % w = (t + left) - w
      BY <3>1, <3>2
    <3>4. QED
      BY <3>3
  <2>2. until - t + w \in left .. (left + u - 1)
    BY <2>1
  <2>3. (until - t) % w = until - t + w
    <3>1. until - t \in (-w) .. (-1)
      BY <2>2
    <3>2. QED
      BY <3>1, ModNegative
  <2>4. QED
    BY <2>2, <2>3
<1>3. QED
  BY <1>1, <1>2

(* Less than half a turn is not negative as a signed number. *)
LEMMA NotNegative ==
  ASSUME NEW w \in Nat \ {0}, NEW a \in Nat, 2 * (a + 1) <= w
  PROVE  ~(a >= w \div 2)
OBVIOUS

(* An entry whose rounded expiry lies ahead by at most a lease is not      *)
(* expired, wherever the counter stands: filling the lower half with ones  *)
(* makes up for the rounding, and a lease is too short for the difference  *)
(* to look negative.                                                       *)
LEMMA AheadNotExpired ==
  ASSUME NEW t \in 0 .. (MsWrap - 1), NEW left \in 1 .. LeaseTime
  PROVE  ~(((((t + left) % MsWrap) \div Unit) * Unit + (Unit - 1) - t) % MsWrap
             >= MsWrap \div 2)
<1> DEFINE end == (t + left) % MsWrap
           until == (end \div Unit) * Unit + (Unit - 1)
<1>1. end \in 0 .. (MsWrap - 1)
  BY Widths
<1>2. until \in end .. (end + Unit - 1)
  <2> HIDE DEF end
  <2> QED
    BY <1>1, Rounding, Widths
<1>3. 2 * (left + Unit) <= MsWrap
  BY Widths
<1>4. (until - t) % MsWrap \in left .. (left + Unit - 1)
  <2> HIDE DEF until
  <2> QED
    BY <1>2, <1>3, Ahead, Widths
<1>5. 2 * (((until - t) % MsWrap) + 1) <= MsWrap /\ (until - t) % MsWrap \in Nat
  <2> HIDE DEF until
  <2> QED
    BY <1>3, <1>4, Widths
<1>6. QED
  BY <1>5, NotNegative, Widths

(* So an address in use is neither unused nor expired. *)
LEMMA InUse ==
  ASSUME TypeOK, HeldInv, NEW m \in Macs, NEW i \in Ips, held[m][i] > 0
  PROVE  lease[i].mac = m /\ ~Unused(i) /\ ~Expired(i)
<1>1. held[m][i] \in 1 .. LeaseTime
  BY Widths DEF TypeOK
<1>2. lease[i].mac = m /\ lease[i].expiry = ((ms + held[m][i]) % MsWrap) \div Unit
  BY DEF HeldInv, EndOf
<1>3. ~Unused(i)
  BY <1>2, DhcpAssumption DEF Unused
<1>4. ~Expired(i)
  <2>1. ms \in 0 .. (MsWrap - 1)
    BY DEF TypeOK
  <2>2. ~(((((ms + held[m][i]) % MsWrap) \div Unit) * Unit + (Unit - 1) - ms)
            % MsWrap >= MsWrap \div 2)
    BY <1>1, <2>1, AheadNotExpired
  <2>3. QED
    BY <1>2, <2>2, Zenon DEF Expired
<1>5. QED
  BY <1>2, <1>3, <1>4

-----------------------------------------------------------------------------
(* At first nobody holds an address. *)
LEMMA LeaseInit == Init => HeldInv /\ OfferInv
BY DEF Init, HeldInv, OfferInv, OfferSafe, NoReply

(* A discover clears only an entry that nobody uses, and offers the        *)
(* client's own address or one that nobody uses.                           *)
LEMMA DiscoverKeeps ==
  ASSUME TypeOK, HeldInv, NEW mac \in Macs, Discover(mac)
  PROVE  HeldInv' /\ OfferInv'
<1>1. ASSUME NEW m \in Macs, NEW i \in Ips, held[m][i] > 0
      PROVE  lease'[i] = lease[i]
  <2>1. ~Takes(mac, i)
    BY <1>1, InUse DEF Takes
  <2>2. QED
    BY <2>1 DEF Discover
<1>2. HeldInv'
  <2> SUFFICES ASSUME NEW m \in Macs, NEW i \in Ips, held'[m][i] > 0
               PROVE  /\ lease'[i].mac = m
                      /\ lease'[i].expiry = (EndOf(held[m][i]) \div Unit)'
    BY DEF HeldInv
  <2>1. held' = held /\ ms' = ms
    BY DEF Discover
  <2>2. held[m][i] > 0
    BY <2>1
  <2>3. lease'[i] = lease[i]
    BY <1>1, <2>2
  <2>4. EndOf(held[m][i])' = EndOf(held[m][i])
    BY <2>1 DEF EndOf
  <2>5. lease[i].mac = m /\ lease[i].expiry = EndOf(held[m][i]) \div Unit
    BY <2>2 DEF HeldInv
  <2>6. QED
    BY <2>3, <2>4, <2>5
<1>3. OfferInv'
  <2>1. PICK ip \in Ips : /\ Offered(mac, ip)
                          /\ reply' = [type |-> "OFFER", mac |-> mac, ip |-> ip]
    BY DEF Discover
  <2>2. ASSUME NEW m \in Macs \ {mac}
        PROVE  held[m][ip] = 0
    <3>1. ~(held[m][ip] > 0)
      BY <2>1, InUse DEF Offered, Own, Takes
    <3>2. held[m][ip] \in Nat
      BY Widths DEF TypeOK
    <3>3. QED
      BY <3>1, <3>2
  <2>3. QED
    BY <2>1, <2>2 DEF OfferInv, OfferSafe, Discover
<1>4. QED
  BY <1>2, <1>3

(* A request is granted only for an entry nobody else has. *)
LEMMA RequestKeeps ==
  ASSUME TypeOK, HeldInv, NEW mac \in Macs, NEW ip \in Ips, Request(mac, ip)
  PROVE  HeldInv' /\ OfferInv'
<1>1. OfferInv'
  BY DEF Request, Grant, OfferInv, OfferSafe
<1>2. HeldInv'
  <2> SUFFICES ASSUME NEW m \in Macs, NEW i \in Ips, held'[m][i] > 0
               PROVE  /\ lease'[i].mac = m
                      /\ lease'[i].expiry = (EndOf(held[m][i]) \div Unit)'
    BY DEF HeldInv
  <2>1. ms' = ms /\ held' = [held EXCEPT ![mac][ip] = LeaseTime]
        /\ lease' = [lease EXCEPT ![ip] = [mac |-> mac, expiry |-> Expiry]]
    BY DEF Request, Grant
  <2>2. CASE i = ip /\ m = mac
    <3>1. held'[m][i] = LeaseTime
      BY <2>1, <2>2 DEF TypeOK
    <3>2. lease'[i] = [mac |-> mac, expiry |-> Expiry]
      BY <2>1, <2>2 DEF TypeOK
    <3>3. EndOf(held[m][i])' = (ms + LeaseTime) % MsWrap
      BY <2>1, <3>1 DEF EndOf
    <3>4. QED
      BY <2>2, <3>2, <3>3 DEF Expiry
  <2>3. CASE ~(i = ip /\ m = mac)
    <3>1. held'[m][i] = held[m][i]
      BY <2>1, <2>3 DEF TypeOK
    <3>2. lease[i].mac = m /\ lease[i].expiry = EndOf(held[m][i]) \div Unit
      BY <3>1 DEF HeldInv
    <3>3. i # ip
      BY <2>3, <3>1, <3>2, InUse DEF Request, Unused
    <3>4. lease'[i] = lease[i]
      BY <2>1, <3>3 DEF TypeOK
    <3>5. EndOf(held[m][i])' = EndOf(held[m][i])
      BY <2>1, <3>1 DEF EndOf
    <3>6. QED
      BY <3>2, <3>4, <3>5
  <2>4. QED
    BY <2>2, <2>3
<1>3. QED
  BY <1>1, <1>2

(* Time runs for the server and for the clients alike. *)
LEMMA TickKeeps ==
  ASSUME TypeOK, HeldInv, OfferInv, Tick
  PROVE  HeldInv' /\ OfferInv'
<1>1. \A m \in Macs, i \in Ips :
        held'[m][i] = IF held[m][i] > 0 THEN held[m][i] - 1 ELSE 0
  BY DEF Tick
<1>2. \A m \in Macs, i \in Ips : held[m][i] \in 0 .. LeaseTime
  BY DEF TypeOK
<1>3. HeldInv'
  <2> SUFFICES ASSUME NEW m \in Macs, NEW i \in Ips, held'[m][i] > 0
               PROVE  /\ lease'[i].mac = m
                      /\ lease'[i].expiry = (EndOf(held[m][i]) \div Unit)'
    BY DEF HeldInv
  <2>1. held[m][i] \in 1 .. LeaseTime /\ held'[m][i] = held[m][i] - 1
    BY <1>1, <1>2, Widths
  <2>2. lease[i].mac = m /\ lease[i].expiry = EndOf(held[m][i]) \div Unit
    BY <2>1 DEF HeldInv
  <2>3. EndOf(held[m][i])' = EndOf(held[m][i])
    <3>1. EndOf(held[m][i])' = (((ms + 1) % MsWrap) + (held[m][i] - 1)) % MsWrap
      BY <2>1 DEF EndOf, Tick
    <3>2. ms \in 0 .. (MsWrap - 1)
      BY DEF TypeOK
    <3>3. QED
      BY <2>1, <3>1, <3>2, EndStays DEF EndOf
  <2>4. lease' = lease
    BY DEF Tick
  <2>5. QED
    BY <2>2, <2>3, <2>4
<1>4. OfferInv'
  <2>1. reply' = reply
    BY DEF Tick
  <2>2. ASSUME reply.type = "OFFER", NEW m \in Macs \ {reply.mac}
        PROVE  held'[m][reply.ip] = 0
    <3>1. reply.ip \in Ips /\ held[m][reply.ip] = 0
      BY <2>2 DEF OfferInv, OfferSafe
    <3>2. QED
      BY <1>1, <3>1
  <2>3. QED
    BY <2>1, <2>2 DEF OfferInv, OfferSafe
<1>5. QED
  BY <1>3, <1>4

(* The inductive invariant. *)
LeaseInv == TypeOK /\ HeldInv /\ OfferInv

(* The inductive invariant holds in every reachable state. *)
LEMMA LeaseAlways == Spec => []LeaseInv
<1>1. Init => LeaseInv
  BY TypeInit, LeaseInit DEF LeaseInv
<1>2. LeaseInv /\ [Next]_vars => LeaseInv'
  <2> SUFFICES ASSUME LeaseInv, [Next]_vars
               PROVE  LeaseInv'
    OBVIOUS
  <2>1. TypeOK'
    BY TypeNext DEF LeaseInv
  <2>2. ASSUME NEW mac \in Macs, Discover(mac)
        PROVE  HeldInv' /\ OfferInv'
    BY <2>2, DiscoverKeeps DEF LeaseInv
  <2>3. ASSUME NEW mac \in Macs, NEW i \in Ips, Request(mac, i)
        PROVE  HeldInv' /\ OfferInv'
    BY <2>3, RequestKeeps DEF LeaseInv
  <2>4. CASE Tick
    BY <2>1, <2>4, TickKeeps DEF LeaseInv
  <2>5. CASE UNCHANGED vars
    BY <2>1, <2>5 DEF vars, LeaseInv, HeldInv, OfferInv, OfferSafe, EndOf
  <2>6. QED
    BY <2>1, <2>2, <2>3, <2>4, <2>5 DEF Next, LeaseInv
<1>3. QED
  BY <1>1, <1>2, PTL DEF Spec

(* No two clients hold one address, however the 32-bit millisecond counter *)
(* turns and the 16-bit expiry of dhcpserver.c is rounded, as long as a    *)
(* lease and a unit are at most half a turn.                               *)
THEOREM LeasesExclusive == Spec => []Exclusive
<1>1. LeaseInv => Exclusive
  BY DEF LeaseInv, HeldInv, Exclusive
<1>2. QED
  BY LeaseAlways, <1>1, PTL

(* DHCPDISCOVER never offers an address another client still uses, and     *)
(* time cannot make an offer unsafe.                                       *)
THEOREM OffersSafe == Spec => []OfferSafe
<1>1. LeaseInv => OfferSafe
  BY DEF LeaseInv, OfferInv
<1>2. QED
  BY LeaseAlways, <1>1, PTL
=============================================================================
