----------------------------- MODULE DhcpServer -----------------------------
(***************************************************************************)
(* The DHCP server of the access point (dhcpserver.c): a table of leases   *)
(* whose expiry keeps only the upper half of a 32-bit millisecond count,   *)
(* compared modulo the width of the counter.  A client may discover and    *)
(* request at any moment, in any order and for any address, so that lost,  *)
(* repeated and late messages are all covered.  Messages that are not      *)
(* well formed are dropped before any state changes and are left out.      *)
(***************************************************************************)
EXTENDS Integers

CONSTANTS
  Macs,       \* hardware addresses of clients
  NoMac,      \* six zero bytes
  MaxIp,      \* DHCPS_MAX_IP
  Unit,       \* 2^16, what the expiry counts in
  MsWrap,     \* 2^32, the width of cyw43_hal_ticks_ms
  LeaseTime   \* DEFAULT_LEASE_TIME_S in milliseconds

ASSUME DhcpAssumption ==
  /\ NoMac \notin Macs
  /\ MaxIp \in Nat \ {0}
  /\ Unit \in Nat \ {0} /\ MsWrap \in Nat \ {0} /\ MsWrap % Unit = 0
  /\ LeaseTime \in Nat \ {0} /\ 2 * (LeaseTime + Unit) <= MsWrap

Ips == 0 .. (MaxIp - 1)

VARIABLES
  lease,   \* dhcp_server_t.lease
  ms,      \* cyw43_hal_ticks_ms()
  reply,   \* history: the last message the server sent
  held     \* history: how much longer a client may use an address

vars == <<lease, ms, reply, held>>

NoReply == [type |-> "NONE", mac |-> NoMac, ip |-> MaxIp]

-----------------------------------------------------------------------------
Unused(i) == lease[i].mac = NoMac

(* A bug: the lower half of the expiry reads as zero. *)
MutantRoundsDown(i) ==
  (lease[i].expiry * Unit - ms) % MsWrap >= MsWrap \div 2

(* expiry << 16 | 0xffff lies before now: the 32-bit difference, taken as  *)
(* signed, is negative.                                                    *)
Expired(i) ==
  (lease[i].expiry * Unit + (Unit - 1) - ms) % MsWrap >= MsWrap \div 2

(* The loop of DHCPDISCOVER stops at the client's own entry; until then it *)
(* takes the first entry that is unused or expired.                        *)
Own(mac, i) == lease[i].mac = mac /\ \A j \in Ips : j < i => lease[j].mac # mac

Seen(mac, i) == \A j \in Ips : j <= i => lease[j].mac # mac

Takes(mac, i) ==
  /\ Seen(mac, i)
  /\ Unused(i) \/ Expired(i)
  /\ \A j \in Ips : j < i => ~Unused(j) /\ ~Expired(j)

(* A bug: the first entry is offered, whoever has it. *)
MutantOffersFirst(mac, i) == i = 0

(* The address offered: the client's own before any other. *)
Offered(mac, i) ==
  \/ Own(mac, i)
  \/ Takes(mac, i) /\ \A j \in Ips : lease[j].mac # mac

(* An expired entry is cleared when it is taken, even if the client's own  *)
(* entry is found after it.  With no address left nothing is sent.         *)
Discover(mac) ==
  /\ lease' = [i \in Ips |-> IF Takes(mac, i)
                             THEN [lease[i] EXCEPT !.mac = NoMac]
                             ELSE lease[i]]
  /\ \E i \in Ips :
       /\ Offered(mac, i)
       /\ reply' = [type |-> "OFFER", mac |-> mac, ip |-> i]
  /\ UNCHANGED <<ms, held>>

(* DHCPREQUEST: an address of another client, or outside the range, is     *)
(* ignored; otherwise the client is entered and the lease runs anew.       *)
Expiry == ((ms + LeaseTime) % MsWrap) \div Unit

(* A bug: the time is stored without the shift. *)
MutantWritesTime(mac, i) ==
  /\ lease' = [lease EXCEPT ![i] = [mac |-> mac, expiry |-> ms + LeaseTime]]
  /\ reply' = [type |-> "ACK", mac |-> mac, ip |-> i]
  /\ held' = [held EXCEPT ![mac][i] = LeaseTime]
  /\ UNCHANGED ms

Grant(mac, i) ==
  /\ lease' = [lease EXCEPT ![i] = [mac |-> mac, expiry |-> Expiry]]
  /\ reply' = [type |-> "ACK", mac |-> mac, ip |-> i]
  /\ held' = [held EXCEPT ![mac][i] = LeaseTime]
  /\ UNCHANGED ms

Request(mac, i) ==
  /\ lease[i].mac \in {mac, NoMac}
  /\ Grant(mac, i)

(* A millisecond passes for the server and for its clients. *)
Tick ==
  /\ ms' = (ms + 1) % MsWrap
  /\ held' = [m \in Macs |-> [i \in Ips |->
                IF held[m][i] > 0 THEN held[m][i] - 1 ELSE 0]]
  /\ UNCHANGED <<lease, reply>>

(* dhcp_server_init, at any moment since the clock was switched on. *)
Init ==
  /\ lease = [i \in Ips |-> [mac |-> NoMac, expiry |-> 0]]
  /\ ms \in 0 .. (MsWrap - 1)
  /\ reply = NoReply
  /\ held = [m \in Macs |-> [i \in Ips |-> 0]]

Next ==
  \/ \E mac \in Macs : Discover(mac)
  \/ \E mac \in Macs, i \in Ips : Request(mac, i)
  \/ Tick

Spec == Init /\ [][Next]_vars

-----------------------------------------------------------------------------
(* Properties. *)

(* TypeOK: the expiry fits its 16 bits. *)
TypeOK ==
  /\ lease \in [Ips -> [mac : Macs \cup {NoMac},
                        expiry : 0 .. (MsWrap \div Unit - 1)]]
  /\ ms \in 0 .. (MsWrap - 1)
  /\ reply \in [type : {"NONE", "OFFER", "ACK"}, mac : Macs \cup {NoMac},
                ip : 0 .. MaxIp]
  /\ held \in [Macs -> [Ips -> 0 .. LeaseTime]]

(* Exclusive: no address is leased to two clients at once, over any        *)
(* number of turns of the millisecond counter: the rounded, wrapped expiry *)
(* (dhcpserver.c:266-267, 314) never frees a lease that still runs.        *)
Exclusive ==
  \A m, n \in Macs, i \in Ips : held[m][i] > 0 /\ held[n][i] > 0 => m = n

(* OfferSafe: the server never offers an address that another client may   *)
(* still use (dhcpserver.c:253-280).                                       *)
OfferSafe ==
  reply.type = "OFFER" =>
    \A m \in Macs \ {reply.mac} : held[m][reply.ip] = 0
=============================================================================
