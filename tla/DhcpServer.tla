----------------------------- MODULE DhcpServer -----------------------------
(***************************************************************************)
(* The DHCP server of the access-point examples                            *)
(* (pico_w/wifi/access_point/dhcpserver): one UDP callback over a table of *)
(* DHCPS_MAX_IP leases, each a MAC and a 16-bit expiry.  The table is the  *)
(* only thing that keeps two stations from using one address.              *)
(*                                                                         *)
(* Stations are external: they follow RFC 2131 as the server relies on     *)
(* them to, that is, they match replies by transaction id and count a      *)
(* lease from the moment they SENT the request.                            *)
(*                                                                         *)
(* Time.  cyw43_hal_ticks_ms() is a 32-bit millisecond counter that wraps; *)
(* here it wraps at TickMod.  The server keeps only the high half of an    *)
(* expiry instant (>> 16, here \div Quantum) and compares with a signed    *)
(* difference.  What stations measure is a countdown, so the state stays   *)
(* finite across any number of wraps.                                      *)
(***************************************************************************)
EXTENDS Integers, FiniteSets

CONSTANTS
  Stations,     \* the MAC addresses that appear in chaddr
  NoMac,        \* the all-zeros MAC of a free lease
  MaxIp,        \* DHCPS_MAX_IP, the number of leases
  NoAddr,       \* no address / DHCP_OPT_REQUESTED_IP absent
  Foreign,      \* an address outside DHCPS_BASE_IP .. +DHCPS_MAX_IP-1 or off-subnet
  TickMod,      \* 2^32, where the tick counter wraps
  Quantum,      \* 2^16, the resolution of a stored expiry
  LeaseTime,    \* DEFAULT_LEASE_TIME_S * 1000
  Xids,         \* transaction ids a station can draw
  Remembered,   \* the addresses a station may remember from before the server started
  MaxInFlight,  \* bound: a station sends only while fewer datagrams are on the air
  Faults        \* which faults the radio has: subset of {"loss", "duplication"}

Slots == 0..(MaxIp - 1)
Addrs == Slots \cup {Foreign, NoAddr}

ASSUME StationsAssumption == NoMac \notin Stations
ASSUME MaxIpAssumption == MaxIp \in Nat \ {0}
ASSUME AddrAssumption ==
  /\ NoAddr \notin 0..(MaxIp - 1)
  /\ Foreign \notin 0..(MaxIp - 1)
  /\ NoAddr # Foreign
\* A whole number of quanta per wrap, and a lease that stays, rounded up to a
\* quantum, within the half range the signed comparison can tell apart
\* (86 400 000 + 65 536 < 2^31).
ASSUME TimeAssumption ==
  /\ TickMod \in Nat \ {0}
  /\ Quantum \in Nat \ {0}
  /\ LeaseTime \in Nat \ {0}
  /\ TickMod % Quantum = 0
  /\ 2 * (LeaseTime + Quantum) <= TickMod
ASSUME RememberedAssumption == Remembered \subseteq Addrs
ASSUME FaultsAssumption == Faults \subseteq {"loss", "duplication"}

VARIABLES
  lease,    \* dhcp_server_t.lease: slot -> [mac, expiry]
  now,      \* cyw43_hal_ticks_ms()
  net,      \* the UDP datagrams on the air
  phase,    \* station -> where its DHCP client is
  xid,      \* station -> transaction id of its current exchange
  addr,     \* station -> the address it asks for, uses, or remembers
  left      \* station -> ticks left of the lease it asked for

dhcpVars == <<lease, now, net, phase, xid, addr, left>>
serverVars == <<lease>>
stationVars == <<phase, xid, addr, left>>

Phases == {"init", "selecting", "requesting", "bound"}

Request == [type : {"DISCOVER", "REQUEST", "RELEASE"}, mac : Stations, xid : Xids, ip : Addrs]
Reply == [type : {"OFFER", "ACK"}, mac : Stations, xid : Xids, ip : Slots]
Message == Request \cup Reply

-----------------------------------------------------------------------------
(* Lease arithmetic. *)

\* The 16 bits kept of the instant a lease granted at tick t runs out:
\* (t + DEFAULT_LEASE_TIME_S * 1000) >> 16, in 32-bit arithmetic.
ExpiryOf(t) == ((t + LeaseTime) % TickMod) \div Quantum

\* expiry << 16 | 0xffff: the last tick of the quantum an expiry names.
ExpiryInstant(e) == e * Quantum + (Quantum - 1)

\* Ticks until the server lets go of slot i, as a wrapped 32-bit difference.
ServerLeft(i) == (ExpiryInstant(lease[i].expiry) - now) % TickMod

\* expiry < ticks, the comparison that ignores the wrap.
M_ExpiredUnsigned(i) == ExpiryInstant(lease[i].expiry) < now

\* (int32_t)(expiry - ticks) < 0, the signed reading of the wrapped difference.
Expired(i) == 2 * ServerLeft(i) >= TickMod

Free(i) == lease[i].mac = NoMac
OwnedBy(i, m) == lease[i].mac = m

\* The first slot with a property, as the scan over the table meets it.
IsFirst(i, S) == i \in S /\ \A j \in S : i <= j

-----------------------------------------------------------------------------
(* The datagrams left after m is delivered: a radio that duplicates may    *)
(* deliver it again.                                                       *)
AfterDelivery(m) ==
  {net \ {m}} \cup (IF "duplication" \in Faults THEN {net} ELSE {})

\* A DISCOVER scans for the station's own lease, and on the way takes the
\* first slot that is free or expired, wiping the MAC of an expired one; the
\* station's own lease wins wherever it is, but a slot wiped before it was
\* found stays wiped.  Nothing is reserved for the station by the OFFER.
ProcessDiscover(m) ==
  LET own  == {i \in Slots : OwnedBy(i, m.mac)}
      open == {i \in Slots : Free(i) \/ Expired(i)}
      offer(i) == [type |-> "OFFER", mac |-> m.mac, xid |-> m.xid, ip |-> i]
      wipe(i) == [lease EXCEPT ![i].mac = NoMac]
  IN  /\ m.type = "DISCOVER"
      /\ \E rest \in AfterDelivery(m) :
           \/ \E i \in own :
                /\ IsFirst(i, own)
                /\ net' = rest \cup {offer(i)}
                /\ \/ /\ \A k \in open : i <= k
                      /\ UNCHANGED lease
                   \/ \E k \in open :
                        /\ IsFirst(k, open) /\ k < i
                        /\ lease' = wipe(k)
           \/ \E k \in open :
                /\ own = {} /\ IsFirst(k, open)
                /\ net' = rest \cup {offer(k)}
                /\ lease' = wipe(k)
           \/ /\ own = {} /\ open = {}
              /\ net' = rest
              /\ UNCHANGED lease
      /\ UNCHANGED <<now, stationVars>>

\* Whoever has the slot.
M_GrantedUnchecked(m) ==
  /\ m.type = "REQUEST" /\ m.ip \in Slots
  /\ lease' = [lease EXCEPT ![m.ip] = [mac |-> m.mac, expiry |-> ExpiryOf(now)]]
  /\ \E rest \in AfterDelivery(m) :
       net' = rest \cup {[type |-> "ACK", mac |-> m.mac, xid |-> m.xid, ip |-> m.ip]}
  /\ UNCHANGED <<now, stationVars>>

\* A REQUEST for a slot that is the station's or nobody's takes the slot and
\* restarts its lease.
ProcessRequestGranted(m) ==
  /\ m.type = "REQUEST"
  /\ m.ip \in Slots
  /\ OwnedBy(m.ip, m.mac) \/ Free(m.ip)
  /\ lease' = [lease EXCEPT ![m.ip] = [mac |-> m.mac, expiry |-> ExpiryOf(now)]]
  /\ \E rest \in AfterDelivery(m) :
       net' = rest \cup {[type |-> "ACK", mac |-> m.mac, xid |-> m.xid, ip |-> m.ip]}
  /\ UNCHANGED <<now, stationVars>>

\* Every other datagram is dropped without an answer ("Should be NACK"): no
\* requested-ip option, an address of another network or outside the pool, an
\* address somebody else has, or a message type the switch has no case for.
ProcessIgnored(m) ==
  /\ \/ m.type = "RELEASE"
     \/ /\ m.type = "REQUEST"
        /\ m.ip \in Slots => ~ (OwnedBy(m.ip, m.mac) \/ Free(m.ip))
  /\ net' \in AfterDelivery(m)
  /\ UNCHANGED <<lease, now, stationVars>>

dhcp_server_process(m) ==
  /\ m \in net \cap Request
  /\ ProcessDiscover(m) \/ ProcessRequestGranted(m) \/ ProcessIgnored(m)

\* dhcp_server_init: the table is cleared, so every slot is free.
dhcp_server_init == lease = [i \in Slots |-> [mac |-> NoMac, expiry |-> 0]]

-----------------------------------------------------------------------------
(* The stations. *)

\* A transaction id no datagram of this station still carries.
Fresh(s, x) == \A m \in net : m.mac = s => m.xid # x

Send(s, type, x, ip) ==
  /\ Cardinality(net) < MaxInFlight
  /\ net' = net \cup {[type |-> type, mac |-> s, xid |-> x, ip |-> ip]}

\* Start, or start over after waiting too long for an answer.
Discover(s) ==
  /\ phase[s] # "bound"
  /\ \E x \in Xids :
       /\ Fresh(s, x)
       /\ xid' = [xid EXCEPT ![s] = x]
       /\ Send(s, "DISCOVER", x, NoAddr)
  /\ phase' = [phase EXCEPT ![s] = "selecting"]
  /\ left' = [left EXCEPT ![s] = 0]
  /\ UNCHANGED <<lease, now, addr>>

AcceptOffer(s, m) ==
  /\ m.type = "OFFER" /\ m.mac = s /\ m.xid = xid[s]
  /\ phase[s] = "selecting"
  /\ phase' = [phase EXCEPT ![s] = "requesting"]
  /\ addr' = [addr EXCEPT ![s] = m.ip]
  /\ left' = [left EXCEPT ![s] = LeaseTime]
  /\ \E rest \in AfterDelivery(m) :
       net' = rest \cup {[type |-> "REQUEST", mac |-> s, xid |-> m.xid, ip |-> m.ip]}
  /\ UNCHANGED <<lease, now, xid>>

AcceptAck(s, m) ==
  /\ m.type = "ACK" /\ m.mac = s /\ m.xid = xid[s]
  /\ phase[s] = "requesting"
  /\ phase' = [phase EXCEPT ![s] = "bound"]
  /\ addr' = [addr EXCEPT ![s] = m.ip]
  /\ net' \in AfterDelivery(m)
  /\ UNCHANGED <<lease, now, xid, left>>

\* A reply of an exchange the station has left, or one it does not expect.
DropReply(s, m) ==
  /\ m.mac = s
  /\ \/ m.xid # xid[s]
     \/ m.type = "OFFER" /\ phase[s] # "selecting"
     \/ m.type = "ACK" /\ phase[s] # "requesting"
  /\ net' \in AfterDelivery(m)
  /\ UNCHANGED <<lease, now, stationVars>>

ReceiveReply(s) ==
  \E m \in net \cap Reply : AcceptOffer(s, m) \/ AcceptAck(s, m) \/ DropReply(s, m)

\* No answer yet: the same datagram again, its lease counted from the first.
Retransmit(s) ==
  /\ \/ phase[s] = "selecting" /\ Send(s, "DISCOVER", xid[s], NoAddr)
     \/ phase[s] = "requesting" /\ Send(s, "REQUEST", xid[s], addr[s])
  /\ UNCHANGED <<lease, now, stationVars>>

\* INIT-REBOOT: ask for the address remembered from before.
Reboot(s) ==
  /\ addr[s] # NoAddr
  /\ \E x \in Xids :
       /\ Fresh(s, x)
       /\ xid' = [xid EXCEPT ![s] = x]
       /\ Send(s, "REQUEST", x, addr[s])
  /\ phase' = [phase EXCEPT ![s] = "requesting"]
  /\ left' = [left EXCEPT ![s] = LeaseTime]
  /\ UNCHANGED <<lease, now, addr>>

\* RENEWING: a request that names the address in ciaddr, not in the option.
Renew(s) ==
  /\ phase[s] = "bound"
  /\ Send(s, "REQUEST", xid[s], NoAddr)
  /\ UNCHANGED <<lease, now, stationVars>>

\* The station leaves, telling the server or not.
Leave(s) ==
  /\ phase[s] = "bound"
  /\ phase' = [phase EXCEPT ![s] = "init"]
  /\ left' = [left EXCEPT ![s] = 0]
  /\ Send(s, "RELEASE", xid[s], NoAddr) \/ UNCHANGED net
  /\ UNCHANGED <<lease, now, xid, addr>>

Lose(m) ==
  /\ "loss" \in Faults
  /\ net' = net \ {m}
  /\ UNCHANGED <<lease, now, stationVars>>

\* Time passes; a station stops using, or stops waiting for, what ran out.
Tick ==
  /\ now' = IF now = TickMod - 1 THEN 0 ELSE now + 1
  /\ left' = [s \in Stations |-> IF left[s] > 0 THEN left[s] - 1 ELSE 0]
  /\ phase' = [s \in Stations |->
                 IF phase[s] \in {"requesting", "bound"} /\ left[s] <= 1
                 THEN "init" ELSE phase[s]]
  /\ UNCHANGED <<lease, net, xid, addr>>

-----------------------------------------------------------------------------
DhcpInit ==
  /\ dhcp_server_init
  /\ now = 0
  /\ net = {}
  /\ phase = [s \in Stations |-> "init"]
  /\ xid \in [Stations -> Xids]
  /\ addr \in [Stations -> Remembered]
  /\ left = [s \in Stations |-> 0]

DhcpNext ==
  \/ \E m \in net : dhcp_server_process(m)
  \/ \E m \in net : Lose(m)
  \/ \E s \in Stations :
       \/ Discover(s)
       \/ ReceiveReply(s)
       \/ Retransmit(s)
       \/ Reboot(s)
       \/ Renew(s)
       \/ Leave(s)
  \/ Tick

DhcpSpec == DhcpInit /\ [][DhcpNext]_dhcpVars

-----------------------------------------------------------------------------
(* Properties. *)

DhcpTypeOK ==
  /\ lease \in [Slots -> [mac : Stations \cup {NoMac},
                         expiry : 0..(TickMod \div Quantum - 1)]]
  /\ now \in 0..(TickMod - 1)
  /\ net \subseteq Message
  /\ phase \in [Stations -> Phases]
  /\ xid \in [Stations -> Xids]
  /\ addr \in [Stations -> Addrs]
  /\ left \in [Stations -> 0..LeaseTime]

Holds(s, i) == phase[s] = "bound" /\ addr[s] = i

\* What the server has promised a station that uses, or will use, slot i.
Promised(i, s) == OwnedBy(i, s) /\ ~ Expired(i) /\ left[s] <= ServerLeft(i)

\* Two stations never use one address at a time, whatever is lost, repeated or
\* late: the point of the lease table, though an OFFER reserves nothing.
AddressExclusive ==
  \A s, t \in Stations : \A i \in Slots : Holds(s, i) /\ Holds(t, i) => s = t

\* As long as a station uses an address the table names it as the owner, and the
\* server's 16-bit idea of the lease ends no earlier than the station's own:
\* the expiry stored by dhcp_server_process is never rounded or wrapped short.
LeaseOutlivesUse ==
  \A s \in Stations : \A i \in Slots :
    Holds(s, i) => Promised(i, s)

\* An ACK is a promise that survives the flight: when the station that is still
\* waiting for it accepts it, however late, the slot is still its own for as
\* long as the station will use it.
AckPromise ==
  \A m \in net : \A s \in Stations :
    /\ m.type = "ACK" /\ m.mac = s
    /\ phase[s] = "requesting" /\ m.xid = xid[s]
    => Promised(m.ip, s)

=============================================================================
