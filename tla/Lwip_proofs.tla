---------------------------- MODULE Lwip_proofs ----------------------------
(***************************************************************************)
(* The three programs that keep state over lwIP.                           *)
(*                                                                         *)
(* The DHCP server, for every number of stations and slots, every tick     *)
(* width, quantum and lease time the code's constants could have, and a    *)
(* radio that may lose and repeat datagrams: the lease table is well       *)
(* typed, an address has at most one user, a lease outlives its use and an *)
(* ACK is a promise kept.                                                  *)
(*                                                                         *)
(* The NTP client, for every width of the seconds and every bound on what  *)
(* is under way: the types, and the time reported, however late the        *)
(* answers are; and, when no answer outlives its request, that one worker  *)
(* is scheduled at any time and the hard_asserts hold.                     *)
(*                                                                         *)
(* The MQTT client, for every number of messages and temperatures: its     *)
(* count of subscriptions is never negative, whatever lwIP has room for;   *)
(* and, when commands come one at a time, the broker knows what the LED    *)
(* shows if there is room for two requests, and the count is right if      *)
(* there is room for five.                                                 *)
(***************************************************************************)
EXTENDS DhcpServer, NtpClient, MqttClient,
        FunctionTheorems, FiniteSetTheorems, SequenceTheorems, TLAPS

-----------------------------------------------------------------------------
(* The DHCP server: arithmetic of wrapped instants. *)

LEMMA ModSmall ==
  ASSUME NEW m \in Nat \ {0}, NEW a \in Int, 0 <= a, a < m
  PROVE  a % m = a
OBVIOUS

LEMMA ModBelow ==
  ASSUME NEW m \in Nat \ {0}, NEW a \in Int, 0 - m <= a, a < 0
  PROVE  a % m = a + m
OBVIOUS

LEMMA ModAbove ==
  ASSUME NEW m \in Nat \ {0}, NEW a \in Int, m <= a, a < m + m
  PROVE  a % m = a - m
OBVIOUS

LEMMA DivBounds ==
  ASSUME NEW q \in Nat \ {0}, NEW a \in Nat
  PROVE  a \div q \in Nat /\ q * (a \div q) <= a /\ a < q * (a \div q) + q
OBVIOUS

LEMMA MulStep ==
  ASSUME NEW q \in Nat \ {0}, NEW a \in Int, NEW b \in Int, a < b
  PROVE  q * a + q <= q * b
OBVIOUS

\* A quantum that starts below a multiple of q ends at or below it.
LEMMA QuantumFits ==
  ASSUME NEW q \in Nat \ {0}, NEW t \in Nat, t % q = 0, NEW r \in Nat, r < t
  PROVE  r \div q < t \div q /\ q * (r \div q) + q <= t
<1>1. t = q * (t \div q)
  BY SMT
<1>2. r \div q < t \div q
  BY DivBounds, <1>1
<1> QED
  BY <1>1, <1>2, MulStep, DivBounds

\* Where t's lease ends: an expiry in range, whose instant lies in the tick
\* range, at most a quantum past the wrapped end of the lease.
LEMMA ExpiryRange ==
  ASSUME NEW t \in 0..(TickMod - 1)
  PROVE  /\ ExpiryOf(t) \in 0..(TickMod \div Quantum - 1)
         /\ ExpiryInstant(ExpiryOf(t)) \in 0..(TickMod - 1)
         /\ (t + LeaseTime) % TickMod <= ExpiryInstant(ExpiryOf(t))
         /\ ExpiryInstant(ExpiryOf(t)) < ((t + LeaseTime) % TickMod) + Quantum
<1> DEFINE r == (t + LeaseTime) % TickMod
<1>1. r \in Nat /\ r < TickMod
  BY TimeAssumption
<1>2. r \div Quantum < TickMod \div Quantum /\ Quantum * (r \div Quantum) + Quantum <= TickMod
  BY <1>1, QuantumFits, TimeAssumption
<1>3. r \div Quantum \in Nat /\ Quantum * (r \div Quantum) <= r /\ r < Quantum * (r \div Quantum) + Quantum
  BY <1>1, DivBounds, TimeAssumption
<1>4. TickMod \div Quantum \in Nat
  BY DivBounds, TimeAssumption
<1>5. ExpiryOf(t) = r \div Quantum
  BY DEF ExpiryOf
<1>6. ExpiryInstant(ExpiryOf(t)) = Quantum * (r \div Quantum) + (Quantum - 1)
  BY <1>3, <1>5, TimeAssumption DEF ExpiryInstant
<1> HIDE DEF r
<1> QED
  BY <1>1, <1>2, <1>3, <1>4, <1>5, <1>6, TimeAssumption DEF r

\* A lease granted now lasts at least LeaseTime and stays within the half range
\* the signed comparison can tell apart.
LEMMA GrantedLeft ==
  ASSUME NEW t \in 0..(TickMod - 1)
  PROVE  /\ (ExpiryInstant(ExpiryOf(t)) - t) % TickMod \in Nat
         /\ LeaseTime <= (ExpiryInstant(ExpiryOf(t)) - t) % TickMod
         /\ 2 * ((ExpiryInstant(ExpiryOf(t)) - t) % TickMod) < TickMod
<1> DEFINE e == ExpiryInstant(ExpiryOf(t))
           r == (t + LeaseTime) % TickMod
<1>1. e \in 0..(TickMod - 1) /\ r <= e /\ e < r + Quantum
  BY ExpiryRange
<1>2. TickMod \in Nat \ {0} /\ Quantum \in Nat \ {0} /\ LeaseTime \in Nat \ {0}
      /\ 2 * (LeaseTime + Quantum) <= TickMod
  BY TimeAssumption
<1>3. CASE t + LeaseTime < TickMod
  <2>1. r = t + LeaseTime
    BY <1>2, <1>3, ModSmall
  <2> HIDE DEF r, e
  <2>2. (e - t) % TickMod = e - t
    BY <1>1, <1>2, <2>1, ModSmall
  <2> QED
    BY <1>1, <1>2, <2>1, <2>2 DEF e
<1>4. CASE TickMod <= t + LeaseTime
  <2> DEFINE s == t + LeaseTime
  <2>1. s \in Int /\ TickMod <= s /\ s < TickMod + TickMod
    BY <1>2, <1>4
  <2>2. s % TickMod = s - TickMod
    <3> HIDE DEF s
    <3> QED BY <1>2, <2>1, ModAbove
  <2>3. r = t + LeaseTime - TickMod
    BY <1>2, <2>2
  <2> HIDE DEF r, e
  <2>4. (e - t) % TickMod = e - t + TickMod
    BY <1>1, <1>2, <2>3, ModBelow
  <2> QED
    BY <1>1, <1>2, <2>3, <2>4 DEF e
<1> QED
  BY <1>2, <1>3, <1>4

\* One tick takes one from a wrapped distance that is not zero.
LEMMA TickDistance ==
  ASSUME NEW e \in 0..(TickMod - 1), NEW t \in 0..(TickMod - 1),
         NEW u, u = IF t = TickMod - 1 THEN 0 ELSE t + 1,
         0 < (e - t) % TickMod
  PROVE  (e - u) % TickMod = ((e - t) % TickMod) - 1
<1>1. TickMod \in Nat \ {0}
  BY TimeAssumption
<1>2. CASE t < e
  BY <1>1, <1>2, ModSmall
<1>3. CASE t = e
  BY <1>1, <1>3, ModSmall
<1>4. CASE e < t /\ t # TickMod - 1
  BY <1>1, <1>4, ModBelow
<1>5. CASE e < t /\ t = TickMod - 1
  BY <1>1, <1>5, ModBelow, ModSmall
<1> QED
  BY <1>1, <1>2, <1>3, <1>4, <1>5

-----------------------------------------------------------------------------
(* The DHCP server: type correctness. *)

LEMMA TypeInit == DhcpInit => DhcpTypeOK
<1> SUFFICES ASSUME DhcpInit PROVE DhcpTypeOK
  OBVIOUS
<1>1. 0 \in 0..(TickMod \div Quantum - 1)
  BY QuantumFits, DivBounds, TimeAssumption
<1> QED
  BY <1>1, TimeAssumption, RememberedAssumption
  DEF DhcpInit, dhcp_server_init, DhcpTypeOK, Phases, Message

LEMMA RestIsSubset ==
  ASSUME NEW m, NEW rest \in AfterDelivery(m)
  PROVE  rest \subseteq net
BY DEF AfterDelivery

LEMMA TypeStep == DhcpTypeOK /\ [DhcpNext]_dhcpVars => DhcpTypeOK'
<1> SUFFICES ASSUME DhcpTypeOK, [DhcpNext]_dhcpVars PROVE DhcpTypeOK'
  OBVIOUS
<1> USE DEF DhcpTypeOK, Message
<1>1. ASSUME NEW m \in net, dhcp_server_process(m) PROVE DhcpTypeOK'
  <2>0. m \in Request /\ m \in net
    BY <1>1 DEF dhcp_server_process
  <2>1. CASE ProcessDiscover(m)
    <3>1. PICK rest \in AfterDelivery(m) :
            /\ \/ net' = rest
               \/ \E i \in Slots : net' = rest \cup
                    {[type |-> "OFFER", mac |-> m.mac, xid |-> m.xid, ip |-> i]}
            /\ \/ lease' = lease
               \/ \E k \in Slots : lease' = [lease EXCEPT ![k].mac = NoMac]
      BY <2>1 DEF ProcessDiscover
    <3>2. net' \subseteq Message
      BY <3>1, <2>0, RestIsSubset DEF Request, Reply
    <3> QED
      BY <3>1, <3>2, <2>1 DEF ProcessDiscover, stationVars
  <2>2. CASE ProcessRequestGranted(m)
    <3>1. net' \subseteq Message
      BY <2>0, <2>2, RestIsSubset DEF ProcessRequestGranted, Request, Reply
    <3>2. ExpiryOf(now) \in 0..(TickMod \div Quantum - 1)
      BY ExpiryRange
    <3>3. lease' \in [Slots -> [mac : Stations \cup {NoMac}, expiry : 0..(TickMod \div Quantum - 1)]]
      BY <2>0, <2>2, <3>2 DEF ProcessRequestGranted, Request
    <3> QED
      BY <2>2, <3>1, <3>3 DEF ProcessRequestGranted, stationVars
  <2>3. CASE ProcessIgnored(m)
    BY <2>3, RestIsSubset DEF ProcessIgnored, stationVars
  <2> QED
    BY <1>1, <2>1, <2>2, <2>3 DEF dhcp_server_process
<1>2. ASSUME NEW m \in net, Lose(m) PROVE DhcpTypeOK'
  BY <1>2 DEF Lose, stationVars
<1>3. ASSUME NEW s \in Stations, Discover(s) PROVE DhcpTypeOK'
  BY <1>3, TimeAssumption DEF Discover, Send, Phases, Request, Addrs
<1>4. ASSUME NEW s \in Stations, ReceiveReply(s) PROVE DhcpTypeOK'
  <2>1. PICK m \in net \cap Reply : AcceptOffer(s, m) \/ AcceptAck(s, m) \/ DropReply(s, m)
    BY <1>4 DEF ReceiveReply
  <2>2. CASE AcceptOffer(s, m)
    BY <2>1, <2>2, RestIsSubset, TimeAssumption DEF AcceptOffer, Phases, Request, Reply, Addrs
  <2>3. CASE AcceptAck(s, m)
    BY <2>1, <2>3, RestIsSubset DEF AcceptAck, Phases, Reply, Addrs
  <2>4. CASE DropReply(s, m)
    BY <2>4, RestIsSubset DEF DropReply, stationVars
  <2> QED
    BY <2>1, <2>2, <2>3, <2>4
<1>5. ASSUME NEW s \in Stations, Retransmit(s) PROVE DhcpTypeOK'
  BY <1>5 DEF Retransmit, Send, Request, stationVars, Addrs
<1>6. ASSUME NEW s \in Stations, Reboot(s) PROVE DhcpTypeOK'
  BY <1>6, TimeAssumption DEF Reboot, Send, Phases, Request
<1>7. ASSUME NEW s \in Stations, Renew(s) PROVE DhcpTypeOK'
  BY <1>7 DEF Renew, Send, Request, stationVars, Addrs
<1>8. ASSUME NEW s \in Stations, Leave(s) PROVE DhcpTypeOK'
  BY <1>8, TimeAssumption DEF Leave, Send, Request, Phases, Addrs
<1>9. CASE Tick
  BY <1>9, TimeAssumption DEF Tick, Phases
<1>10. CASE UNCHANGED dhcpVars
  BY <1>10 DEF dhcpVars
<1> QED
  BY <1>1, <1>2, <1>3, <1>4, <1>5, <1>6, <1>7, <1>8, <1>9, <1>10 DEF DhcpNext

\* The lease table, the tick counter, the datagrams and the stations' state keep
\* their types: in particular the expiry dhcp_server_process stores always fits
\* the 16 bits of dhcp_server_lease_t.
THEOREM DhcpTypeCorrect == DhcpSpec => []DhcpTypeOK
BY TypeInit, TypeStep, PTL DEF DhcpSpec

-----------------------------------------------------------------------------
(* The DHCP server: safety.  What a station holds, and what an ACK on its    *)
(* way to it says, are kept by the same two facts about exchanges: a station *)
(* that requests or uses an address has lease time left, and a station still *)
(* collecting offers has never asked for an address in its current exchange. *)

LeaseRunning ==
  \A s \in Stations : phase[s] \in {"requesting", "bound"} => 0 < left[s]

NothingRequestedYet ==
  \A m \in net : \A s \in Stations :
    phase[s] = "selecting" /\ m.mac = s /\ m.xid = xid[s]
    => m.type \in {"DISCOVER", "OFFER"}

IInv ==
  /\ DhcpTypeOK
  /\ LeaseOutlivesUse
  /\ AckPromise
  /\ LeaseRunning
  /\ NothingRequestedYet

\* A stored expiry names an instant of the tick counter.
LEMMA InstantInRange ==
  ASSUME NEW x \in 0..(TickMod \div Quantum - 1)
  PROVE  ExpiryInstant(x) \in 0..(TickMod - 1)
<1> DEFINE n == TickMod \div Quantum
<1>1. n \in Nat /\ Quantum * n <= TickMod /\ Quantum \in Nat \ {0} /\ TickMod \in Nat
  BY DivBounds, TimeAssumption
<1> HIDE DEF n
<1>2. x \in Nat /\ x < n
  BY <1>1 DEF n
<1>3. Quantum * x + Quantum <= Quantum * n
  BY <1>1, <1>2, MulStep
<1>4. Quantum * x \in Nat /\ Quantum * n \in Nat
  BY <1>1, <1>2
<1>5. ExpiryInstant(x) = Quantum * x + (Quantum - 1)
  BY <1>1, <1>2 DEF ExpiryInstant
<1> QED
  BY <1>1, <1>3, <1>4, <1>5

\* A running promise survives one tick: both sides lose one.
LEMMA PromiseTicks ==
  ASSUME DhcpTypeOK, Tick, NEW i \in Slots, NEW s \in Stations,
         Promised(i, s), 0 < left[s]
  PROVE  Promised(i, s)'
<1> DEFINE e == ExpiryInstant(lease[i].expiry)
<1>1. e \in 0..(TickMod - 1)
  BY InstantInRange DEF DhcpTypeOK
<1>2. now \in 0..(TickMod - 1) /\ left[s] \in Nat /\ left'[s] = left[s] - 1
  BY TimeAssumption DEF DhcpTypeOK, Tick
<1>3. (e - now) % TickMod = ServerLeft(i) /\ (e - now') % TickMod = ServerLeft(i)'
  BY DEF ServerLeft, Tick, ExpiryInstant
<1>4. ServerLeft(i) \in Nat
  <2> HIDE DEF e
  <2> QED BY <1>1, <1>2, <1>3, TimeAssumption
<1>5. 0 < ServerLeft(i)
  BY <1>2, <1>4 DEF Promised
<1>6. ServerLeft(i)' = ServerLeft(i) - 1
  <2>1. now' = IF now = TickMod - 1 THEN 0 ELSE now + 1
    BY DEF Tick
  <2> HIDE DEF e
  <2> QED BY <1>1, <1>2, <1>3, <1>5, <2>1, TickDistance
<1>7. OwnedBy(i, s)'
  BY DEF Promised, OwnedBy, Tick
<1>8. ~ Expired(i)' /\ left'[s] <= ServerLeft(i)'
  BY <1>2, <1>4, <1>6, TimeAssumption DEF Promised, Expired
<1> QED
  BY <1>7, <1>8 DEF Promised

\* Handling any datagram keeps a promise: DISCOVER wipes expired slots only,
\* REQUEST is granted on the station's own slot or a free one.
LEMMA PromiseKept ==
  ASSUME DhcpTypeOK, NEW m \in net, dhcp_server_process(m),
         NEW i \in Slots, NEW s \in Stations, Promised(i, s)
  PROVE  Promised(i, s)'
<1>0. left' = left /\ now' = now /\ m \in Request
  BY DEF dhcp_server_process, ProcessDiscover, ProcessRequestGranted, ProcessIgnored, stationVars
<1>1. CASE lease' = lease
  BY <1>0, <1>1 DEF Promised, OwnedBy, Expired, ServerLeft
<1>2. CASE ProcessDiscover(m)
  <2>1. lease' = lease \/ \E k \in Slots :
            (Free(k) \/ Expired(k)) /\ lease' = [lease EXCEPT ![k].mac = NoMac]
    BY <1>2 DEF ProcessDiscover, IsFirst
  <2>2. lease'[i] = lease[i]
    BY <2>1, StationsAssumption DEF DhcpTypeOK, Promised, OwnedBy, Free
  <2> QED
    BY <1>0, <2>2 DEF Promised, OwnedBy, Expired, ServerLeft
<1>3. CASE ProcessRequestGranted(m)
  <2>1. CASE m.ip # i
    BY <1>0, <1>3, <2>1 DEF ProcessRequestGranted, Promised, OwnedBy, Expired, ServerLeft, DhcpTypeOK
  <2>2. CASE m.ip = i
    <3>1. m.mac = s
      BY <1>3, <2>2, StationsAssumption DEF ProcessRequestGranted, Promised, OwnedBy, Free
    <3>2. lease'[i] = [mac |-> s, expiry |-> ExpiryOf(now)]
      BY <1>3, <2>2, <3>1 DEF ProcessRequestGranted, DhcpTypeOK
    <3>3. ServerLeft(i)' = (ExpiryInstant(ExpiryOf(now)) - now) % TickMod
      BY <1>0, <3>2 DEF ServerLeft
    <3>4. LeaseTime <= ServerLeft(i)' /\ 2 * ServerLeft(i)' < TickMod
      BY <3>3, GrantedLeft DEF DhcpTypeOK
    <3>5. ServerLeft(i)' \in Nat
      BY <3>3, GrantedLeft DEF DhcpTypeOK
    <3> QED
      BY <1>0, <3>2, <3>4, <3>5, TimeAssumption DEF Promised, OwnedBy, Expired, DhcpTypeOK
  <2> QED
    BY <2>1, <2>2
<1>4. CASE ProcessIgnored(m)
  BY <1>1, <1>4 DEF ProcessIgnored
<1> QED
  BY <1>2, <1>3, <1>4 DEF dhcp_server_process

\* A grant puts a promise on the air that covers a whole lease.
LEMMA GrantPromises ==
  ASSUME DhcpTypeOK, NEW m \in net \cap Request, ProcessRequestGranted(m),
         NEW s \in Stations, m.mac = s
  PROVE  Promised(m.ip, s)'
<1>1. m.ip \in Slots /\ now' = now /\ left'[s] = left[s]
  BY DEF ProcessRequestGranted, stationVars
<1>2. lease'[m.ip] = [mac |-> s, expiry |-> ExpiryOf(now)]
  BY DEF ProcessRequestGranted, DhcpTypeOK
<1>3. ServerLeft(m.ip)' = (ExpiryInstant(ExpiryOf(now)) - now) % TickMod
  BY <1>1, <1>2 DEF ServerLeft
<1>4. LeaseTime <= ServerLeft(m.ip)' /\ 2 * ServerLeft(m.ip)' < TickMod
  BY <1>3, GrantedLeft DEF DhcpTypeOK
<1>5. ServerLeft(m.ip)' \in Nat
  BY <1>3, GrantedLeft DEF DhcpTypeOK
<1> QED
  BY <1>1, <1>2, <1>4, <1>5, TimeAssumption DEF Promised, OwnedBy, Expired, DhcpTypeOK

LEMMA ServerStep ==
  ASSUME IInv, NEW m \in net, dhcp_server_process(m)
  PROVE  IInv'
<1> USE DEF IInv
<1>1. DhcpTypeOK'
  BY TypeStep DEF DhcpNext
<1>2. m \in Request /\ UNCHANGED <<now, phase, xid, addr, left>>
  BY DEF dhcp_server_process, ProcessDiscover, ProcessRequestGranted, ProcessIgnored, stationVars
<1>3. ASSUME NEW a \in net', a \notin net
      PROVE  a.mac = m.mac /\ a.xid = m.xid /\ a.ip \in Slots
             /\ \/ a.type = "OFFER" /\ m.type = "DISCOVER"
                \/ a.type = "ACK" /\ m.type = "REQUEST" /\ ProcessRequestGranted(m) /\ a.ip = m.ip
  <2>1. CASE ProcessDiscover(m)
    <3>1. PICK rest \in AfterDelivery(m) :
            \/ net' = rest
            \/ \E i \in Slots : net' = rest \cup
                 {[type |-> "OFFER", mac |-> m.mac, xid |-> m.xid, ip |-> i]}
      BY <2>1 DEF ProcessDiscover
    <3> QED
      BY <1>3, <2>1, <3>1, RestIsSubset DEF ProcessDiscover
  <2>2. CASE ProcessRequestGranted(m)
    BY <1>3, <2>2, RestIsSubset DEF ProcessRequestGranted
  <2>3. CASE ProcessIgnored(m)
    BY <1>3, <2>3, RestIsSubset DEF ProcessIgnored
  <2> QED
    BY <2>1, <2>2, <2>3 DEF dhcp_server_process
<1>4. LeaseOutlivesUse'
  BY <1>2, PromiseKept DEF LeaseOutlivesUse, Holds
<1>5. AckPromise'
  <2> SUFFICES ASSUME NEW a \in net', NEW s \in Stations,
                      a.type = "ACK", a.mac = s, phase[s] = "requesting", a.xid = xid[s]
               PROVE  Promised(a.ip, s)'
    BY <1>2 DEF AckPromise
  <2>1. CASE a \in net
    <3>1. a.ip \in Slots
      BY <2>1 DEF DhcpTypeOK, Message, Request, Reply
    <3> QED
      BY <2>1, <3>1, PromiseKept DEF AckPromise
  <2>2. CASE a \notin net
    BY <1>2, <1>3, <2>2, GrantPromises
  <2> QED
    BY <2>1, <2>2
<1>6. LeaseRunning'
  BY <1>2 DEF LeaseRunning
<1>7. NothingRequestedYet'
  <2> SUFFICES ASSUME NEW a \in net', NEW s \in Stations,
                      phase[s] = "selecting", a.mac = s, a.xid = xid[s]
               PROVE  a.type \in {"DISCOVER", "OFFER"}
    BY <1>2 DEF NothingRequestedYet
  <2> QED
    BY <1>3 DEF NothingRequestedYet
<1> QED
  BY <1>1, <1>4, <1>5, <1>6, <1>7

LEMMA StationStep ==
  ASSUME IInv, NEW s \in Stations,
         \/ Discover(s) \/ ReceiveReply(s) \/ Retransmit(s)
         \/ Reboot(s) \/ Renew(s) \/ Leave(s)
  PROVE  IInv'
<1> USE DEF IInv
<1>1. DhcpTypeOK'
  BY TypeStep DEF DhcpNext
<1>2. lease' = lease /\ now' = now
  BY DEF Discover, ReceiveReply, AcceptOffer, AcceptAck, DropReply, Retransmit,
         Reboot, Renew, Leave, stationVars
<1>3. ASSUME NEW i \in Slots, NEW t \in Stations, Promised(i, t), left'[t] = left[t]
      PROVE  Promised(i, t)'
  BY <1>2, <1>3 DEF Promised, OwnedBy, Expired, ServerLeft
<1>4. \A a \in net : a.type = "ACK" => a.ip \in Slots
  BY DEF DhcpTypeOK, Message, Request, Reply
<1>5. CASE Discover(s)
  <2>1. /\ phase' = [phase EXCEPT ![s] = "selecting"]
        /\ left' = [left EXCEPT ![s] = 0] /\ addr' = addr
    BY <1>5 DEF Discover
  <2>2. PICK x \in Xids :
          /\ \A a \in net : a.mac = s => a.xid # x
          /\ xid' = [xid EXCEPT ![s] = x]
          /\ net' = net \cup {[type |-> "DISCOVER", mac |-> s, xid |-> x, ip |-> NoAddr]}
    BY <1>5 DEF Discover, Fresh, Send
  <2>3. LeaseOutlivesUse'
    BY <1>3, <2>1 DEF LeaseOutlivesUse, Holds, DhcpTypeOK
  <2>4. AckPromise'
    BY <1>3, <1>4, <2>1, <2>2 DEF AckPromise, DhcpTypeOK
  <2>5. LeaseRunning'
    BY <2>1 DEF LeaseRunning, DhcpTypeOK
  <2>6. NothingRequestedYet'
    BY <2>1, <2>2 DEF NothingRequestedYet, DhcpTypeOK
  <2> QED
    BY <1>1, <2>3, <2>4, <2>5, <2>6
<1>6. CASE ReceiveReply(s)
  <2>0. PICK m \in net \cap Reply : AcceptOffer(s, m) \/ AcceptAck(s, m) \/ DropReply(s, m)
    BY <1>6 DEF ReceiveReply
  <2>1. CASE AcceptOffer(s, m)
    <3>1. /\ phase[s] = "selecting" /\ m.xid = xid[s] /\ m.mac = s
          /\ phase' = [phase EXCEPT ![s] = "requesting"]
          /\ left' = [left EXCEPT ![s] = LeaseTime] /\ xid' = xid
          /\ addr' = [addr EXCEPT ![s] = m.ip]
      BY <2>1 DEF AcceptOffer
    <3>2. \A a \in net' : a \in net \/ a.type = "REQUEST"
      BY <2>1, RestIsSubset DEF AcceptOffer
    <3>3. LeaseOutlivesUse'
      BY <1>3, <3>1 DEF LeaseOutlivesUse, Holds, DhcpTypeOK
    <3>4. AckPromise'
      BY <1>3, <1>4, <3>1, <3>2 DEF AckPromise, NothingRequestedYet, DhcpTypeOK
    <3>5. LeaseRunning'
      BY <3>1, TimeAssumption DEF LeaseRunning, DhcpTypeOK
    <3>6. NothingRequestedYet'
      BY <3>1, <2>1, RestIsSubset DEF AcceptOffer, NothingRequestedYet, DhcpTypeOK
    <3> QED
      BY <1>1, <3>3, <3>4, <3>5, <3>6
  <2>2. CASE AcceptAck(s, m)
    <3>1. /\ phase[s] = "requesting" /\ m.xid = xid[s] /\ m.mac = s /\ m.type = "ACK"
          /\ phase' = [phase EXCEPT ![s] = "bound"]
          /\ left' = left /\ xid' = xid
          /\ addr' = [addr EXCEPT ![s] = m.ip] /\ net' \subseteq net
      BY <2>2, RestIsSubset DEF AcceptAck
    <3>2. LeaseOutlivesUse'
      <4> SUFFICES ASSUME NEW t \in Stations, NEW i \in Slots, Holds(t, i)'
                   PROVE  Promised(i, t)'
        BY DEF LeaseOutlivesUse
      <4>1. CASE t = s
        BY <1>3, <2>0, <3>1, <4>1 DEF Holds, AckPromise, DhcpTypeOK
      <4>2. CASE t # s
        BY <1>3, <3>1, <4>2 DEF Holds, LeaseOutlivesUse, DhcpTypeOK
      <4> QED
        BY <4>1, <4>2
    <3>3. AckPromise'
      BY <1>3, <1>4, <3>1 DEF AckPromise, DhcpTypeOK
    <3>4. LeaseRunning' /\ NothingRequestedYet'
      BY <3>1 DEF LeaseRunning, NothingRequestedYet, DhcpTypeOK
    <3> QED
      BY <1>1, <3>2, <3>3, <3>4
  <2>3. CASE DropReply(s, m)
    <3>1. net' \subseteq net /\ phase' = phase /\ xid' = xid /\ left' = left /\ addr' = addr
      BY <2>3, RestIsSubset DEF DropReply, stationVars
    <3> QED
      BY <1>1, <1>3, <1>4, <3>1
      DEF LeaseOutlivesUse, Holds, AckPromise, LeaseRunning, NothingRequestedYet, DhcpTypeOK
  <2> QED
    BY <2>0, <2>1, <2>2, <2>3
<1>7. CASE Retransmit(s)
  <2>1. phase' = phase /\ xid' = xid /\ left' = left /\ addr' = addr
    BY <1>7 DEF Retransmit, stationVars
  <2>2. \A a \in net' : a \in net \/ a.type = "DISCOVER"
                       \/ (a.type = "REQUEST" /\ a.mac = s /\ phase[s] = "requesting")
    <3>1. CASE phase[s] = "selecting" /\ Send(s, "DISCOVER", xid[s], NoAddr)
      BY <3>1 DEF Send
    <3>2. CASE phase[s] = "requesting" /\ Send(s, "REQUEST", xid[s], addr[s])
      BY <3>2 DEF Send
    <3> QED
      BY <1>7, <3>1, <3>2 DEF Retransmit
  <2>3. LeaseOutlivesUse' /\ LeaseRunning'
    BY <1>3, <2>1 DEF LeaseOutlivesUse, Holds, LeaseRunning, DhcpTypeOK
  <2>4. AckPromise'
    BY <1>3, <1>4, <2>1, <2>2 DEF AckPromise, DhcpTypeOK
  <2>5. NothingRequestedYet'
    BY <2>1, <2>2 DEF NothingRequestedYet, DhcpTypeOK
  <2> QED
    BY <1>1, <2>3, <2>4, <2>5
<1>8. CASE Reboot(s)
  <2>1. /\ phase' = [phase EXCEPT ![s] = "requesting"]
        /\ left' = [left EXCEPT ![s] = LeaseTime] /\ addr' = addr
    BY <1>8 DEF Reboot
  <2>2. PICK x \in Xids :
          /\ \A a \in net : a.mac = s => a.xid # x
          /\ xid' = [xid EXCEPT ![s] = x]
          /\ net' = net \cup {[type |-> "REQUEST", mac |-> s, xid |-> x, ip |-> addr[s]]}
    BY <1>8 DEF Reboot, Fresh, Send
  <2>3. LeaseOutlivesUse'
    BY <1>3, <2>1 DEF LeaseOutlivesUse, Holds, DhcpTypeOK
  <2>4. AckPromise'
    BY <1>3, <1>4, <2>1, <2>2 DEF AckPromise, DhcpTypeOK
  <2>5. LeaseRunning'
    BY <2>1, TimeAssumption DEF LeaseRunning, DhcpTypeOK
  <2>6. NothingRequestedYet'
    BY <2>1, <2>2 DEF NothingRequestedYet, DhcpTypeOK
  <2> QED
    BY <1>1, <2>3, <2>4, <2>5, <2>6
<1>9. CASE Renew(s)
  <2>1. phase' = phase /\ xid' = xid /\ left' = left /\ addr' = addr
    BY <1>9 DEF Renew, stationVars
  <2>2. \A a \in net' : a \in net \/ (a.type = "REQUEST" /\ a.mac = s /\ phase[s] = "bound")
    BY <1>9 DEF Renew, Send
  <2>3. LeaseOutlivesUse' /\ LeaseRunning'
    BY <1>3, <2>1 DEF LeaseOutlivesUse, Holds, LeaseRunning, DhcpTypeOK
  <2>4. AckPromise'
    BY <1>3, <1>4, <2>1, <2>2 DEF AckPromise, DhcpTypeOK
  <2>5. NothingRequestedYet'
    BY <2>1, <2>2 DEF NothingRequestedYet, DhcpTypeOK
  <2> QED
    BY <1>1, <2>3, <2>4, <2>5
<1>10. CASE Leave(s)
  <2>1. /\ phase' = [phase EXCEPT ![s] = "init"]
        /\ left' = [left EXCEPT ![s] = 0] /\ addr' = addr /\ xid' = xid
    BY <1>10 DEF Leave
  <2>2. \A a \in net' : a \in net \/ (a.type = "RELEASE" /\ a.mac = s)
    BY <1>10 DEF Leave, Send
  <2>3. LeaseOutlivesUse' /\ LeaseRunning'
    BY <1>3, <2>1 DEF LeaseOutlivesUse, Holds, LeaseRunning, DhcpTypeOK
  <2>4. AckPromise'
    BY <1>3, <1>4, <2>1, <2>2 DEF AckPromise, DhcpTypeOK
  <2>5. NothingRequestedYet'
    BY <2>1, <2>2 DEF NothingRequestedYet, DhcpTypeOK
  <2> QED
    BY <1>1, <2>3, <2>4, <2>5
<1> QED
  BY <1>5, <1>6, <1>7, <1>8, <1>9, <1>10

LEMMA TickStep ==
  ASSUME IInv, Tick
  PROVE  IInv'
<1> USE DEF IInv
<1>1. DhcpTypeOK'
  BY TypeStep DEF DhcpNext
<1>2. /\ net' = net /\ xid' = xid /\ addr' = addr
      /\ \A s \in Stations :
           /\ phase'[s] \in {"requesting", "bound"} => phase'[s] = phase[s] /\ 1 < left[s]
           /\ phase'[s] = "selecting" => phase[s] = "selecting"
           /\ left[s] \in Nat /\ (1 < left[s] => left'[s] = left[s] - 1)
  BY TimeAssumption DEF Tick, DhcpTypeOK
<1>3. \A i \in Slots : \A s \in Stations : 1 < left[s] /\ Promised(i, s) => Promised(i, s)'
  <2> SUFFICES ASSUME NEW i \in Slots, NEW s \in Stations, 1 < left[s], Promised(i, s)
               PROVE  Promised(i, s)'
    OBVIOUS
  <2>1. 0 < left[s]
    BY <1>2
  <2> QED
    BY <2>1, PromiseTicks
<1>4. LeaseOutlivesUse'
  BY <1>2, <1>3 DEF LeaseOutlivesUse, Holds
<1>5. AckPromise'
  <2>1. \A a \in net : a.type = "ACK" => a.ip \in Slots
    BY DEF DhcpTypeOK, Message, Request, Reply
  <2> QED
    BY <1>2, <1>3, <2>1 DEF AckPromise
<1>6. LeaseRunning'
  BY <1>2 DEF LeaseRunning
<1>7. NothingRequestedYet'
  BY <1>2 DEF NothingRequestedYet
<1> QED
  BY <1>1, <1>4, <1>5, <1>6, <1>7

LEMMA InvInit == DhcpInit => IInv
<1> SUFFICES ASSUME DhcpInit PROVE IInv
  OBVIOUS
<1>1. DhcpTypeOK
  BY TypeInit
<1>2. net = {} /\ \A s \in Stations : phase[s] = "init"
  BY DEF DhcpInit
<1> QED
  BY <1>1, <1>2
  DEF IInv, LeaseOutlivesUse, Holds, AckPromise, LeaseRunning, NothingRequestedYet

LEMMA InvStep == IInv /\ [DhcpNext]_dhcpVars => IInv'
<1> SUFFICES ASSUME IInv, [DhcpNext]_dhcpVars PROVE IInv'
  OBVIOUS
<1>1. ASSUME NEW m \in net, dhcp_server_process(m) PROVE IInv'
  BY <1>1, ServerStep
<1>2. ASSUME NEW m \in net, Lose(m) PROVE IInv'
  <2>1. net' \subseteq net /\ UNCHANGED <<lease, now, phase, xid, addr, left>>
    BY <1>2 DEF Lose, stationVars
  <2>2. DhcpTypeOK'
    BY <1>2, TypeStep DEF DhcpNext, IInv
  <2> QED
    BY <2>1, <2>2
    DEF IInv, LeaseOutlivesUse, Holds, Promised, OwnedBy, Expired, ServerLeft,
        AckPromise, LeaseRunning, NothingRequestedYet
<1>3. ASSUME NEW s \in Stations,
             \/ Discover(s) \/ ReceiveReply(s) \/ Retransmit(s)
             \/ Reboot(s) \/ Renew(s) \/ Leave(s)
      PROVE  IInv'
  BY <1>3, StationStep
<1>4. CASE Tick
  BY <1>4, TickStep
<1>5. CASE UNCHANGED dhcpVars
  BY <1>5
  DEF dhcpVars, IInv, DhcpTypeOK, LeaseOutlivesUse, Holds, Promised, OwnedBy, Free, Expired,
      ServerLeft, AckPromise, LeaseRunning, NothingRequestedYet
<1> QED
  BY <1>1, <1>2, <1>3, <1>4, <1>5 DEF DhcpNext

\* A station that uses an address is the owner the table names, and the server
\* lets go of the slot no earlier than the station does, across any number of
\* wraps of the tick counter.
THEOREM LeaseCovers == DhcpSpec => []LeaseOutlivesUse
<1>1. IInv => LeaseOutlivesUse
  BY DEF IInv
<1> QED
  BY <1>1, InvInit, InvStep, PTL DEF DhcpSpec

\* An ACK a station is still waiting for stays true while it is on the air.
THEOREM AckKept == DhcpSpec => []AckPromise
<1>1. IInv => AckPromise
  BY DEF IInv
<1> QED
  BY <1>1, InvInit, InvStep, PTL DEF DhcpSpec

\* No address is in use by two stations at once.
THEOREM Exclusive == DhcpSpec => []AddressExclusive
<1>1. IInv => AddressExclusive
  BY DEF IInv, LeaseOutlivesUse, AddressExclusive, Promised, OwnedBy
<1> QED
  BY <1>1, InvInit, InvStep, PTL DEF DhcpSpec

-----------------------------------------------------------------------------
(* The NTP client: the 32-bit seconds. *)

LEMMA ModRange ==
  ASSUME NEW m \in Nat \ {0}, NEW a \in Int
  PROVE  a % m \in 0..(m - 1)
OBVIOUS

LEMMA ModFull ==
  ASSUME NEW m \in Nat \ {0}
  PROVE  m % m = 0
OBVIOUS

\* The client's subtraction undoes the server's addition, also when the sum has wrapped.
LEMMA EpochUndoes ==
  ASSUME NEW t \in Seconds
  PROVE  Epoch((t + NTP_DELTA) % Era) = t
<1> DEFINE s == (t + NTP_DELTA) % Era
<1>1. t \in Nat /\ t < Era /\ Era \in Nat \ {0} /\ NTP_DELTA \in Nat /\ NTP_DELTA <= Era
  BY EraAssumption DEF Seconds
<1>2. CASE t + NTP_DELTA < Era
  <2>1. s = t + NTP_DELTA
    BY <1>1, <1>2, ModSmall
  <2>2. s - NTP_DELTA = t
    BY <1>1, <2>1
  <2> QED
    BY <1>1, <2>2, ModSmall DEF Epoch
<1>3. CASE t + NTP_DELTA >= Era
  <2>1. s = t + NTP_DELTA - Era
    <3> DEFINE a == t + NTP_DELTA
    <3>1. a \in Int /\ Era <= a /\ a < Era + Era
      BY <1>1, <1>3
    <3> HIDE DEF a
    <3>2. a % Era = a - Era
      BY <1>1, <3>1, ModAbove
    <3> QED
      BY <1>1, <3>2 DEF a
  <2>2. s - NTP_DELTA = t - Era
    BY <1>1, <2>1
  <2>3. (t - Era) % Era = t
    BY <1>1, ModBelow
  <2> QED
    BY <2>2, <2>3 DEF Epoch
<1> QED
  BY <1>1, <1>2, <1>3

-----------------------------------------------------------------------------
(* The NTP client: however late the answers are. *)

\* Every reply under way, the invalid ones too, carries the time it was made at.
RepliesTimed ==
  \A r \in replies : r.at \in Seconds /\ r.seconds = (r.at + NTP_DELTA) % Era

TimeInv == NtpTypeOK /\ RepliesTimed /\ TimeIsRight

LEMMA TimeInvInit == NtpInit => TimeInv
<1> SUFFICES ASSUME NtpInit PROVE TimeInv
  OBVIOUS
<1>1. 0 \in Seconds /\ 0 \in 0..MaxWire
  BY EraAssumption, WireAssumption DEF Seconds
<1>2. {request_worker, resend_worker, port, asserted, unexpected} \subseteq BOOLEAN
  BY Zenon DEF NtpInit
<1> QED
  BY <1>1, <1>2 DEF NtpInit, TimeInv, NtpTypeOK, RepliesTimed, TimeIsRight, NoResult

LEMMA TimeInvNext == TimeInv /\ [NtpNext]_ntpVars => TimeInv'
<1> SUFFICES ASSUME TimeInv, [NtpNext]_ntpVars PROVE TimeInv'
  OBVIOUS
<1> USE EraAssumption, WireAssumption DEF TimeInv
<1>1. CASE request_worker_fn
  <2>1. {request_worker, resend_worker, port, asserted, unexpected}' \subseteq BOOLEAN
    BY <1>1, Zenon DEF request_worker_fn, ntp_request, NtpTypeOK
  <2>2. lookups' \in 0..MaxWire /\ requests' \in 0..MaxWire
    BY <1>1 DEF request_worker_fn, ntp_request, NtpTypeOK
  <2>3. UNCHANGED <<replies, server_time, result>>
    BY <1>1 DEF request_worker_fn
  <2> QED
    BY <2>1, <2>2, <2>3 DEF NtpTypeOK, RepliesTimed, TimeIsRight
<1>2. ASSUME resend_worker_fn \/ StrayReceived PROVE TimeInv'
  <2>1. {request_worker, resend_worker, port, asserted, unexpected}' \subseteq BOOLEAN
    BY <1>2, Zenon DEF resend_worker_fn, StrayReceived, ntp_result, NtpTypeOK
  <2>2. UNCHANGED <<lookups, requests, replies, server_time, result>>
    BY <1>2, Zenon DEF resend_worker_fn, StrayReceived
  <2> QED
    BY <2>1, <2>2 DEF NtpTypeOK, RepliesTimed, TimeIsRight
<1>3. CASE ntp_dns_found
  <2>1. {request_worker, resend_worker, port, asserted, unexpected}' \subseteq BOOLEAN
    BY <1>3, Zenon DEF ntp_dns_found, ntp_result, ntp_request, workers, NtpTypeOK
  <2>2. lookups' \in 0..MaxWire /\ requests' \in 0..MaxWire
    BY <1>3 DEF ntp_dns_found, ntp_request, NtpTypeOK
  <2>3. UNCHANGED <<replies, server_time, result>>
    BY <1>3 DEF ntp_dns_found
  <2> QED
    BY <2>1, <2>2, <2>3 DEF NtpTypeOK, RepliesTimed, TimeIsRight
<1>4. ASSUME NEW r \in replies, ntp_recv(r) PROVE TimeInv'
  <2>1. replies' \subseteq replies
    BY <1>4 DEF ntp_recv
  <2>2. Epoch(r.seconds) = r.at /\ r.at \in Seconds
    BY EpochUndoes DEF RepliesTimed
  <2>3. result' \in [epoch : Seconds, at : Seconds] /\ result'.epoch = result'.at
    BY <1>4, <2>2 DEF ntp_recv, NtpTypeOK, TimeIsRight
  <2>4. {request_worker, resend_worker, port, asserted, unexpected}' \subseteq BOOLEAN
    BY <1>4, Zenon DEF ntp_recv, ntp_result, NtpTypeOK
  <2> QED
    BY <1>4, <2>1, <2>3, <2>4 DEF ntp_recv, NtpTypeOK, RepliesTimed, TimeIsRight
<1>5. CASE ServerReplies
  <2>1. PICK valid \in BOOLEAN :
          replies' = replies \cup {[valid |-> valid, seconds |-> (server_time + NTP_DELTA) % Era, at |-> server_time]}
    BY <1>5 DEF ServerReplies
  <2>2. server_time \in Seconds /\ (server_time + NTP_DELTA) % Era \in Seconds
    BY ModRange DEF NtpTypeOK, Seconds
  <2>3. RepliesTimed'
    BY <1>5, <2>1, <2>2 DEF ServerReplies, RepliesTimed
  <2> QED
    BY <1>5, <2>1, <2>2, <2>3 DEF ServerReplies, workers, NtpTypeOK, TimeIsRight
<1>6. CASE Lost
  BY <1>6 DEF Lost, workers, NtpTypeOK, RepliesTimed, TimeIsRight
<1>7. CASE ServerClock
  BY <1>7 DEF ServerClock, workers, NtpTypeOK, RepliesTimed, TimeIsRight
<1>8. CASE UNCHANGED ntpVars
  BY <1>8 DEF ntpVars, workers, NtpTypeOK, RepliesTimed, TimeIsRight
<1> QED
  BY <1>1, <1>2, <1>3, <1>4, <1>5, <1>6, <1>7, <1>8 DEF NtpNext

LEMMA TimeInvariance == NtpSpec => []TimeInv
  BY TimeInvInit, TimeInvNext, PTL DEF NtpSpec

\* Types and counters keep their ranges, late, doubled and stray datagrams and a failed assert
\* included.
THEOREM NtpTypeCorrect == NtpSpec => []NtpTypeOK
<1>1. TimeInv => NtpTypeOK
  BY DEF TimeInv
<1> QED
  BY <1>1, TimeInvariance, PTL

\* Every time ntp_recv reports is the time the reply was made at, however late it is
\* and on whichever side of the wrap of the seconds.
THEOREM TimeRight == NtpSpec => []TimeIsRight
<1>1. TimeInv => TimeIsRight
  BY DEF TimeInv
<1> QED
  BY <1>1, TimeInvariance, PTL

-----------------------------------------------------------------------------
(* The NTP client: its workers, and when the network does no more than lose. *)

LEMMA OneWorkerInit == NtpInit => OneWorker
<1> SUFFICES ASSUME NtpInit PROVE request_worker # resend_worker
  BY DEF OneWorker
<1>1. request_worker = TRUE /\ resend_worker = FALSE
  BY DEF NtpInit
<1> QED
  BY <1>1

\* ntp_result takes the one worker scheduled to the other, or fails.
LEMMA ResultKeepsOne ==
  ASSUME NtpTypeOK, ntp_result, asserted = FALSE, OneWorker
  PROVE  OneWorker' /\ resend_worker' = FALSE /\ request_worker' = TRUE /\ asserted' = request_worker
<1>1. CASE request_worker
  BY <1>1, Zenon DEF ntp_result, OneWorker, NtpTypeOK
<1>2. CASE ~ request_worker
  BY <1>2, Zenon DEF ntp_result, OneWorker, NtpTypeOK
<1> QED
  BY <1>1, <1>2

\* The timed worker of a request never finds the other one scheduled.
LEMMA RequestKeepsOne ==
  ASSUME NtpTypeOK, OneWorker, request_worker_fn
  PROVE  OneWorker' /\ asserted' = FALSE /\ resend_worker = FALSE
<1> DEFINE error == lookups' = lookups /\ requests' = requests
<1>1. ~ asserted /\ request_worker /\ asserted' = resend_worker
  BY DEF request_worker_fn
<1>2. resend_worker = FALSE
  BY <1>1, Zenon DEF OneWorker, NtpTypeOK
<1>3. request_worker' = error /\ resend_worker' = (resend_worker \/ ~ error)
  BY Zenon DEF request_worker_fn
<1>4. OneWorker'
  <2> HIDE DEF error
  <2>1. CASE error
    BY <1>2, <1>3, <2>1 DEF OneWorker
  <2>2. CASE ~ error
    BY <1>2, <1>3, <2>2 DEF OneWorker
  <2> QED
    BY <2>1, <2>2
<1> QED
  BY <1>1, <1>2, <1>4

LEMMA OneWorkerNext == OneWorker /\ NtpTypeOK /\ [NtpNext]_ntpVars => OneWorker'
<1> SUFFICES ASSUME OneWorker, NtpTypeOK, [NtpNext]_ntpVars PROVE OneWorker'
  OBVIOUS
<1>1. CASE request_worker_fn
  BY <1>1, RequestKeepsOne
<1>2. CASE UNCHANGED <<workers, asserted>>
  BY <1>2 DEF workers, OneWorker
<1>3. ASSUME ntp_result, ~ asserted PROVE OneWorker'
  <2>1. asserted = FALSE
    BY <1>3, Zenon DEF NtpTypeOK
  <2> QED
    BY <1>3, <2>1, ResultKeepsOne
<1>4. CASE ntp_dns_found
  BY <1>2, <1>3, <1>4 DEF ntp_dns_found
<1>5. ASSUME NEW r \in replies, ntp_recv(r) PROVE OneWorker'
  BY <1>3, <1>5 DEF ntp_recv
<1>6. CASE resend_worker_fn \/ StrayReceived
  BY <1>3, <1>6 DEF resend_worker_fn, StrayReceived
<1>7. CASE ServerReplies \/ Lost \/ ServerClock
  BY <1>2, <1>7 DEF ServerReplies, Lost, ServerClock
<1>8. CASE UNCHANGED ntpVars
  BY <1>2, <1>8 DEF ntpVars
<1> QED
  BY <1>1, <1>4, <1>5, <1>6, <1>7, <1>8 DEF NtpNext

\* Exactly one worker is scheduled at any time until a hard_assert fails, whatever arrives and
\* however late.
THEOREM OneAtATime == NtpSpec => []OneWorker
  BY OneWorkerInit, OneWorkerNext, NtpTypeCorrect, PTL DEF NtpSpec

\* Of one request there is one thing under way at most: its lookup, itself, or its reply.
OneInFlight ==
  /\ lookups \in 0..1 /\ requests \in 0..1
  /\ lookups = 1 => requests = 0 /\ replies = {}
  /\ requests = 1 => replies = {}
  /\ \A r, s \in replies : r = s

\* No answer of an earlier request is left when the next one is made.
NothingLeftOver == request_worker => lookups = 0 /\ requests = 0 /\ replies = {}

LossyInv == unexpected = FALSE => asserted = FALSE /\ OneInFlight /\ NothingLeftOver

LEMMA LossyInit == NtpInit => LossyInv
  BY DEF NtpInit, LossyInv, OneInFlight, NothingLeftOver

LEMMA LossyNext == LossyInv /\ OneWorker /\ NtpTypeOK /\ NtpTypeOK' /\ [NtpNext]_ntpVars => LossyInv'
<1> SUFFICES ASSUME LossyInv, OneWorker, NtpTypeOK, NtpTypeOK', [NtpNext]_ntpVars, unexpected' = FALSE
             PROVE  asserted' = FALSE /\ OneInFlight' /\ NothingLeftOver'
  BY DEF LossyInv
<1>0. /\ lookups \in Nat /\ requests \in Nat
      /\ request_worker \in BOOLEAN /\ resend_worker \in BOOLEAN
      /\ asserted \in BOOLEAN /\ unexpected \in BOOLEAN
  BY WireAssumption DEF NtpTypeOK
<1>a. unexpected = FALSE
  BY <1>0, Zenon DEF NtpNext, ntpVars, request_worker_fn, resend_worker_fn, ntp_dns_found, ntp_recv,
                     StrayReceived, ServerReplies, Lost, ServerClock
<1>b. asserted = FALSE /\ OneInFlight /\ NothingLeftOver /\ request_worker # resend_worker
  BY <1>a DEF LossyInv, OneWorker
<1> USE DEF OneInFlight, NothingLeftOver
<1>1. CASE request_worker_fn
  <2>1. lookups = 0 /\ requests = 0 /\ replies = {} /\ replies' = {}
    BY <1>1, <1>b DEF request_worker_fn
  <2>2. /\ lookups' \in 0..1 /\ requests' \in 0..1
        /\ lookups' = 1 => requests' = 0
    BY <1>1, <2>1 DEF request_worker_fn, ntp_request
  <2>3. request_worker' => lookups' = lookups /\ requests' = requests
    BY <1>1, Zenon DEF request_worker_fn
  <2>4. asserted' = FALSE
    BY ONLY <1>1, NtpTypeOK, OneWorker, RequestKeepsOne
  <2>5. OneInFlight'
    BY <2>1, <2>2
  <2>6. NothingLeftOver'
    BY ONLY <2>1, <2>3 DEF NothingLeftOver
  <2> QED
    BY ONLY <2>4, <2>5, <2>6
<1>2. ASSUME ntp_result, request_worker = FALSE, lookups' = 0, requests' = 0, replies' = {}
      PROVE  asserted' = FALSE /\ OneInFlight' /\ NothingLeftOver'
  <2>1. resend_worker' = FALSE /\ request_worker' = TRUE /\ asserted' = request_worker
    BY ONLY <1>2, <1>b, NtpTypeOK, OneWorker, ResultKeepsOne
  <2> QED
    BY <1>2, <2>1
<1>3. CASE resend_worker_fn
  <2>1. ~ UnderWay
    BY <1>0, <1>3, Zenon DEF resend_worker_fn
  <2>2. lookups = 0 /\ requests = 0 /\ replies = {}
    BY <1>0, <2>1 DEF UnderWay
  <2>3. request_worker = FALSE
    BY <1>0, <1>3, <1>b, Zenon DEF resend_worker_fn
  <2> QED
    BY <1>2, <1>3, <2>2, <2>3 DEF resend_worker_fn
<1>4. CASE ntp_dns_found
  <2>1. lookups = 1 /\ requests = 0 /\ replies = {} /\ request_worker = FALSE
    BY <1>0, <1>4, <1>b DEF ntp_dns_found
  <2>2. lookups' = 0 /\ replies' = {}
    BY <1>4, <2>1 DEF ntp_dns_found
  <2>3. CASE ntp_request /\ UNCHANGED <<workers, asserted>>
    BY <1>b, <2>1, <2>2, <2>3 DEF ntp_request, workers
  <2>4. CASE ntp_result /\ UNCHANGED <<requests, port>>
    BY <1>2, <2>1, <2>2, <2>4
  <2> QED
    BY <1>4, <2>3, <2>4 DEF ntp_dns_found
<1>5. ASSUME NEW r \in replies, ntp_recv(r) PROVE asserted' = FALSE /\ OneInFlight' /\ NothingLeftOver'
  <2>1. lookups = 0 /\ requests = 0 /\ replies = {r} /\ request_worker = FALSE
    BY <1>0, <1>5, <1>b
  <2>2. PICK copy \in {FALSE, Late} : /\ replies' = IF copy THEN replies ELSE replies \ {r}
                                      /\ unexpected' = (unexpected \/ copy)
    BY <1>5 DEF ntp_recv
  <2>3. ~ copy
    BY <2>2, Zenon
  <2>4. replies' = {}
    BY <2>1, <2>2, <2>3
  <2> QED
    BY <1>2, <1>5, <2>1, <2>4 DEF ntp_recv
<1>6. CASE StrayReceived
  BY <1>6 DEF StrayReceived
<1>7. CASE ServerReplies
  BY <1>0, <1>b, <1>7 DEF ServerReplies, workers
<1>8. CASE Lost
  BY <1>0, <1>b, <1>8 DEF Lost, workers
<1>9. CASE ServerClock \/ UNCHANGED ntpVars
  BY <1>b, <1>9 DEF ServerClock, ntpVars, workers
<1> QED
  BY <1>1, <1>3, <1>4, <1>5, <1>6, <1>7, <1>8, <1>9 DEF NtpNext

\* A hard_assert fails only after an answer that came too late, twice, or from somebody who
\* was not asked: losses, failed lookups and invalid replies of the server never stop the program.
THEOREM AssertedOnlyIfUnexpected == NtpSpec => []AssertsHoldIfLossy
<1>1. LossyInv /\ NtpTypeOK => AssertsHoldIfLossy
  BY Zenon DEF LossyInv, NtpTypeOK, AssertsHoldIfLossy
<1> QED
  BY <1>1, LossyInit, LossyNext, NtpTypeCorrect, OneAtATime, PTL DEF NtpSpec

-----------------------------------------------------------------------------
(* The MQTT client: requests and sequences of them. *)

\* The topics of commands, and what a request can be.
Commands == {"led", "print", "ping", "exit"}
Requests ==
  [kind : {"sub", "unsub"}, what : Commands, value : {0}]
  \cup [kind : {"pub"}, what : {"led", "temperature", "online", "uptime"}, value : Nat]

\* Every variable keeps to its type, no more requests are unanswered than there is room
\* for, and without a connection nothing is under way.
MqttTypeOK ==
  /\ patient \in BOOLEAN /\ conn \in {"connecting", "connected", "disconnected"}
  /\ subscribe_count \in Int /\ stop_client \in BOOLEAN /\ led \in BOOLEAN
  /\ sensor \in Nat /\ pending \in Seq(Requests) /\ Len(pending) <= MQTT_REQ_MAX_IN_FLIGHT
  /\ served \in Nat /\ served <= Len(pending)
  /\ subscribed \subseteq Commands /\ incoming \in Seq(Messages)
  /\ board \in [led : Nat, temperature : Nat]
  /\ conn # "connected" => pending = <<>> /\ incoming = <<>> /\ subscribed = {}

LEMMA RequestTypes ==
  /\ \A t \in Commands : Sub(t) \in Requests /\ Unsub(t) \in Requests
  /\ \A name \in {"led", "temperature", "online", "uptime"}, v \in Nat : Pub(name, v) \in Requests
  /\ \A t : Sub(t).kind = "sub" /\ Unsub(t).kind = "unsub" /\ Sub(t).what = t /\ Unsub(t).what = t
  /\ \A name, v : Pub(name, v).kind = "pub" /\ Pub(name, v).what = name /\ Pub(name, v).value = v
BY DEF Sub, Unsub, Pub, Requests

LEMMA RequestShape ==
  ASSUME NEW r \in Requests
  PROVE  /\ r.kind \in {"sub", "unsub", "pub"} /\ r.value \in Nat
         /\ r.kind # "pub" => r.what \in Commands
         /\ r.kind = "sub" => r = Sub(r.what)
         /\ r.kind = "unsub" => r = Unsub(r.what)
BY DEF Requests, Sub, Unsub

\* The list of the four topics, each once.
LEMMA TopicList ==
  ASSUME NEW sub \in BOOLEAN
  PROVE  /\ sub_unsub_topics(sub) \in Seq(Requests) /\ Len(sub_unsub_topics(sub)) = 4
         /\ \A i \in 1..4 :
              sub_unsub_topics(sub)[i] = (IF sub THEN Sub(Topics[i]) ELSE Unsub(Topics[i]))
         /\ \A i \in 1..4 : Topics[i] \in Commands
         /\ \A t \in Commands : \E i \in 1..4 : Topics[i] = t
         /\ \A i, j \in 1..4 : Topics[i] = Topics[j] => i = j
<1> DEFINE l == sub_unsub_topics(sub)
<1>1. /\ DOMAIN Topics = 1..4 /\ Topics[1] = "led" /\ Topics[2] = "print"
      /\ Topics[3] = "ping" /\ Topics[4] = "exit"
  BY DEF Topics
<1>2. /\ \A i \in 1..4 : Topics[i] \in Commands
      /\ \A t \in Commands : \E i \in 1..4 : Topics[i] = t
      /\ \A i, j \in 1..4 : Topics[i] = Topics[j] => i = j
  <2>1. \A i \in 1..4 : i = 1 \/ i = 2 \/ i = 3 \/ i = 4
    OBVIOUS
  <2>2. \A i \in 1..4 : Topics[i] \in Commands
    BY <1>1, <2>1 DEF Commands
  <2>3. ASSUME NEW t \in Commands PROVE \E i \in 1..4 : Topics[i] = t
    <3>1. t = Topics[1] \/ t = Topics[2] \/ t = Topics[3] \/ t = Topics[4]
      BY <1>1 DEF Commands
    <3> QED
      BY <3>1
  <2>4. ASSUME NEW i \in 1..4, NEW j \in 1..4, Topics[i] = Topics[j] PROVE i = j
    BY <1>1, <2>1, <2>4
  <2> QED
    BY <2>2, <2>3, <2>4
<1>3. l = [i \in 1..4 |-> IF sub THEN Sub(Topics[i]) ELSE Unsub(Topics[i])]
  BY <1>1 DEF sub_unsub_topics
<1>4. l \in [1..4 -> Requests]
  BY <1>2, <1>3, RequestTypes
<1> HIDE DEF l
<1>5. l \in Seq(Requests) /\ Len(l) = 4
  <2>1. l \in UNION {[1..n -> Requests] : n \in Nat}
    BY <1>4
  <2>2. l \in Seq(Requests)
    BY <2>1, SeqDef
  <2>3. Len(l) \in Nat /\ 1..Len(l) = 1..4
    BY <1>4, <2>2, LenProperties
  <2>4. ASSUME NEW n \in Nat, 1..n = 1..4 PROVE n = 4
    <3>1. 4 \in 1..n /\ (n >= 4 => n \in 1..4)
      <4>1. \A i : i \in 1..n <=> i \in 1..4
        BY <2>4
      <4>2. 4 \in 1..n
        BY <4>1
      <4>3. n >= 4 => n \in 1..n
        OBVIOUS
      <4> QED
        BY <4>1, <4>2, <4>3
    <3> QED
      BY <3>1
  <2> QED
    BY <2>2, <2>3, <2>4
<1>6. \A i \in 1..4 : l[i] = IF sub THEN Sub(Topics[i]) ELSE Unsub(Topics[i])
  BY <1>3, Zenon
<1> QED
  BY <1>2, <1>5, <1>6, Zenon DEF l

\* mqtt_request appends as much as there is room for.
LEMMA RequestTaken ==
  ASSUME MqttTypeOK, NEW l \in Seq(Requests), mqtt_request(l)
  PROVE  /\ pending' \in Seq(Requests) /\ Len(pending') <= MQTT_REQ_MAX_IN_FLIGHT
         /\ Len(pending') \in Len(pending)..(Len(pending) + Len(l))
         /\ \A k \in 1..Len(pending) : pending'[k] = pending[k]
         /\ \A k \in (Len(pending) + 1)..Len(pending') : pending'[k] = l[k - Len(pending)]
         /\ Len(pending) + Len(l) <= MQTT_REQ_MAX_IN_FLIGHT => Len(pending') = Len(pending) + Len(l)
<1> DEFINE room == MQTT_REQ_MAX_IN_FLIGHT - Len(pending)
           n == IF room < Len(l) THEN room ELSE Len(l)
           t == SubSeq(l, 1, n)
<1>1. /\ MQTT_REQ_MAX_IN_FLIGHT \in Nat /\ Len(pending) \in Nat /\ Len(l) \in Nat
      /\ Len(pending) <= MQTT_REQ_MAX_IN_FLIGHT /\ pending \in Seq(Requests)
      /\ \A i \in 1..Len(l) : l[i] \in Requests
  BY SizesAssumption DEF MqttTypeOK
<1>2. /\ n \in 0..Len(l) /\ n <= room
      /\ Len(pending) + Len(l) <= MQTT_REQ_MAX_IN_FLIGHT => n = Len(l)
  BY <1>1
<1>3. pending' = pending \o t
  BY DEF mqtt_request
<1> HIDE DEF n
<1>4. t \in Seq(Requests) /\ Len(t) = n /\ \A i \in 1..n : t[i] = l[i]
  <2>1. \A i \in 1..n : l[i] \in Requests
    BY <1>1, <1>2
  <2>2. /\ t \in Seq(Requests) /\ Len(t) = IF 1 <= n THEN n - 1 + 1 ELSE 0
        /\ \A i \in 1..(n - 1 + 1) : t[i] = l[1 + i - 1]
    BY <1>2, <2>1, SubSeqProperties
  <2>3. \A i \in 1..n : 1 + i - 1 = i
    BY <1>2
  <2> QED
    BY <1>2, <2>2, <2>3
<1> HIDE DEF t
<1>5. /\ pending' \in Seq(Requests) /\ Len(pending') = Len(pending) + n
      /\ \A i \in 1..(Len(pending) + n) :
           pending'[i] = IF i <= Len(pending) THEN pending[i] ELSE t[i - Len(pending)]
  BY <1>1, <1>3, <1>4, ConcatProperties
<1>6. ASSUME NEW k \in (Len(pending) + 1)..(Len(pending) + n)
      PROVE  pending'[k] = l[k - Len(pending)]
  <2>1. k - Len(pending) \in 1..n /\ ~ k <= Len(pending) /\ k \in 1..(Len(pending) + n)
    BY <1>1, <1>2
  <2>2. pending'[k] = t[k - Len(pending)]
    BY <1>5, <2>1
  <2> QED
    BY <1>4, <2>1, <2>2
<1>7. ASSUME NEW k \in 1..Len(pending) PROVE pending'[k] = pending[k]
  <2>1. k <= Len(pending) /\ k \in 1..(Len(pending) + n)
    BY <1>1, <1>2
  <2> QED
    BY <1>5, <2>1
<1>8. /\ Len(pending') <= MQTT_REQ_MAX_IN_FLIGHT
      /\ Len(pending') \in Len(pending)..(Len(pending) + Len(l))
  <2>1. Len(pending') = Len(pending) + n
    BY <1>5
  <2> QED
    BY <1>1, <1>2, <2>1 DEF room
<1> QED
  BY <1>2, <1>5, <1>6, <1>7, <1>8

\* The same of a single request.
LEMMA PublishTaken ==
  ASSUME MqttTypeOK, NEW r \in Requests, mqtt_request(<<r>>)
  PROVE  /\ pending' \in Seq(Requests) /\ Len(pending') <= MQTT_REQ_MAX_IN_FLIGHT
         /\ Len(pending') \in Len(pending)..(Len(pending) + 1)
         /\ \A k \in 1..Len(pending) : pending'[k] = pending[k]
         /\ \A k \in (Len(pending) + 1)..Len(pending') : pending'[k] = r
         /\ Len(pending) + 1 <= MQTT_REQ_MAX_IN_FLIGHT => Len(pending') = Len(pending) + 1
<1> DEFINE l == <<r>>
<1>1. l \in Seq(Requests) /\ Len(l) = 1 /\ l[1] = r /\ mqtt_request(l)
  OBVIOUS
<1>2. Len(pending) \in Nat
  BY DEF MqttTypeOK
<1> HIDE DEF l
<1>3. /\ pending' \in Seq(Requests) /\ Len(pending') <= MQTT_REQ_MAX_IN_FLIGHT
      /\ Len(pending') \in Len(pending)..(Len(pending) + 1)
      /\ \A k \in 1..Len(pending) : pending'[k] = pending[k]
      /\ \A k \in (Len(pending) + 1)..Len(pending') : pending'[k] = l[k - Len(pending)]
      /\ Len(pending) + 1 <= MQTT_REQ_MAX_IN_FLIGHT => Len(pending') = Len(pending) + 1
  BY <1>1, RequestTaken
<1>4. \A k \in (Len(pending) + 1)..Len(pending') : k - Len(pending) = 1
  BY <1>2, <1>3
<1> QED
  BY <1>1, <1>3, <1>4

\* What is left when the first request is answered.
LEMMA RequestsTail ==
  ASSUME MqttTypeOK, pending # <<>>
  PROVE  /\ Head(pending) = pending[1] /\ pending[1] \in Requests /\ 1 \in 1..Len(pending)
         /\ Tail(pending) \in Seq(Requests) /\ Len(Tail(pending)) = Len(pending) - 1
         /\ \A k \in 1..(Len(pending) - 1) :
              Tail(pending)[k] = pending[k + 1] /\ k + 1 \in 1..Len(pending)
<1>1. pending \in Seq(Requests) /\ Len(pending) \in Nat
  BY DEF MqttTypeOK
<1>2. Len(pending) # 0
  BY <1>1, EmptySeq
<1>3. /\ Head(pending) \in Requests /\ Tail(pending) \in Seq(Requests)
      /\ Len(Tail(pending)) = Len(pending) - 1
      /\ \A i \in 1..Len(Tail(pending)) : Tail(pending)[i] = pending[i + 1]
  BY <1>1, HeadTailProperties
<1>4. Head(pending) = pending[1]
  BY <1>1
<1>5. 1 \in 1..Len(pending) /\ \A k \in 1..(Len(pending) - 1) : k + 1 \in 1..Len(pending)
  BY <1>1, <1>2
<1> QED
  BY <1>3, <1>4, <1>5

\* A request that fails stops the program, or is a publication given up.
IsReport(r) == r.kind = "pub" /\ r.what = "led"

LEMMA Fails ==
  ASSUME MqttTypeOK, RequestFails
  PROVE  /\ UNCHANGED <<patient, conn, subscribe_count, stop_client, led, sensor, served, subscribed,
                        incoming, board>>
         /\ conn = "connected" /\ pending # <<>>
         /\ \/ UNCHANGED <<pending, lost_report>>
            \/ /\ ~ patient /\ served = 0 /\ pending' = Tail(pending) /\ pending[1].kind = "pub"
               /\ ~ lost_report' => ~ lost_report /\ ~ IsReport(pending[1])
<1>1. /\ UNCHANGED <<patient, conn, subscribe_count, stop_client, led, sensor, served, subscribed,
                     incoming, board>>
      /\ conn = "connected" /\ pending # <<>>
  BY DEF RequestFails, clientVars
<1>2. Head(pending) = pending[1]
  BY <1>1, RequestsTail
<1> QED
  BY <1>1, <1>2, Zenon DEF RequestFails, IsReport

LEMMA MqttTypeInit == MqttInit => MqttTypeOK
<1> SUFFICES ASSUME MqttInit PROVE MqttTypeOK
  OBVIOUS
<1>1. <<>> \in Seq(Requests) /\ <<>> \in Seq(Messages) /\ Len(<<>>) = 0
  OBVIOUS
<1>2. sensor \in Nat /\ MQTT_REQ_MAX_IN_FLIGHT \in Nat
  BY SizesAssumption DEF MqttInit
<1>3. board \in [led : Nat, temperature : Nat]
  BY DEF MqttInit
<1>4. /\ patient \in BOOLEAN /\ stop_client \in BOOLEAN /\ led \in BOOLEAN
      /\ conn = "connecting" /\ subscribe_count \in Int
  <2>1. patient \in BOOLEAN /\ stop_client = FALSE /\ led = FALSE
    BY Zenon DEF MqttInit
  <2>2. conn = "connecting" /\ subscribe_count \in Int
    BY DEF MqttInit
  <2> QED
    BY <2>1, <2>2, Zenon
<1>5. pending = <<>> /\ served = 0 /\ subscribed = {} /\ incoming = <<>>
  BY DEF MqttInit
<1>6. /\ pending \in Seq(Requests) /\ incoming \in Seq(Messages)
      /\ Len(pending) <= MQTT_REQ_MAX_IN_FLIGHT /\ served \in Nat /\ served <= Len(pending)
  BY <1>1, <1>2, <1>5
<1> QED
  BY <1>2, <1>3, <1>4, <1>5, <1>6 DEF MqttTypeOK

\* The messages on the way when the first is taken, or one is added.
LEMMA IncomingTypes ==
  ASSUME MqttTypeOK
  PROVE  /\ incoming # <<>> => /\ Head(incoming) \in Messages /\ Tail(incoming) \in Seq(Messages)
                               /\ Head(incoming) = incoming[1] /\ Len(Tail(incoming)) = Len(incoming) - 1
                               /\ 1 \in 1..Len(incoming)
                               /\ \A k \in 1..(Len(incoming) - 1) :
                                    Tail(incoming)[k] = incoming[k + 1] /\ k + 1 \in 1..Len(incoming)
         /\ \A m \in Messages :
              /\ Append(incoming, m) \in Seq(Messages) /\ Len(Append(incoming, m)) = Len(incoming) + 1
              /\ \A k \in 1..Len(incoming) : Append(incoming, m)[k] = incoming[k]
              /\ Append(incoming, m)[Len(incoming) + 1] = m
<1>1. incoming \in Seq(Messages) /\ Len(incoming) \in Nat
  BY DEF MqttTypeOK
<1>2. ASSUME incoming # <<>>
      PROVE  /\ Head(incoming) \in Messages /\ Tail(incoming) \in Seq(Messages)
             /\ Head(incoming) = incoming[1] /\ Len(Tail(incoming)) = Len(incoming) - 1
             /\ 1 \in 1..Len(incoming)
             /\ \A k \in 1..(Len(incoming) - 1) :
                  Tail(incoming)[k] = incoming[k + 1] /\ k + 1 \in 1..Len(incoming)
  <2>1. Len(incoming) # 0
    BY <1>1, <1>2, EmptySeq
  <2>2. /\ Head(incoming) \in Messages /\ Tail(incoming) \in Seq(Messages)
        /\ Len(Tail(incoming)) = Len(incoming) - 1
        /\ \A k \in 1..Len(Tail(incoming)) : Tail(incoming)[k] = incoming[k + 1]
    BY <1>1, <1>2, HeadTailProperties
  <2>3. Head(incoming) = incoming[1]
    BY <1>1
  <2>4. 1 \in 1..Len(incoming) /\ \A k \in 1..(Len(incoming) - 1) : k + 1 \in 1..Len(incoming)
    BY <1>1, <2>1
  <2> QED
    BY <2>2, <2>3, <2>4
<1>3. ASSUME NEW m \in Messages
      PROVE  /\ Append(incoming, m) \in Seq(Messages) /\ Len(Append(incoming, m)) = Len(incoming) + 1
             /\ \A k \in 1..Len(incoming) : Append(incoming, m)[k] = incoming[k]
             /\ Append(incoming, m)[Len(incoming) + 1] = m
  BY <1>1, AppendProperties
<1> QED
  BY <1>2, <1>3

\* What the client asks for in each of its callbacks.
LEMMA ConnectionRequests ==
  ASSUME MqttTypeOK, mqtt_connection_cb
  PROVE  /\ conn = "connecting" /\ pending = <<>> /\ served = 0 /\ subscribed = {} /\ incoming = <<>>
         /\ pending' \in Seq(Requests) /\ Len(pending') <= MQTT_REQ_MAX_IN_FLIGHT
         /\ Len(pending') \in 0..5
         /\ \A k \in 1..Len(pending') : pending'[k] = IF k = 5 THEN Pub("online", 1) ELSE Sub(Topics[k])
         /\ 5 <= MQTT_REQ_MAX_IN_FLIGHT => Len(pending') = 5
<1> DEFINE subs == sub_unsub_topics(TRUE)
           l == Append(subs, Pub("online", 1))
<1>1. /\ conn = "connecting" /\ mqtt_request(l) /\ UNCHANGED served
  BY DEF mqtt_connection_cb
<1>2. pending = <<>> /\ Len(pending) = 0 /\ served = 0 /\ subscribed = {} /\ incoming = <<>>
  BY <1>1 DEF MqttTypeOK
<1>3. subs \in Seq(Requests) /\ Len(subs) = 4 /\ \A k \in 1..4 : subs[k] = Sub(Topics[k])
  BY TopicList
<1>4. Pub("online", 1) \in Requests
  BY RequestTypes
<1> HIDE DEF subs
<1>5. /\ l \in Seq(Requests) /\ Len(l) = Len(subs) + 1 /\ l[Len(subs) + 1] = Pub("online", 1)
      /\ \A k \in 1..Len(subs) : l[k] = subs[k]
  <2>0. subs \in Seq(Requests) /\ Len(subs) \in Nat
    BY <1>3
  <2>1. ASSUME NEW r \in Requests
        PROVE  /\ Append(subs, r) \in Seq(Requests) /\ Len(Append(subs, r)) = Len(subs) + 1
               /\ Append(subs, r)[Len(subs) + 1] = r
               /\ \A k \in 1..Len(subs) : Append(subs, r)[k] = subs[k]
    BY <2>0, AppendProperties
  <2> QED
    BY <1>4, <2>1, Zenon
<1> HIDE DEF l
<1>8. l \in Seq(Requests) /\ Len(l) = 5 /\ l[5] = Pub("online", 1)
      /\ \A k \in 1..4 : l[k] = Sub(Topics[k])
  <2>1. Len(subs) + 1 = 5 /\ 1..Len(subs) = 1..4
    BY <1>3
  <2>2. ASSUME NEW k \in 1..4 PROVE l[k] = Sub(Topics[k])
    BY <1>3, <1>5, <2>1
  <2> QED
    BY <1>5, <2>1, <2>2
<1>6. /\ pending' \in Seq(Requests) /\ Len(pending') <= MQTT_REQ_MAX_IN_FLIGHT
      /\ Len(pending') \in 0..5
      /\ \A k \in 1..Len(pending') : pending'[k] = l[k - 0]
      /\ 5 <= MQTT_REQ_MAX_IN_FLIGHT => Len(pending') = 5
  <2>1. /\ pending' \in Seq(Requests) /\ Len(pending') <= MQTT_REQ_MAX_IN_FLIGHT
        /\ Len(pending') \in Len(pending)..(Len(pending) + Len(l))
        /\ \A k \in (Len(pending) + 1)..Len(pending') : pending'[k] = l[k - Len(pending)]
        /\ Len(pending) + Len(l) <= MQTT_REQ_MAX_IN_FLIGHT => Len(pending') = Len(pending) + Len(l)
    BY <1>1, <1>8, RequestTaken
  <2>2. Len(pending) = 0 /\ Len(pending) + 1 = 1 /\ Len(pending) + Len(l) = 5
    BY <1>2, <1>8
  <2> QED
    BY <2>1, <2>2
<1>7. ASSUME NEW k \in 1..Len(pending')
      PROVE  pending'[k] = IF k = 5 THEN Pub("online", 1) ELSE Sub(Topics[k])
  <2>1. k - 0 = k /\ (k # 5 => k \in 1..4)
    BY <1>6
  <2> QED
    BY <1>8, <1>6, <2>1
<1> QED
  BY <1>1, <1>2, <1>6, <1>7

\* /exit asks for the four subscriptions to be cancelled.
LEMMA ExitRequests ==
  ASSUME MqttTypeOK, mqtt_request(sub_unsub_topics(FALSE))
  PROVE  /\ pending' \in Seq(Requests) /\ Len(pending') <= MQTT_REQ_MAX_IN_FLIGHT
         /\ Len(pending') \in Len(pending)..(Len(pending) + 4)
         /\ \A k \in 1..Len(pending) : pending'[k] = pending[k]
         /\ \A k \in (Len(pending) + 1)..Len(pending') :
              k - Len(pending) \in 1..4 /\ pending'[k] = Unsub(Topics[k - Len(pending)])
         /\ Len(pending) + 4 <= MQTT_REQ_MAX_IN_FLIGHT => Len(pending') = Len(pending) + 4
<1> DEFINE l == sub_unsub_topics(FALSE)
<1>1. l \in Seq(Requests) /\ Len(l) = 4 /\ \A k \in 1..4 : l[k] = Unsub(Topics[k])
  BY TopicList
<1>2. mqtt_request(l)
  OBVIOUS
<1> HIDE DEF l
<1>3. /\ pending' \in Seq(Requests) /\ Len(pending') <= MQTT_REQ_MAX_IN_FLIGHT
      /\ Len(pending') \in Len(pending)..(Len(pending) + 4)
      /\ \A k \in 1..Len(pending) : pending'[k] = pending[k]
      /\ \A k \in (Len(pending) + 1)..Len(pending') : pending'[k] = l[k - Len(pending)]
      /\ Len(pending) + 4 <= MQTT_REQ_MAX_IN_FLIGHT => Len(pending') = Len(pending) + 4
  BY <1>1, <1>2, RequestTaken
<1>4. \A k \in (Len(pending) + 1)..Len(pending') : k - Len(pending) \in 1..4
  <2>1. Len(pending) \in Nat
    BY DEF MqttTypeOK
  <2> QED
    BY <1>3, <2>1
<1> QED
  BY <1>1, <1>3, <1>4

LEMMA MqttTypeNext == MqttTypeOK /\ [MqttNext]_mqttVars => MqttTypeOK'
<1> SUFFICES ASSUME MqttTypeOK, [MqttNext]_mqttVars PROVE MqttTypeOK'
  OBVIOUS
<1> USE DEF clientVars, endVars, wireVars
<1>0. Len(pending) \in Nat /\ Len(<<>>) = 0 /\ MQTT_REQ_MAX_IN_FLIGHT \in Nat
      /\ <<>> \in Seq(Requests) /\ <<>> \in Seq(Messages)
  BY SizesAssumption DEF MqttTypeOK
<1>1. CASE mqtt_connection_cb
  <2>1. /\ UNCHANGED <<patient, subscribe_count, stop_client, led, sensor, served, subscribed, incoming, board>>
        /\ conn' = "connected"
    BY <1>1 DEF mqtt_connection_cb
  <2>2. pending' \in Seq(Requests) /\ Len(pending') <= MQTT_REQ_MAX_IN_FLIGHT
        /\ Len(pending') \in Nat /\ served = 0
    BY <1>1, ConnectionRequests
  <2> QED
    BY <2>1, <2>2 DEF MqttTypeOK
<1>2. CASE mqtt_connection_cb_disconnected
  BY <1>0, <1>2 DEF mqtt_connection_cb_disconnected, MqttTypeOK
<1>3. CASE RequestAnswered
  <2>1. pending # <<>> /\ conn = "connected" /\ served > 0
    BY <1>0, <1>3 DEF RequestAnswered, MqttTypeOK
  <2>2. UNCHANGED <<patient, stop_client, led, sensor, board>>
    BY <1>3 DEF RequestAnswered
  <2>3. subscribe_count' \in Int
    BY <1>3, <2>1, RequestsTail, RequestShape DEF RequestAnswered, NewCount, MqttTypeOK
  <2>4. \/ /\ conn' = "disconnected" /\ pending' = <<>> /\ served' = 0
           /\ subscribed' = {} /\ incoming' = <<>>
        \/ /\ pending' = Tail(pending) /\ served' = served - 1 /\ UNCHANGED <<conn, subscribed, incoming>>
    BY <1>3 DEF RequestAnswered
  <2>5. Tail(pending) \in Seq(Requests) /\ Len(Tail(pending)) = Len(pending) - 1
    BY <2>1, RequestsTail
  <2>6. /\ pending' \in Seq(Requests) /\ Len(pending') <= MQTT_REQ_MAX_IN_FLIGHT
        /\ served' \in Nat /\ served' <= Len(pending')
    <3>1. served \in Nat /\ served <= Len(pending) /\ Len(pending) <= MQTT_REQ_MAX_IN_FLIGHT
      BY DEF MqttTypeOK
    <3>2. CASE pending' = <<>> /\ served' = 0
      BY <1>0, <3>2
    <3>3. CASE pending' = Tail(pending) /\ served' = served - 1
      BY <1>0, <2>1, <2>5, <3>1, <3>3
    <3> QED
      BY <2>4, <3>2, <3>3
  <2>7. /\ conn' \in {"connected", "disconnected"} /\ subscribed' \subseteq Commands
        /\ incoming' \in Seq(Messages)
        /\ conn' # "connected" => pending' = <<>> /\ incoming' = <<>> /\ subscribed' = {}
    BY <1>0, <2>1, <2>4 DEF MqttTypeOK
  <2> QED
    BY <2>2, <2>3, <2>6, <2>7 DEF MqttTypeOK
<1>4. CASE mqtt_incoming_data_cb
  <2>1. /\ conn = "connected" /\ incoming # <<>> /\ incoming' = Tail(incoming)
        /\ UNCHANGED <<patient, conn, subscribe_count, sensor, served, subscribed, board>>
    BY <1>4 DEF mqtt_incoming_data_cb
  <2>2. led' \in BOOLEAN /\ stop_client' \in BOOLEAN
    BY <1>4, IncomingTypes DEF mqtt_incoming_data_cb, control_led, MqttTypeOK, Messages, Topic
  <2>3. /\ pending' \in Seq(Requests) /\ Len(pending') <= MQTT_REQ_MAX_IN_FLIGHT
        /\ Len(pending') \in Nat /\ Len(pending) <= Len(pending')
    <3>1. CASE UNCHANGED pending
      BY <1>0, <3>1 DEF MqttTypeOK
    <3>2. CASE mqtt_request(sub_unsub_topics(FALSE))
      BY <1>0, <3>2, ExitRequests
    <3>3. ASSUME NEW r \in Requests, mqtt_request(<<r>>)
          PROVE  /\ pending' \in Seq(Requests) /\ Len(pending') <= MQTT_REQ_MAX_IN_FLIGHT
                 /\ Len(pending') \in Nat /\ Len(pending) <= Len(pending')
      BY <1>0, <3>3, PublishTaken
    <3>4. Pub("led", OnOff(Head(incoming) = "led_on")) \in Requests /\ Pub("uptime", 0) \in Requests
      BY RequestTypes DEF OnOff
    <3> QED
      BY <1>4, <2>1, <3>1, <3>2, <3>3, <3>4, IncomingTypes
         DEF mqtt_incoming_data_cb, control_led, Messages, Topic
  <2> QED
    BY <1>0, <2>1, <2>2, <2>3, IncomingTypes DEF MqttTypeOK
<1>5. CASE temperature_worker_fn
  <2>1. UNCHANGED <<patient, conn, subscribe_count, stop_client, led, sensor, served, subscribed, incoming, board>>
    BY <1>5 DEF temperature_worker_fn
  <2>2. /\ pending' \in Seq(Requests) /\ Len(pending') <= MQTT_REQ_MAX_IN_FLIGHT
        /\ Len(pending') \in Nat /\ Len(pending) <= Len(pending')
        /\ conn # "connected" => UNCHANGED pending
    <3>1. CASE UNCHANGED pending
      BY <1>0, <3>1 DEF MqttTypeOK
    <3>2. CASE conn = "connected" /\ mqtt_request(<<Pub("temperature", sensor)>>)
      <4>1. Pub("temperature", sensor) \in Requests
        BY RequestTypes DEF MqttTypeOK
      <4> QED
        BY <1>0, <3>2, <4>1, PublishTaken
    <3> QED
      BY <1>5, <3>1, <3>2 DEF temperature_worker_fn
  <2> QED
    BY <1>0, <2>1, <2>2 DEF MqttTypeOK
<1>6. CASE MainExits
  BY <1>6 DEF MainExits, MqttTypeOK
<1>7. CASE BrokerServes
  <2>1. /\ conn = "connected" /\ served < Len(pending) /\ served' = served + 1
        /\ UNCHANGED <<patient, conn, subscribe_count, stop_client, led, sensor, pending, incoming>>
    BY <1>7 DEF BrokerServes
  <2> DEFINE r == pending[served + 1]
  <2>2. r \in Requests
    BY <2>1 DEF MqttTypeOK
  <2>3. subscribed' \subseteq Commands /\ board' \in [led : Nat, temperature : Nat]
    <3>1. /\ subscribed' = CASE r.kind = "sub" -> subscribed \cup {r.what}
                             [] r.kind = "unsub" -> subscribed \ {r.what}
                             [] r.kind = "pub" -> subscribed
          /\ \/ r.what \in DOMAIN board /\ board' = [board EXCEPT ![r.what] = r.value]
             \/ UNCHANGED board
      BY <1>7 DEF BrokerServes
    <3> HIDE DEF r
    <3>2. subscribed' \subseteq Commands
      BY <2>2, <3>1, RequestShape DEF MqttTypeOK
    <3>3. board' \in [led : Nat, temperature : Nat]
      <4>1. r.value \in Nat
        BY <2>2, RequestShape
      <4> QED
        BY <3>1, <4>1 DEF MqttTypeOK
    <3> QED
      BY <3>2, <3>3
  <2> QED
    BY <1>0, <2>1, <2>3 DEF MqttTypeOK
<1>8. ASSUME NEW m \in Messages, Publish(m) PROVE MqttTypeOK'
  <2>1. /\ conn = "connected" /\ incoming' = Append(incoming, m)
        /\ UNCHANGED <<patient, conn, subscribe_count, stop_client, led, sensor, pending, served, subscribed, board>>
    BY <1>8 DEF Publish
  <2> QED
    BY <2>1, IncomingTypes DEF MqttTypeOK
<1>9. CASE SensorChanges
  BY <1>9, SizesAssumption DEF SensorChanges, MqttTypeOK
<1>10. CASE UNCHANGED mqttVars
  BY <1>10 DEF mqttVars, MqttTypeOK
<1>11. CASE RequestFails
  <2>1. /\ UNCHANGED <<patient, conn, subscribe_count, stop_client, led, sensor, served, subscribed,
                       incoming, board>>
        /\ conn = "connected" /\ pending # <<>>
        /\ UNCHANGED pending \/ (served = 0 /\ pending' = Tail(pending))
    BY <1>11, Fails
  <2>2. Tail(pending) \in Seq(Requests) /\ Len(Tail(pending)) = Len(pending) - 1
    BY <2>1, RequestsTail
  <2>3. /\ pending' \in Seq(Requests) /\ Len(pending') <= MQTT_REQ_MAX_IN_FLIGHT
        /\ served' \in Nat /\ served' <= Len(pending')
    <3>1. CASE UNCHANGED pending
      BY <2>1, <3>1 DEF MqttTypeOK
    <3>2. CASE served = 0 /\ pending' = Tail(pending)
      <4>1. Len(pending) # 0
        BY <2>1, EmptySeq DEF MqttTypeOK
      <4>2. Len(pending) <= MQTT_REQ_MAX_IN_FLIGHT
        BY DEF MqttTypeOK
      <4> QED
        BY <1>0, <2>1, <2>2, <3>2, <4>1, <4>2
    <3> QED
      BY <2>1, <3>1, <3>2
  <2> QED
    BY <2>1, <2>3 DEF MqttTypeOK
<1> QED
  BY <1>1, <1>2, <1>3, <1>4, <1>5, <1>6, <1>7, <1>8, <1>9, <1>10, <1>11 DEF MqttNext, Callbacks

LEMMA MqttTypeInvariance == MqttSpec => []MqttTypeOK
  BY MqttTypeInit, MqttTypeNext, PTL DEF MqttSpec

-----------------------------------------------------------------------------
(* The MQTT client: the count of subscriptions never falls below zero. *)

Pends(kind) == \E k \in 1..Len(pending) : pending[k].kind = kind
ExitComing == \E k \in 1..Len(incoming) : incoming[k] = "exit"

\* Nothing is subscribed to once cancelling has begun.
UnsubsLast ==
  \A j, k \in 1..Len(pending) : j < k /\ pending[j].kind = "unsub" => pending[k].kind # "sub"

\* Where /exit can come from, or has come, a subscription is counted or will be before
\* any is cancelled.
ExitCounted ==
  "exit" \in subscribed \/ ExitComing \/ Pends("unsub") => subscribe_count > 0 \/ Pends("sub")

CountInv ==
  /\ subscribe_count >= 0 /\ UnsubsLast /\ (Pends("unsub") => stop_client) /\ ExitCounted

LEMMA CountInvInit == MqttInit => CountInv
<1> SUFFICES ASSUME MqttInit PROVE CountInv
  OBVIOUS
<1>1. pending = <<>> /\ incoming = <<>> /\ subscribed = {} /\ subscribe_count = 0
  BY DEF MqttInit
<1>2. ~ Pends("unsub") /\ ~ ExitComing
  BY <1>1 DEF Pends, ExitComing
<1> QED
  BY <1>1, <1>2 DEF CountInv, UnsubsLast, ExitCounted

\* Publications may be added to the requests.
PubsAdded ==
  /\ Len(pending') \in Nat /\ Len(pending) <= Len(pending')
  /\ \A k \in 1..Len(pending) : pending'[k] = pending[k]
  /\ \A k \in (Len(pending) + 1)..Len(pending') : pending'[k].kind = "pub"

LEMMA PublishAdds ==
  ASSUME MqttTypeOK, NEW r \in Requests, r.kind = "pub", mqtt_request(<<r>>)
  PROVE  PubsAdded
<1>1. Len(pending) \in Nat
  BY DEF MqttTypeOK
<1> QED
  BY <1>1, PublishTaken DEF PubsAdded

LEMMA SameAdds ==
  ASSUME MqttTypeOK, UNCHANGED pending
  PROVE  PubsAdded
<1>1. Len(pending) \in Nat
  BY DEF MqttTypeOK
<1> QED
  BY <1>1 DEF PubsAdded

\* What is asked for and what is cancelled stays as it is then.
LEMMA PubsAddedKinds ==
  ASSUME MqttTypeOK, PubsAdded
  PROVE  /\ \A k \in 1..Len(pending') :
              pending'[k].kind # "pub" => k \in 1..Len(pending) /\ pending'[k] = pending[k]
         /\ \A k \in 1..Len(pending) : k \in 1..Len(pending') /\ pending'[k] = pending[k]
<1>1. Len(pending) \in Nat
  BY DEF MqttTypeOK
<1>2. /\ Len(pending') \in Nat /\ Len(pending) <= Len(pending')
      /\ \A k \in 1..Len(pending) : pending'[k] = pending[k]
      /\ \A k \in (Len(pending) + 1)..Len(pending') : pending'[k].kind = "pub"
  BY DEF PubsAdded
<1>3. \A k \in 1..Len(pending') : k \in 1..Len(pending) \/ k \in (Len(pending) + 1)..Len(pending')
  BY <1>1, <1>2
<1>4. \A k \in 1..Len(pending) : k \in 1..Len(pending')
  BY <1>1, <1>2
<1> QED
  BY <1>2, <1>3, <1>4

LEMMA CountKept ==
  ASSUME MqttTypeOK, CountInv, PubsAdded, UNCHANGED <<subscribe_count, stop_client>>,
         "exit" \in subscribed' \/ ExitComing' => "exit" \in subscribed \/ ExitComing \/ Pends("sub")
  PROVE  CountInv'
<1>1. Pends("sub")' <=> Pends("sub")
  BY PubsAddedKinds DEF Pends
<1>2. Pends("unsub")' <=> Pends("unsub")
  BY PubsAddedKinds DEF Pends
<1>3. UnsubsLast'
  BY PubsAddedKinds DEF CountInv, UnsubsLast
<1> QED
  BY <1>1, <1>2, <1>3 DEF CountInv, ExitCounted

LEMMA CountInvNext == MqttTypeOK /\ CountInv /\ [MqttNext]_mqttVars => CountInv'
<1> SUFFICES ASSUME MqttTypeOK, CountInv, [MqttNext]_mqttVars PROVE CountInv'
  OBVIOUS
<1> USE DEF clientVars, endVars, wireVars
<1>0. Len(pending) \in Nat /\ Len(incoming) \in Nat
  BY DEF MqttTypeOK
<1>1. CASE mqtt_connection_cb
  <2>1. /\ UNCHANGED <<subscribe_count, stop_client, subscribed, incoming>>
        /\ subscribed = {} /\ incoming = <<>>
    BY <1>1, ConnectionRequests DEF mqtt_connection_cb
  <2>2. \A k \in 1..Len(pending') : pending'[k].kind # "unsub"
    BY <1>1, ConnectionRequests, RequestTypes
  <2>3. ~ Pends("unsub")' /\ ~ ExitComing' /\ "exit" \notin subscribed'
    BY <2>1, <2>2 DEF Pends, ExitComing
  <2> QED
    BY <2>1, <2>2, <2>3 DEF CountInv, UnsubsLast, ExitCounted
<1>2. CASE mqtt_connection_cb_disconnected
  <2>1. pending' = <<>> /\ incoming' = <<>> /\ subscribed' = {} /\ subscribe_count' = subscribe_count
    BY <1>2 DEF mqtt_connection_cb_disconnected
  <2>2. ~ Pends("unsub")' /\ ~ ExitComing'
    BY <2>1 DEF Pends, ExitComing
  <2> QED
    BY <2>1, <2>2 DEF CountInv, UnsubsLast, ExitCounted
<1>3. CASE RequestAnswered
  <2>1. pending # <<>>
    BY <1>0, <1>3 DEF RequestAnswered, MqttTypeOK
  <2> DEFINE r == pending[1]
  <2>2. /\ r \in Requests /\ Head(pending) = r /\ 1 \in 1..Len(pending)
        /\ Len(Tail(pending)) = Len(pending) - 1
        /\ \A k \in 1..(Len(pending) - 1) :
             Tail(pending)[k] = pending[k + 1] /\ k + 1 \in 1..Len(pending)
    BY <2>1, RequestsTail
  <2>3. UNCHANGED stop_client /\ subscribe_count \in Int
    BY <1>3 DEF RequestAnswered, MqttTypeOK
  <2>4. r.kind = "unsub" => ~ Pends("sub")
    <3> SUFFICES ASSUME r.kind = "unsub", NEW k \in 1..Len(pending), pending[k].kind = "sub" PROVE FALSE
      BY DEF Pends
    <3>1. k # 1 => 1 < k
      BY <1>0
    <3> QED
      BY <2>2, <3>1 DEF CountInv, UnsubsLast
  <2>5. r.kind = "unsub" => subscribe_count > 0 /\ stop_client
    BY <2>2, <2>4 DEF CountInv, ExitCounted, Pends
  <2>6. /\ r.kind = "sub" => subscribe_count' = subscribe_count + 1
        /\ r.kind = "unsub" => subscribe_count' = subscribe_count - 1
        /\ r.kind = "pub" => subscribe_count' = subscribe_count
    BY <1>3, <2>2 DEF RequestAnswered, NewCount
  <2>7. subscribe_count' >= 0
    BY <2>2, <2>3, <2>5, <2>6, RequestShape DEF CountInv
  <2>8. CASE pending' = <<>> /\ subscribed' = {} /\ incoming' = <<>>
    <3>1. ~ Pends("unsub")' /\ ~ ExitComing'
      BY <2>8 DEF Pends, ExitComing
    <3> QED
      BY <2>7, <2>8, <3>1 DEF CountInv, UnsubsLast, ExitCounted
  <2>9. CASE /\ ~ (r.kind = "unsub" /\ subscribe_count' <= 0 /\ stop_client)
             /\ pending' = Tail(pending) /\ UNCHANGED <<subscribed, incoming>>
    <3>1. Pends("unsub")' => Pends("unsub")
      BY <2>2, <2>9 DEF Pends
    <3>2. UnsubsLast'
      <4> SUFFICES ASSUME NEW j \in 1..(Len(pending) - 1), NEW k \in 1..(Len(pending) - 1),
                          j < k, Tail(pending)[j].kind = "unsub"
                   PROVE  Tail(pending)[k].kind # "sub"
        BY <2>2, <2>9 DEF UnsubsLast
      <4>1. j + 1 < k + 1 /\ j + 1 \in 1..Len(pending) /\ k + 1 \in 1..Len(pending)
        BY <1>0
      <4> QED
        BY <2>2, <4>1 DEF CountInv, UnsubsLast
    <3>3. Pends("sub") /\ r.kind # "sub" => Pends("sub")'
      <4> SUFFICES ASSUME NEW k \in 1..Len(pending), pending[k].kind = "sub", r.kind # "sub"
                   PROVE  Pends("sub")'
        BY DEF Pends
      <4>1. k - 1 \in 1..(Len(pending) - 1) /\ (k - 1) + 1 = k
        BY <1>0, <2>2
      <4> QED
        BY <2>2, <2>9, <4>1 DEF Pends
    <3>4. ExitCounted'
      <4>1. CASE r.kind = "sub"
        BY <2>3, <2>6, <4>1 DEF CountInv, ExitCounted
      <4>2. CASE r.kind = "unsub"
        BY <2>3, <2>5, <2>6, <2>9, <4>2 DEF ExitCounted, CountInv
      <4>3. CASE r.kind = "pub"
        BY <2>6, <2>9, <3>1, <3>3, <4>3 DEF ExitCounted, CountInv, ExitComing
      <4> QED
        BY <2>2, <4>1, <4>2, <4>3, RequestShape
    <3> QED
      BY <2>3, <2>7, <3>1, <3>2, <3>4 DEF CountInv
  <2> QED
    BY <1>3, <2>2, <2>8, <2>9 DEF RequestAnswered, Disconnect
<1>4. CASE mqtt_incoming_data_cb
  <2> DEFINE m == Head(incoming)
  <2>1. /\ incoming # <<>> /\ incoming' = Tail(incoming) /\ UNCHANGED <<subscribe_count, subscribed>>
    BY <1>4 DEF mqtt_incoming_data_cb
  <2>2. /\ m \in Messages /\ m = incoming[1] /\ 1 \in 1..Len(incoming)
        /\ ExitComing' => ExitComing
    BY <2>1, IncomingTypes DEF ExitComing
  <2>3. CASE m = "exit"
    <3>1. mqtt_request(sub_unsub_topics(FALSE)) /\ stop_client'
      BY <1>4, <2>3 DEF mqtt_incoming_data_cb, Topic
    <3>2. /\ Len(pending') \in Len(pending)..(Len(pending) + 4)
          /\ \A k \in 1..Len(pending) : pending'[k] = pending[k]
          /\ \A k \in (Len(pending) + 1)..Len(pending') :
               pending'[k] = Unsub(Topics[k - Len(pending)])
      BY <3>1, ExitRequests
    <3>3. \A k \in 1..Len(pending') : k \in 1..Len(pending) \/ pending'[k].kind = "unsub"
      <4>1. \A k \in 1..Len(pending') : k \in 1..Len(pending) \/ k \in (Len(pending) + 1)..Len(pending')
        BY <1>0, <3>2
      <4> QED
        BY <3>2, <4>1, RequestTypes
    <3>4. ExitComing
      BY <2>2, <2>3 DEF ExitComing
    <3>5. Pends("sub") => Pends("sub")'
      <4>1. \A k \in 1..Len(pending) : k \in 1..Len(pending')
        BY <1>0, <3>2
      <4> QED
        BY <3>2, <4>1 DEF Pends
    <3>6. UnsubsLast'
      <4> SUFFICES ASSUME NEW j \in 1..Len(pending'), NEW k \in 1..Len(pending'), j < k,
                          pending'[j].kind = "unsub", pending'[k].kind = "sub"
                   PROVE  FALSE
        BY DEF UnsubsLast
      <4>1. k \in 1..Len(pending)
        BY <3>3
      <4>2. j \in 1..Len(pending)
        BY <1>0, <4>1
      <4> QED
        BY <3>2, <4>1, <4>2 DEF CountInv, UnsubsLast
    <3> QED
      BY <2>1, <3>1, <3>4, <3>5, <3>6 DEF CountInv, ExitCounted
  <2>4. CASE m # "exit"
    <3>1. UNCHANGED stop_client
      BY <1>4, <2>2, <2>4 DEF mqtt_incoming_data_cb, Messages, Topic
    <3>2. PubsAdded
      <4>1. Pub("led", OnOff(m = "led_on")) \in Requests /\ Pub("uptime", 0) \in Requests
        BY RequestTypes DEF OnOff
      <4>2. Pub("led", OnOff(m = "led_on")).kind = "pub" /\ Pub("uptime", 0).kind = "pub"
        BY RequestTypes
      <4>3. \/ mqtt_request(<<Pub("led", OnOff(m = "led_on"))>>) \/ mqtt_request(<<Pub("uptime", 0)>>)
            \/ UNCHANGED pending
        BY <1>4, <2>2, <2>4 DEF mqtt_incoming_data_cb, control_led, Messages, Topic
      <4> HIDE DEF m
      <4> QED
        BY <4>1, <4>2, <4>3, PublishAdds, SameAdds
    <3> QED
      BY <2>1, <2>2, <3>1, <3>2, CountKept
  <2> QED
    BY <2>3, <2>4
<1>5. CASE temperature_worker_fn
  <2>1. UNCHANGED <<subscribe_count, stop_client, subscribed, incoming>>
    BY <1>5 DEF temperature_worker_fn
  <2>2. PubsAdded
    <3>1. Pub("temperature", sensor) \in Requests /\ Pub("temperature", sensor).kind = "pub"
      BY RequestTypes DEF MqttTypeOK
    <3> QED
      BY <1>5, <3>1, PublishAdds, SameAdds DEF temperature_worker_fn
  <2>3. ExitComing' = ExitComing
    BY <2>1 DEF ExitComing
  <2> QED
    BY <2>1, <2>2, <2>3, CountKept
<1>6. ASSUME UNCHANGED <<pending, incoming, subscribed, subscribe_count, stop_client>> PROVE CountInv'
  BY <1>6, SameAdds, CountKept DEF ExitComing
<1>7. CASE BrokerServes
  <2>1. /\ served < Len(pending) /\ UNCHANGED <<subscribe_count, stop_client, pending, incoming>>
    BY <1>7 DEF BrokerServes
  <2> DEFINE r == pending[served + 1]
  <2>2. r \in Requests /\ served + 1 \in 1..Len(pending)
    BY <2>1 DEF MqttTypeOK
  <2>3. "exit" \in subscribed' => "exit" \in subscribed \/ r.kind = "sub"
    <3>1. subscribed' = CASE r.kind = "sub" -> subscribed \cup {r.what}
                           [] r.kind = "unsub" -> subscribed \ {r.what}
                           [] r.kind = "pub" -> subscribed
      BY <1>7 DEF BrokerServes
    <3> HIDE DEF r
    <3> QED
      BY <2>2, <3>1, RequestShape
  <2>4. "exit" \in subscribed' => "exit" \in subscribed \/ Pends("sub")
    BY <2>2, <2>3 DEF Pends
  <2>5. ExitComing' = ExitComing /\ PubsAdded
    BY <2>1, SameAdds DEF ExitComing
  <2> QED
    BY <2>1, <2>4, <2>5, CountKept
<1>8. ASSUME NEW m \in Messages, Publish(m) PROVE CountInv'
  <2>1. /\ incoming' = Append(incoming, m) /\ Topic(m) \in subscribed
        /\ UNCHANGED <<subscribe_count, stop_client, pending, subscribed>>
    BY <1>8 DEF Publish
  <2>2. ExitComing' => ExitComing \/ m = "exit"
    <3>1. /\ Len(Append(incoming, m)) = Len(incoming) + 1
          /\ \A k \in 1..Len(incoming) : Append(incoming, m)[k] = incoming[k]
          /\ Append(incoming, m)[Len(incoming) + 1] = m
      BY IncomingTypes
    <3>2. \A k \in 1..(Len(incoming) + 1) : k \in 1..Len(incoming) \/ k = Len(incoming) + 1
      BY <1>0
    <3> QED
      BY <2>1, <3>1, <3>2 DEF ExitComing
  <2>3. m = "exit" => "exit" \in subscribed
    BY <2>1 DEF Topic
  <2> QED
    BY <2>1, <2>2, <2>3, SameAdds, CountKept
<1>9. CASE MainExits \/ SensorChanges \/ UNCHANGED mqttVars
  BY <1>6, <1>9 DEF MainExits, SensorChanges, mqttVars
<1>10. CASE RequestFails
  <2>1. UNCHANGED <<subscribe_count, stop_client, subscribed, incoming>> /\ pending # <<>>
    BY <1>10, Fails
  <2>2. CASE UNCHANGED pending
    BY <1>6, <2>1, <2>2
  <2>3. CASE pending' = Tail(pending) /\ pending[1].kind = "pub"
    <3>1. /\ Len(Tail(pending)) = Len(pending) - 1 /\ 1 \in 1..Len(pending)
          /\ \A k \in 1..(Len(pending) - 1) :
               Tail(pending)[k] = pending[k + 1] /\ k + 1 \in 1..Len(pending)
      BY <2>1, RequestsTail
    <3>2. Pends("unsub")' => Pends("unsub")
      BY <2>3, <3>1 DEF Pends
    <3>3. Pends("sub") => Pends("sub")'
      <4> SUFFICES ASSUME NEW k \in 1..Len(pending), pending[k].kind = "sub" PROVE Pends("sub")'
        BY DEF Pends
      <4>1. k - 1 \in 1..(Len(pending) - 1) /\ (k - 1) + 1 = k
        BY <1>0, <2>3
      <4> QED
        BY <2>3, <3>1, <4>1 DEF Pends
    <3>4. UnsubsLast'
      <4> SUFFICES ASSUME NEW j \in 1..(Len(pending) - 1), NEW k \in 1..(Len(pending) - 1),
                          j < k, Tail(pending)[j].kind = "unsub"
                   PROVE  Tail(pending)[k].kind # "sub"
        BY <2>3, <3>1 DEF UnsubsLast
      <4>1. j + 1 < k + 1 /\ j + 1 \in 1..Len(pending) /\ k + 1 \in 1..Len(pending)
        BY <1>0
      <4> QED
        BY <3>1, <4>1 DEF CountInv, UnsubsLast
    <3> QED
      BY <2>1, <3>2, <3>3, <3>4 DEF CountInv, ExitCounted, ExitComing
  <2> QED
    BY <1>10, <2>2, <2>3, Fails
<1> QED
  BY <1>1, <1>2, <1>3, <1>4, <1>5, <1>7, <1>8, <1>9, <1>10 DEF MqttNext, Callbacks

LEMMA CountInvariance == MqttSpec => []CountInv
  BY MqttTypeInvariance, CountInvInit, CountInvNext, PTL DEF MqttSpec

\* The assertion on the count holds at any pace and for any number of requests in flight.
THEOREM CountHolds == MqttSpec => []CountNotNegative
<1>1. CountInv => CountNotNegative
  BY DEF CountInv, CountNotNegative
<1> QED
  BY <1>1, CountInvariance, PTL

-----------------------------------------------------------------------------
(* The MQTT client: commands that come one at a time. *)

\* A command on its way is the only one, and meets no other request than the report of
\* a temperature.
Alone ==
  patient =>
    /\ Len(incoming) <= 1
    /\ incoming # <<>> =>
         /\ Len(pending) <= 1
         /\ \A k \in 1..Len(pending) : pending[k].kind = "pub" /\ pending[k].what = "temperature"

LEMMA AloneInit == MqttInit => Alone
<1> SUFFICES ASSUME MqttInit PROVE Alone
  OBVIOUS
<1>1. incoming = <<>> /\ Len(<<>>) = 0
  BY DEF MqttInit
<1> QED
  BY <1>1 DEF Alone

LEMMA AloneNext == MqttTypeOK /\ Alone /\ [MqttNext]_mqttVars => Alone'
<1> SUFFICES ASSUME MqttTypeOK, Alone, [MqttNext]_mqttVars PROVE Alone'
  OBVIOUS
<1> USE DEF clientVars, endVars, wireVars
<1>0. Len(pending) \in Nat /\ Len(incoming) \in Nat /\ Len(<<>>) = 0
  BY DEF MqttTypeOK
<1>1. ASSUME incoming' = <<>> PROVE Alone'
  BY <1>0, <1>1 DEF Alone
<1>2. ASSUME UNCHANGED <<patient, pending, incoming>> PROVE Alone'
  BY <1>2 DEF Alone
<1>3. CASE mqtt_connection_cb
  BY <1>1, <1>3, ConnectionRequests DEF mqtt_connection_cb
<1>4. CASE mqtt_connection_cb_disconnected
  BY <1>1, <1>4 DEF mqtt_connection_cb_disconnected
<1>5. CASE RequestAnswered
  <2>1. pending # <<>>
    BY <1>0, <1>5 DEF RequestAnswered, MqttTypeOK
  <2>2. CASE pending' = Tail(pending) /\ UNCHANGED <<patient, incoming>>
    <3>1. /\ Len(Tail(pending)) = Len(pending) - 1
          /\ \A k \in 1..(Len(pending) - 1) :
               Tail(pending)[k] = pending[k + 1] /\ k + 1 \in 1..Len(pending)
      BY <2>1, RequestsTail
    <3>2. Len(pending) <= 1 => Len(pending) - 1 <= 1
      BY <1>0
    <3> QED
      BY <2>2, <3>1, <3>2 DEF Alone
  <2> QED
    BY <1>1, <1>5, <2>2 DEF RequestAnswered
<1>6. CASE mqtt_incoming_data_cb
  <2>1. incoming # <<>> /\ incoming' = Tail(incoming) /\ UNCHANGED patient
    BY <1>6 DEF mqtt_incoming_data_cb
  <2>2. CASE ~ patient
    BY <2>1, <2>2 DEF Alone
  <2>3. CASE patient
    <3>1. Len(Tail(incoming)) = Len(incoming) - 1 /\ Len(incoming) <= 1 /\ Tail(incoming) \in Seq(Messages)
          /\ 1 \in 1..Len(incoming)
      BY <2>1, <2>3, IncomingTypes DEF Alone
    <3>2. Len(Tail(incoming)) = 0
      BY <1>0, <3>1
    <3>3. incoming' = <<>>
      BY <2>1, <3>1, <3>2, EmptySeq
    <3> QED
      BY <1>1, <3>3
  <2> QED
    BY <2>2, <2>3
<1>7. CASE temperature_worker_fn
  <2>1. UNCHANGED <<patient, incoming>> /\ (patient => \A k \in 1..Len(pending) : pending[k].what # "temperature")
    BY <1>7 DEF temperature_worker_fn, MqttTypeOK
  <2>2. CASE UNCHANGED pending
    BY <1>2, <2>1, <2>2
  <2>3. CASE mqtt_request(<<Pub("temperature", sensor)>>)
    <3>1. /\ Len(pending') \in Len(pending)..(Len(pending) + 1)
          /\ \A k \in 1..Len(pending) : pending'[k] = pending[k]
          /\ \A k \in (Len(pending) + 1)..Len(pending') : pending'[k] = Pub("temperature", sensor)
      BY <2>3, PublishTaken, RequestTypes DEF MqttTypeOK
    <3>2. ASSUME patient, incoming # <<>> PROVE Len(pending) = 0
      <4>1. Len(pending) <= 1 /\ (Len(pending) = 1 => 1 \in 1..Len(pending))
        BY <3>2 DEF Alone
      <4> QED
        BY <1>0, <2>1, <3>2, <4>1 DEF Alone
    <3>3. ASSUME patient, incoming # <<>>
          PROVE  /\ Len(pending') <= 1
                 /\ \A k \in 1..Len(pending') :
                      pending'[k].kind = "pub" /\ pending'[k].what = "temperature"
      <4>0. Len(pending) = 0
        BY <3>2, <3>3, Zenon
      <4>1. Len(pending') \in 0..1
        BY <3>1, <4>0
      <4>2. \A k \in 1..Len(pending') : k \in (Len(pending) + 1)..Len(pending')
        BY <3>2, <3>3, <4>1
      <4> QED
        BY <3>1, <4>1, <4>2, RequestTypes
    <3> QED
      BY <2>1, <3>3 DEF Alone
  <2> QED
    BY <1>7, <2>2, <2>3 DEF temperature_worker_fn
<1>8. CASE BrokerServes
  BY <1>2, <1>8 DEF BrokerServes
<1>9. ASSUME NEW m \in Messages, Publish(m) PROVE Alone'
  <2>1. /\ incoming' = Append(incoming, m) /\ UNCHANGED <<patient, pending>>
        /\ patient => pending = <<>> /\ incoming = <<>>
    BY <1>9 DEF Publish
  <2>2. Len(incoming') = Len(incoming) + 1
    BY <2>1, IncomingTypes
  <2> QED
    BY <1>0, <2>1, <2>2 DEF Alone
<1>10. CASE MainExits \/ SensorChanges \/ UNCHANGED mqttVars
  BY <1>2, <1>10 DEF MainExits, SensorChanges, mqttVars
<1>11. CASE RequestFails
  <2>1. UNCHANGED <<patient, incoming>> /\ (UNCHANGED pending \/ ~ patient)
    BY <1>11, Fails
  <2> QED
    BY <1>2, <2>1 DEF Alone
<1> QED
  BY <1>3, <1>4, <1>5, <1>6, <1>7, <1>8, <1>9, <1>10, <1>11 DEF MqttNext, Callbacks

LEMMA AloneInvariance == MqttSpec => []Alone
  BY MqttTypeInvariance, AloneInit, AloneNext, PTL DEF MqttSpec

\* The requests the broker has not carried out.
Unserved == (served + 1)..Len(pending)

\* Carrying one out, or answering one, changes which they are.
LEMMA UnservedShifts ==
  ASSUME MqttTypeOK, served > 0, pending' = Tail(pending), served' = served - 1
  PROVE  /\ Len(pending') = Len(pending) - 1
         /\ \A k \in 1..Len(pending') :
              /\ pending'[k] = pending[k + 1] /\ k + 1 \in 1..Len(pending)
              /\ (k <= served' <=> k + 1 <= served) /\ (k \in Unserved' <=> k + 1 \in Unserved)
         /\ \A k \in Unserved : k - 1 \in Unserved' /\ k - 1 \in 1..Len(pending') /\ (k - 1) + 1 = k
<1>1. /\ Len(pending) \in Nat /\ served \in Nat /\ served <= Len(pending)
      /\ pending \in Seq(Requests)
  BY DEF MqttTypeOK
<1>2. pending # <<>>
  BY <1>1
<1>3. /\ Len(Tail(pending)) = Len(pending) - 1
      /\ \A k \in 1..(Len(pending) - 1) :
           Tail(pending)[k] = pending[k + 1] /\ k + 1 \in 1..Len(pending)
  BY <1>2, RequestsTail
<1>4. \A k \in 1..(Len(pending) - 1) :
        /\ (k <= served - 1 <=> k + 1 <= served)
        /\ (k \in (served - 1 + 1)..(Len(pending) - 1) <=> k + 1 \in (served + 1)..Len(pending))
  BY <1>1
<1>5. \A k \in (served + 1)..Len(pending) :
        /\ k - 1 \in (served - 1 + 1)..(Len(pending) - 1) /\ k - 1 \in 1..(Len(pending) - 1)
        /\ (k - 1) + 1 = k
  BY <1>1
<1> QED
  BY <1>3, <1>4, <1>5 DEF Unserved

LEMMA UnservedShrinks ==
  ASSUME MqttTypeOK, served < Len(pending), served' = served + 1, UNCHANGED pending
  PROVE  /\ served + 1 \in Unserved /\ served + 1 \in 1..Len(pending)
         /\ \A k : k \in Unserved <=> k = served + 1 \/ k \in Unserved'
         /\ \A k \in 1..Len(pending) : k <= served' <=> k <= served \/ k = served + 1
         /\ \A k \in Unserved' : k # served + 1
<1>1. Len(pending) \in Nat /\ served \in Nat
  BY DEF MqttTypeOK
<1> QED
  BY <1>1 DEF Unserved

LEMMA UnservedGrows ==
  ASSUME MqttTypeOK, UNCHANGED served, Len(pending') \in Nat, Len(pending) <= Len(pending')
  PROVE  /\ \A k : k \in Unserved' <=> k \in Unserved \/ k \in (Len(pending) + 1)..Len(pending')
         /\ \A k \in Unserved : k \in 1..Len(pending)
         /\ \A k \in (Len(pending) + 1)..Len(pending') : k > served
         /\ \A k \in 1..Len(pending') : k \in 1..Len(pending) \/ k \in (Len(pending) + 1)..Len(pending')
         /\ \A k \in 1..Len(pending) : k \in 1..Len(pending')
<1>1. Len(pending) \in Nat /\ served \in Nat /\ served <= Len(pending)
  BY DEF MqttTypeOK
<1> QED
  BY <1>1 DEF Unserved

-----------------------------------------------------------------------------
(* The MQTT client: the reports of the LED. *)

\* The last report the broker has still to see is of the LED as it is, and where there is
\* none the broker has seen it, unless the last one was lost.
LastIsRight ==
  /\ \A k \in Unserved :
       IsReport(pending[k]) /\ (\A j \in Unserved : j > k => ~ IsReport(pending[j]))
         => pending[k].value = OnOff(led)
  /\ (\A k \in Unserved : ~ IsReport(pending[k])) => board.led = OnOff(led)

LedInv ==
  /\ conn = "connecting" => board.led = 0 /\ ~ led
  /\ conn = "connected" /\ ~ lost_report => LastIsRight

LEMMA LedInit == MqttInit => LedInv
<1> SUFFICES ASSUME MqttInit PROVE LedInv
  OBVIOUS
<1>1. conn = "connecting" /\ ~ led /\ board.led = 0
  BY DEF MqttInit
<1> QED
  BY <1>1 DEF LedInv

\* Other requests are added, or none.
LEMMA LedKept ==
  ASSUME MqttTypeOK, LedInv, UNCHANGED <<conn, led, board, served, lost_report>>,
         Len(pending') \in Nat, Len(pending) <= Len(pending'),
         \A k \in 1..Len(pending) : pending'[k] = pending[k],
         \A k \in (Len(pending) + 1)..Len(pending') : ~ IsReport(pending'[k])
  PROVE  LedInv'
<1>1. \A k \in Unserved : k \in Unserved' /\ pending'[k] = pending[k]
  BY UnservedGrows
<1>2. \A k \in Unserved' : IsReport(pending'[k]) => k \in Unserved /\ pending'[k] = pending[k]
  BY UnservedGrows
<1>3. LastIsRight => LastIsRight'
  <2> SUFFICES ASSUME LastIsRight PROVE LastIsRight'
    OBVIOUS
  <2>1. ASSUME NEW k \in Unserved', IsReport(pending'[k]),
               \A j \in Unserved' : j > k => ~ IsReport(pending'[j])
        PROVE  pending'[k].value = OnOff(led')
    <3>1. k \in Unserved /\ IsReport(pending[k]) /\ pending'[k] = pending[k]
      BY <1>2, <2>1
    <3>2. \A j \in Unserved : j > k => ~ IsReport(pending[j])
      BY <1>1, <2>1
    <3> QED
      BY <3>1, <3>2, Zenon DEF LastIsRight
  <2>2. (\A k \in Unserved' : ~ IsReport(pending'[k])) => board'.led = OnOff(led')
    <3>1. led' = led /\ board' = board
      OBVIOUS
    <3> QED
      BY <1>1, <3>1, Zenon DEF LastIsRight
  <2> QED
    BY <2>1, <2>2, Zenon DEF LastIsRight
<1>4. conn' = conn /\ led' = led /\ board' = board /\ (~ lost_report' => ~ lost_report)
  OBVIOUS
<1>5. conn' = "connecting" => board'.led = 0 /\ ~ led'
  BY <1>4 DEF LedInv
<1>6. conn' = "connected" /\ ~ lost_report' => LastIsRight'
  BY <1>3, <1>4, Zenon DEF LedInv
<1> QED
  BY <1>5, <1>6, Zenon DEF LedInv

LEMMA LedSame ==
  ASSUME MqttTypeOK, LedInv, UNCHANGED <<conn, led, board, served, pending, lost_report>>
  PROVE  LedInv'
<1>1. Len(pending) \in Nat /\ Len(pending') = Len(pending) /\ Len(pending) <= Len(pending')
  BY DEF MqttTypeOK
<1>2. \A k \in (Len(pending) + 1)..Len(pending') : ~ IsReport(pending'[k])
  BY <1>1
<1>3. \A k \in 1..Len(pending) : pending'[k] = pending[k]
  OBVIOUS
<1> QED
  BY <1>1, <1>2, <1>3, LedKept

\* The first request leaves, carried out before or no report.
LEMMA LedShifts ==
  ASSUME MqttTypeOK, LedInv, UNCHANGED <<conn, led, board>>, ~ lost_report' => ~ lost_report,
         pending # <<>>, pending' = Tail(pending),
         \A k \in Int : k \in Unserved' <=> k \in 1..(Len(pending) - 1) /\ k + 1 \in Unserved,
         \A k \in Unserved : IsReport(pending[k]) => k # 1
  PROVE  LedInv'
<1>0. Len(pending) \in Nat /\ \A k \in Unserved : k \in 1..Len(pending)
  BY DEF MqttTypeOK, Unserved
<1>1. \A k \in Unserved' : k \in Int
  BY DEF Unserved
<1>2. \A k \in Unserved' : k + 1 \in Unserved /\ pending'[k] = pending[k + 1]
  BY <1>1, RequestsTail
<1>3. ASSUME NEW k \in Unserved, k # 1
      PROVE  k \in Int /\ k - 1 \in Unserved' /\ pending'[k - 1] = pending[k]
  <2>1. k \in 1..Len(pending) /\ k - 1 \in 1..(Len(pending) - 1) /\ (k - 1) + 1 = k
    BY <1>0, <1>3
  <2>2. k - 1 \in Unserved'
    BY <1>3, <2>1
  <2> QED
    BY <1>2, <2>1, <2>2
<1>4. led' = led /\ board' = board /\ conn' = conn
  OBVIOUS
<1>5. ASSUME LastIsRight PROVE LastIsRight'
  <2>1. ASSUME NEW k \in Unserved', IsReport(pending'[k]),
               \A j \in Unserved' : j > k => ~ IsReport(pending'[j])
        PROVE  pending'[k].value = OnOff(led')
    <3>1. k + 1 \in Unserved /\ IsReport(pending[k + 1]) /\ pending'[k].value = pending[k + 1].value
      BY <1>2, <2>1
    <3>2. ASSUME NEW j \in Unserved, j > k + 1 PROVE ~ IsReport(pending[j])
      <4>1. j # 1 /\ j - 1 > k
        BY <1>0, <1>1, <2>1, <3>2
      <4> QED
        BY <1>3, <2>1, <4>1
    <3> QED
      BY <1>4, <1>5, <3>1, <3>2, Zenon DEF LastIsRight
  <2>2. ASSUME \A k \in Unserved' : ~ IsReport(pending'[k]) PROVE board'.led = OnOff(led')
    <3>1. \A k \in Unserved : ~ IsReport(pending[k])
      BY <1>3, <2>2
    <3> QED
      BY <1>4, <1>5, <3>1, Zenon DEF LastIsRight
  <2> QED
    BY <2>1, <2>2, Zenon DEF LastIsRight
<1>6. conn' = "connecting" => board'.led = 0 /\ ~ led'
  BY <1>4 DEF LedInv
<1>7. conn' = "connected" /\ ~ lost_report' => LastIsRight'
  BY <1>4, <1>5, Zenon DEF LedInv
<1> QED
  BY <1>6, <1>7, Zenon DEF LedInv

LEMMA LedNext == MqttTypeOK /\ LedInv /\ [MqttNext]_mqttVars => LedInv'
<1> SUFFICES ASSUME MqttTypeOK, LedInv, [MqttNext]_mqttVars PROVE LedInv'
  OBVIOUS
<1> USE DEF clientVars, endVars, wireVars
<1>0. /\ Len(pending) \in Nat /\ served \in Nat /\ served <= Len(pending)
      /\ MQTT_REQ_MAX_IN_FLIGHT \in Nat /\ Len(pending) <= MQTT_REQ_MAX_IN_FLIGHT
  BY SizesAssumption DEF MqttTypeOK
<1>1. CASE mqtt_connection_cb
  <2>1. conn = "connecting" /\ conn' = "connected" /\ UNCHANGED <<led, board>>
    BY <1>1 DEF mqtt_connection_cb
  <2>2. ~ led' /\ board'.led = 0
    BY <2>1 DEF LedInv
  <2>3. \A k \in 1..Len(pending') : ~ IsReport(pending'[k])
    BY <1>1, ConnectionRequests, RequestTypes DEF IsReport
  <2>4. UNCHANGED served /\ served = 0 /\ Len(pending') \in Nat
    BY <1>1, ConnectionRequests DEF mqtt_connection_cb
  <2>5. \A k \in Unserved' : k \in 1..Len(pending')
    BY <2>4 DEF Unserved
  <2> QED
    BY <2>1, <2>2, <2>3, <2>5 DEF LedInv, LastIsRight, OnOff
<1>2. CASE mqtt_connection_cb_disconnected
  BY <1>2 DEF mqtt_connection_cb_disconnected, LedInv
<1>3. CASE RequestAnswered
  <2>1. CASE conn' = "disconnected"
    BY <2>1 DEF LedInv
  <2>2. CASE pending' = Tail(pending) /\ served' = served - 1 /\ UNCHANGED conn
    <3>1. served > 0 /\ UNCHANGED <<led, board, lost_report>> /\ pending # <<>>
      BY <1>0, <1>3 DEF RequestAnswered, MqttTypeOK
    <3>2. Len(pending') = Len(pending) - 1
      BY <2>2, <3>1, UnservedShifts
    <3>3. \A k \in Int : k \in Unserved' <=> k \in 1..(Len(pending) - 1) /\ k + 1 \in Unserved
      BY <1>0, <2>2, <3>1, <3>2 DEF Unserved
    <3>4. \A k \in Unserved : k # 1
      BY <1>0, <3>1 DEF Unserved
    <3> QED
      BY <2>2, <3>1, <3>3, <3>4, LedShifts
  <2> QED
    BY <1>3, <2>1, <2>2 DEF RequestAnswered
<1>4. CASE mqtt_incoming_data_cb
  <2> DEFINE m == Head(incoming)
  <2>1. /\ conn = "connected" /\ incoming # <<>> /\ UNCHANGED <<conn, served, board>>
    BY <1>4 DEF mqtt_incoming_data_cb
  <2>2. m \in Messages
    BY <2>1, IncomingTypes
  <2>3. CASE m \in {"led_on", "led_off"}
    <3>1. control_led(m)
      BY <1>4, <2>3 DEF mqtt_incoming_data_cb, Topic
    <3> HIDE DEF m
    <3> DEFINE r == Pub("led", OnOff(m = "led_on"))
    <3>2. /\ led' = (m = "led_on") /\ mqtt_request(<<r>>)
          /\ lost_report' = (Len(pending) >= MQTT_REQ_MAX_IN_FLIGHT)
      BY <3>1 DEF control_led
    <3>3. r \in Requests /\ IsReport(r) /\ r.value = OnOff(led')
      <4>1. OnOff(m = "led_on") \in Nat
        BY DEF OnOff
      <4>2. ASSUME NEW v \in Nat
            PROVE  Pub("led", v) \in Requests /\ IsReport(Pub("led", v)) /\ Pub("led", v).value = v
        BY RequestTypes DEF IsReport
      <4>3. OnOff(led') = OnOff(m = "led_on")
        BY <3>2, Zenon
      <4> QED
        BY <4>1, <4>2, <4>3, Zenon
    <3> HIDE DEF r
    <3>4. ASSUME ~ lost_report' PROVE LastIsRight'
      <4>0. ~ (Len(pending) >= MQTT_REQ_MAX_IN_FLIGHT)
        BY <3>2, <3>4, Zenon
      <4>1. Len(pending) + 1 <= MQTT_REQ_MAX_IN_FLIGHT
        BY <1>0, <4>0
      <4>2. /\ Len(pending') = Len(pending) + 1
            /\ \A k \in (Len(pending) + 1)..Len(pending') : pending'[k] = r
        BY <3>2, <3>3, <4>1, PublishTaken
      <4>3. Len(pending') \in Unserved' /\ pending'[Len(pending')] = r
        <5>1. Len(pending') \in (Len(pending) + 1)..Len(pending') /\ Len(pending') \in (served + 1)..Len(pending')
          BY <1>0, <4>2
        <5> QED
          BY <2>1, <4>2, <5>1 DEF Unserved
      <4>4. ASSUME NEW k \in Unserved', \A j \in Unserved' : j > k => ~ IsReport(pending'[j])
            PROVE  pending'[k].value = OnOff(led')
        <5>1. k \in Int /\ k <= Len(pending') /\ Len(pending') \in Int
          BY <1>0, <4>2 DEF Unserved
        <5>2. ~ Len(pending') > k
          BY <3>3, <4>3, <4>4
        <5>3. k = Len(pending')
          BY <5>1, <5>2
        <5> QED
          BY <3>3, <4>3, <5>3
      <4> QED
        BY <3>3, <4>3, <4>4, Zenon DEF LastIsRight
    <3> QED
      BY <2>1, <3>4 DEF LedInv
  <2>4. CASE m \notin {"led_on", "led_off"}
    <3>1. UNCHANGED <<led, lost_report>>
      BY <1>4, <2>2, <2>4 DEF mqtt_incoming_data_cb, Messages, Topic
    <3>2. CASE mqtt_request(<<Pub("uptime", 0)>>)
      <4>1. Pub("uptime", 0) \in Requests /\ ~ IsReport(Pub("uptime", 0))
        BY RequestTypes DEF IsReport
      <4>2. /\ Len(pending') \in Nat /\ Len(pending) <= Len(pending')
            /\ \A k \in 1..Len(pending) : pending'[k] = pending[k]
            /\ \A k \in (Len(pending) + 1)..Len(pending') : ~ IsReport(pending'[k])
        BY <1>0, <3>2, <4>1, PublishTaken
      <4> QED
        BY <2>1, <3>1, <4>2, LedKept
    <3>3. CASE mqtt_request(sub_unsub_topics(FALSE))
      <4>1. /\ Len(pending') \in Nat /\ Len(pending) <= Len(pending')
            /\ \A k \in 1..Len(pending) : pending'[k] = pending[k]
            /\ \A k \in (Len(pending) + 1)..Len(pending') : ~ IsReport(pending'[k])
        BY <1>0, <3>3, ExitRequests, RequestTypes DEF IsReport
      <4> QED
        BY <2>1, <3>1, <4>1, LedKept
    <3>4. CASE UNCHANGED pending
      BY <2>1, <3>1, <3>4, LedSame
    <3> QED
      BY <1>4, <2>2, <2>4, <3>2, <3>3, <3>4 DEF mqtt_incoming_data_cb, Messages, Topic
  <2> QED
    BY <2>3, <2>4
<1>5. CASE temperature_worker_fn
  <2>1. UNCHANGED <<conn, led, board, served, lost_report>>
    BY <1>5 DEF temperature_worker_fn
  <2>2. CASE UNCHANGED pending
    BY <2>1, <2>2, LedSame
  <2>3. CASE mqtt_request(<<Pub("temperature", sensor)>>)
    <3>1. Pub("temperature", sensor) \in Requests /\ ~ IsReport(Pub("temperature", sensor))
      BY RequestTypes DEF IsReport, MqttTypeOK
    <3>2. /\ Len(pending') \in Nat /\ Len(pending) <= Len(pending')
          /\ \A k \in 1..Len(pending) : pending'[k] = pending[k]
          /\ \A k \in (Len(pending) + 1)..Len(pending') : ~ IsReport(pending'[k])
      BY <1>0, <2>3, <3>1, PublishTaken
    <3> QED
      BY <2>1, <3>2, LedKept
  <2> QED
    BY <1>5, <2>2, <2>3 DEF temperature_worker_fn
<1>6. CASE BrokerServes
  <2>1. served < Len(pending) /\ served' = served + 1 /\ UNCHANGED <<conn, led, pending, lost_report>>
    BY <1>6 DEF BrokerServes
  <2> DEFINE r == pending[served + 1]
  <2>2. /\ served + 1 \in Unserved /\ served + 1 \in 1..Len(pending)
        /\ \A k : k \in Unserved <=> k = served + 1 \/ k \in Unserved'
        /\ \A k \in Unserved' : k > served + 1
    <3>1. \A k \in Unserved' : k > served + 1
      BY <1>0, <2>1 DEF Unserved
    <3> QED
      BY <2>1, <3>1, UnservedShrinks
  <2>3. r \in Requests
    BY <2>2 DEF MqttTypeOK
  <2>4. board' = IF r.kind = "pub" /\ r.what \in DOMAIN board
                 THEN [board EXCEPT ![r.what] = r.value] ELSE board
    BY <1>6 DEF BrokerServes
  <2>5. IsReport(r) => board'.led = r.value
    BY <2>4 DEF IsReport, MqttTypeOK
  <2>6. ~ IsReport(r) => board'.led = board.led
    BY <2>4 DEF IsReport, MqttTypeOK
  <2>7. conn = "connected"
    BY <1>6 DEF BrokerServes
  <2>8. ASSUME LastIsRight PROVE LastIsRight'
    <3>1. ASSUME NEW k \in Unserved', IsReport(pending[k]),
                 \A j \in Unserved' : j > k => ~ IsReport(pending[j])
          PROVE  pending[k].value = OnOff(led)
      <4>1. \A j \in Unserved : j > k => j \in Unserved'
        <5>1. k > served + 1 /\ k \in Int
          BY <2>2 DEF Unserved
        <5> QED
          BY <1>0, <2>2, <5>1
      <4> QED
        BY <2>2, <2>8, <3>1, <4>1 DEF LastIsRight
    <3>2. ASSUME \A k \in Unserved' : ~ IsReport(pending[k]) PROVE board'.led = OnOff(led)
      <4>1. CASE IsReport(r)
        <5>1. \A j \in Unserved : j > served + 1 => ~ IsReport(pending[j])
          BY <1>0, <2>2, <3>2
        <5> QED
          BY <2>2, <2>5, <2>8, <4>1, <5>1 DEF LastIsRight
      <4>2. CASE ~ IsReport(r)
        <5>1. \A k \in Unserved : ~ IsReport(pending[k])
          BY <2>2, <3>2, <4>2
        <5> QED
          BY <2>6, <2>8, <4>2, <5>1 DEF LastIsRight
      <4> QED
        BY <4>1, <4>2
    <3>3. pending' = pending /\ led' = led
      BY <2>1
    <3> QED
      BY <3>1, <3>2, <3>3, Zenon DEF LastIsRight
  <2>9. ~ lost_report' => ~ lost_report
    BY <2>1
  <2> QED
    BY <2>1, <2>7, <2>8, <2>9, Zenon DEF LedInv
<1>7. CASE (\E m \in Messages : Publish(m)) \/ MainExits \/ SensorChanges \/ UNCHANGED mqttVars
  BY <1>7, LedSame DEF Publish, MainExits, SensorChanges, mqttVars
<1>8. CASE RequestFails
  <2>1. /\ UNCHANGED <<conn, led, served, board>> /\ pending # <<>>
        /\ \/ UNCHANGED <<pending, lost_report>>
           \/ /\ served = 0 /\ pending' = Tail(pending)
              /\ ~ lost_report' => ~ lost_report /\ ~ IsReport(pending[1])
    BY <1>8, Fails
  <2>2. CASE UNCHANGED <<pending, lost_report>>
    BY <2>1, <2>2, LedSame
  <2>3. CASE lost_report'
    <3>1. conn' = "connected" /\ UNCHANGED <<led, board>>
      BY <1>8 DEF RequestFails
    <3> QED
      BY <2>3, <3>1, Zenon DEF LedInv
  <2>4. CASE /\ served = 0 /\ pending' = Tail(pending) /\ ~ lost_report' /\ ~ lost_report
             /\ ~ IsReport(pending[1])
    <3>1. Len(pending') = Len(pending) - 1
      BY <2>1, <2>4, RequestsTail
    <3>2. \A k \in Int : k \in Unserved' <=> k \in 1..(Len(pending) - 1) /\ k + 1 \in Unserved
      <4>1. Len(pending) \in Nat /\ served' = 0 /\ served = 0
        BY <1>0, <2>1, <2>4
      <4> QED
        BY ONLY <3>1, <4>1 DEF Unserved
    <3> QED
      BY <2>1, <2>4, <3>2, LedShifts
  <2> QED
    BY <2>1, <2>2, <2>3, <2>4
<1> QED
  BY <1>1, <1>2, <1>3, <1>4, <1>5, <1>6, <1>7, <1>8 DEF MqttNext, Callbacks

\* However many requests fit and however commands, reports and answers cross, what the broker
\* was told of the LED is what it shows, unless the last report was refused or one timed out.
THEOREM LedIsReported == MqttSpec => []LedReported
<1>1. MqttTypeOK /\ LedInv => LedReported
  <2> SUFFICES ASSUME MqttTypeOK, LedInv, conn = "connected", pending = <<>>, ~ lost_report
               PROVE  board.led = OnOff(led)
    BY DEF LedReported
  <2>1. \A k : k \notin Unserved
    BY DEF Unserved, MqttTypeOK
  <2> QED
    BY <2>1 DEF LedInv, LastIsRight
<1> QED
  BY <1>1, LedInit, LedNext, MqttTypeInvariance, PTL DEF MqttSpec

-----------------------------------------------------------------------------
(* The MQTT client: the count of subscriptions and those at the broker. *)

\* The answers on their way, one request at a time.
LEMMA AnswersNatural ==
  ASSUME MqttTypeOK, NEW kind
  PROVE  /\ IsFiniteSet({k \in 1..served : pending[k].kind = kind})
         /\ Answers(kind) \in Nat /\ (served = 0 => Answers(kind) = 0)
<1> DEFINE S == {k \in 1..served : pending[k].kind = kind}
<1>1. served \in Nat
  BY DEF MqttTypeOK
<1>2. IsFiniteSet(1..served) /\ S \in SUBSET (1..served)
  BY <1>1, FS_Interval
<1>3. IsFiniteSet(S)
  BY <1>2, FS_Subset
<1>4. Cardinality(S) \in Nat
  BY <1>3, FS_CardinalityType
<1>5. served = 0 => S = {}
  OBVIOUS
<1> HIDE DEF S
<1>6. served = 0 => Cardinality(S) = 0
  BY <1>5, FS_EmptySet
<1> QED
  BY <1>3, <1>4, <1>6 DEF S, Answers

LEMMA AnswersSame ==
  ASSUME MqttTypeOK, UNCHANGED served, \A k \in 1..Len(pending) : pending'[k] = pending[k], NEW kind
  PROVE  Answers(kind)' = Answers(kind)
<1>1. \A k \in 1..served : k \in 1..Len(pending)
  BY DEF MqttTypeOK
<1>2. {k \in 1..served' : pending'[k].kind = kind} = {k \in 1..served : pending[k].kind = kind}
  BY <1>1
<1> QED
  BY <1>2 DEF Answers

LEMMA AnswersGrow ==
  ASSUME MqttTypeOK, served < Len(pending), served' = served + 1, UNCHANGED pending, NEW kind
  PROVE  /\ pending[served + 1].kind = kind => Answers(kind)' = Answers(kind) + 1
         /\ pending[served + 1].kind # kind => Answers(kind)' = Answers(kind)
<1> DEFINE S == {k \in 1..served : pending[k].kind = kind}
           T == {k \in 1..(served + 1) : pending[k].kind = kind}
<1>1. served \in Nat /\ IsFiniteSet(S)
  BY AnswersNatural DEF MqttTypeOK
<1>2. Answers(kind)' = Cardinality(T) /\ Answers(kind) = Cardinality(S) /\ served + 1 \notin S
  BY <1>1 DEF Answers
<1>3. \A k : k \in 1..(served + 1) <=> k \in 1..served \/ k = served + 1
  BY <1>1
<1>4. CASE pending[served + 1].kind = kind
  <2>1. T = S \cup {served + 1}
    BY <1>3, <1>4
  <2> HIDE DEF S, T
  <2>2. Cardinality(S \cup {served + 1}) = Cardinality(S) + 1
    BY <1>1, <1>2, FS_AddElement
  <2> QED
    BY <1>2, <1>4, <2>1, <2>2
<1>5. CASE pending[served + 1].kind # kind
  <2>1. T = S
    BY <1>3, <1>5
  <2> QED
    BY <1>2, <1>5, <2>1
<1> QED
  BY <1>4, <1>5

LEMMA AnswersShift ==
  ASSUME MqttTypeOK, served > 0, pending' = Tail(pending), served' = served - 1, NEW kind
  PROVE  /\ pending[1].kind = kind => Answers(kind)' = Answers(kind) - 1
         /\ pending[1].kind # kind => Answers(kind)' = Answers(kind)
<1> DEFINE S == {k \in 1..served : pending[k].kind = kind}
           T == {k \in 1..(served - 1) : pending'[k].kind = kind}
           f == [k \in T |-> k + 1]
<1>1. /\ served \in Nat /\ served <= Len(pending) /\ Len(pending) \in Nat /\ IsFiniteSet(S)
      /\ pending \in Seq(Requests)
  <2>1. /\ served \in Nat /\ served <= Len(pending) /\ Len(pending) \in Nat
        /\ pending \in Seq(Requests)
    BY DEF MqttTypeOK
  <2>2. IsFiniteSet(S)
    BY AnswersNatural
  <2> QED
    BY <2>1, <2>2
<1>2. Answers(kind)' = Cardinality(T) /\ Answers(kind) = Cardinality(S)
  BY DEF Answers
<1>3. \A k \in 1..(served - 1) : pending'[k] = pending[k + 1]
  <2>1. \A k \in 1..(served - 1) : k \in 1..(Len(pending) - 1)
    BY <1>1
  <2> QED
    BY <1>1, <2>1, RequestsTail
<1>4. f \in Bijection(T, S \ {1})
  <2>1. \A k \in T : k \in Int /\ f[k] = k + 1 /\ f[k] \in S \ {1}
    BY <1>1, <1>3
  <2>2. \A j \in S \ {1} : j \in Int /\ j - 1 \in T /\ (j - 1) + 1 = j
    BY <1>1, <1>3
  <2>3. \A j, k \in T : f[j] = f[k] => j = k
    <3> HIDE DEF T, f
    <3> QED
      BY <2>1
  <2>4. f \in [T -> S \ {1}]
    BY <2>1, Zenon
  <2>5. \A j \in S \ {1} : \E k \in T : f[k] = j
    BY <2>1, <2>2
  <2> HIDE DEF S, T, f
  <2>6. f \in Injection(T, S \ {1})
    BY <2>3, <2>4 DEF Injection, IsInjective
  <2>7. f \in Surjection(T, S \ {1})
    BY <2>4, <2>5 DEF Surjection
  <2> QED
    BY <2>6, <2>7 DEF Bijection
<1>5. 1 \in S <=> pending[1].kind = kind
  BY <1>1
<1> HIDE DEF S, T, f
<1>6. /\ IsFiniteSet(S \ {1}) /\ Cardinality(S) \in Nat
      /\ Cardinality(S \ {1}) = IF 1 \in S THEN Cardinality(S) - 1 ELSE Cardinality(S)
  BY <1>1, FS_RemoveElement, FS_CardinalityType
<1>7. Cardinality(T) = Cardinality(S \ {1})
  <2>1. ExistsBijection(S \ {1}, T)
    BY <1>4, Fun_ExistsBijSymmetric DEF ExistsBijection
  <2> QED
    BY <1>6, <2>1, FS_Bijection
<1> QED
  BY <1>2, <1>5, <1>6, <1>7

LEMMA SubscribedFinite ==
  ASSUME MqttTypeOK
  PROVE  IsFiniteSet(subscribed) /\ Cardinality(subscribed) \in Nat /\ IsFiniteSet(Commands)
<1>1. IsFiniteSet({}) /\ Commands = ((({} \cup {"led"}) \cup {"print"}) \cup {"ping"}) \cup {"exit"}
  BY FS_EmptySet DEF Commands
<1>2. IsFiniteSet({} \cup {"led"})
  BY <1>1, FS_AddElement
<1>3. IsFiniteSet(({} \cup {"led"}) \cup {"print"})
  BY <1>2, FS_AddElement
<1>4. IsFiniteSet((({} \cup {"led"}) \cup {"print"}) \cup {"ping"})
  BY <1>3, FS_AddElement
<1>5. IsFiniteSet(Commands)
  BY <1>1, <1>4, FS_AddElement
<1>6. IsFiniteSet(subscribed)
  BY <1>5, FS_Subset DEF MqttTypeOK
<1> QED
  BY <1>5, <1>6, FS_CardinalityType

\* What every request but a publication asks for, and the topics for which that is still
\* to be done.
Ask == IF stop_client THEN "unsub" ELSE "sub"
Wanted == IF stop_client THEN subscribed ELSE Commands \ subscribed

OneEach ==
  \A j, k \in 1..Len(pending) :
    pending[j].kind = Ask /\ pending[k].kind = Ask /\ pending[j].what = pending[k].what => j = k

\* One request is under way for every topic for which it is to be done.
Serving ==
  /\ \A k \in 1..Len(pending) : pending[k].kind \in {Ask, "pub"}
  /\ OneEach
  /\ \A k \in 1..Len(pending) :
       pending[k].kind = Ask => (pending[k].what \notin Wanted <=> k <= served)
  /\ \A t \in Wanted : \E k \in Unserved : pending[k].kind = Ask /\ pending[k].what = t

Agrees == subscribe_count = Cardinality(subscribed) - Answers("sub") + Answers("unsub")

AgreeInv ==
  /\ conn = "connecting" => subscribe_count = 0 /\ ~ stop_client
  /\ patient /\ conn = "connected" =>
       /\ Agrees /\ Serving
       /\ stop_client => subscribe_count > 0 /\ incoming = <<>>

LEMMA AskIs ==
  /\ stop_client => Ask = "unsub" /\ Wanted = subscribed
  /\ ~ stop_client => Ask = "sub" /\ Wanted = Commands \ subscribed
<1>1. CASE stop_client
  BY <1>1 DEF Ask, Wanted
<1>2. CASE ~ stop_client
  BY <1>2 DEF Ask, Wanted
<1> QED
  BY <1>1, <1>2

LEMMA AskIsThen ==
  /\ stop_client' => Ask' = "unsub" /\ Wanted' = subscribed'
  /\ ~ stop_client' => Ask' = "sub" /\ Wanted' = Commands \ subscribed'
<1>1. CASE stop_client'
  BY <1>1 DEF Ask, Wanted
<1>2. CASE ~ stop_client'
  BY <1>2 DEF Ask, Wanted
<1> QED
  BY <1>1, <1>2

LEMMA AskSame ==
  ASSUME UNCHANGED <<stop_client, subscribed>>
  PROVE  Ask' = Ask /\ Wanted' = Wanted
<1>1. stop_client' = stop_client /\ subscribed' = subscribed
  OBVIOUS
<1>2. CASE stop_client
  <2>1. stop_client'
    BY <1>1, <1>2, Zenon
  <2> QED
    BY <1>1, <1>2, <2>1, AskIs, AskIsThen
<1>3. CASE ~ stop_client
  <2>1. ~ stop_client'
    BY <1>3
  <2> QED
    BY <1>1, <1>3, <2>1, AskIs, AskIsThen
<1> QED
  BY <1>2, <1>3

LEMMA AgreeInit == MqttInit => AgreeInv
<1> SUFFICES ASSUME MqttInit PROVE AgreeInv
  OBVIOUS
<1>1. conn = "connecting" /\ subscribe_count = 0 /\ ~ stop_client
  BY DEF MqttInit
<1> QED
  BY <1>1 DEF AgreeInv

\* Publications may be added; nothing else happens.
LEMMA AgreeKept ==
  ASSUME MqttTypeOK, Agrees, Serving, PubsAdded,
         UNCHANGED <<served, subscribed, subscribe_count, stop_client>>
  PROVE  Agrees' /\ Serving'
<1>1. Agrees'
  <2>1. \A k \in 1..Len(pending) : pending'[k] = pending[k]
    BY DEF PubsAdded
  <2>2. Answers("sub")' = Answers("sub") /\ Answers("unsub")' = Answers("unsub")
    BY <2>1, AnswersSame
  <2> QED
    BY <2>2 DEF Agrees
<1>2. Ask' = Ask /\ Wanted' = Wanted /\ Ask # "pub"
  BY AskSame, AskIs
<1>3. /\ \A k \in 1..Len(pending') :
           pending'[k].kind # "pub" => k \in 1..Len(pending) /\ pending'[k] = pending[k]
      /\ \A k \in 1..Len(pending) : pending'[k] = pending[k]
  BY PubsAddedKinds
<1>4. \A k \in Unserved : k \in Unserved' /\ pending'[k] = pending[k]
  <2>1. Len(pending') \in Nat /\ Len(pending) <= Len(pending')
    BY DEF PubsAdded
  <2> QED
    BY <1>3, <2>1, UnservedGrows
<1>5. \A k \in 1..Len(pending') : pending'[k].kind \in {Ask', "pub"}
  BY <1>2, <1>3 DEF Serving
<1>6. OneEach'
  BY <1>2, <1>3 DEF Serving, OneEach
<1>7. \A k \in 1..Len(pending') :
        pending'[k].kind = Ask' => (pending'[k].what \notin Wanted' <=> k <= served')
  BY <1>2, <1>3 DEF Serving
<1>8. \A t \in Wanted' : \E k \in Unserved' : pending'[k].kind = Ask' /\ pending'[k].what = t
  BY <1>2, <1>4 DEF Serving
<1> QED
  BY <1>1, <1>5, <1>6, <1>7, <1>8 DEF Serving

\* The connection subscribes to every topic, if there is room for the requests.
LEMMA AgreeConnects ==
  ASSUME MQTT_REQ_MAX_IN_FLIGHT \in Nat, MQTT_REQ_MAX_IN_FLIGHT >= 5,
         MqttTypeOK, AgreeInv, mqtt_connection_cb
  PROVE  Agrees' /\ Serving' /\ ~ stop_client'
<1>1. /\ served = 0 /\ subscribed = {} /\ Len(pending') = 5
      /\ \A k \in 1..Len(pending') : pending'[k] = IF k = 5 THEN Pub("online", 1) ELSE Sub(Topics[k])
  BY ConnectionRequests
<1>2. /\ conn = "connecting" /\ UNCHANGED <<served, subscribed, subscribe_count, stop_client>>
  BY DEF mqtt_connection_cb
<1>3. subscribe_count = 0 /\ ~ stop_client
  BY <1>2 DEF AgreeInv
<1>4. ~ stop_client'
  BY <1>2, <1>3, Zenon
<1>5. Ask' = "sub" /\ Wanted' = Commands
  BY <1>1, <1>2, <1>4, AskIsThen
<1>6. Agrees'
  <2>1. \A kind : Answers(kind)' = 0
    <3>1. \A kind : {k \in 1..served' : pending'[k].kind = kind} = {}
      BY <1>1, <1>2
    <3>2. Cardinality({}) = 0
      BY FS_EmptySet
    <3> QED
      BY <3>1, <3>2 DEF Answers
  <2>2. Cardinality(subscribed') = 0
    BY <1>1, <1>2, FS_EmptySet
  <2> QED
    BY <1>2, <1>3, <2>1, <2>2 DEF Agrees
<1>7. /\ \A k \in 1..4 : /\ k \in 1..Len(pending') /\ k \in Unserved' /\ pending'[k].kind = "sub"
                         /\ pending'[k].what = Topics[k] /\ Topics[k] \in Commands
      /\ \A k \in 1..Len(pending') : k \notin 1..4 => pending'[k].kind = "pub"
      /\ \A k \in 1..Len(pending') : ~ (k <= served')
  <2>1. served' = 0 /\ 1..Len(pending') = 1..5 /\ Unserved' = 1..5
    BY <1>1, <1>2 DEF Unserved
  <2>2. \A k \in 1..5 : pending'[k] = IF k = 5 THEN Pub("online", 1) ELSE Sub(Topics[k])
    BY <1>1, <2>1
  <2>3. \A k \in 1..4 : Topics[k] \in Commands
    BY TopicList
  <2>4. \A k \in 1..4 : k \in 1..5 /\ pending'[k] = Sub(Topics[k])
    BY <2>2
  <2>5. \A k \in 1..5 : ~ (k <= 0) /\ (k \notin 1..4 => pending'[k] = Pub("online", 1))
    BY <2>2
  <2>6. \A k \in 1..4 : pending'[k].kind = "sub" /\ pending'[k].what = Topics[k]
    BY <2>4, RequestTypes
  <2>7. \A k \in 1..5 : k \notin 1..4 => pending'[k].kind = "pub"
    BY <2>5, RequestTypes
  <2> QED
    BY <2>1, <2>3, <2>4, <2>5, <2>6, <2>7
<1>8. /\ \A t \in Commands : \E i \in 1..4 : Topics[i] = t
      /\ \A i, j \in 1..4 : Topics[i] = Topics[j] => i = j
  BY TopicList
<1>9. OneEach'
  BY <1>5, <1>7, <1>8 DEF OneEach
<1>10. Serving'
  <2>1. \A t \in Commands : \E k \in Unserved' : pending'[k].kind = Ask' /\ pending'[k].what = t
    BY <1>5, <1>7, <1>8
  <2>2. \A k \in 1..Len(pending') : pending'[k].kind \in {Ask', "pub"}
    BY <1>5, <1>7
  <2> QED
    BY <1>5, <1>7, <1>9, <2>1, <2>2 DEF Serving
<1> QED
  BY <1>4, <1>6, <1>10

\* One answer more is counted.
LEMMA AgreeAnswers ==
  ASSUME MqttTypeOK, Agrees, Serving, served > 0, pending' = Tail(pending), served' = served - 1,
         subscribe_count' = NewCount(pending[1]), UNCHANGED <<stop_client, subscribed>>
  PROVE  Agrees' /\ Serving'
<1>1. /\ pending # <<>> /\ Len(pending) \in Nat /\ served \in Nat /\ subscribe_count \in Int
  BY DEF MqttTypeOK
<1>2. pending[1] \in Requests /\ pending[1].kind \in {"sub", "unsub", "pub"}
  BY <1>1, RequestsTail, RequestShape
<1>3. Agrees'
  <2>1. /\ Answers("sub") \in Nat /\ Answers("unsub") \in Nat /\ Cardinality(subscribed) \in Nat
    BY AnswersNatural, SubscribedFinite
  <2>2. /\ pending[1].kind = "sub" => Answers("sub")' = Answers("sub") - 1
        /\ pending[1].kind # "sub" => Answers("sub")' = Answers("sub")
    BY AnswersShift
  <2>3. /\ pending[1].kind = "unsub" => Answers("unsub")' = Answers("unsub") - 1
        /\ pending[1].kind # "unsub" => Answers("unsub")' = Answers("unsub")
    BY AnswersShift
  <2>4. /\ pending[1].kind = "sub" => subscribe_count' = subscribe_count + 1
        /\ pending[1].kind = "unsub" => subscribe_count' = subscribe_count - 1
        /\ pending[1].kind = "pub" => subscribe_count' = subscribe_count
    BY DEF NewCount
  <2> QED
    BY <1>1, <1>2, <2>1, <2>2, <2>3, <2>4 DEF Agrees
<1>4. Ask' = Ask /\ Wanted' = Wanted
  BY AskSame
<1>5. /\ \A k \in 1..Len(pending') :
           /\ pending'[k] = pending[k + 1] /\ k + 1 \in 1..Len(pending) /\ (k <= served' <=> k + 1 <= served)
      /\ \A k \in Unserved : k - 1 \in Unserved' /\ k - 1 \in 1..Len(pending') /\ (k - 1) + 1 = k
  BY UnservedShifts
<1>6. OneEach'
  <2> SUFFICES ASSUME NEW j \in 1..Len(pending'), NEW k \in 1..Len(pending'),
                      pending'[j].kind = Ask', pending'[k].kind = Ask', pending'[j].what = pending'[k].what
               PROVE  j = k
    BY DEF OneEach
  <2>1. j + 1 = k + 1
    BY <1>4, <1>5 DEF Serving, OneEach
  <2>2. j \in Int /\ k \in Int
    OBVIOUS
  <2> QED
    BY <2>1, <2>2
<1>7. \A k \in 1..Len(pending') : pending'[k].kind \in {Ask', "pub"}
  BY <1>4, <1>5 DEF Serving
<1>8. \A k \in 1..Len(pending') :
        pending'[k].kind = Ask' => (pending'[k].what \notin Wanted' <=> k <= served')
  BY <1>4, <1>5 DEF Serving
<1>9. ASSUME NEW t \in Wanted'
      PROVE  \E k \in Unserved' : pending'[k].kind = Ask' /\ pending'[k].what = t
  <2>1. PICK k \in Unserved : pending[k].kind = Ask /\ pending[k].what = t
    BY <1>4, <1>9 DEF Serving
  <2>2. k - 1 \in Unserved' /\ pending'[k - 1] = pending[k]
    BY <1>5
  <2> QED
    BY <1>4, <2>1, <2>2
<1> QED
  BY <1>3, <1>6, <1>7, <1>8, <1>9 DEF Serving

\* The broker carries out one request more.
LEMMA AgreeServes ==
  ASSUME MqttTypeOK, Agrees, Serving, BrokerServes
  PROVE  Agrees' /\ Serving'
<1> DEFINE r == pending[served + 1]
<1>1. /\ served < Len(pending) /\ served' = served + 1
      /\ UNCHANGED <<pending, subscribe_count, stop_client>>
  BY DEF BrokerServes, clientVars
<1>2. /\ served + 1 \in Unserved /\ served + 1 \in 1..Len(pending)
      /\ \A k : k \in Unserved <=> k = served + 1 \/ k \in Unserved'
      /\ \A k \in 1..Len(pending) : k <= served' <=> k <= served \/ k = served + 1
      /\ \A k \in Unserved' : k # served + 1
  BY <1>1, UnservedShrinks
<1>3. r \in Requests
  BY <1>2 DEF MqttTypeOK
<1>4. r.kind \in {"sub", "unsub", "pub"} /\ (r.kind # "pub" => r.what \in Commands)
  BY <1>3, RequestShape
<1>5. ~ (served + 1 <= served)
  BY DEF MqttTypeOK
<1>6. r.kind \in {Ask, "pub"} /\ (r.kind = Ask => r.what \in Wanted)
  BY <1>2, <1>5 DEF Serving
<1>7. /\ r.kind = "sub" => subscribed' = subscribed \cup {r.what}
      /\ r.kind = "unsub" => subscribed' = subscribed \ {r.what}
      /\ r.kind = "pub" => subscribed' = subscribed
  BY DEF BrokerServes
<1> HIDE DEF r
<1>8. /\ Ask' = Ask /\ Ask \in {"sub", "unsub"}
      /\ r.kind = "pub" => Wanted' = Wanted
      /\ r.kind = Ask => Wanted' = Wanted \ {r.what}
      /\ r.kind = "sub" => r.what \notin subscribed
      /\ r.kind = "unsub" => r.what \in subscribed
  <2>1. CASE stop_client
    <3>1. stop_client'
      BY <1>1, <2>1
    <3>2. Ask = "unsub" /\ Wanted = subscribed /\ Ask' = "unsub" /\ Wanted' = subscribed'
      BY <2>1, <3>1, AskIs, AskIsThen
    <3> QED
      BY <1>6, <1>7, <3>2
  <2>2. CASE ~ stop_client
    <3>1. ~ stop_client'
      BY <1>1, <2>2
    <3>2. /\ Ask = "sub" /\ Wanted = Commands \ subscribed
          /\ Ask' = "sub" /\ Wanted' = Commands \ subscribed'
      BY <2>2, <3>1, AskIs, AskIsThen
    <3> QED
      BY <1>6, <1>7, <3>2
  <2> QED
    BY <2>1, <2>2
<1>9. Agrees'
  <2>1. /\ Answers("sub") \in Nat /\ Answers("unsub") \in Nat /\ Cardinality(subscribed) \in Nat
        /\ IsFiniteSet(subscribed)
    BY AnswersNatural, SubscribedFinite
  <2>2. /\ r.kind = "sub" => Answers("sub")' = Answers("sub") + 1
        /\ r.kind # "sub" => Answers("sub")' = Answers("sub")
    BY <1>1, AnswersGrow DEF r
  <2>3. /\ r.kind = "unsub" => Answers("unsub")' = Answers("unsub") + 1
        /\ r.kind # "unsub" => Answers("unsub")' = Answers("unsub")
    BY <1>1, AnswersGrow DEF r
  <2>4. /\ r.kind = "sub" => Cardinality(subscribed') = Cardinality(subscribed) + 1
        /\ r.kind = "unsub" => Cardinality(subscribed') = Cardinality(subscribed) - 1
        /\ r.kind = "pub" => Cardinality(subscribed') = Cardinality(subscribed)
    BY <1>7, <1>8, <2>1, FS_AddElement, FS_RemoveElement
  <2>5. subscribe_count' = subscribe_count /\ subscribe_count \in Int
    BY <1>1 DEF MqttTypeOK
  <2> QED
    BY <1>4, <2>1, <2>2, <2>3, <2>4, <2>5 DEF Agrees
<1>10. OneEach' /\ \A k \in 1..Len(pending') : pending'[k].kind \in {Ask', "pub"}
  BY <1>1, <1>8 DEF Serving, OneEach
<1>11. \A k \in 1..Len(pending) :
         pending[k].kind = Ask /\ k # served + 1 => r.kind # Ask \/ pending[k].what # r.what
  BY <1>2 DEF Serving, OneEach, r
<1>12. ASSUME NEW k \in 1..Len(pending), pending[k].kind = Ask
       PROVE  pending[k].what \notin Wanted' <=> k <= served'
  <2>1. pending[k].what \notin Wanted <=> k <= served
    BY <1>12 DEF Serving
  <2>2. CASE k = served + 1
    BY <1>2, <1>8, <1>12, <2>2 DEF r
  <2>3. CASE k # served + 1
    BY <1>2, <1>6, <1>8, <1>11, <1>12, <2>1, <2>3
  <2> QED
    BY <2>2, <2>3
<1>13. ASSUME NEW t \in Wanted'
       PROVE  \E k \in Unserved' : pending[k].kind = Ask /\ pending[k].what = t
  <2>1. t \in Wanted /\ (r.kind = Ask => t # r.what)
    BY <1>6, <1>8
  <2>2. PICK k \in Unserved : pending[k].kind = Ask /\ pending[k].what = t
    BY <2>1 DEF Serving
  <2>3. k # served + 1
    BY <2>1, <2>2 DEF r
  <2> QED
    BY <1>2, <2>2, <2>3
<1> QED
  BY <1>1, <1>8, <1>9, <1>10, <1>12, <1>13 DEF Serving

\* /exit meets a client that is subscribed to everything, and there is room to cancel all.
LEMMA AgreeExits ==
  ASSUME MQTT_REQ_MAX_IN_FLIGHT \in Nat, MQTT_REQ_MAX_IN_FLIGHT >= 5,
         MqttTypeOK, Agrees, Serving, ~ stop_client,
         Len(pending) <= 1, \A k \in 1..Len(pending) : pending[k].kind = "pub",
         mqtt_request(sub_unsub_topics(FALSE)), stop_client',
         UNCHANGED <<served, subscribed, subscribe_count>>
  PROVE  Agrees' /\ Serving' /\ subscribe_count' > 0
<1>1. /\ Len(pending) \in Nat /\ served \in Nat /\ served <= Len(pending)
      /\ Len(pending) + 4 <= MQTT_REQ_MAX_IN_FLIGHT /\ subscribed \subseteq Commands
  BY DEF MqttTypeOK
<1>2. /\ Len(pending') = Len(pending) + 4
      /\ \A k \in 1..Len(pending) : pending'[k] = pending[k]
      /\ \A k \in (Len(pending) + 1)..Len(pending') :
           k - Len(pending) \in 1..4 /\ pending'[k] = Unsub(Topics[k - Len(pending)])
  BY <1>1, ExitRequests
<1>3. Ask = "sub" /\ Wanted = Commands \ subscribed /\ Ask' = "unsub" /\ Wanted' = subscribed'
  BY AskIs, AskIsThen
<1>4. \A k \in Unserved : k \in 1..Len(pending)
  BY <1>1 DEF Unserved
<1>5. subscribed = Commands /\ subscribed' = Commands
  BY <1>1, <1>3, <1>4 DEF Serving
<1>6. Agrees'
  <2>1. Answers("sub")' = Answers("sub") /\ Answers("unsub")' = Answers("unsub")
    BY <1>2, AnswersSame
  <2> QED
    BY <2>1 DEF Agrees
<1>7. subscribe_count' > 0
  <2>1. Cardinality(subscribed) \in Nat /\ Cardinality(subscribed) # 0
    <3>1. IsFiniteSet(subscribed) /\ subscribed # {}
      BY <1>5, SubscribedFinite DEF Commands
    <3> QED
      BY <3>1, SubscribedFinite, FS_EmptySet
  <2>2. ASSUME NEW kind \in {"sub", "unsub"} PROVE Answers(kind) = 0
    <3>1. {k \in 1..served : pending[k].kind = kind} = {}
      <4>1. \A k \in 1..served : k \in 1..Len(pending)
        BY <1>1
      <4> QED
        BY <4>1
    <3> QED
      BY <3>1, FS_EmptySet DEF Answers
  <2> QED
    BY <2>1, <2>2 DEF Agrees
<1>8. \A k \in 1..Len(pending') : k \in 1..Len(pending) \/ k \in (Len(pending) + 1)..Len(pending')
  BY <1>1, <1>2
<1>9. /\ \A t \in Commands : \E i \in 1..4 : Topics[i] = t
      /\ \A i, j \in 1..4 : Topics[i] = Topics[j] => i = j
      /\ \A i \in 1..4 : Topics[i] \in Commands
  BY TopicList
<1>10. \A k \in 1..Len(pending') :
         \/ k \in 1..Len(pending) /\ pending'[k].kind = "pub"
         \/ /\ k \in (Len(pending) + 1)..Len(pending') /\ k - Len(pending) \in 1..4
            /\ pending'[k].kind = "unsub" /\ pending'[k].what = Topics[k - Len(pending)]
  BY <1>2, <1>8, RequestTypes
<1>11. OneEach'
  <2> SUFFICES ASSUME NEW j \in 1..Len(pending'), NEW k \in 1..Len(pending'),
                      pending'[j].kind = Ask', pending'[k].kind = Ask', pending'[j].what = pending'[k].what
               PROVE  j = k
    BY DEF OneEach
  <2>1. /\ j - Len(pending) \in 1..4 /\ pending'[j].what = Topics[j - Len(pending)]
        /\ k - Len(pending) \in 1..4 /\ pending'[k].what = Topics[k - Len(pending)]
    BY <1>3, <1>10
  <2>2. j - Len(pending) = k - Len(pending)
    <3> DEFINE a == j - Len(pending)
               b == k - Len(pending)
    <3>1. a \in 1..4 /\ b \in 1..4 /\ Topics[a] = Topics[b]
      BY <2>1
    <3> HIDE DEF a, b
    <3>2. a = b
      BY <1>9, <3>1
    <3> QED
      BY <3>2 DEF a, b
  <2> QED
    BY <1>1, <2>2
<1>12. \A k \in 1..Len(pending') : pending'[k].kind \in {Ask', "pub"}
  BY <1>3, <1>10
<1>13. ASSUME NEW k \in 1..Len(pending'), pending'[k].kind = Ask'
       PROVE  pending'[k].what \notin Wanted' <=> k <= served'
  <2>1. k \in (Len(pending) + 1)..Len(pending') /\ pending'[k].what \in Commands
    BY <1>3, <1>9, <1>10, <1>13
  <2>2. ~ (k <= served')
    BY <1>1, <2>1
  <2> QED
    BY <1>3, <1>5, <2>1, <2>2
<1>14. ASSUME NEW t \in Wanted'
       PROVE  \E k \in Unserved' : pending'[k].kind = Ask' /\ pending'[k].what = t
  <2>1. PICK i \in 1..4 : Topics[i] = t
    BY <1>3, <1>5, <1>9
  <2>2. /\ Len(pending) + i \in (Len(pending) + 1)..Len(pending') /\ (Len(pending) + i) - Len(pending) = i
        /\ Len(pending) + i \in Unserved'
    BY <1>1, <1>2 DEF Unserved
  <2>3. pending'[Len(pending) + i] = Unsub(t)
    BY <1>2, <2>1, <2>2
  <2> QED
    BY <1>3, <2>2, <2>3, RequestTypes
<1> QED
  BY <1>6, <1>7, <1>11, <1>12, <1>13, <1>14 DEF Serving

\* What AgreeInv says of a client that is connected, at the next step.
LEMMA AgreeShown ==
  ASSUME conn' = "connected",
         patient' => Agrees' /\ Serving' /\ (stop_client' => subscribe_count' > 0 /\ incoming' = <<>>)
  PROVE  AgreeInv'
BY DEF AgreeInv

LEMMA AgreeNext ==
  ASSUME MQTT_REQ_MAX_IN_FLIGHT >= 5
  PROVE  MqttTypeOK /\ Alone /\ AgreeInv /\ [MqttNext]_mqttVars => AgreeInv'
<1> SUFFICES ASSUME MqttTypeOK, Alone, AgreeInv, [MqttNext]_mqttVars PROVE AgreeInv'
  OBVIOUS
<1> USE DEF clientVars, endVars, wireVars
<1>0. /\ Len(pending) \in Nat /\ served \in Nat /\ served <= Len(pending) /\ subscribe_count \in Int
      /\ MQTT_REQ_MAX_IN_FLIGHT \in Nat
  BY SizesAssumption DEF MqttTypeOK
<1>1. CASE mqtt_connection_cb
  <2>1. Agrees' /\ Serving' /\ ~ stop_client'
    BY <1>0, <1>1, AgreeConnects
  <2>2. conn' = "connected"
    BY <1>1 DEF mqtt_connection_cb
  <2> QED
    BY <2>1, <2>2, AgreeShown
<1>2. CASE mqtt_connection_cb_disconnected
  BY <1>2 DEF mqtt_connection_cb_disconnected, AgreeInv
<1>3. CASE RequestAnswered
  <2>1. CASE conn' = "disconnected"
    BY <2>1 DEF AgreeInv
  <2>2. CASE conn' # "disconnected"
    <3>1. /\ served > 0 /\ conn = "connected" /\ pending # <<>>
          /\ subscribe_count' = NewCount(Head(pending)) /\ pending' = Tail(pending) /\ served' = served - 1
          /\ UNCHANGED <<patient, conn, stop_client, subscribed, incoming>>
          /\ ~ (Head(pending).kind = "unsub" /\ Disconnect(subscribe_count'))
      BY <1>0, <1>3, <2>2 DEF RequestAnswered, MqttTypeOK
    <3>2. /\ Head(pending) = pending[1] /\ 1 \in 1..Len(pending)
      BY <3>1, RequestsTail
    <3>3. CASE ~ patient
      BY <3>1, <3>3, AgreeShown
    <3>4. CASE patient
      <4>1. Agrees /\ Serving /\ (stop_client => subscribe_count > 0 /\ incoming = <<>>)
        BY <3>1, <3>4 DEF AgreeInv
      <4>2. Agrees' /\ Serving'
        BY <3>1, <3>2, <4>1, AgreeAnswers
      <4>3. ASSUME stop_client PROVE subscribe_count' > 0 /\ incoming' = <<>>
        <5>1. Ask = "unsub"
          BY <4>3, AskIs
        <5>2. pending[1].kind = "unsub" \/ pending[1].kind = "pub"
          BY <3>2, <4>1, <5>1 DEF Serving
        <5>3. subscribe_count' \in Int /\ (pending[1].kind = "pub" => subscribe_count' = subscribe_count)
          BY <1>0, <3>1, <3>2, <5>2 DEF NewCount
        <5>4. pending[1].kind = "unsub" => ~ (subscribe_count' <= 0)
          BY <3>1, <3>2, <4>3 DEF Disconnect
        <5> QED
          BY <3>1, <4>1, <4>3, <5>2, <5>3, <5>4
      <4>4. stop_client' => stop_client
        BY <3>1
      <4> QED
        BY <3>1, <4>2, <4>3, <4>4, AgreeShown
    <3> QED
      BY <3>3, <3>4
  <2> QED
    BY <2>1, <2>2
<1>4. CASE mqtt_incoming_data_cb
  <2> DEFINE m == Head(incoming)
  <2>1. /\ conn = "connected" /\ incoming # <<>> /\ incoming' = Tail(incoming)
        /\ UNCHANGED <<patient, conn, served, subscribed, subscribe_count>>
    BY <1>4 DEF mqtt_incoming_data_cb
  <2>2. m \in Messages
    BY <2>1, IncomingTypes
  <2>3. CASE ~ patient
    BY <2>1, <2>3, AgreeShown
  <2>4. CASE patient
    <3>1. Agrees /\ Serving /\ ~ stop_client
      BY <2>1, <2>4 DEF AgreeInv
    <3>2. Len(pending) <= 1 /\ \A k \in 1..Len(pending) : pending[k].kind = "pub"
      BY <2>1, <2>4 DEF Alone
    <3>3. CASE m = "exit"
      <4>1. stop_client' /\ mqtt_request(sub_unsub_topics(FALSE))
        BY <1>4, <3>3 DEF mqtt_incoming_data_cb, Topic
      <4>2. incoming' = <<>>
        <5>1. /\ Tail(incoming) \in Seq(Messages) /\ Len(Tail(incoming)) = Len(incoming) - 1
              /\ 1 \in 1..Len(incoming) /\ Len(incoming) <= 1
          BY <2>1, <2>4, IncomingTypes DEF Alone
        <5>2. Len(incoming) \in Nat
          BY DEF MqttTypeOK
        <5>3. Len(Tail(incoming)) = 0
          BY <5>1, <5>2
        <5> QED
          BY <2>1, <5>1, <5>3, EmptySeq
      <4>3. Agrees' /\ Serving' /\ subscribe_count' > 0
        BY <1>0, <2>1, <3>1, <3>2, <4>1, AgreeExits
      <4> QED
        BY <2>1, <4>2, <4>3, AgreeShown
    <3>4. CASE m # "exit"
      <4>1. UNCHANGED stop_client
        BY <1>4, <2>2, <3>4 DEF mqtt_incoming_data_cb, Messages, Topic
      <4>2. PubsAdded
        <5>1. Pub("led", OnOff(m = "led_on")) \in Requests /\ Pub("uptime", 0) \in Requests
          BY RequestTypes DEF OnOff
        <5>2. Pub("led", OnOff(m = "led_on")).kind = "pub" /\ Pub("uptime", 0).kind = "pub"
          BY RequestTypes
        <5>3. \/ mqtt_request(<<Pub("led", OnOff(m = "led_on"))>>) \/ mqtt_request(<<Pub("uptime", 0)>>)
              \/ UNCHANGED pending
          BY <1>4, <2>2, <3>4 DEF mqtt_incoming_data_cb, control_led, Messages, Topic
        <5> HIDE DEF m
        <5> QED
          BY <5>1, <5>2, <5>3, PublishAdds, SameAdds
      <4>3. Agrees' /\ Serving'
        BY <2>1, <3>1, <4>1, <4>2, AgreeKept
      <4>4. ~ stop_client'
        BY <3>1, <4>1
      <4> QED
        BY <2>1, <4>3, <4>4, AgreeShown
    <3> QED
      BY <3>3, <3>4
  <2> QED
    BY <2>3, <2>4
<1>5. ASSUME PubsAdded, UNCHANGED <<patient, conn, served, subscribed, subscribe_count, stop_client, incoming>>
      PROVE  AgreeInv'
  <2>1. CASE patient /\ conn = "connected"
    <3>1. Agrees /\ Serving /\ (stop_client => subscribe_count > 0 /\ incoming = <<>>)
      BY <2>1 DEF AgreeInv
    <3>2. Agrees' /\ Serving'
      BY <1>5, <3>1, AgreeKept
    <3>3. stop_client' => subscribe_count' > 0 /\ incoming' = <<>>
      BY <1>5, <3>1
    <3> QED
      BY <1>5, <2>1, <3>2, <3>3, AgreeShown
  <2>2. CASE ~ (patient /\ conn = "connected")
    BY <1>5, <2>2 DEF AgreeInv
  <2> QED
    BY <2>1, <2>2
<1>6. CASE temperature_worker_fn
  <2>1. UNCHANGED <<patient, conn, served, subscribed, subscribe_count, stop_client, incoming>>
    BY <1>6 DEF temperature_worker_fn
  <2>2. PubsAdded
    <3>1. Pub("temperature", sensor) \in Requests /\ Pub("temperature", sensor).kind = "pub"
      BY RequestTypes DEF MqttTypeOK
    <3> QED
      BY <1>6, <3>1, PublishAdds, SameAdds DEF temperature_worker_fn
  <2> QED
    BY <1>5, <2>1, <2>2
<1>7. CASE BrokerServes
  <2>1. conn = "connected" /\ UNCHANGED <<patient, conn, stop_client, subscribe_count, incoming>>
    BY <1>7 DEF BrokerServes
  <2>2. ASSUME patient
        PROVE  Agrees' /\ Serving' /\ (stop_client' => subscribe_count' > 0 /\ incoming' = <<>>)
    <3>1. Agrees /\ Serving /\ (stop_client => subscribe_count > 0 /\ incoming = <<>>)
      BY <2>1, <2>2 DEF AgreeInv
    <3>2. Agrees' /\ Serving'
      BY <1>7, <3>1, AgreeServes
    <3> QED
      BY <2>1, <3>1, <3>2
  <2> QED
    BY <2>1, <2>2, AgreeShown
<1>8. ASSUME NEW m \in Messages, Publish(m) PROVE AgreeInv'
  <2>1. /\ conn = "connected" /\ Topic(m) \in subscribed /\ (patient => pending = <<>>)
        /\ UNCHANGED <<patient, conn, served, subscribed, subscribe_count, stop_client, pending>>
    BY <1>8 DEF Publish
  <2>2. ASSUME patient
        PROVE  Agrees' /\ Serving' /\ ~ stop_client'
    <3>1. Agrees /\ Serving /\ pending = <<>>
      BY <2>1, <2>2 DEF AgreeInv
    <3>2. Agrees' /\ Serving'
      BY <2>1, <3>1, SameAdds, AgreeKept
    <3>3. \A k : k \notin Unserved
      BY <1>0, <3>1 DEF Unserved
    <3>4. Topic(m) \notin Wanted
      BY <3>1, <3>3 DEF Serving
    <3>5. ~ stop_client
      BY <2>1, <3>4, AskIs
    <3> QED
      BY <2>1, <3>2, <3>5
  <2> QED
    BY <2>1, <2>2, AgreeShown
<1>9. CASE MainExits \/ SensorChanges \/ UNCHANGED mqttVars
  BY <1>5, <1>9, SameAdds DEF MainExits, SensorChanges, mqttVars
<1>10. CASE RequestFails
  <2>1. /\ UNCHANGED <<patient, conn, incoming, served, subscribed, subscribe_count, stop_client>>
        /\ conn = "connected" /\ (UNCHANGED pending \/ ~ patient)
    BY <1>10, Fails
  <2>2. CASE UNCHANGED pending
    <3>1. UNCHANGED <<conn, incoming>>
      BY <2>1
    <3> QED
      BY <1>5, <2>1, <2>2, SameAdds
  <2>3. CASE ~ patient
    BY <2>1, <2>3, AgreeShown
  <2> QED
    BY <2>1, <2>2, <2>3
<1> QED
  BY <1>1, <1>2, <1>3, <1>4, <1>6, <1>7, <1>8, <1>9, <1>10 DEF MqttNext, Callbacks

\* Where there is room for the requests of a command beside the report of a temperature,
\* the count is that of the subscriptions at the broker, up to the answers on their way.
THEOREM CountIsRight ==
  ASSUME MQTT_REQ_MAX_IN_FLIGHT >= 5
  PROVE  MqttSpec => []CountAgrees
<1>1. AgreeInv => CountAgrees
  BY DEF AgreeInv, Agrees, CountAgrees
<1>2. MqttTypeOK /\ Alone /\ AgreeInv /\ [MqttNext]_mqttVars => AgreeInv'
  BY AgreeNext
<1> QED
  BY <1>1, <1>2, AgreeInit, MqttTypeInvariance, AloneInvariance, PTL DEF MqttSpec

=============================================================================
