------------------------- MODULE UsbDevice_proofs -------------------------
(***************************************************************************)
(* For every number of transfers, packets and resets, and every host: one  *)
(* packet or empty buffer goes round between EP1 and EP2, what comes back  *)
(* is in order and what is lost is counted, and an answer is that to the   *)
(* request; and unless a SETUP comes before the device is done with the    *)
(* transfer before it, the address is set when its acknowledgement is out. *)
(***************************************************************************)
EXTENDS UsbDevice, FiniteSetTheorems, SequenceTheorems, TLAPS

\* The endpoints of the echo, and what a buffer of endpoint 0 may hold.
Bulk == {"EP1_OUT", "EP2_IN"}
Answers == Gets \cup {"ZLP"}

DataOf(e) == IF e \in Bulk THEN Nat ELSE Answers

BufferTypes ==
  /\ next_pid \in [Endpoints -> 0..1]
  /\ buf_ctrl = [e \in Endpoints |-> buf_ctrl[e]]
  /\ \A e \in Endpoints : buf_ctrl[e] \in [avail : BOOLEAN, pid : 0..1, data : DataOf(e)]

DeviceTypes ==
  /\ should_set_address \in BOOLEAN /\ configured \in BOOLEAN
  /\ dev_addr \in Addresses \cup {0} /\ dev_addr_ctrl \in Addresses \cup {0}

HandlerTypes ==
  /\ main \in [at : {"wait", "arm", "loop"}, pid : 0..1]
  /\ isr \in [at : {"idle", "setup", "buff", "each", "reset"},
              status : SUBSET {"setup", "buff", "reset"}, bufs : SUBSET Endpoints]
  /\ buf_status \subseteq Endpoints
  /\ setup_rec \in BOOLEAN /\ bus_reset \in BOOLEAN
  /\ setup_packet \in Requests \cup {Nothing}

Hosts == [addr : Addresses \cup {0}, configured : BOOLEAN, out : 0..1,
          in : 0..1, stage : {"idle", "data", "ack", "status"},
          asked : Requests \cup {Nothing}, got : Answers]

HostTypes ==
  /\ host \in Hosts
  /\ early \in BOOLEAN /\ cuts \in Nat
  /\ written \in Seq(Nat) /\ echoed \in Seq(Nat) /\ controls \in Nat /\ resets \in Nat

\* Every variable keeps to its type.  A setup awaits the handler only once there is one.
TypeOK ==
  /\ BufferTypes /\ DeviceTypes /\ HandlerTypes /\ HostTypes
  /\ setup_rec => setup_packet \in Requests
  /\ isr.bufs \subseteq buf_status
  /\ isr.at = "idle" => isr.status = {}
  /\ isr.at = "setup" /\ "setup" \in isr.status => setup_rec
  /\ "reset" \in isr.status => bus_reset

-----------------------------------------------------------------------------
(* Endpoints and buffers. *)

LEMMA EndpointSet == Endpoints = {"EP0_IN", "EP0_OUT", "EP1_OUT", "EP2_IN"}
BY DEF Endpoints, Order

\* The endpoint handled first is one of those to be handled.
LEMMA FirstIsOne ==
  ASSUME NEW s, s \subseteq Endpoints, s # {}
  PROVE  First(s) \in s
<1> DEFINE Least(i) == Order[i] \in s /\ \A j \in 1..(i - 1) : Order[j] \notin s
<1>1. DOMAIN Order = 1..4 /\ \A e \in s : \E i \in 1..4 : Order[i] = e
  BY DEF Endpoints, Order
<1>2. \E i \in 1..4 : Least(i)
  <2>1. PICK k \in 1..4 : Order[k] \in s
    BY <1>1
  <2>2. CASE Order[1] \in s
    BY <2>2
  <2>3. CASE Order[1] \notin s /\ Order[2] \in s
    BY <2>3
  <2>4. CASE Order[1] \notin s /\ Order[2] \notin s /\ Order[3] \in s
    BY <2>4
  <2>5. CASE Order[1] \notin s /\ Order[2] \notin s /\ Order[3] \notin s /\ Order[4] \in s
    BY <2>5
  <2> QED
    BY <2>1, <2>2, <2>3, <2>4, <2>5
<1>3. Least(CHOOSE i \in DOMAIN Order : Least(i))
  BY <1>1, <1>2
<1> QED
  BY <1>3 DEF First

LEMMA StartWithTypes ==
  ASSUME BufferTypes, NEW e \in Endpoints, NEW pid \in 0..1,
         NEW d \in DataOf(e), StartWith(e, pid, d)
  PROVE  BufferTypes'
<1>1. 1 - pid \in 0..1
  OBVIOUS
<1>2. next_pid' \in [Endpoints -> 0..1]
  BY <1>1 DEF BufferTypes, StartWith
<1>3. buf_ctrl' = [x \in Endpoints |-> IF x = e THEN [avail |-> TRUE, pid |-> pid, data |-> d]
                                                ELSE buf_ctrl[x]]
  BY Zenon DEF BufferTypes, StartWith
<1> QED
  BY <1>2, <1>3 DEF BufferTypes

LEMMA CompleteTypes ==
  ASSUME BufferTypes, NEW e \in Endpoints, NEW d \in DataOf(e),
         Complete(e, d), UNCHANGED next_pid
  PROVE  BufferTypes'
<1> DEFINE b == [avail |-> FALSE, pid |-> buf_ctrl[e].pid, data |-> d]
<1>1. DOMAIN buf_ctrl = Endpoints /\ DOMAIN buf_ctrl' = Endpoints
  BY DEF BufferTypes, Complete
<1>2. \A x \in Endpoints \ {e} : buf_ctrl'[x] = buf_ctrl[x]
  BY DEF BufferTypes, Complete
<1>3. buf_ctrl'[e] = b
  <2>1. PICK a \in BOOLEAN, p \in 0..1, x \in DataOf(e) :
          buf_ctrl[e] = [avail |-> a, pid |-> p, data |-> x]
    BY DEF BufferTypes
  <2>2. buf_ctrl'[e] = [buf_ctrl[e] EXCEPT !.avail = FALSE, !.data = d]
    BY <1>1, Zenon DEF Complete
  <2> QED
    BY <2>1, <2>2
<1>4. buf_ctrl' = [x \in Endpoints |-> buf_ctrl'[x]]
  BY <1>1, Zenon DEF Complete
<1>5. b \in [avail : BOOLEAN, pid : 0..1, data : DataOf(e)]
  BY DEF BufferTypes
<1> HIDE DEF b
<1>6. \A x \in Endpoints :
        buf_ctrl'[x] \in [avail : BOOLEAN, pid : 0..1, data : DataOf(x)]
  BY <1>2, <1>3, <1>5 DEF BufferTypes
<1> QED
  BY <1>4, <1>6 DEF BufferTypes

-----------------------------------------------------------------------------
(* Types. *)

LEMMA TypeInit == Init => TypeOK
<1> SUFFICES ASSUME Init PROVE TypeOK
  OBVIOUS
<1>1. BufferTypes
  BY EndpointSet DEF Init, BufferTypes, DataOf, Answers, Gets, Bulk, Empty, Control
<1>2. DeviceTypes /\ HandlerTypes
  <2>1. DeviceTypes
    BY DEF Init, DeviceTypes
  <2>2. isr \in [at : {"idle", "setup", "buff", "each", "reset"},
                 status : SUBSET {"setup", "buff", "reset"}, bufs : SUBSET Endpoints]
    BY DEF Init
  <2>3. main \in [at : {"wait", "arm", "loop"}, pid : 0..1]
    BY DEF Init
  <2> QED
    BY <2>1, <2>2, <2>3 DEF Init, HandlerTypes
<1>3. HostTypes
  <2>1. "ZLP" \in Answers
    BY DEF Answers
  <2>2. <<>> \in Seq(Nat) /\ 0 \in Nat
    OBVIOUS
  <2>3. host = [addr |-> 0, configured |-> FALSE, out |-> 0, in |-> 0,
                stage |-> "idle", asked |-> Nothing, got |-> "ZLP"]
    BY DEF Init
  <2>4. host \in Hosts
    BY <2>1, <2>3 DEF Hosts
  <2> QED
    BY <2>2, <2>4 DEF Init, HostTypes
<1> QED
  BY <1>1, <1>2, <1>3 DEF Init, TypeOK

\* What a handler of an endpoint or of a SETUP does to the types.
LEMMA HandlerStep ==
  ASSUME BufferTypes, DeviceTypes,
         \/ setup_packet \in Requests /\ usb_handle_setup_packet
         \/ \E e \in Endpoints : usb_handle_buff_done(e)
  PROVE  BufferTypes' /\ DeviceTypes'
<1>1. CASE setup_packet \in Requests /\ usb_handle_setup_packet
  <2>1. setup_packet.addr \in Addresses \cup {0}
    BY <1>1 DEF Requests
  <2>2. DeviceTypes'
    BY <1>1, <2>1 DEF usb_handle_setup_packet, DeviceTypes, deviceVars
  <2>3. ASSUME NEW d \in Answers, Reply(d) PROVE BufferTypes'
    <3>1. "EP0_IN" \in Endpoints /\ d \in DataOf("EP0_IN") /\ 1 \in 0..1
      BY EndpointSet DEF DataOf, Bulk
    <3>2. StartWith("EP0_IN", 1, d)
      BY <2>3 DEF Reply
    <3> QED
      BY <3>1, <3>2, StartWithTypes
  <2>4. CASE next_pid' = [next_pid EXCEPT !["EP0_IN"] = 1] /\ UNCHANGED buf_ctrl
    <3>1. 1 \in 0..1
      OBVIOUS
    <3>2. next_pid' \in [Endpoints -> 0..1]
      BY <2>4, <3>1 DEF BufferTypes
    <3> QED
      BY <2>2, <2>4, <3>2 DEF BufferTypes
  <2>5. "ZLP" \in Answers
    BY DEF Answers
  <2>6. setup_packet.req \in Gets \cup {"OTHER_OUT"} => Answer(setup_packet) \in Answers
    BY DEF Answer, Answers, Gets, IsIn
  <2> QED
    BY <1>1, <2>2, <2>3, <2>4, <2>5, <2>6 DEF usb_handle_setup_packet
<1>2. ASSUME NEW e \in Endpoints, usb_handle_buff_done(e) PROVE BufferTypes' /\ DeviceTypes'
  <2>1. \A x \in Endpoints : next_pid[x] \in 0..1
    BY DEF BufferTypes
  <2>2. CASE ep0_in_handler
    <3>1. DeviceTypes'
      BY <2>2 DEF ep0_in_handler, DeviceTypes
    <3>2. CASE usb_start_transfer("EP0_OUT", "ZLP")
      BY <2>1, <3>1, <3>2, StartWithTypes, EndpointSet DEF usb_start_transfer, DataOf, Answers, Bulk
    <3> QED
      BY <2>2, <3>1, <3>2 DEF ep0_in_handler, BufferTypes
  <2>3. CASE ep1_out_handler
    <3>1. buf_ctrl["EP1_OUT"].data \in DataOf("EP2_IN")
      BY EndpointSet DEF BufferTypes, DataOf, Bulk
    <3>2. "EP2_IN" \in Endpoints /\ next_pid["EP2_IN"] \in 0..1
      BY <2>1, EndpointSet
    <3>3. StartWith("EP2_IN", next_pid["EP2_IN"], buf_ctrl["EP1_OUT"].data)
      BY <2>3 DEF ep1_out_handler, usb_start_transfer
    <3>4. BufferTypes'
      BY <3>1, <3>2, <3>3, StartWithTypes
    <3> QED
      BY <2>3, <3>4 DEF ep1_out_handler, DeviceTypes, deviceVars
  <2>4. CASE ep2_in_handler
    <3>1. "EP1_OUT" \in Endpoints /\ next_pid["EP1_OUT"] \in 0..1 /\ 0 \in DataOf("EP1_OUT")
      BY <2>1, EndpointSet DEF DataOf, Bulk
    <3>2. StartWith("EP1_OUT", next_pid["EP1_OUT"], 0)
      BY <2>4 DEF ep2_in_handler, usb_start_transfer
    <3>3. BufferTypes'
      BY <3>1, <3>2, StartWithTypes
    <3> QED
      BY <2>4, <3>3 DEF ep2_in_handler, DeviceTypes, deviceVars
  <2>5. CASE UNCHANGED <<deviceVars, dev_addr_ctrl, buf_ctrl, next_pid>>
    BY <2>5 DEF deviceVars, DeviceTypes, BufferTypes
  <2> QED
    BY <1>2, <2>2, <2>3, <2>4, <2>5 DEF usb_handle_buff_done
<1> QED
  BY <1>1, <1>2

\* A host that is done with its transfer is a host.
LEMMA DoneType ==
  ASSUME HostTypes
  PROVE  Done(host) \in Hosts
<1>1. "ZLP" \in Answers
  BY DEF Answers
<1> QED
  BY <1>1 DEF HostTypes, Hosts, Done

LEMMA TypeNext == TypeOK /\ [Next]_vars => TypeOK'
<1> SUFFICES ASSUME TypeOK, [Next]_vars PROVE TypeOK'
  OBVIOUS
<1>0. /\ BufferTypes /\ DeviceTypes /\ HandlerTypes /\ HostTypes
      /\ setup_rec => setup_packet \in Requests
      /\ isr.bufs \subseteq buf_status
      /\ isr.at = "idle" => isr.status = {}
      /\ isr.at = "setup" /\ "setup" \in isr.status => setup_rec
      /\ "reset" \in isr.status => bus_reset
  BY DEF TypeOK
<1> DEFINE Buffers == <<next_pid, buf_ctrl>>
           Device == <<should_set_address, configured, dev_addr, dev_addr_ctrl>>
           Handler == <<main, isr, buf_status, setup_rec, bus_reset, setup_packet>>
           TheHost == <<host, early, cuts, written, echoed, controls, resets>>
<1>1. /\ UNCHANGED Buffers => BufferTypes'
      /\ UNCHANGED Device => DeviceTypes'
      /\ UNCHANGED Handler => HandlerTypes'
      /\ UNCHANGED TheHost => HostTypes'
  <2>1. UNCHANGED Buffers => BufferTypes'
    BY <1>0 DEF BufferTypes
  <2>2. UNCHANGED Device => DeviceTypes'
    BY <1>0 DEF DeviceTypes
  <2>3. UNCHANGED Handler => HandlerTypes'
    BY <1>0 DEF HandlerTypes
  <2>4. UNCHANGED TheHost => HostTypes'
    BY <1>0 DEF HostTypes
  <2> QED
    BY <2>1, <2>2, <2>3, <2>4
<1> USE <1>0 DEF deviceVars, registers, hostVars
<1>2. CASE Interrupt
  <2>1. Causes \subseteq {"setup", "buff", "reset"}
    BY DEF Causes
  <2>2. isr' = [isr EXCEPT !.at = "setup", !.status = Causes]
    BY <1>2 DEF Interrupt
  <2>3. HandlerTypes'
    BY <1>2, <2>1, <2>2 DEF Interrupt, HandlerTypes
  <2>4. ("setup" \in Causes => setup_rec) /\ ("reset" \in Causes => bus_reset)
    BY DEF Causes
  <2> QED
    BY <1>1, <1>2, <2>2, <2>3, <2>4 DEF Interrupt, TypeOK, HandlerTypes
<1>3. CASE IsrSetup
  <2>1. isr' = [isr EXCEPT !.at = "buff"]
    BY <1>3 DEF IsrSetup
  <2>2. (UNCHANGED setup_rec \/ setup_rec' = FALSE) /\ UNCHANGED <<main, buf_status, bus_reset, setup_packet>>
    BY <1>3 DEF IsrSetup
  <2>3. HandlerTypes'
    BY <2>1, <2>2 DEF HandlerTypes
  <2>4. BufferTypes' /\ DeviceTypes'
    <3>1. CASE "setup" \in isr.status
      BY <1>3, <3>1, HandlerStep DEF IsrSetup
    <3>2. CASE "setup" \notin isr.status
      BY <1>1, <1>3, <3>2 DEF IsrSetup
    <3> QED
      BY <3>1, <3>2
  <2>5. HostTypes'
    BY <1>1, <1>3 DEF IsrSetup
  <2> QED
    BY <2>1, <2>2, <2>3, <2>4, <2>5 DEF TypeOK, HandlerTypes
<1>4. CASE IsrBuffs
  <2> DEFINE to == IF "buff" \in isr.status THEN "each" ELSE "reset"
             done == IF "buff" \in isr.status THEN buf_status ELSE {}
  <2>1. isr' = [isr EXCEPT !.at = to, !.bufs = done]
    BY <1>4 DEF IsrBuffs
  <2>2. to \in {"each", "reset"} /\ done \subseteq buf_status
    OBVIOUS
  <2> HIDE DEF to, done
  <2>3. HandlerTypes'
    BY <1>4, <2>1, <2>2 DEF IsrBuffs, HandlerTypes
  <2> QED
    BY <1>1, <1>4, <2>1, <2>2, <2>3 DEF IsrBuffs, TypeOK, HandlerTypes
<1>5. CASE IsrEach
  <2>1. CASE isr.bufs = {}
    <3>1. isr' = [isr EXCEPT !.at = "reset"]
      BY <1>5, <2>1 DEF IsrEach
    <3>2. HandlerTypes'
      BY <1>5, <2>1, <3>1 DEF IsrEach, HandlerTypes
    <3> QED
      BY <1>1, <1>5, <2>1, <3>1, <3>2 DEF IsrEach, TypeOK, HandlerTypes
  <2>2. CASE isr.bufs # {}
    <3> DEFINE e == First(isr.bufs)
    <3>1. e \in isr.bufs /\ e \in Endpoints
      BY <2>2, FirstIsOne DEF HandlerTypes
    <3>2. /\ isr' = [isr EXCEPT !.bufs = @ \ {e}] /\ buf_status' = buf_status \ {e}
          /\ usb_handle_buff_done(e)
          /\ UNCHANGED <<main, setup_rec, bus_reset, setup_packet, TheHost>>
      BY <1>5, <2>2 DEF IsrEach
    <3> HIDE DEF e
    <3>3. HandlerTypes'
      BY <3>2 DEF HandlerTypes
    <3>4. BufferTypes' /\ DeviceTypes'
      BY <3>1, <3>2, HandlerStep
    <3>5. HostTypes'
      BY <1>1, <3>2
    <3> QED
      BY <3>2, <3>3, <3>4, <3>5 DEF TypeOK, HandlerTypes
  <2> QED
    BY <2>1, <2>2
<1>6. CASE IsrReset
  <2>1. isr' = [at |-> "idle", status |-> {}, bufs |-> {}]
    BY <1>6 DEF IsrReset
  <2>2. /\ bus_reset' = FALSE \/ (UNCHANGED bus_reset)
        /\ UNCHANGED <<main, buf_status, setup_rec, setup_packet>>
    BY <1>6 DEF IsrReset
  <2>3. HandlerTypes'
    BY <2>1, <2>2 DEF HandlerTypes
  <2>4. DeviceTypes'
    BY <1>6 DEF IsrReset, usb_bus_reset, DeviceTypes
  <2> QED
    BY <1>1, <1>6, <2>1, <2>2, <2>3, <2>4 DEF IsrReset, TypeOK
<1>7. CASE MainConfigured
  <2>1. next_pid["EP1_OUT"] \in 0..1
    BY EndpointSet DEF BufferTypes
  <2>2. 1 - next_pid["EP1_OUT"] \in 0..1
    BY <2>1
  <2>3. BufferTypes'
    BY <1>7, <2>2 DEF MainConfigured, BufferTypes
  <2>4. HandlerTypes'
    BY <1>7, <2>1 DEF MainConfigured, HandlerTypes
  <2> QED
    BY <1>1, <1>7, <2>3, <2>4 DEF MainConfigured, TypeOK
<1>8. CASE MainListens
  <2>1. BufferTypes'
    <3>1. [avail |-> TRUE, pid |-> main.pid, data |-> 0] \in
            [avail : BOOLEAN, pid : 0..1, data : DataOf("EP1_OUT")]
      BY DEF DataOf, Bulk, HandlerTypes
    <3> QED
      BY <1>8, <3>1 DEF MainListens, BufferTypes
  <2>2. HandlerTypes'
    BY <1>8 DEF MainListens, HandlerTypes
  <2> QED
    BY <1>1, <1>8, <2>1, <2>2 DEF MainListens, TypeOK
<1>9. ASSUME NEW r \in Requests, HostSetup(r) PROVE TypeOK'
  <2>1. HostTypes'
    <3>1. PICK to \in {"data", "ack"} : host' = [host EXCEPT !.asked = r, !.stage = to]
      BY <1>9 DEF HostSetup
    <3>2. host' \in Hosts
      BY <3>1 DEF HostTypes, Hosts
    <3>3. early' \in BOOLEAN
      BY <1>9 DEF HostSetup
    <3> QED
      BY <1>9, <3>2, <3>3 DEF HostSetup, HostTypes
  <2>2. HandlerTypes'
    BY <1>9 DEF HostSetup, HandlerTypes
  <2> QED
    BY <1>1, <1>9, <2>1, <2>2 DEF HostSetup, TypeOK
<1>10. CASE HostEp0In
  <2> DEFINE d == buf_ctrl["EP0_IN"].data
             r == host.asked
             taken == [host EXCEPT !.got = d, !.stage = "status"]
             done == Done(host)
  <2>1. "EP0_IN" \in Endpoints /\ d \in DataOf("EP0_IN") /\ d \in Answers
    BY EndpointSet DEF BufferTypes, DataOf, Bulk
  <2>2. BufferTypes'
    BY <1>10, <2>1, CompleteTypes DEF HostEp0In
  <2>3. buf_status' = buf_status \cup {"EP0_IN"} /\ UNCHANGED <<main, isr, setup_rec, bus_reset, setup_packet>>
    BY <1>10 DEF HostEp0In, Complete
  <2>4. HandlerTypes'
    BY <2>1, <2>3 DEF HandlerTypes
  <2>5. HostTypes'
    <3>1. taken \in Hosts /\ done \in Hosts
      <4>1. taken \in Hosts
        BY <2>1 DEF HostTypes, Hosts
      <4> QED
        BY <4>1, DoneType
    <3>2. \/ host' = taken
          \/ r.req = "SET_ADDRESS" /\ host' = [done EXCEPT !.addr = r.addr]
          \/ host' = [done EXCEPT !.configured = TRUE, !.out = 0, !.in = 0]
          \/ host' = done
      BY <1>10 DEF HostEp0In
    <3>3. r.req = "SET_ADDRESS" => r.addr \in Addresses
      BY DEF HostTypes, Hosts, Requests, Nothing, Gets, Unknown
    <3> HIDE DEF taken, done
    <3>4. UNCHANGED <<early, cuts, written, echoed, controls, resets>>
      BY <1>10 DEF HostEp0In
    <3> HIDE DEF r
    <3>5. host' \in Hosts
      <4>1. CASE r.req = "SET_ADDRESS" /\ host' = [done EXCEPT !.addr = r.addr]
        <5>1. r.addr \in Addresses \cup {0}
          BY <3>3, <4>1
        <5> QED
          BY <3>1, <4>1, <5>1 DEF Hosts
      <4>2. CASE host' = [done EXCEPT !.configured = TRUE, !.out = 0, !.in = 0]
        <5>1. 0 \in 0..1 /\ TRUE \in BOOLEAN
          OBVIOUS
        <5>2. [[[done EXCEPT !.configured = TRUE] EXCEPT !.out = 0] EXCEPT !.in = 0] \in Hosts
          BY <3>1, <5>1 DEF Hosts
        <5> QED
          BY <4>2, <5>2
      <4> QED
        BY <3>1, <3>2, <4>1, <4>2
    <3> QED
      BY <3>4, <3>5 DEF HostTypes
  <2> QED
    BY <1>1, <1>10, <2>2, <2>3, <2>4, <2>5 DEF HostEp0In, TypeOK
<1>11. CASE HostEp0Out
  <2>1. "EP0_OUT" \in Endpoints /\ "ZLP" \in DataOf("EP0_OUT")
    BY EndpointSet DEF DataOf, Bulk, Answers
  <2>2. BufferTypes'
    BY <1>1, <1>11, <2>1, CompleteTypes DEF HostEp0Out
  <2>3. buf_status \subseteq buf_status' /\ buf_status' \subseteq buf_status \cup {"EP0_OUT"}
    BY <1>11 DEF HostEp0Out, Complete
  <2>4. HandlerTypes'
    BY <1>11, <2>1, <2>3 DEF HostEp0Out, HandlerTypes
  <2>5. HostTypes'
    BY <1>11, DoneType DEF HostEp0Out, HostTypes
  <2> QED
    BY <1>1, <1>11, <2>2, <2>3, <2>4, <2>5 DEF HostEp0Out, TypeOK
<1>12. CASE HostWrites
  <2> DEFINE packet == Len(written) + 1
  <2>1. "EP1_OUT" \in Endpoints /\ packet \in DataOf("EP1_OUT") /\ packet \in Nat
    BY EndpointSet DEF DataOf, Bulk, HostTypes
  <2>2. \/ Complete("EP1_OUT", packet) /\ UNCHANGED next_pid
        \/ UNCHANGED <<buf_ctrl, buf_status, next_pid>>
    BY <1>12 DEF HostWrites
  <2>3. BufferTypes'
    BY <1>1, <2>1, <2>2, CompleteTypes
  <2>4. buf_status \subseteq buf_status' /\ buf_status' \subseteq buf_status \cup {"EP1_OUT"}
    BY <2>2 DEF Complete
  <2>5. HandlerTypes'
    BY <1>12, <2>1, <2>4 DEF HostWrites, HandlerTypes
  <2>6. HostTypes'
    <3>1. 1 - host.out \in 0..1
      BY DEF HostTypes, Hosts
    <3>2. written' \in Seq(Nat)
      BY <1>12, <2>1 DEF HostWrites, HostTypes
    <3> QED
      BY <1>12, <3>1, <3>2 DEF HostWrites, HostTypes, Hosts
  <2> QED
    BY <1>1, <1>12, <2>3, <2>4, <2>5, <2>6 DEF HostWrites, TypeOK
<1>13. CASE HostReads
  <2> DEFINE d == buf_ctrl["EP2_IN"].data
  <2>1. "EP2_IN" \in Endpoints /\ d \in DataOf("EP2_IN") /\ d \in Nat
    BY EndpointSet DEF BufferTypes, DataOf, Bulk
  <2>2. Complete("EP2_IN", d) /\ UNCHANGED next_pid
    BY <1>13 DEF HostReads
  <2>3. BufferTypes'
    BY <2>1, <2>2, CompleteTypes
  <2>4. buf_status' = buf_status \cup {"EP2_IN"}
    BY <2>2 DEF Complete
  <2>5. HandlerTypes'
    BY <1>13, <2>1, <2>4 DEF HostReads, HandlerTypes
  <2>6. HostTypes'
    <3>1. 1 - host.in \in 0..1
      BY DEF HostTypes, Hosts
    <3>2. \/ echoed' = Append(echoed, d) /\ host' = [host EXCEPT !.in = 1 - @]
          \/ UNCHANGED <<echoed, host>>
      BY <1>13 DEF HostReads
    <3>3. echoed' \in Seq(Nat)
      <4> HIDE DEF d
      <4>1. echoed \in Seq(Nat) /\ d \in Nat
        BY <2>1 DEF HostTypes
      <4>2. echoed' = Append(echoed, d) \/ echoed' = echoed
        BY <3>2
      <4> QED
        BY ONLY <4>1, <4>2
    <3>4. host' \in Hosts
      BY <3>1, <3>2 DEF HostTypes, Hosts
    <3> QED
      BY <1>13, <3>3, <3>4 DEF HostReads, HostTypes
  <2> QED
    BY <1>1, <1>13, <2>3, <2>4, <2>5, <2>6 DEF HostReads, TypeOK
<1>14. CASE HostResets
  <2>1. HostTypes'
    <3>1. host' \in Hosts
      <4>1. Done(host) \in Hosts /\ 0 \in Addresses \cup {0} /\ FALSE \in BOOLEAN
        BY DoneType
      <4>2. host' = [[Done(host) EXCEPT !.addr = 0] EXCEPT !.configured = FALSE]
        BY <1>14 DEF HostResets
      <4> QED
        BY <4>1, <4>2 DEF Hosts
    <3>2. cuts' \in Nat /\ early' \in BOOLEAN
      <4>1. cuts' = cuts \/ cuts' = cuts + 1
        <5>1. cuts' = cuts + (IF host.configured THEN 1 ELSE 0) /\ cuts \in Nat
          BY <1>14 DEF HostResets, HostTypes
        <5>2. ASSUME NEW b \in BOOLEAN PROVE (IF b THEN 1 ELSE 0) \in {0, 1}
          OBVIOUS
        <5>3. host.configured \in BOOLEAN
          BY DEF HostTypes, Hosts
        <5> QED
          BY <5>1, <5>2, <5>3
      <4>2. cuts \in Nat
        BY DEF HostTypes
      <4>3. cuts' \in Nat
        BY ONLY <4>1, <4>2
      <4>4. early' \in BOOLEAN
        BY <1>14 DEF HostResets
      <4> QED
        BY <4>3, <4>4
    <3> QED
      BY <1>14, <3>1, <3>2 DEF HostResets, HostTypes
  <2>2. HandlerTypes'
    BY <1>14 DEF HostResets, HandlerTypes
  <2> QED
    BY <1>1, <1>14, <2>1, <2>2 DEF HostResets, TypeOK
<1>15. CASE UNCHANGED vars
  BY <1>1, <1>15 DEF vars, TypeOK
<1> QED
  BY <1>2, <1>3, <1>4, <1>5, <1>6, <1>7, <1>8, <1>9, <1>10, <1>11, <1>12, <1>13, <1>14, <1>15
     DEF Next, isr_usbctrl, HostAnswers

LEMMA TypeInvariance == Spec => []TypeOK
  BY TypeInit, TypeNext, PTL DEF Spec

-----------------------------------------------------------------------------
(* The buffers of the echo. *)

\* Where it is: waiting for a packet, holding one that the handler has not seen,
\* offering it to the host, or read by the host.
Listens == buf_ctrl["EP1_OUT"].avail
Taken == "EP1_OUT" \in buf_status
Offered == buf_ctrl["EP2_IN"].avail
Returned == "EP2_IN" \in buf_status

\* The numbers of the echo are what they are called.
LEMMA EchoTypes ==
  ASSUME TypeOK
  PROVE  /\ next_pid["EP1_OUT"] \in 0..1 /\ next_pid["EP2_IN"] \in 0..1
         /\ buf_ctrl["EP1_OUT"].data \in Nat /\ buf_ctrl["EP2_IN"].data \in Nat
         /\ host.out \in 0..1 /\ host.in \in 0..1 /\ host.configured \in BOOLEAN
         /\ Listens \in BOOLEAN /\ Offered \in BOOLEAN
         /\ Len(written) \in Nat /\ Len(echoed) \in Nat /\ cuts \in Nat
         /\ DOMAIN echoed = 1..Len(echoed) /\ \A k \in DOMAIN echoed : echoed[k] \in Nat
         /\ DOMAIN buf_ctrl = Endpoints /\ DOMAIN next_pid = Endpoints
<1>1. /\ next_pid["EP1_OUT"] \in 0..1 /\ next_pid["EP2_IN"] \in 0..1 /\ DOMAIN next_pid = Endpoints
  BY EndpointSet DEF TypeOK, BufferTypes
<1>2. /\ buf_ctrl["EP1_OUT"].data \in Nat /\ buf_ctrl["EP2_IN"].data \in Nat
      /\ Listens \in BOOLEAN /\ Offered \in BOOLEAN
  BY EndpointSet DEF TypeOK, BufferTypes, DataOf, Bulk, Listens, Offered
<1>3. DOMAIN buf_ctrl = Endpoints
  BY DEF TypeOK, BufferTypes
<1>4. host.out \in 0..1 /\ host.in \in 0..1 /\ host.configured \in BOOLEAN
  BY DEF TypeOK, HostTypes, Hosts
<1>5. /\ Len(written) \in Nat /\ Len(echoed) \in Nat /\ cuts \in Nat
      /\ DOMAIN echoed = 1..Len(echoed) /\ \A k \in DOMAIN echoed : echoed[k] \in Nat
  BY DEF TypeOK, HostTypes
<1> QED
  BY <1>1, <1>2, <1>3, <1>4, <1>5

-----------------------------------------------------------------------------
(* Endpoint 0: the answer is that to the request. *)

InTransfer == host.stage \in {"data", "ack"}

\* A host configures a device once.
ConfiguresOnce == InTransfer /\ host.asked.req = "SET_CONFIGURATION" => ~ host.configured

\* What a host waits for is the answer to its request, if that has one, or the handler has
\* the request still to see.
AnswerReady ==
  InTransfer /\ Known(host.asked) =>
    /\ setup_rec => setup_packet = host.asked
    /\ ~ setup_rec => buf_ctrl["EP0_IN"].data = Answer(host.asked)

\* The invariant of endpoint 0.
AnswerInv == ConfiguresOnce /\ AnswerReady /\ AnswersMatch

LEMMA AnswerInit == Init => AnswerInv
<1> SUFFICES ASSUME Init PROVE AnswerInv
  OBVIOUS
<1>1. host.stage = "idle"
  BY DEF Init
<1> QED
  BY <1>1 DEF AnswerInv, ConfiguresOnce, AnswerReady, AnswersMatch, InTransfer

\* What the invariant is about.
AnswerSame ==
  /\ UNCHANGED <<setup_rec, setup_packet>>
  /\ buf_ctrl'["EP0_IN"].data = buf_ctrl["EP0_IN"].data
  /\ host'.configured = host.configured
  /\ host'.stage = host.stage /\ host'.asked = host.asked /\ host'.got = host.got

LEMMA AnswerSameKeeps ==
  ASSUME AnswerInv, AnswerSame
  PROVE  AnswerInv'
BY DEF AnswerInv, AnswerSame, ConfiguresOnce, AnswerReady, AnswersMatch, InTransfer, Answer, IsIn, Known

\* Only the answer to a SETUP is written to the buffer of EP0 IN.
LEMMA OthersStartAside ==
  ASSUME TypeOK, NEW e \in Endpoints, e # "EP0_IN", NEW pid, NEW d, StartWith(e, pid, d)
  PROVE  buf_ctrl'["EP0_IN"] = buf_ctrl["EP0_IN"]
BY EndpointSet, EchoTypes DEF StartWith

LEMMA OthersCompleteAside ==
  ASSUME TypeOK, NEW e \in Endpoints, e # "EP0_IN", NEW d, Complete(e, d)
  PROVE  buf_ctrl'["EP0_IN"] = buf_ctrl["EP0_IN"]
BY EndpointSet, EchoTypes DEF Complete

LEMMA AnswerNext == TypeOK /\ AnswerInv /\ [Next]_vars => AnswerInv'
<1> SUFFICES ASSUME TypeOK, AnswerInv, [Next]_vars PROVE AnswerInv'
  OBVIOUS
<1> USE DEF deviceVars, registers, hostVars
<1>0. ASSUME UNCHANGED <<setup_rec, setup_packet, host>>,
             buf_ctrl'["EP0_IN"] = buf_ctrl["EP0_IN"]
      PROVE  AnswerInv'
  BY <1>0, AnswerSameKeeps DEF AnswerSame
<1>1. CASE Interrupt
  BY <1>0, <1>1 DEF Interrupt
<1>2. CASE IsrSetup
  <2>1. CASE "setup" \in isr.status
    <3>1. setup_rec /\ ~ setup_rec' /\ usb_handle_setup_packet /\ UNCHANGED <<setup_packet, host>>
      BY <1>2, <2>1 DEF IsrSetup, TypeOK
    <3>2. Known(setup_packet) => Reply(Answer(setup_packet))
      BY <3>1 DEF usb_handle_setup_packet, Answer, IsIn, Gets, Known, Unknown
    <3>3. Known(setup_packet) => buf_ctrl'["EP0_IN"].data = Answer(setup_packet)
      <4>1. ASSUME NEW d, Reply(d) PROVE buf_ctrl'["EP0_IN"].data = d
        BY <4>1, EndpointSet, EchoTypes DEF Reply, StartWith
      <4> QED
        BY <3>2, <4>1
    <3>4. AnswerReady'
      BY <3>1, <3>3 DEF AnswerInv, AnswerReady, InTransfer, Answer, IsIn, Known
    <3> QED
      BY <3>1, <3>4 DEF AnswerInv, ConfiguresOnce, InTransfer, AnswersMatch
  <2>2. CASE "setup" \notin isr.status
    BY <1>0, <1>2, <2>2 DEF IsrSetup
  <2> QED
    BY <2>1, <2>2
<1>3. CASE IsrBuffs
  BY <1>0, <1>3 DEF IsrBuffs
<1>4. CASE IsrEach
  <2>1. UNCHANGED <<setup_rec, setup_packet, host>>
    BY <1>4 DEF IsrEach
  <2>2. buf_ctrl'["EP0_IN"] = buf_ctrl["EP0_IN"]
    <3>1. UNCHANGED buf_ctrl \/ \E e \in Endpoints : usb_handle_buff_done(e)
      BY <1>4, FirstIsOne DEF IsrEach, TypeOK, HandlerTypes
    <3>2. \/ UNCHANGED buf_ctrl
          \/ \E e \in {"EP0_OUT", "EP2_IN", "EP1_OUT"} : \E d : usb_start_transfer(e, d)
      BY <3>1 DEF usb_handle_buff_done, ep0_in_handler, ep1_out_handler, ep2_in_handler
    <3> QED
      BY <3>2, OthersStartAside, EndpointSet DEF usb_start_transfer
  <2> QED
    BY <1>0, <2>1, <2>2
<1>5. CASE IsrReset
  BY <1>0, <1>5 DEF IsrReset
<1>6. CASE MainConfigured
  BY <1>0, <1>6 DEF MainConfigured
<1>7. CASE MainListens
  <2>1. buf_ctrl'["EP0_IN"] = buf_ctrl["EP0_IN"]
    BY <1>7, EndpointSet, EchoTypes DEF MainListens
  <2> QED
    BY <1>0, <1>7, <2>1 DEF MainListens
<1>8. ASSUME NEW r \in Requests, HostSetup(r) PROVE AnswerInv'
  <2>1. /\ host'.asked = r /\ setup_packet' = r /\ setup_rec' = TRUE
        /\ host'.configured = host.configured
        /\ host'.stage \in {"data", "ack"}
    BY <1>8 DEF HostSetup, TypeOK, HostTypes, Hosts
  <2>2. r.req = "SET_CONFIGURATION" => ~ host.configured
    BY <1>8 DEF HostSetup, Legal
  <2> QED
    BY <2>1, <2>2 DEF AnswerInv, ConfiguresOnce, AnswerReady, AnswersMatch, InTransfer
<1>9. CASE HostEp0In
  <2>1. InTransfer /\ ~ setup_rec
    BY <1>9 DEF HostEp0In, InTransfer
  <2>2. /\ host'.stage = IF IsIn(host.asked) THEN "status" ELSE "idle"
        /\ IsIn(host.asked) => host'.got = buf_ctrl["EP0_IN"].data /\ host'.asked = host.asked
    BY <1>9 DEF HostEp0In, Done, IsIn, Gets, TypeOK, HostTypes, Hosts
  <2>3. ~ InTransfer'
    BY <2>2 DEF InTransfer
  <2>4. AnswersMatch'
    BY <2>1, <2>2 DEF AnswerInv, AnswerReady, AnswersMatch, Answer
  <2> QED
    BY <2>3, <2>4 DEF AnswerInv, ConfiguresOnce, AnswerReady
<1>10. CASE HostEp0Out
  <2>1. host'.stage = "idle"
    BY <1>10 DEF HostEp0Out, Done, TypeOK, HostTypes, Hosts
  <2> QED
    BY <2>1 DEF AnswerInv, ConfiguresOnce, AnswerReady, AnswersMatch, InTransfer
<1>11. CASE HostWrites
  <2>1. buf_ctrl'["EP0_IN"] = buf_ctrl["EP0_IN"]
    BY <1>11, OthersCompleteAside, EndpointSet DEF HostWrites
  <2> QED
    BY <1>11, <2>1, AnswerSameKeeps DEF HostWrites, AnswerSame, TypeOK, HostTypes, Hosts
<1>12. CASE HostReads
  <2>1. buf_ctrl'["EP0_IN"] = buf_ctrl["EP0_IN"]
    BY <1>12, OthersCompleteAside, EndpointSet DEF HostReads
  <2> QED
    BY <1>12, <2>1, AnswerSameKeeps DEF HostReads, AnswerSame, TypeOK, HostTypes, Hosts
<1>13. CASE HostResets
  <2>1. host'.stage = "idle"
    BY <1>13 DEF HostResets, Done, TypeOK, HostTypes, Hosts
  <2> QED
    BY <2>1 DEF AnswerInv, ConfiguresOnce, AnswerReady, AnswersMatch, InTransfer
<1>14. CASE UNCHANGED vars
  BY <1>0, <1>14 DEF vars
<1> QED
  BY <1>1, <1>2, <1>3, <1>4, <1>5, <1>6, <1>7, <1>8, <1>9, <1>10, <1>11, <1>12, <1>13, <1>14
     DEF Next, isr_usbctrl, HostAnswers

LEMMA AnswerInvariance == Spec => []AnswerInv
  BY TypeInvariance, AnswerInit, AnswerNext, PTL DEF Spec

-----------------------------------------------------------------------------
(* The echo: one buffer goes round. *)

\* A condition, counted.
One(holds) == IF holds THEN 1 ELSE 0

\* There is one buffer: it is at one of its places, or main has still to hand it over.
Round ==
  One(Listens) + One(Taken) + One(Offered) + One(Returned) + One(main.at # "loop") = 1

\* A buffer carries the pid that usb_start_transfer, or main, took before it flipped it.
Pids ==
  /\ main.at = "arm" => main.pid = 1 - next_pid["EP1_OUT"]
  /\ Listens => buf_ctrl["EP1_OUT"].pid = 1 - next_pid["EP1_OUT"]
  /\ Offered => buf_ctrl["EP2_IN"].pid = 1 - next_pid["EP2_IN"]

\* A packet is on its way from the one endpoint to the other.
UnderWay == Taken \/ Offered

\* The packet under way is the last one written, and what came back before it is older
\* and in order.
Rising ==
  /\ \A i \in DOMAIN echoed : echoed[i] <= Len(written) - One(UnderWay)
  /\ \A i, j \in DOMAIN echoed : i < j => echoed[i] < echoed[j]
  /\ Taken => buf_ctrl["EP1_OUT"].data = Len(written)
  /\ Offered => buf_ctrl["EP2_IN"].data = Len(written)

\* The pids of the next packet the device takes and of the next it sends.
OutPid == IF main.at = "arm" \/ Listens THEN 1 - next_pid["EP1_OUT"] ELSE next_pid["EP1_OUT"]
InPid == IF Offered THEN 1 - next_pid["EP2_IN"] ELSE next_pid["EP2_IN"]

\* Packets that will not come back, and packets that will be dropped since the ends
\* disagree about the toggles.
Lost == Len(written) - Len(echoed) - One(UnderWay)
OutOfStep == One(OutPid # host.out) + One(InPid # host.in)

\* Nothing has been written and no toggle has moved.
Fresh == Len(written) = 0 /\ Len(echoed) = 0 /\ ~ UnderWay /\ OutPid = 0 /\ InPid = 0

\* Each configuration but the first finds toggles that nothing has reset.
Losses ==
  /\ host.configured => Lost + OutOfStep <= 2 * cuts
  /\ ~ host.configured => Fresh \/ (cuts > 0 /\ Lost <= 2 * (cuts - 1))

\* The invariant of the echo.
EchoInv == Round /\ Pids /\ Rising /\ Losses

\* What the invariant is about.
EchoSame ==
  /\ UNCHANGED <<main, written, echoed, cuts>>
  /\ \A e \in Bulk : next_pid'[e] = next_pid[e] /\ buf_ctrl'[e] = buf_ctrl[e]
                     /\ (e \in buf_status' <=> e \in buf_status)
  /\ host'.configured = host.configured
  /\ host'.out = host.out /\ host'.in = host.in

LEMMA EchoSameKeeps ==
  ASSUME EchoInv, EchoSame
  PROVE  EchoInv'
<1>1. /\ next_pid'["EP1_OUT"] = next_pid["EP1_OUT"] /\ next_pid'["EP2_IN"] = next_pid["EP2_IN"]
      /\ buf_ctrl'["EP1_OUT"] = buf_ctrl["EP1_OUT"] /\ buf_ctrl'["EP2_IN"] = buf_ctrl["EP2_IN"]
      /\ ("EP1_OUT" \in buf_status' <=> "EP1_OUT" \in buf_status)
      /\ ("EP2_IN" \in buf_status' <=> "EP2_IN" \in buf_status)
  BY DEF EchoSame, Bulk
<1>2. /\ Listens' = Listens /\ Offered' = Offered /\ (Taken' <=> Taken) /\ (Returned' <=> Returned)
  BY <1>1 DEF Listens, Offered, Taken, Returned
<1>3. Round'
  BY <1>2 DEF EchoInv, EchoSame, Round, One
<1>4. Pids'
  BY <1>1, <1>2 DEF EchoInv, EchoSame, Pids
<1>5. Rising'
  BY <1>1, <1>2 DEF EchoInv, EchoSame, Rising, UnderWay, One
<1>6. Losses'
  BY <1>1, <1>2
     DEF EchoInv, EchoSame, Losses, Lost, OutOfStep, Fresh, OutPid, InPid, UnderWay, One
<1> QED
  BY <1>3, <1>4, <1>5, <1>6 DEF EchoInv

LEMMA EchoInit == Init => EchoInv
<1> SUFFICES ASSUME Init PROVE EchoInv
  OBVIOUS
<1>1. /\ ~ Listens /\ ~ Offered /\ ~ Taken /\ ~ Returned /\ main.at = "wait"
      /\ next_pid["EP1_OUT"] = 0 /\ next_pid["EP2_IN"] = 0 /\ ~ host.configured
      /\ written = <<>> /\ echoed = <<>>
  BY EndpointSet DEF Init, Listens, Offered, Taken, Returned
<1> QED
  BY <1>1 DEF EchoInv, Round, Pids, Rising, Losses, Fresh, UnderWay, OutPid, InPid, One

\* main reads and flips the pid ...
LEMMA EchoMainConfigured ==
  ASSUME TypeOK, EchoInv, MainConfigured
  PROVE  EchoInv'
<1> USE DEF EchoInv
<1>1. /\ main.at = "wait" /\ main'.at = "arm" /\ main'.pid = next_pid["EP1_OUT"]
      /\ next_pid'["EP1_OUT"] = 1 - next_pid["EP1_OUT"] /\ next_pid'["EP2_IN"] = next_pid["EP2_IN"]
      /\ UNCHANGED <<buf_ctrl, buf_status, host, written, echoed, cuts>>
  BY EchoTypes, EndpointSet DEF MainConfigured, registers, hostVars
<1>2. /\ ~ Listens /\ ~ Taken /\ ~ Offered /\ ~ Returned
  BY <1>1, EchoTypes DEF Round, One
<1>3. /\ ~ Listens' /\ ~ Taken' /\ ~ Offered' /\ ~ Returned'
  BY <1>1, <1>2 DEF Listens, Taken, Offered, Returned
<1>4. Round'
  BY <1>1, <1>3 DEF Round, One
<1>5. Pids'
  BY <1>1, <1>3, EchoTypes DEF Pids
<1>6. Rising'
  BY <1>1, <1>2, <1>3 DEF Rising, UnderWay
<1>7. OutPid' = OutPid /\ InPid' = InPid /\ Lost' = Lost
  BY <1>1, <1>2, <1>3, EchoTypes DEF OutPid, InPid, Lost, UnderWay
<1>8. Losses'
  BY <1>1, <1>2, <1>3, <1>7 DEF Losses, OutOfStep, Fresh, UnderWay
<1> QED
  BY <1>4, <1>5, <1>6, <1>8

\* ... and hands the buffer over, whatever the handler has done in between.
LEMMA EchoMainListens ==
  ASSUME TypeOK, EchoInv, MainListens
  PROVE  EchoInv'
<1> USE DEF EchoInv
<1>1. /\ main.at = "arm" /\ main'.at = "loop"
      /\ buf_ctrl'["EP1_OUT"] = [avail |-> TRUE, pid |-> main.pid, data |-> 0]
      /\ buf_ctrl'["EP2_IN"] = buf_ctrl["EP2_IN"]
      /\ UNCHANGED <<next_pid, buf_status, host, written, echoed, cuts>>
  BY EchoTypes, EndpointSet DEF MainListens, hostVars, TypeOK, HandlerTypes
<1>2. /\ ~ Listens /\ ~ Taken /\ ~ Offered /\ ~ Returned
  BY <1>1, EchoTypes DEF Round, One
<1>3. /\ Listens' /\ ~ Taken' /\ ~ Offered' /\ ~ Returned'
  BY <1>1, <1>2 DEF Listens, Taken, Offered, Returned
<1>4. Round'
  BY <1>1, <1>3 DEF Round, One
<1>5. Pids'
  BY <1>1, <1>3 DEF Pids
<1>6. Rising'
  BY <1>1, <1>2, <1>3 DEF Rising, UnderWay
<1>7. OutPid' = OutPid /\ InPid' = InPid /\ Lost' = Lost
  BY <1>1, <1>2, <1>3 DEF OutPid, InPid, Lost, UnderWay
<1>8. Losses'
  BY <1>1, <1>2, <1>3, <1>7 DEF Losses, OutOfStep, Fresh, UnderWay
<1> QED
  BY <1>4, <1>5, <1>6, <1>8

\* The handler passes the packet on ...
LEMMA EchoPassesOn ==
  ASSUME TypeOK, EchoInv, "EP1_OUT" \in buf_status, ep1_out_handler,
         buf_status' = buf_status \ {"EP1_OUT"}, UNCHANGED <<main, hostVars>>
  PROVE  EchoInv'
<1> USE DEF EchoInv, hostVars
<1>1. /\ buf_ctrl'["EP2_IN"] = [avail |-> TRUE, pid |-> next_pid["EP2_IN"],
                                data |-> buf_ctrl["EP1_OUT"].data]
      /\ buf_ctrl'["EP1_OUT"] = buf_ctrl["EP1_OUT"]
      /\ next_pid'["EP2_IN"] = 1 - next_pid["EP2_IN"] /\ next_pid'["EP1_OUT"] = next_pid["EP1_OUT"]
  BY EchoTypes, EndpointSet DEF ep1_out_handler, usb_start_transfer, StartWith
<1>2. /\ ~ Listens /\ Taken /\ ~ Offered /\ ~ Returned /\ main.at = "loop"
  BY EchoTypes DEF Round, One, Taken
<1>3. /\ ~ Listens' /\ ~ Taken' /\ Offered' /\ ~ Returned'
  BY <1>1, <1>2 DEF Listens, Taken, Offered, Returned
<1>4. Round'
  BY <1>2, <1>3 DEF Round, One
<1>5. Pids'
  BY <1>1, <1>2, <1>3, EchoTypes DEF Pids
<1>6. Rising'
  BY <1>1, <1>2, <1>3 DEF Rising, UnderWay
<1>7. OutPid' = OutPid /\ InPid' = InPid /\ Lost' = Lost
  BY <1>1, <1>2, <1>3, EchoTypes DEF OutPid, InPid, Lost, UnderWay
<1>8. Losses'
  BY <1>2, <1>3, <1>7 DEF Losses, OutOfStep, Fresh, UnderWay
<1> QED
  BY <1>4, <1>5, <1>6, <1>8

\* ... and listens again when it has been read.
LEMMA EchoListensAgain ==
  ASSUME TypeOK, EchoInv, "EP2_IN" \in buf_status, ep2_in_handler,
         buf_status' = buf_status \ {"EP2_IN"}, UNCHANGED <<main, hostVars>>
  PROVE  EchoInv'
<1> USE DEF EchoInv, hostVars
<1>1. /\ buf_ctrl'["EP1_OUT"] = [avail |-> TRUE, pid |-> next_pid["EP1_OUT"], data |-> 0]
      /\ buf_ctrl'["EP2_IN"] = buf_ctrl["EP2_IN"]
      /\ next_pid'["EP1_OUT"] = 1 - next_pid["EP1_OUT"] /\ next_pid'["EP2_IN"] = next_pid["EP2_IN"]
  BY EchoTypes, EndpointSet DEF ep2_in_handler, usb_start_transfer, StartWith
<1>2. /\ ~ Listens /\ ~ Taken /\ ~ Offered /\ Returned /\ main.at = "loop"
  BY EchoTypes DEF Round, One, Returned
<1>3. /\ Listens' /\ ~ Taken' /\ ~ Offered' /\ ~ Returned'
  BY <1>1, <1>2 DEF Listens, Taken, Offered, Returned
<1>4. Round'
  BY <1>2, <1>3 DEF Round, One
<1>5. Pids'
  BY <1>1, <1>2, <1>3, EchoTypes DEF Pids
<1>6. Rising'
  BY <1>1, <1>2, <1>3 DEF Rising, UnderWay
<1>7. OutPid' = OutPid /\ InPid' = InPid /\ Lost' = Lost
  BY <1>1, <1>2, <1>3, EchoTypes DEF OutPid, InPid, Lost, UnderWay
<1>8. Losses'
  BY <1>2, <1>3, <1>7 DEF Losses, OutOfStep, Fresh, UnderWay
<1> QED
  BY <1>4, <1>5, <1>6, <1>8

\* SET_CONFIGURATION starts the host's toggles afresh, those of the device stay.
LEMMA EchoConfigured ==
  ASSUME TypeOK, EchoInv, ~ host.configured,
         host'.configured = TRUE, host'.out = 0, host'.in = 0,
         UNCHANGED <<main, written, echoed, cuts>>,
         \A e \in Bulk : next_pid'[e] = next_pid[e] /\ buf_ctrl'[e] = buf_ctrl[e]
                         /\ (e \in buf_status' <=> e \in buf_status)
  PROVE  EchoInv'
<1> USE DEF EchoInv
<1>1. /\ next_pid'["EP1_OUT"] = next_pid["EP1_OUT"] /\ next_pid'["EP2_IN"] = next_pid["EP2_IN"]
      /\ buf_ctrl'["EP1_OUT"] = buf_ctrl["EP1_OUT"] /\ buf_ctrl'["EP2_IN"] = buf_ctrl["EP2_IN"]
      /\ ("EP1_OUT" \in buf_status' <=> "EP1_OUT" \in buf_status)
      /\ ("EP2_IN" \in buf_status' <=> "EP2_IN" \in buf_status)
  BY DEF Bulk
<1>2. /\ Listens' = Listens /\ Offered' = Offered /\ (Taken' <=> Taken) /\ (Returned' <=> Returned)
  BY <1>1 DEF Listens, Offered, Taken, Returned
<1>3. Round' /\ Pids' /\ Rising'
  BY <1>1, <1>2 DEF Round, Pids, Rising, UnderWay, One
<1>4. OutPid' = OutPid /\ InPid' = InPid /\ Lost' = Lost
  BY <1>1, <1>2 DEF OutPid, InPid, Lost, UnderWay, One
<1>5. Lost' \in Int /\ cuts \in Nat /\ OutOfStep' \in 0..2
  BY EchoTypes DEF Lost, UnderWay, One, OutOfStep
<1>6. CASE Fresh
  <2>1. Lost' = 0
    <3>1. Len(written) = 0 /\ Len(echoed) = 0 /\ ~ UnderWay
      BY <1>6 DEF Fresh
    <3> QED
      <4>1. Lost = 0
        <5>1. One(UnderWay) = 0
          BY <3>1 DEF One
        <5> QED
          BY <3>1, <5>1 DEF Lost
      <4> QED
        BY <1>4, <4>1
  <2>2. OutOfStep' = 0
    <3>1. OutPid' = 0 /\ InPid' = 0
      BY <1>4, <1>6 DEF Fresh
    <3> QED
      BY <3>1 DEF OutOfStep, One
  <2> QED
    BY <1>3, <1>5, <2>1, <2>2 DEF Losses
<1>7. CASE cuts > 0 /\ Lost <= 2 * (cuts - 1)
  <2>1. ASSUME NEW l \in Int, NEW o \in 0..2, NEW c \in Nat, l <= 2 * (c - 1)
        PROVE  l + o <= 2 * c
    BY ONLY <2>1
  <2>2. Lost' + OutOfStep' <= 2 * cuts
    BY <1>4, <1>5, <1>7, <2>1
  <2> QED
    BY <1>3, <2>2 DEF Losses
<1> QED
  BY <1>6, <1>7 DEF Losses

\* A packet is taken, or dropped as a repetition.
LEMMA EchoWrites ==
  ASSUME TypeOK, EchoInv, HostWrites
  PROVE  EchoInv'
<1> USE DEF EchoInv
<1>1. /\ Listens /\ host.configured /\ Len(written') = Len(written) + 1
      /\ host'.out = 1 - host.out /\ host'.in = host.in
      /\ host'.configured = host.configured
      /\ UNCHANGED <<next_pid, main, echoed, cuts>>
  <2>1. host' = [host EXCEPT !.out = 1 - host.out] /\ written' = Append(written, Len(written) + 1)
    BY DEF HostWrites
  <2>2. /\ host'.out = 1 - host.out /\ host'.in = host.in
        /\ host'.configured = host.configured
    BY <2>1 DEF TypeOK, HostTypes, Hosts
  <2>3. Len(written') = Len(written) + 1
    BY <2>1 DEF TypeOK, HostTypes
  <2> QED
    BY <2>2, <2>3 DEF HostWrites, Listens
<1>2. ~ Taken /\ ~ Offered /\ ~ Returned /\ main.at = "loop"
  BY <1>1, EchoTypes DEF Round, One
<1>3. Lost' = Lost + 1 - One(UnderWay')
  BY <1>1, <1>2, EchoTypes DEF Lost, UnderWay, One
<1>4. CASE buf_ctrl["EP1_OUT"].pid = host.out
  <2>1. Complete("EP1_OUT", Len(written) + 1)
    BY <1>4 DEF HostWrites
  <2>2. /\ buf_ctrl'["EP1_OUT"] = [buf_ctrl["EP1_OUT"] EXCEPT !.avail = FALSE, !.data = Len(written) + 1]
        /\ buf_ctrl'["EP2_IN"] = buf_ctrl["EP2_IN"] /\ buf_status' = buf_status \cup {"EP1_OUT"}
    BY <2>1, EchoTypes, EndpointSet DEF Complete
  <2>3. /\ buf_ctrl'["EP1_OUT"].avail = FALSE /\ buf_ctrl'["EP1_OUT"].data = Len(written) + 1
    BY <2>2, EndpointSet DEF TypeOK, BufferTypes
  <2>4. ~ Listens' /\ Taken' /\ ~ Offered' /\ ~ Returned'
    BY <1>2, <2>2, <2>3 DEF Listens, Taken, Offered, Returned
  <2>5. Round'
    BY <1>1, <1>2, <2>4 DEF Round, One
  <2>6. Pids'
    BY <1>1, <1>2, <2>4 DEF Pids
  <2>7. Rising'
    BY <1>1, <1>2, <2>3, <2>4, EchoTypes DEF Rising, UnderWay, One
  <2>8. OutPid' = next_pid["EP1_OUT"] /\ InPid' = InPid /\ OutPid = 1 - next_pid["EP1_OUT"]
        /\ OutPid = host.out
    BY <1>1, <1>2, <1>4, <2>4, EchoTypes DEF OutPid, InPid, Pids
  <2>9. OutOfStep' = OutOfStep /\ Lost' = Lost
    <3>1. OutPid' = host'.out /\ InPid' = InPid /\ OutPid = host.out /\ host'.in = host.in
      BY <1>1, <2>8, EchoTypes
    <3>2. One(OutPid' # host'.out) = One(OutPid # host.out)
          /\ One(InPid' # host'.in) = One(InPid # host.in)
      BY <3>1 DEF One
    <3>3. One(UnderWay') = 1
      BY <2>4 DEF UnderWay, One
    <3>4. Lost \in Int
      BY EchoTypes DEF Lost, UnderWay, One
    <3> QED
      BY <1>3, <3>2, <3>3, <3>4 DEF OutOfStep
  <2> QED
    BY <1>1, <2>5, <2>6, <2>7, <2>9 DEF Losses
<1>5. CASE buf_ctrl["EP1_OUT"].pid # host.out
  <2>1. UNCHANGED <<buf_ctrl, buf_status>>
    BY <1>5 DEF HostWrites
  <2>2. Listens' /\ ~ Taken' /\ ~ Offered' /\ ~ Returned'
    BY <1>1, <1>2, <2>1 DEF Listens, Taken, Offered, Returned
  <2>3. Round' /\ Pids'
    BY <1>1, <1>2, <2>1, <2>2 DEF Round, Pids, One
  <2>4. Rising'
    BY <1>1, <1>2, <2>2, EchoTypes DEF Rising, UnderWay, One
  <2>5. /\ OutPid' = OutPid /\ InPid' = InPid /\ OutPid = 1 - next_pid["EP1_OUT"] /\ OutPid # host.out
    BY <1>1, <1>2, <1>5, <2>2, EchoTypes DEF OutPid, InPid, Pids
  <2>6. OutOfStep' = OutOfStep - 1 /\ Lost' = Lost + 1
    <3>1. OutPid \in 0..1 /\ OutPid' = host'.out
      BY <1>1, <2>5, EchoTypes
    <3> QED
      BY <1>1, <1>3, <2>2, <2>5, <3>1, EchoTypes DEF OutOfStep, UnderWay, One, Lost, InPid
  <2>7. OutOfStep \in Int /\ Lost \in Int
    BY EchoTypes DEF OutOfStep, Lost, UnderWay, One
  <2> QED
    BY <1>1, <2>3, <2>4, <2>6, <2>7, EchoTypes DEF Losses
<1> QED
  BY <1>4, <1>5

\* A packet is read, or dropped as a repetition; the buffer is free in either case.
LEMMA EchoReads ==
  ASSUME TypeOK, EchoInv, HostReads
  PROVE  EchoInv'
<1> USE DEF EchoInv
<1>1. /\ Offered /\ host.configured /\ Complete("EP2_IN", buf_ctrl["EP2_IN"].data)
      /\ UNCHANGED <<next_pid, main, written, cuts>>
  BY DEF HostReads, Offered
<1>2. ~ Listens /\ ~ Taken /\ ~ Returned /\ main.at = "loop"
  BY <1>1, EchoTypes DEF Round, One
<1>3. /\ buf_ctrl'["EP2_IN"].avail = FALSE /\ buf_ctrl'["EP1_OUT"] = buf_ctrl["EP1_OUT"]
      /\ buf_status' = buf_status \cup {"EP2_IN"}
  <2>1. /\ buf_ctrl'["EP2_IN"] = [buf_ctrl["EP2_IN"] EXCEPT !.avail = FALSE, !.data = buf_ctrl["EP2_IN"].data]
        /\ buf_ctrl'["EP1_OUT"] = buf_ctrl["EP1_OUT"] /\ buf_status' = buf_status \cup {"EP2_IN"}
    BY <1>1, EchoTypes, EndpointSet DEF Complete
  <2> QED
    BY <2>1, EndpointSet DEF TypeOK, BufferTypes
<1>4. ~ Listens' /\ ~ Taken' /\ ~ Offered' /\ Returned'
  BY <1>2, <1>3 DEF Listens, Taken, Offered, Returned
<1>5. Round' /\ Pids'
  BY <1>1, <1>2, <1>4 DEF Round, Pids, One
<1>6. /\ OutPid' = OutPid /\ InPid' = next_pid["EP2_IN"] /\ InPid = 1 - next_pid["EP2_IN"]
      /\ InPid = buf_ctrl["EP2_IN"].pid
  BY <1>1, <1>2, <1>4, EchoTypes DEF OutPid, InPid, Pids
<1>7. CASE buf_ctrl["EP2_IN"].pid = host.in
  <2>1. /\ echoed' = Append(echoed, Len(written))
        /\ host'.in = 1 - host.in /\ host'.out = host.out
        /\ host'.configured = host.configured
    BY <1>1, <1>7 DEF HostReads, Rising, TypeOK, HostTypes, Hosts
  <2>2. /\ Len(echoed') = Len(echoed) + 1 /\ DOMAIN echoed' = 1..(Len(echoed) + 1)
        /\ \A i \in 1..Len(echoed) : echoed'[i] = echoed[i]
        /\ echoed'[Len(echoed) + 1] = Len(written)
    BY <2>1 DEF TypeOK, HostTypes
  <2>3. Rising'
    <3>1. \A i \in 1..Len(echoed) : echoed[i] <= Len(written) - 1
      BY <1>1, EchoTypes DEF Rising, UnderWay, One
    <3>2. \A i \in 1..(Len(echoed) + 1) : i \in 1..Len(echoed) \/ i = Len(echoed) + 1
      BY EchoTypes
    <3>3. \A i \in DOMAIN echoed' : echoed'[i] <= Len(written')
      <4>1. Len(written') = Len(written)
        BY <1>1
      <4>2. \A i \in 1..Len(echoed) : echoed'[i] <= Len(written)
        BY <2>2, <3>1, EchoTypes
      <4> QED
        <5>1. \A i \in 1..(Len(echoed) + 1) : echoed'[i] <= Len(written)
          <6> SUFFICES ASSUME NEW i \in 1..(Len(echoed) + 1) PROVE echoed'[i] <= Len(written)
            OBVIOUS
          <6>1. CASE i \in 1..Len(echoed)
            BY <4>2, <6>1
          <6>2. CASE i = Len(echoed) + 1
            <7>1. Len(written) \in Nat
              BY EchoTypes
            <7>2. echoed'[i] = Len(written)
              BY <2>2, <6>2
            <7> QED
              BY ONLY <7>1, <7>2
          <6> QED
            BY <3>2, <6>1, <6>2
        <5> QED
          BY <2>2, <4>1, <5>1
    <3>4. ASSUME NEW i \in DOMAIN echoed', NEW j \in DOMAIN echoed', i < j
          PROVE  echoed'[i] < echoed'[j]
      <4>1. i \in 1..Len(echoed)
        BY <2>2, <3>4, EchoTypes
      <4>2. CASE j \in 1..Len(echoed)
        BY <2>2, <3>4, <4>1, <4>2, EchoTypes DEF Rising
      <4>3. CASE j = Len(echoed) + 1
        BY <2>2, <3>1, <4>1, <4>3, EchoTypes
      <4> QED
        BY <2>2, <3>2, <4>2, <4>3
    <3> QED
      BY <1>1, <1>4, <3>3, <3>4, EchoTypes DEF Rising, UnderWay, One
  <2>4. OutOfStep' = OutOfStep
    BY <1>6, <1>7, <2>1, EchoTypes DEF OutOfStep, One
  <2>5. Lost' = Lost
    BY <1>1, <1>4, <2>2, EchoTypes DEF Lost, UnderWay, One
  <2> QED
    BY <1>1, <1>5, <2>1, <2>3, <2>4, <2>5 DEF Losses
<1>8. CASE buf_ctrl["EP2_IN"].pid # host.in
  <2>1. UNCHANGED <<echoed, host>>
    BY <1>8 DEF HostReads
  <2>2. Rising'
    BY <1>1, <1>4, <2>1, EchoTypes DEF Rising, UnderWay, One
  <2>3. OutOfStep' = OutOfStep - 1
    BY <1>6, <1>8, <2>1, EchoTypes DEF OutOfStep, One
  <2>4. Lost' = Lost + 1
    BY <1>1, <1>4, <2>1, EchoTypes DEF Lost, UnderWay, One
  <2>5. OutOfStep \in Int /\ Lost \in Int
    BY EchoTypes DEF OutOfStep, Lost, UnderWay, One
  <2> QED
    BY <1>1, <1>5, <2>1, <2>2, <2>3, <2>4, <2>5, EchoTypes DEF Losses
<1> QED
  BY <1>7, <1>8

\* A reset of a configured device leaves the packet where it is.
LEMMA EchoResets ==
  ASSUME TypeOK, EchoInv, HostResets
  PROVE  EchoInv'
<1> USE DEF EchoInv
<1>1. /\ cuts' = cuts + (IF host.configured THEN 1 ELSE 0)
      /\ ~ host'.configured /\ host'.out = host.out /\ host'.in = host.in
      /\ UNCHANGED <<next_pid, main, buf_ctrl, buf_status, written, echoed>>
  BY DEF HostResets, Done, TypeOK, HostTypes, Hosts
<1>2. Listens' = Listens /\ Offered' = Offered /\ Taken' = Taken /\ Returned' = Returned
  BY <1>1 DEF Listens, Offered, Taken, Returned
<1>3. Round' /\ Pids' /\ Rising'
  BY <1>1, <1>2 DEF Round, Pids, Rising, UnderWay, One
<1>4. OutPid' = OutPid /\ InPid' = InPid /\ Lost' = Lost /\ Fresh' = Fresh
  BY <1>1, <1>2 DEF OutPid, InPid, Lost, Fresh, UnderWay, One
<1>5. Lost \in Int /\ cuts \in Nat /\ OutOfStep \in 0..2
  BY EchoTypes DEF Lost, UnderWay, One, OutOfStep
<1>6. Losses'
  <2>1. CASE host.configured
    <3>1. Lost + OutOfStep <= 2 * cuts /\ cuts' = cuts + 1
      BY <1>1, <2>1 DEF Losses
    <3>2. Lost <= 2 * (cuts' - 1) /\ cuts' > 0
      BY ONLY <1>5, <3>1
    <3>3. Lost' <= 2 * (cuts' - 1)
      BY <1>4, <3>2
    <3> QED
      BY <1>1, <3>2, <3>3 DEF Losses
  <2>2. CASE ~ host.configured
    <3>1. cuts' = cuts
      BY <1>1, <1>5, <2>2
    <3> QED
      BY <1>1, <1>4, <2>2, <3>1 DEF Losses
  <2> QED
    BY <2>1, <2>2
<1> QED
  BY <1>3, <1>6

\* Nothing that is done on endpoint 0 concerns the echo.
LEMMA ControlStartsAside ==
  ASSUME TypeOK, NEW e \in Control, NEW pid, NEW d, StartWith(e, pid, d)
  PROVE  \A f \in Bulk : next_pid'[f] = next_pid[f] /\ buf_ctrl'[f] = buf_ctrl[f]
<1>1. \A f \in Bulk : f # e /\ f \in Endpoints
  BY EndpointSet DEF Bulk, Control
<1> QED
  BY <1>1, EchoTypes DEF StartWith

LEMMA ControlCompletesAside ==
  ASSUME TypeOK, NEW e \in Control, NEW d, Complete(e, d)
  PROVE  \A f \in Bulk : buf_ctrl'[f] = buf_ctrl[f] /\ (f \in buf_status' <=> f \in buf_status)
<1>1. \A f \in Bulk : f # e /\ f \in Endpoints
  BY EndpointSet DEF Bulk, Control
<1> QED
  BY <1>1, EchoTypes DEF Complete

LEMMA EchoNext == TypeOK /\ AnswerInv /\ EchoInv /\ [Next]_vars => EchoInv'
<1> SUFFICES ASSUME TypeOK, AnswerInv, EchoInv, [Next]_vars PROVE EchoInv'
  OBVIOUS
<1> DEFINE Rest == <<main, host, written, echoed, cuts>>
<1>0. ASSUME UNCHANGED Rest,
             \A e \in Bulk : next_pid'[e] = next_pid[e] /\ buf_ctrl'[e] = buf_ctrl[e]
                             /\ (e \in buf_status' <=> e \in buf_status)
      PROVE  EchoInv'
  BY <1>0, EchoSameKeeps DEF EchoSame
<1> USE DEF deviceVars, registers, hostVars
<1>1. CASE Interrupt
  BY <1>0, <1>1 DEF Interrupt
<1>2. CASE IsrSetup
  <2>1. UNCHANGED <<Rest, buf_status>>
    BY <1>2 DEF IsrSetup
  <2>2. \A f \in Bulk : next_pid'[f] = next_pid[f] /\ buf_ctrl'[f] = buf_ctrl[f]
    <3>1. CASE \E d : Reply(d)
      BY <3>1, ControlStartsAside DEF Reply, Control
    <3>2. CASE next_pid' = [next_pid EXCEPT !["EP0_IN"] = 1] /\ UNCHANGED buf_ctrl
      <4>1. \A f \in Bulk : f # "EP0_IN" /\ f \in Endpoints
        BY EndpointSet DEF Bulk
      <4> QED
        BY <3>2, <4>1, EchoTypes
    <3>3. CASE UNCHANGED <<next_pid, buf_ctrl>>
      BY <3>3
    <3> QED
      BY <1>2, <3>1, <3>2, <3>3 DEF IsrSetup, usb_handle_setup_packet
  <2> QED
    BY <1>0, <2>1, <2>2
<1>3. CASE IsrBuffs
  BY <1>0, <1>3 DEF IsrBuffs
<1>4. CASE IsrEach
  <2>1. CASE isr.bufs = {}
    BY <1>0, <1>4, <2>1 DEF IsrEach
  <2>2. CASE isr.bufs # {}
    <3> DEFINE e == First(isr.bufs)
    <3>1. e \in buf_status /\ e \in Endpoints
      BY <2>2, FirstIsOne DEF TypeOK, HandlerTypes
    <3>2. buf_status' = buf_status \ {e} /\ usb_handle_buff_done(e) /\ UNCHANGED Rest
      BY <1>4, <2>2 DEF IsrEach
    <3> HIDE DEF e
    <3>3. CASE e \in Control
      <4>1. \A f \in Bulk : f # e
        BY <3>3 DEF Bulk, Control
      <4>2. \A f \in Bulk : f \in buf_status' <=> f \in buf_status
        BY <3>2, <4>1
      <4>3. \A f \in Bulk : next_pid'[f] = next_pid[f] /\ buf_ctrl'[f] = buf_ctrl[f]
        <5>1. CASE usb_start_transfer("EP0_OUT", "ZLP")
          BY <5>1, ControlStartsAside DEF usb_start_transfer, Control
        <5>2. CASE UNCHANGED <<buf_ctrl, next_pid>>
          BY <5>2
        <5> QED
          BY <3>2, <3>3, <5>1, <5>2 DEF usb_handle_buff_done, ep0_in_handler, Control
      <4> QED
        BY <1>0, <3>2, <4>2, <4>3
    <3>4. CASE e = "EP1_OUT"
      <4>1. ep1_out_handler /\ UNCHANGED <<main, hostVars>>
        BY <1>4, <3>2, <3>4 DEF usb_handle_buff_done, IsrEach
      <4> QED
        BY <3>1, <3>2, <3>4, <4>1, EchoPassesOn
    <3>5. CASE e = "EP2_IN"
      <4>1. ep2_in_handler /\ UNCHANGED <<main, hostVars>>
        BY <1>4, <3>2, <3>5 DEF usb_handle_buff_done, IsrEach
      <4> QED
        BY <3>1, <3>2, <3>5, <4>1, EchoListensAgain
    <3> QED
      BY <3>1, <3>3, <3>4, <3>5, EndpointSet DEF Control
  <2> QED
    BY <2>1, <2>2
<1>5. CASE IsrReset
  BY <1>0, <1>5 DEF IsrReset
<1>6. CASE MainConfigured
  BY <1>6, EchoMainConfigured
<1>7. CASE MainListens
  BY <1>7, EchoMainListens
<1>8. ASSUME NEW r \in Requests, HostSetup(r) PROVE EchoInv'
  <2>1. EchoSame
    BY <1>8 DEF HostSetup, EchoSame, TypeOK, HostTypes, Hosts
  <2> QED
    BY <2>1, EchoSameKeeps
<1>9. CASE HostEp0In
  <2>1. Complete("EP0_IN", buf_ctrl["EP0_IN"].data) /\ UNCHANGED <<next_pid, main, written, echoed, cuts>>
    BY <1>9 DEF HostEp0In
  <2>2. \A e \in Bulk : next_pid'[e] = next_pid[e] /\ buf_ctrl'[e] = buf_ctrl[e]
                        /\ (e \in buf_status' <=> e \in buf_status)
    BY <2>1, ControlCompletesAside DEF Control
  <2>3. CASE host.asked.req = "SET_CONFIGURATION"
    <3>1. host'.configured = TRUE /\ host'.out = 0 /\ host'.in = 0
      BY <1>9, <2>3 DEF HostEp0In, Done, IsIn, Gets, TypeOK, HostTypes, Hosts
    <3>2. ~ host.configured
      BY <1>9, <2>3 DEF HostEp0In, AnswerInv, ConfiguresOnce, InTransfer
    <3> QED
      BY <2>1, <2>2, <3>1, <3>2, EchoConfigured
  <2>4. CASE host.asked.req # "SET_CONFIGURATION"
    <3>1. /\ host'.configured = host.configured
          /\ host'.out = host.out /\ host'.in = host.in
      BY <1>9, <2>4 DEF HostEp0In, Done, IsIn, Gets, TypeOK, HostTypes, Hosts
    <3> QED
      BY <2>1, <2>2, <3>1, EchoSameKeeps DEF EchoSame
  <2> QED
    BY <2>3, <2>4
<1>10. CASE HostEp0Out
  <2>1. UNCHANGED <<next_pid, main, written, echoed, cuts>>
    BY <1>10 DEF HostEp0Out
  <2>2. \A e \in Bulk : buf_ctrl'[e] = buf_ctrl[e] /\ (e \in buf_status' <=> e \in buf_status)
    <3>1. CASE Complete("EP0_OUT", "ZLP")
      BY <3>1, ControlCompletesAside DEF Control
    <3>2. CASE UNCHANGED <<buf_ctrl, buf_status>>
      BY <3>2
    <3> QED
      BY <1>10, <3>1, <3>2 DEF HostEp0Out
  <2>3. /\ host'.configured = host.configured
        /\ host'.out = host.out /\ host'.in = host.in
    BY <1>10 DEF HostEp0Out, Done, TypeOK, HostTypes, Hosts
  <2> QED
    BY <2>1, <2>2, <2>3, EchoSameKeeps DEF EchoSame
<1>11. CASE HostWrites
  BY <1>11, EchoWrites
<1>12. CASE HostReads
  BY <1>12, EchoReads
<1>13. CASE HostResets
  BY <1>13, EchoResets
<1>14. CASE UNCHANGED vars
  BY <1>0, <1>14 DEF vars
<1> QED
  BY <1>1, <1>2, <1>3, <1>4, <1>5, <1>6, <1>7, <1>8, <1>9, <1>10, <1>11, <1>12, <1>13, <1>14
     DEF Next, isr_usbctrl, HostAnswers

LEMMA EchoInvariance == Spec => []EchoInv
  BY TypeInvariance, AnswerInvariance, EchoInit, EchoNext, PTL DEF Spec

-----------------------------------------------------------------------------
(* The theorems about every host. *)

\* Every variable keeps to its type.
THEOREM TypeCorrect == Spec => []TypeOK
  BY TypeInvariance

\* No answer is taken for that to another request, whatever a reset has cut off.
THEOREM AnswersAreRight == Spec => []AnswersMatch
<1>1. AnswerInv => AnswersMatch
  BY DEF AnswerInv
<1> QED
  BY <1>1, AnswerInvariance, PTL

\* The number of those that hold.
LEMMA CountOne ==
  ASSUME NEW S, S \subseteq Bulk
  PROVE  Cardinality(S) = One("EP1_OUT" \in S) + One("EP2_IN" \in S)
<1>1. \/ S = {} \/ S = {"EP1_OUT"} \/ S = {"EP2_IN"} \/ S = {"EP1_OUT", "EP2_IN"}
  BY DEF Bulk
<1>2. /\ Cardinality({}) = 0 /\ IsFiniteSet({})
      /\ \A x : Cardinality({x}) = 1 /\ IsFiniteSet({x})
  BY FS_EmptySet, FS_Singleton
<1>3. CASE S = {}
  BY <1>2, <1>3 DEF One
<1>4. ASSUME NEW e \in Bulk, S = {e} PROVE Cardinality(S) = 1
  BY <1>2, <1>4
<1>5. CASE S = {"EP1_OUT", "EP2_IN"}
  <2>1. S = {"EP1_OUT"} \cup {"EP2_IN"} /\ "EP2_IN" \notin {"EP1_OUT"}
    BY <1>5
  <2>2. IsFiniteSet({"EP1_OUT"}) /\ Cardinality({"EP1_OUT"}) = 1
    BY <1>2
  <2>3. Cardinality({"EP1_OUT"} \cup {"EP2_IN"}) =
          IF "EP2_IN" \in {"EP1_OUT"} THEN Cardinality({"EP1_OUT"}) ELSE Cardinality({"EP1_OUT"}) + 1
    BY <2>2, FS_AddElement
  <2>4. Cardinality(S) = 2
    BY <2>1, <2>2, <2>3
  <2>5. "EP1_OUT" \in S /\ "EP2_IN" \in S
    BY <1>5
  <2> QED
    BY <2>4, <2>5 DEF One
<1>6. CASE S = {"EP1_OUT"}
  BY <1>4, <1>6 DEF One, Bulk
<1>7. CASE S = {"EP2_IN"}
  BY <1>4, <1>7 DEF One, Bulk
<1> QED
  BY <1>1, <1>3, <1>5, <1>6, <1>7

\* Of the packets and empty buffers of the echo there is always exactly one.
THEOREM OneGoesRound == Spec => []OneBufferGoesRound
<1>1. TypeOK /\ EchoInv => OneBufferGoesRound
  <2> SUFFICES ASSUME TypeOK, EchoInv, main.at # "wait" PROVE OneBufferGoesRound
    BY DEF OneBufferGoesRound
  <2> DEFINE armed == {e \in Bulk : buf_ctrl[e].avail}
             done == buf_status \cap Bulk
  <2>1. Cardinality(armed) = One(Listens) + One(Offered)
    <3>1. Cardinality(armed) = One("EP1_OUT" \in armed) + One("EP2_IN" \in armed)
      BY CountOne
    <3>2. ("EP1_OUT" \in armed <=> Listens) /\ ("EP2_IN" \in armed <=> Offered)
      BY DEF Bulk, Listens, Offered
    <3> QED
      BY <3>1, <3>2 DEF One
  <2>2. Cardinality(done) = One(Taken) + One(Returned)
    <3>1. Cardinality(done) = One("EP1_OUT" \in done) + One("EP2_IN" \in done)
      BY CountOne
    <3>2. ("EP1_OUT" \in done <=> Taken) /\ ("EP2_IN" \in done <=> Returned)
      BY DEF Bulk, Taken, Returned
    <3> QED
      BY <3>1, <3>2 DEF One
  <2>3. One(main.at # "loop") = IF main.at = "arm" THEN 1 ELSE 0
    BY DEF One, TypeOK, HandlerTypes
  <2> HIDE DEF armed, done
  <2>4. Cardinality(armed) + Cardinality(done) + (IF main.at = "arm" THEN 1 ELSE 0) = 1
    BY <2>1, <2>2, <2>3 DEF EchoInv, Round, One
  <2> QED
    BY <2>4 DEF OneBufferGoesRound, Bulk, armed, done
<1> QED
  BY <1>1, TypeInvariance, EchoInvariance, PTL

\* What comes back is in order and comes once; what is lost is counted by the cuts.
THEOREM EchoKept == Spec => []EchoSurvivesReset
<1>1. TypeOK /\ EchoInv => EchoSurvivesReset
  <2> SUFFICES ASSUME TypeOK, EchoInv PROVE EchoSurvivesReset
    OBVIOUS
  <2> DEFINE allowed == 2 * cuts
  <2>1. /\ Lost \in Int /\ OutOfStep \in 0..2 /\ allowed \in Int
        /\ cuts \in Nat /\ Len(written) \in Nat /\ Len(echoed) \in Nat
    BY EchoTypes DEF Lost, OutOfStep, UnderWay, One
  <2>2. Lost <= allowed
    <3>1. CASE host.configured
      BY <2>1, <3>1 DEF EchoInv, Losses
    <3>2. CASE Fresh
      <4>1. Len(written) = 0 /\ Len(echoed) = 0 /\ One(UnderWay) = 0
        BY <3>2 DEF Fresh, One
      <4>2. Lost = 0
        BY <4>1 DEF Lost
      <4> QED
        BY <2>1, <4>2
    <3>3. CASE cuts > 0 /\ Lost <= 2 * (cuts - 1)
      BY <2>1, <3>3
    <3> QED
      BY <3>1, <3>2, <3>3 DEF EchoInv, Losses
  <2>3. Len(written) - Len(echoed) <= 1 + allowed
    <3>1. Lost = Len(written) - Len(echoed) - One(UnderWay) /\ One(UnderWay) \in 0..1
      BY DEF Lost, One
    <3> HIDE DEF allowed
    <3> QED
      BY ONLY <2>1, <2>2, <3>1
  <2> QED
    BY <2>3 DEF EchoSurvivesReset, EchoInv, Rising
<1> QED
  BY <1>1, TypeInvariance, EchoInvariance, PTL

-----------------------------------------------------------------------------
(* The address. *)

\* The device has an address to set only between the SETUP of SET_ADDRESS and the
\* moment its acknowledgement has been handled, and once that is out the host uses it.
Pending ==
  \/ /\ host.stage = "ack" /\ "EP0_IN" \notin buf_status
     /\ host.asked.req = "SET_ADDRESS" /\ dev_addr = host.asked.addr
  \/ host.stage = "idle" /\ "EP0_IN" \in buf_status /\ host.addr = dev_addr

\* A SETUP the handler has not seen is that of the transfer the host is at; nothing is
\* left of the one before.
Unseen ==
  /\ InTransfer /\ setup_packet = host.asked
  /\ ~ should_set_address /\ "EP0_IN" \notin buf_status

\* This holds as long as no SETUP has come early; and a reset that the handler is about to
\* act upon leaves no SETUP behind it.
Addressing ==
  /\ host.stage = "data" => IsIn(host.asked)
  /\ ~ early /\ ~ bus_reset /\ should_set_address => Pending
  /\ ~ early /\ ~ bus_reset /\ setup_rec => Unseen
  /\ "reset" \in isr.status /\ setup_rec => isr.at = "setup" /\ "setup" \in isr.status

LEMMA AddressingInit == Init => Addressing
<1> SUFFICES ASSUME Init PROVE Addressing
  OBVIOUS
<1>1. host.stage = "idle" /\ ~ should_set_address /\ ~ setup_rec
  BY DEF Init
<1> QED
  BY <1>1 DEF Addressing

\* What the invariant is about.
AddressingSame ==
  /\ UNCHANGED <<should_set_address, dev_addr, bus_reset, setup_rec, setup_packet, host, early>>
  /\ "EP0_IN" \in buf_status' <=> "EP0_IN" \in buf_status
  /\ \/ "reset" \in isr'.status => "reset" \in isr.status /\ isr.at # "setup"
     \/ UNCHANGED isr

LEMMA AddressingSameKeeps ==
  ASSUME Addressing, AddressingSame
  PROVE  Addressing'
BY DEF Addressing, AddressingSame, Pending, Unseen, InTransfer, IsIn

\* The handler acts upon a SETUP, the one the host has just sent.
LEMMA AddressingSetup ==
  ASSUME TypeOK, Addressing, IsrSetup, "setup" \in isr.status
  PROVE  Addressing'
<1>1. /\ setup_rec /\ ~ setup_rec' /\ usb_handle_setup_packet
      /\ UNCHANGED <<host, early, buf_status, bus_reset, setup_packet>>
  BY DEF IsrSetup, TypeOK, hostVars
<1>2. ASSUME ~ early, ~ bus_reset, should_set_address'
      PROVE  Pending'
  <2>1. Unseen
    BY <1>1, <1>2 DEF Addressing
  <2>2. setup_packet.req = "SET_ADDRESS" /\ dev_addr' = setup_packet.addr
    BY <1>1, <1>2, <2>1 DEF usb_handle_setup_packet, Unseen, deviceVars
  <2>3. host.asked = setup_packet /\ ~ IsIn(host.asked) /\ host.stage = "ack"
    BY <2>1, <2>2 DEF Unseen, InTransfer, Addressing, IsIn, Gets
  <2> QED
    BY <1>1, <2>1, <2>2, <2>3 DEF Unseen, Pending
<1> QED
  BY <1>1, <1>2 DEF Addressing, IsIn

LEMMA AddressingNext == TypeOK /\ Addressing /\ [Next]_vars => Addressing'
<1> SUFFICES ASSUME TypeOK, Addressing, [Next]_vars PROVE Addressing'
  OBVIOUS
<1> USE DEF deviceVars, registers, hostVars
<1>0. ASSUME UNCHANGED <<should_set_address, dev_addr, bus_reset, setup_rec, setup_packet, host, early, buf_status>>,
             isr'.status = isr.status, isr.at # "setup"
      PROVE  Addressing'
  BY <1>0, AddressingSameKeeps DEF AddressingSame
<1>1. CASE Interrupt
  <2>1. isr'.at = "setup" /\ isr'.status = Causes
    BY <1>1 DEF Interrupt, TypeOK, HandlerTypes
  <2>2. UNCHANGED <<should_set_address, dev_addr, bus_reset, setup_rec, setup_packet, host, early, buf_status>>
    BY <1>1 DEF Interrupt
  <2>3. Pending' = Pending /\ Unseen' = Unseen
    BY <2>2 DEF Pending, Unseen, InTransfer
  <2>4. setup_rec => "setup" \in Causes
    BY DEF Causes
  <2> QED
    BY <2>1, <2>2, <2>3, <2>4 DEF Addressing, IsIn
<1>2. CASE IsrSetup
  <2>1. CASE "setup" \in isr.status
    BY <1>2, <2>1, AddressingSetup
  <2>2. CASE "setup" \notin isr.status
    <3>1. UNCHANGED <<should_set_address, dev_addr, bus_reset, setup_rec, setup_packet, host, early, buf_status>>
          /\ isr'.status = isr.status
      BY <1>2, <2>2 DEF IsrSetup, TypeOK, HandlerTypes
    <3>2. Pending' = Pending /\ Unseen' = Unseen
      BY <3>1 DEF Pending, Unseen, InTransfer
    <3> QED
      BY <2>2, <3>1, <3>2 DEF Addressing, IsIn
  <2> QED
    BY <2>1, <2>2
<1>3. CASE IsrBuffs
  BY <1>0, <1>3 DEF IsrBuffs, TypeOK, HandlerTypes
<1>4. CASE IsrEach
  <2>1. CASE isr.bufs = {}
    BY <1>0, <1>4, <2>1 DEF IsrEach, TypeOK, HandlerTypes
  <2>2. CASE isr.bufs # {}
    <3> DEFINE e == First(isr.bufs)
    <3>1. /\ buf_status' = buf_status \ {e} /\ usb_handle_buff_done(e)
          /\ isr.at = "each" /\ isr'.status = isr.status
          /\ UNCHANGED <<host, early, setup_rec, bus_reset, setup_packet>>
      BY <1>4, <2>2 DEF IsrEach, TypeOK, HandlerTypes
    <3> HIDE DEF e
    <3>2. CASE e = "EP0_IN"
      <4>1. UNCHANGED dev_addr /\ ~ should_set_address'
        BY <3>1, <3>2 DEF usb_handle_buff_done, ep0_in_handler, TypeOK, DeviceTypes
      <4>2. "EP0_IN" \notin buf_status'
        BY <3>1, <3>2
      <4> QED
        BY <3>1, <4>1, <4>2 DEF Addressing, Unseen, InTransfer, IsIn
    <3>3. CASE e # "EP0_IN"
      <4>1. UNCHANGED <<should_set_address, dev_addr>>
        BY <3>1, <3>3 DEF usb_handle_buff_done, ep1_out_handler, ep2_in_handler
      <4>2. "EP0_IN" \in buf_status' <=> "EP0_IN" \in buf_status
        BY <3>1, <3>3
      <4> QED
        BY <3>1, <4>1, <4>2, AddressingSameKeeps DEF AddressingSame
    <3> QED
      BY <3>2, <3>3
  <2> QED
    BY <2>1, <2>2
<1>5. CASE IsrReset
  <2>1. /\ isr.at = "reset" /\ isr'.status = {}
        /\ UNCHANGED <<host, early, buf_status, setup_rec, setup_packet>>
    BY <1>5 DEF IsrReset
  <2>2. CASE "reset" \in isr.status
    <3>1. ~ should_set_address'
      BY <1>5, <2>2 DEF IsrReset, usb_bus_reset
    <3>2. ~ setup_rec
      BY <2>1, <2>2 DEF Addressing
    <3> QED
      BY <2>1, <3>1, <3>2 DEF Addressing, IsIn
  <2>3. CASE "reset" \notin isr.status
    <3>1. UNCHANGED <<should_set_address, dev_addr, bus_reset>>
      BY <1>5, <2>3 DEF IsrReset
    <3> QED
      BY <2>1, <3>1, AddressingSameKeeps DEF AddressingSame
  <2> QED
    BY <2>2, <2>3
<1>6. CASE MainConfigured
  BY <1>6, AddressingSameKeeps DEF MainConfigured, AddressingSame
<1>7. CASE MainListens
  BY <1>7, AddressingSameKeeps DEF MainListens, AddressingSame
<1>8. ASSUME NEW r \in Requests, HostSetup(r) PROVE Addressing'
  <2>1. /\ host'.asked = r /\ setup_packet' = r
        /\ host'.stage = IF IsIn(r) THEN "data" ELSE "ack"
        /\ UNCHANGED <<should_set_address, dev_addr, buf_status, isr, bus_reset>>
    BY <1>8 DEF HostSetup, TypeOK, HostTypes, Hosts
  <2>2. ~ bus_reset /\ "reset" \notin isr.status
    BY <1>8 DEF HostSetup, Reachable, TypeOK
  <2>3. ASSUME ~ early' PROVE ~ should_set_address /\ "EP0_IN" \notin buf_status
    <3>1. ~ early /\ ~ Unfinished /\ "EP0_IN" \notin buf_status
      BY <1>8, <2>3 DEF HostSetup
    <3>2. ~ Pending
      BY <3>1 DEF Pending, Unfinished, Known, Unknown
    <3> QED
      BY <2>2, <3>1, <3>2 DEF Addressing
  <2>4. host'.stage = "data" => IsIn(host'.asked)
    BY <2>1
  <2>5. InTransfer'
    BY <2>1 DEF InTransfer
  <2>6. ~ early' => Unseen' /\ ~ should_set_address'
    BY <2>1, <2>3, <2>5 DEF Unseen
  <2> QED
    BY <2>1, <2>2, <2>4, <2>6 DEF Addressing, IsIn
<1>9. CASE HostEp0In
  <2>1. InTransfer /\ ~ setup_rec /\ ~ bus_reset /\ buf_status' = buf_status \cup {"EP0_IN"}
        /\ UNCHANGED <<should_set_address, dev_addr, bus_reset, setup_rec, setup_packet, early, isr>>
    BY <1>9 DEF HostEp0In, InTransfer, Reachable, Complete
  <2>2. /\ host'.stage = IF IsIn(host.asked) THEN "status" ELSE "idle"
        /\ IsIn(host.asked) => host'.asked = host.asked
        /\ host.asked.req = "SET_ADDRESS" => host'.addr = host.asked.addr
    BY <1>9 DEF HostEp0In, Done, IsIn, Gets, TypeOK, HostTypes, Hosts
  <2>3. ASSUME ~ early, should_set_address PROVE Pending'
    <3>1. Pending
      BY <2>1, <2>3 DEF Addressing
    <3>2. ~ IsIn(host.asked) /\ host.asked.req = "SET_ADDRESS" /\ dev_addr = host.asked.addr
      BY <2>1, <3>1 DEF Pending, InTransfer, IsIn, Gets
    <3> QED
      BY <2>1, <2>2, <3>1, <3>2 DEF Pending
  <2>4. host'.stage = "data" => IsIn(host'.asked)
    BY <2>2
  <2>5. ~ early' /\ ~ bus_reset' /\ should_set_address' => Pending'
    BY <2>1, <2>3
  <2>6. ~ setup_rec'
    BY <2>1
  <2> QED
    BY <2>4, <2>5, <2>6 DEF Addressing, IsIn
<1>10. CASE HostEp0Out
  <2>1. /\ host'.stage = "idle" /\ host.stage = "status" /\ ~ setup_rec /\ ~ bus_reset
        /\ UNCHANGED <<should_set_address, bus_reset, setup_rec, early, isr>>
    BY <1>10 DEF HostEp0Out, Done, Reachable, TypeOK, HostTypes, Hosts
  <2>2. ~ early => ~ should_set_address
    BY <2>1 DEF Addressing, Pending
  <2> QED
    BY <2>1, <2>2 DEF Addressing
<1>11. ASSUME HostWrites \/ HostReads PROVE Addressing'
  <2>1. /\ UNCHANGED <<should_set_address, dev_addr, bus_reset, setup_rec, setup_packet, early, isr>>
        /\ buf_status' \in {buf_status, buf_status \cup {"EP1_OUT"}, buf_status \cup {"EP2_IN"}}
    BY <1>11 DEF HostWrites, HostReads, Complete
  <2>2. /\ host'.stage = host.stage /\ host'.asked = host.asked
        /\ host'.addr = host.addr
    BY <1>11 DEF HostWrites, HostReads, TypeOK, HostTypes, Hosts
  <2>3. Pending' = Pending /\ Unseen' = Unseen
    BY <2>1, <2>2 DEF Pending, Unseen, InTransfer
  <2> QED
    BY <2>1, <2>2, <2>3 DEF Addressing, IsIn
<1>12. CASE HostResets
  <2>1. /\ host'.stage = "idle" /\ bus_reset'
        /\ UNCHANGED <<setup_rec, isr>>
    BY <1>12 DEF HostResets, Done, TypeOK, HostTypes, Hosts
  <2> QED
    BY <2>1 DEF Addressing
<1>13. CASE UNCHANGED vars
  BY <1>13, AddressingSameKeeps DEF vars, AddressingSame
<1> QED
  BY <1>1, <1>2, <1>3, <1>4, <1>5, <1>6, <1>7, <1>8, <1>9, <1>10, <1>11, <1>12, <1>13
     DEF Next, isr_usbctrl, HostAnswers

\* The controller has its new address no earlier than the host uses it, unless a SETUP
\* has come before the device was done with the transfer before.
THEOREM AddressWaits == Spec => AddressAfterAck
<1>1. TypeOK /\ Addressing /\ [Next]_vars =>
        [dev_addr_ctrl' \notin {0, dev_addr_ctrl} =>
           host.addr = dev_addr_ctrl' \/ bus_reset \/ early]_vars
  <2> SUFFICES ASSUME TypeOK, Addressing, Next, dev_addr_ctrl' \notin {0, dev_addr_ctrl},
                      ~ bus_reset, ~ early
               PROVE  host.addr = dev_addr_ctrl'
    BY DEF vars
  <2> USE DEF deviceVars, registers, hostVars
  <2>1. IsrEach
    BY DEF Next, isr_usbctrl, Interrupt, IsrSetup, usb_handle_setup_packet, IsrBuffs, IsrReset,
           usb_bus_reset, MainConfigured, MainListens, HostSetup, HostAnswers, HostEp0In,
           HostEp0Out, HostWrites, HostReads, HostResets
  <2>2. isr.bufs # {}
    BY <2>1 DEF IsrEach
  <2> DEFINE e == First(isr.bufs)
  <2>3. e \in buf_status /\ usb_handle_buff_done(e)
    BY <2>1, <2>2, FirstIsOne DEF IsrEach, TypeOK, HandlerTypes
  <2> HIDE DEF e
  <2>4. e = "EP0_IN" /\ should_set_address /\ dev_addr_ctrl' = dev_addr
    BY <2>3 DEF usb_handle_buff_done, ep0_in_handler, ep1_out_handler, ep2_in_handler
  <2> QED
    BY <2>3, <2>4 DEF Addressing, Pending
<1>2. TypeOK /\ Addressing /\ [Next]_vars => Addressing'
  BY AddressingNext
<1> QED
  BY <1>1, <1>2, TypeInvariance, AddressingInit, PTL DEF Spec, AddressAfterAck

=============================================================================
