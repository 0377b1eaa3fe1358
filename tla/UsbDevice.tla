----------------------------- MODULE UsbDevice -----------------------------
(***************************************************************************)
(* usb/device/dev_lowlevel: a USB device written against the registers of  *)
(* the controller.  Three parties run side by side: main, the interrupt    *)
(* handler isr_usbctrl, which works through a snapshot of the interrupt    *)
(* status, and the controller with the host on the other end of the wire.  *)
(*                                                                         *)
(* Endpoint 0 carries control transfers; what the host writes to EP1 OUT   *)
(* comes back on EP2 IN.  Data is the name of the answer on endpoint 0 and *)
(* the number of the packet on the others; every transfer fits one packet. *)
(***************************************************************************)
EXTENDS Integers, Sequences, FiniteSets

CONSTANTS
  Addresses,     \* the addresses the host gives out, none of them 0
  MaxControls,   \* bound: control transfers the host starts
  MaxWrites,     \* bound: packets the host writes
  MaxResets      \* bound: resets of the bus

ASSUME BoundsAssumption ==
  /\ {MaxControls, MaxWrites, MaxResets} \subseteq Nat
  /\ Addresses \subseteq Nat \ {0}

VARIABLES
  should_set_address, dev_addr, configured, next_pid,   \* the program
  main,          \* where main is, and the pid it has read
  isr,           \* where the handler is, its snapshots of the status and buffers
  buf_ctrl, buf_status, setup_rec, bus_reset, dev_addr_ctrl, setup_packet, \* registers
  host,          \* the host's view: address, configured, toggles, transfer
  early,         \* since the last reset a SETUP has come before the device was done with
                 \* the transfer before it
  written, echoed,  \* packets the host has written, packets it has read back
  cuts,          \* resets of a configured device
  controls, resets  \* counters for the bounds

deviceVars == <<should_set_address, dev_addr, configured>>
registers == <<buf_ctrl, buf_status, setup_rec, bus_reset, dev_addr_ctrl, setup_packet>>
hostVars == <<host, early, cuts, written, echoed, controls, resets>>
vars == <<deviceVars, next_pid, main, isr, registers, hostVars>>

\* The endpoints, in the order of their bits in buf_status.
Order == <<"EP0_IN", "EP0_OUT", "EP1_OUT", "EP2_IN">>
Endpoints == {Order[i] : i \in DOMAIN Order}

Control == {"EP0_IN", "EP0_OUT"}
Empty(e) == IF e \in Control THEN "ZLP" ELSE 0

\* The requests the device answers (GET_CONFIG stands for string descriptors too, which
\* go the same way), and the others: IN requests and descriptors it does not know, and
\* whatever is not addressed to the device itself, as CLEAR_FEATURE of an endpoint, since
\* bmRequestType is compared with 0x00 and 0x80 as a whole.
Gets == {"GET_DEVICE", "GET_CONFIG"}
Unknown == {"UNKNOWN_IN", "UNKNOWN_OUT"}
Requests == [req : Gets \cup Unknown \cup {"OTHER_OUT", "SET_CONFIGURATION"}, addr : {0}]
            \cup [req : {"SET_ADDRESS"}, addr : Addresses]
Known(r) == r.req \notin Unknown
IsIn(r) == r.req \in Gets \cup {"UNKNOWN_IN"}
Answer(r) == IF IsIn(r) THEN r.req ELSE "ZLP"
Nothing == [req |-> "none", addr |-> 0]

-----------------------------------------------------------------------------
(* The program. *)

\* usb_start_transfer: a buffer handed to the controller with the endpoint's next
\* pid, which flips.
StartWith(e, pid, d) ==
  /\ buf_ctrl' = [buf_ctrl EXCEPT ![e] = [avail |-> TRUE, pid |-> pid, data |-> d]]
  /\ next_pid' = [next_pid EXCEPT ![e] = 1 - pid]

usb_start_transfer(e, d) == StartWith(e, next_pid[e], d)

M_ReplyUnlessBusy(d) ==
  IF buf_ctrl["EP0_IN"].avail THEN UNCHANGED <<buf_ctrl, next_pid>> ELSE StartWith("EP0_IN", 1, d)

\* The answer to a SETUP always goes out with DATA1.
Reply(d) == StartWith("EP0_IN", 1, d)

M_BusResetKeepsPending ==
  /\ dev_addr' = 0 /\ dev_addr_ctrl' = 0 /\ configured' = FALSE
  /\ UNCHANGED should_set_address

usb_bus_reset ==
  /\ dev_addr' = 0 /\ should_set_address' = FALSE /\ dev_addr_ctrl' = 0
  /\ configured' = FALSE

M_SetupSetsAddress ==
  LET r == setup_packet
  IN /\ \/ /\ r.req = "SET_ADDRESS"
           /\ dev_addr' = r.addr /\ dev_addr_ctrl' = r.addr /\ Reply("ZLP")
           /\ UNCHANGED <<configured, should_set_address>>
        \/ /\ r.req = "SET_CONFIGURATION"
           /\ configured' = TRUE /\ Reply("ZLP")
           /\ UNCHANGED <<dev_addr, should_set_address, dev_addr_ctrl>>
        \/ /\ r.req \in Gets \cup {"OTHER_OUT"}
           /\ Reply(Answer(r)) /\ UNCHANGED <<deviceVars, dev_addr_ctrl>>
        \/ /\ ~ Known(r)
           /\ next_pid' = [next_pid EXCEPT !["EP0_IN"] = 1]
           /\ UNCHANGED <<deviceVars, buf_ctrl, dev_addr_ctrl>>

\* The status packet of an OUT request is a zero length packet; SET_ADDRESS is
\* carried out when it has gone.  A request that is not known is left unanswered.
usb_handle_setup_packet ==
  LET r == setup_packet
  IN /\ \/ /\ r.req = "SET_ADDRESS"
           /\ dev_addr' = r.addr /\ should_set_address' = TRUE /\ Reply("ZLP")
           /\ UNCHANGED configured
        \/ /\ r.req = "SET_CONFIGURATION"
           /\ configured' = TRUE /\ Reply("ZLP")
           /\ UNCHANGED <<dev_addr, should_set_address>>
        \/ /\ r.req \in Gets \cup {"OTHER_OUT"}
           /\ Reply(Answer(r)) /\ UNCHANGED deviceVars
        \/ /\ ~ Known(r)
           /\ next_pid' = [next_pid EXCEPT !["EP0_IN"] = 1]
           /\ UNCHANGED <<deviceVars, buf_ctrl>>
     /\ UNCHANGED dev_addr_ctrl

\* The status packet of SET_ADDRESS is on its way, or the answer to an IN request
\* is and the host's status packet is awaited.
ep0_in_handler ==
  /\ IF should_set_address
     THEN /\ dev_addr_ctrl' = dev_addr /\ should_set_address' = FALSE
          /\ UNCHANGED <<buf_ctrl, next_pid>>
     ELSE /\ usb_start_transfer("EP0_OUT", "ZLP")
          /\ UNCHANGED <<dev_addr_ctrl, should_set_address>>
  /\ UNCHANGED <<dev_addr, configured>>

M_EchoKeepsPid ==
  /\ buf_ctrl' = [buf_ctrl EXCEPT !["EP2_IN"] =
       [avail |-> TRUE, pid |-> next_pid["EP2_IN"], data |-> buf_ctrl["EP1_OUT"].data]]
  /\ UNCHANGED <<deviceVars, dev_addr_ctrl, next_pid>>

M_EchoListensAtOnce ==
  /\ buf_ctrl' = [buf_ctrl EXCEPT
       !["EP2_IN"] = [avail |-> TRUE, pid |-> next_pid["EP2_IN"], data |-> buf_ctrl["EP1_OUT"].data],
       !["EP1_OUT"] = [avail |-> TRUE, pid |-> next_pid["EP1_OUT"], data |-> 0]]
  /\ next_pid' = [next_pid EXCEPT !["EP2_IN"] = 1 - @, !["EP1_OUT"] = 1 - @]
  /\ UNCHANGED <<deviceVars, dev_addr_ctrl>>

\* What came in on EP1 goes out on EP2 ...
ep1_out_handler ==
  /\ usb_start_transfer("EP2_IN", buf_ctrl["EP1_OUT"].data)
  /\ UNCHANGED <<deviceVars, dev_addr_ctrl>>

\* ... and only then EP1 listens again.
ep2_in_handler ==
  /\ usb_start_transfer("EP1_OUT", 0)
  /\ UNCHANGED <<deviceVars, dev_addr_ctrl>>

usb_handle_buff_done(e) ==
  \/ e = "EP0_IN" /\ ep0_in_handler
  \/ e = "EP0_OUT" /\ UNCHANGED <<deviceVars, dev_addr_ctrl, buf_ctrl, next_pid>>
  \/ e = "EP1_OUT" /\ ep1_out_handler
  \/ e = "EP2_IN" /\ ep2_in_handler

-----------------------------------------------------------------------------
(* The interrupt handler: a snapshot of the status, then each cause in turn. *)

Causes == (IF setup_rec THEN {"setup"} ELSE {})
          \cup (IF buf_status # {} THEN {"buff"} ELSE {})
          \cup (IF bus_reset THEN {"reset"} ELSE {})

\* isr_usbctrl begins.
Interrupt ==
  /\ isr.at = "idle" /\ Causes # {}
  /\ isr' = [isr EXCEPT !.at = "setup", !.status = Causes]
  /\ UNCHANGED <<deviceVars, next_pid, main, registers, hostVars>>

IsrSetup ==
  /\ isr.at = "setup" /\ isr' = [isr EXCEPT !.at = "buff"]
  /\ IF "setup" \in isr.status
     THEN setup_rec' = FALSE /\ usb_handle_setup_packet
     ELSE UNCHANGED <<deviceVars, next_pid, setup_rec, buf_ctrl, dev_addr_ctrl>>
  /\ UNCHANGED <<main, buf_status, bus_reset, setup_packet, hostVars>>

\* usb_handle_buff_status reads the buffers that are done ...
IsrBuffs ==
  /\ isr.at = "buff"
  /\ isr' = [isr EXCEPT !.at = IF "buff" \in isr.status THEN "each" ELSE "reset",
                        !.bufs = IF "buff" \in isr.status THEN buf_status ELSE {}]
  /\ UNCHANGED <<deviceVars, next_pid, main, registers, hostVars>>

First(s) == Order[CHOOSE i \in DOMAIN Order : Order[i] \in s
                    /\ \A j \in 1..(i - 1) : Order[j] \notin s]

\* ... and clears and handles each of them.
IsrEach ==
  /\ isr.at = "each"
  /\ IF isr.bufs = {}
     THEN /\ isr' = [isr EXCEPT !.at = "reset"]
          /\ UNCHANGED <<deviceVars, next_pid, buf_ctrl, buf_status, dev_addr_ctrl>>
     ELSE LET e == First(isr.bufs)
          IN /\ isr' = [isr EXCEPT !.bufs = @ \ {e}]
             /\ buf_status' = buf_status \ {e} /\ usb_handle_buff_done(e)
  /\ UNCHANGED <<main, setup_rec, bus_reset, setup_packet, hostVars>>

IsrReset ==
  /\ isr.at = "reset"
  /\ isr' = [at |-> "idle", status |-> {}, bufs |-> {}]
  /\ IF "reset" \in isr.status
     THEN bus_reset' = FALSE /\ usb_bus_reset
     ELSE UNCHANGED <<deviceVars, bus_reset, dev_addr_ctrl>>
  /\ UNCHANGED <<next_pid, main, buf_ctrl, buf_status, setup_rec, setup_packet, hostVars>>

isr_usbctrl == Interrupt \/ IsrSetup \/ IsrBuffs \/ IsrEach \/ IsrReset

\* main waits to be configured, then starts listening on EP1, once: it reads and
\* flips the pid and writes the buffer control in two steps, with the handler free
\* to run in between.
MainConfigured ==
  /\ main.at = "wait" /\ configured
  /\ main' = [at |-> "arm", pid |-> next_pid["EP1_OUT"]]
  /\ next_pid' = [next_pid EXCEPT !["EP1_OUT"] = 1 - @]
  /\ UNCHANGED <<deviceVars, isr, registers, hostVars>>

MainListens ==
  /\ main.at = "arm" /\ main' = [main EXCEPT !.at = "loop"]
  /\ buf_ctrl' = [buf_ctrl EXCEPT !["EP1_OUT"] = [avail |-> TRUE, pid |-> main.pid, data |-> 0]]
  /\ UNCHANGED <<deviceVars, next_pid, isr, buf_status, setup_rec, bus_reset,
                 dev_addr_ctrl, setup_packet, hostVars>>

-----------------------------------------------------------------------------
(* The host and the controller.  The controller answers tokens sent to the *)
(* address it was given; it says NAK, which is no step here, on a buffer   *)
(* it does not have, and on endpoint 0 while a SETUP awaits the handler.   *)
(* A packet whose pid is not the expected one is taken for a repetition:   *)
(* acknowledged and dropped.  The bus is left alone until a reset has been *)
(* handled (a reset and its recovery last 20 ms).                          *)

Reachable == host.addr = dev_addr_ctrl /\ ~ bus_reset
\* The host has a control transfer under way that the device is going to answer.
Unfinished == host.stage # "idle" /\ Known(host.asked)
Complete(e, d) ==
  /\ buf_ctrl' = [buf_ctrl EXCEPT ![e] = [@ EXCEPT !.avail = FALSE, !.data = d]]
  /\ buf_status' = buf_status \cup {e}

\* SET_ADDRESS in the default state, SET_CONFIGURATION once there is an address.
Legal(r) ==
  /\ r.req = "SET_ADDRESS" => host.addr = 0
  /\ r.req = "SET_CONFIGURATION" => host.addr # 0 /\ ~ host.configured

HostSetup(r) ==
  /\ controls < MaxControls /\ controls' = controls + 1
  /\ Reachable /\ Legal(r)
  /\ early' = (early \/ Unfinished \/ "EP0_IN" \in buf_status)
  /\ setup_packet' = r /\ setup_rec' = TRUE
  /\ host' = [host EXCEPT !.asked = r, !.stage = IF IsIn(r) THEN "data" ELSE "ack"]
  /\ UNCHANGED <<deviceVars, next_pid, main, isr, buf_ctrl, buf_status, bus_reset,
                 dev_addr_ctrl, cuts, written, echoed, resets>>

\* The host has done with its transfer.
Done(h) == [h EXCEPT !.stage = "idle", !.asked = Nothing, !.got = "ZLP"]

\* The answer of an IN request, or the zero length packet that ends an OUT request.
HostEp0In ==
  /\ host.stage \in {"data", "ack"} /\ Reachable /\ ~ setup_rec
  /\ buf_ctrl["EP0_IN"].avail /\ Complete("EP0_IN", buf_ctrl["EP0_IN"].data)
  /\ LET r == host.asked
     IN \/ /\ IsIn(r)
           /\ host' = [host EXCEPT !.got = buf_ctrl["EP0_IN"].data, !.stage = "status"]
        \/ r.req = "SET_ADDRESS" /\ host' = [Done(host) EXCEPT !.addr = r.addr]
        \/ /\ r.req = "SET_CONFIGURATION"
           /\ host' = [Done(host) EXCEPT !.configured = TRUE, !.out = 0, !.in = 0]
        \/ r.req \in {"OTHER_OUT", "UNKNOWN_OUT"} /\ host' = Done(host)
  /\ UNCHANGED <<deviceVars, next_pid, main, isr, setup_rec, bus_reset, dev_addr_ctrl,
                 setup_packet, early, cuts, written, echoed, controls, resets>>

\* The host's zero length DATA1 packet that ends an IN request.
HostEp0Out ==
  /\ host.stage = "status" /\ Reachable /\ ~ setup_rec
  /\ buf_ctrl["EP0_OUT"].avail
  /\ IF buf_ctrl["EP0_OUT"].pid = 1 THEN Complete("EP0_OUT", "ZLP")
                                    ELSE UNCHANGED <<buf_ctrl, buf_status>>
  /\ host' = Done(host)
  /\ UNCHANGED <<deviceVars, next_pid, main, isr, setup_rec, bus_reset, dev_addr_ctrl,
                 setup_packet, early, cuts, written, echoed, controls, resets>>

HostWrites ==
  /\ host.configured /\ Reachable /\ Len(written) < MaxWrites
  /\ buf_ctrl["EP1_OUT"].avail
  /\ LET packet == Len(written) + 1
     IN /\ written' = Append(written, packet)
        /\ IF buf_ctrl["EP1_OUT"].pid = host.out
           THEN Complete("EP1_OUT", packet) ELSE UNCHANGED <<buf_ctrl, buf_status>>
  /\ host' = [host EXCEPT !.out = 1 - @]
  /\ UNCHANGED <<deviceVars, next_pid, main, isr, setup_rec, bus_reset, dev_addr_ctrl,
                 setup_packet, early, cuts, echoed, controls, resets>>

HostReads ==
  /\ host.configured /\ Reachable
  /\ buf_ctrl["EP2_IN"].avail /\ Complete("EP2_IN", buf_ctrl["EP2_IN"].data)
  /\ IF buf_ctrl["EP2_IN"].pid = host.in
     THEN /\ echoed' = Append(echoed, buf_ctrl["EP2_IN"].data)
          /\ host' = [host EXCEPT !.in = 1 - @]
     ELSE UNCHANGED <<echoed, host>>
  /\ UNCHANGED <<deviceVars, next_pid, main, isr, setup_rec, bus_reset, dev_addr_ctrl,
                 setup_packet, early, cuts, written, controls, resets>>

HostResets ==
  /\ resets < MaxResets /\ resets' = resets + 1
  /\ cuts' = cuts + (IF host.configured THEN 1 ELSE 0)
  /\ bus_reset' = TRUE
  /\ host' = [Done(host) EXCEPT !.addr = 0, !.configured = FALSE]
  /\ early' = FALSE
  /\ UNCHANGED <<deviceVars, next_pid, main, isr, buf_ctrl, buf_status, setup_rec,
                 dev_addr_ctrl, setup_packet, written, echoed, controls>>

-----------------------------------------------------------------------------

\* usb_device_init clears the buffer controls; the data is static.
Init ==
  /\ should_set_address = FALSE /\ dev_addr = 0 /\ configured = FALSE
  /\ next_pid = [e \in Endpoints |-> 0]
  /\ main = [at |-> "wait", pid |-> 0]
  /\ isr = [at |-> "idle", status |-> {}, bufs |-> {}]
  /\ buf_ctrl = [e \in Endpoints |-> [avail |-> FALSE, pid |-> 0, data |-> Empty(e)]]
  /\ buf_status = {} /\ setup_rec = FALSE /\ bus_reset = FALSE
  /\ dev_addr_ctrl = 0 /\ setup_packet = Nothing
  /\ host = [addr |-> 0, configured |-> FALSE, out |-> 0, in |-> 0,
             stage |-> "idle", asked |-> Nothing, got |-> "ZLP"]
  /\ early = FALSE /\ cuts = 0 /\ written = <<>> /\ echoed = <<>> /\ controls = 0 /\ resets = 0

HostAnswers == HostEp0In \/ HostEp0Out
Next ==
  \/ isr_usbctrl
  \/ MainConfigured \/ MainListens
  \/ \E r \in Requests : HostSetup(r)
  \/ HostAnswers \/ HostWrites \/ HostReads \/ HostResets

\* The handler and main run, and a host that waits for a packet takes it.
Fairness ==
  /\ WF_vars(isr_usbctrl) /\ WF_vars(MainConfigured \/ MainListens)
  /\ WF_vars(HostAnswers) /\ WF_vars(HostReads)

Spec == Init /\ [][Next]_vars
FairSpec == Spec /\ Fairness

-----------------------------------------------------------------------------
(* Properties. *)

\* The host never takes the answer to another request for the answer to its own,
\* whatever was left in the buffers by a transfer that a reset, or the host, cut off.
AnswersMatch == host.stage = "status" /\ Known(host.asked) => host.got = host.asked.req

\* "The actual setting of the device address in hardware is done in ep0_in_handler.
\* This is because we have to acknowledge the request first as a device with address
\* zero": the controller gets its address only when the host has the acknowledgement
\* and uses that address, or has just reset the bus.  The one way to have it too soon is
\* a SETUP that comes early: the handler, which takes it before the buffer that is done,
\* then acts on the end of another packet.
AddressAfterAck ==
  [][dev_addr_ctrl' \notin {0, dev_addr_ctrl} =>
       host.addr = dev_addr_ctrl' \/ bus_reset \/ early]_vars

\* From the moment main starts to listen there is exactly one packet or one empty
\* buffer going round: no endpoint buffer is written while the controller has it,
\* and the echo never stops for want of one.
OneBufferGoesRound ==
  LET bulk == {"EP1_OUT", "EP2_IN"}
  IN main.at # "wait" =>
       Cardinality({e \in bulk : buf_ctrl[e].avail}) + Cardinality(buf_status \cap bulk)
         + (IF main.at = "arm" THEN 1 ELSE 0) = 1

\* Nothing resets the toggles of EP1 and EP2 when the bus is reset, so packets are
\* lost on the next configuration, one on each way at most, but none comes back twice
\* or out of order; until then the echo is never more than one packet behind.
EchoSurvivesReset ==
  /\ \A i, j \in DOMAIN echoed : i < j => echoed[i] < echoed[j]
  /\ Len(written) - Len(echoed) <= 1 + 2 * cuts

\* Every request the device answers is carried through, whatever reset or unanswered
\* request came before it, unless a SETUP comes early.
ControlCompletes == Unfinished /\ ~ early ~> host.stage = "idle" \/ early

\* The echo catches up with the host, unless a configured device is reset.
EchoReturns == Len(written) > Len(echoed) ~> Len(written) = Len(echoed) \/ cuts > 0

=============================================================================
