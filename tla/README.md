# pico-examples in TLA+

Models, model-checking runs and proofs for those programs of this repository whose correctness lies in
interleavings, failures and protocols. The repository is a collection of independent examples for the
Raspberry Pi Pico SDK: there is no one program. The parts chosen are the ones with a core logic of their own;
drivers that write registers in a fixed order and thin wrappers of libraries are listed at the end with the
reason they are left out.

Contents: [inventory](#1-inventory), [plan](#2-plan), [the modules](#3-the-modules), [the runs](#4-the-runs),
[fairness](#5-fairness-and-assumptions-on-the-environment), [the proofs](#6-the-proofs),
[findings](#7-findings), [not modelled](#8-what-is-not-modelled).

To check a run: `tlc -config <file>.cfg MC<Module>.tla`; to check the proofs of a module: `tlapm
<Module>_proofs.tla`. `PROJECT.json` lists the runs with their properties, for every property a plausible
mistake in the code that the run would catch (the operators named `M_...`), the lines of the source each
definition stands for, and the hazards the properties are aimed at.

## 1. Inventory

All network examples run lwIP under one "context" (background interrupt, poll or FreeRTOS): its callbacks and
the timed workers run one at a time, but between any two of them anything may arrive, and `main` runs beside
them. The hardware examples have interrupt handlers that preempt `main`, and DMA or a bus controller that goes
on by itself.

| component | state it keeps | operations | interacts through | what is hard |
|---|---|---|---|---|
| DHCP server (`pico_w/wifi/access_point/dhcpserver`, the same file again in `access_point_wifi_provisioning`) | table of MAC and 16-bit expiry, one entry to an address | one UDP callback: DISCOVER, REQUEST, anything else | UDP, the tick counter | an OFFER reserves nothing; loss, duplication; the wrap and rounding of time |
| OTA update (`pico_w/wifi/ota_update`, C and Python) | receive buffer, progress, flash partitions, boot mode | accept, recv, sent, poll, err callbacks; main; a script that pushes chunks | TCP; flash; the bootrom's try-before-you-buy | power cuts between blocks; hash and chunk crossing; several scripts; sector erase order |
| TCP server and client (`pico_w/wifi/tcp_server`, `tcp_client`) | one buffer each way, lengths, rounds done | six callbacks at the server, five at the client, two test loops | one TCP connection | two verdicts on one exchange; timers; resets; closing that fails |
| USB low-level device (`usb/device/dev_lowlevel`) | data toggles, address pending, configured | interrupt handler over a status snapshot, endpoint handlers, main | controller registers, shared with the hardware | handling order differs from event order; resets; abandoned transfers |
| WS2812 parallel (`pio/ws2812/ws2812_parallel.c`) | two halves of bit planes, a semaphore | main, DMA interrupt, alarm callback | DMA chain, semaphore | main and DMA share the halves; the permit passes through four hands; carried error |
| NTP client (`pico_w/wifi/ntp_client`) | two timed workers, the last result | request and resend workers, DNS and UDP callbacks | UDP, DNS, async context | late, lost, doubled answers; seconds that wrap |
| MQTT client (`pico_w/wifi/mqtt`) | count of subscriptions, LED, last temperature | connection, subscription, message callbacks; temperature worker; main's loop | MQTT over TCP | the limit of unanswered requests; commands that overlap; leaving in order |
| Provisioning access point (`access_point_wifi_provisioning/AP_provisioning.c`) | list of networks in RAM and in one flash sector, the network asked for, a current POST | HTTP handlers, main's boot and join loop | HTTP, flash, driver | handlers run while main blocks in a join; power cut between erase and program; POSTs that overlap |
| Bluetooth provisioning (`bluetooth/ble_wifi_provisioner`) | one pair in RAM and in flash, status, deadline | GATT writes, notifications, join and retry loop | BTstack, flash, driver | the pair is written in halves, under a join and under a save; a deadline that is over |
| UART boot (`bootloaders/uart`) | position in the protocol, receive FIFO | reset, look for the splash, knock, write, clear, verify, execute | UART with a second chip's ROM | stale bytes; timeouts that race an answer; a reset in between |
| BLE sensor (`bluetooth/ble_*sensor`, `ble_doorbell`) | client state machine, server's notification flag | BTstack events on both sides | GATT, pairing | an event that never comes; reconnection |
| SNTP time (`ntp_system_time`) | always-on timer, mutex | SNTP callback, main | shared timer | either side gives the mutex up |
| PIO UART receiver (`pio/uart_rx/uart_rx_intr.c`) | queue, worker | interrupt, worker, main | hardware FIFO | overflow; shutting down |

What makes each component correct:

* DHCP: one user to an address, and no lease given away in use, under loss, repetition, delay and wraps of the
  clock.
* OTA: the device can always boot; "test success" means the image is in flash and a chunk acknowledged is
  programmed, if the image enters each flash sector at its start; a push with nothing failing is what then
  runs; no accepted connection blocks the device for ever.
* TCP echo: the client's success implies the server's; nothing is cut off; both loops end.
* USB: a host gets the answer to its own question; the echo buffer is never written while the controller has
  it and never lost; the address changes after the acknowledgement, unless a SETUP comes before the device is
  done with the transfer before it.
* WS2812: no frame is changed while it is sent; frames keep coming; no light is lost.
* NTP: exactly one of "ask" and "give up" is planned until an assert fails; none fails before the network has
  done more than lose something; the time is right; it asks again.
* MQTT: the count is that of the broker; reports arrive; /exit ends the program.
* Access point provisioning: what is saved changes by one network at a time and is lost only to a power cut
  within a save; no network twice; the page shows what is saved; an accepted request is tried; every boot ends
  online or with the form served.
* Bluetooth provisioning: what joined is what is saved, if the phone lets it be; right credentials that stay
  are given to the driver, unless a join with others succeeds, takes the time that was left or ends in an
  error; it ends; who subscribed learns the status.
* UART boot: the host has nothing but the image executed; what data taken for a command start runs only until
  the host gives that write up; the line's faults cost attempts only.

Hazards met while reading that no property covers, beside those noted in `PROJECT.json`: an expired DHCP lease
that nobody takes looks live again half a wrap (25 days) later, which only delays its reuse; OTA ignores the
results of `flash_safe_execute` (flash operations that fail are modelled, as a fault), of the bootrom's
refusal of an erase that is not aligned (modelled) and of `rom_get_uf2_target_partition`, and the script's
read loop spins on a closed connection (modelled: state "spinning"); `tcp_close` of the second client of the
TCP server happens on a pcb lwIP may already have dropped; quitting the NTP client with q frees its state
while both workers still point to it, until `cyw43_arch_deinit`; `reset_delay_alarm_id` of the WS2812 example
is written by the interrupt and by the alarm, but never read for a decision; the BLE temperature client stays
connected when its subscription is refused (`client.c:215`), in a state only a disconnection ends; the PIO
UART receiver panics when 64 characters wait for its worker, and ends when its last wait brought nothing
although core 1 may still print.

## 2. Plan

The order was that of importance, and all of it is done:

1. DHCP server: exclusive addresses, all safety properties proved.
2. OTA update: device, bootrom and script; the boot guarantee and the truth of success and hash proved.
3. TCP echo: link, server, client and their composition; the abstract rounds they implement, the refinement
   and what it guarantees proved.
4. USB device: one buffer, right answers, the address (proved). 5. WS2812: the double buffer, the arithmetic,
   and the two composed (all proved).
6. NTP client (proved). 7. MQTT client (proved).
8. Access point provisioning: the abstract book of networks, the program that implements it across power cuts;
   the refinement proved.
9. Bluetooth provisioning: proved that what joined is saved.
10. UART boot: both chips and the line; proved that only the image is executed, and that without faults the
    first attempt is the last.

Every invariant and every action property that a run checks is now a theorem; what is left to TLC is what
needs fairness. What would come next, were it worth its runs: a second connection in `TcpEcho`; the BLE sensor
pair over GATT.

## 3. The modules

### DhcpServer (`DhcpServer`, `MCDhcpServer`, `Lwip_proofs`)

`lease` is `dhcp_server_t.lease`; a slot is the last byte of the address minus `DHCPS_BASE_IP`. One action per
outcome of `dhcp_server_process`: `ProcessDiscover` (with the scan over the table that wipes the first expired
entry it passes even if the station's own slot follows), `ProcessRequestGranted`, `ProcessIgnored` (every
"Should be NACK" is silence). Expiry arithmetic is that of the code: `ExpiryOf` keeps the high half of a
wrapped sum, `ExpiryInstant` fills the low half with ones, `Expired` is the sign of a wrapped difference.
Stations are external, clients in the way RFC 2131 describes: discover, request, retransmit, start over,
reboot with a remembered address, renew (with the address in `ciaddr`, so that the server drops it), release.
They count a lease from when they sent the request. Datagrams are a set: they overtake one another, are lost
or repeated according to `Faults`. Options parsing is abstracted to the three fields the switch looks at.

### OtaUpdate (`OtaUpdate`, `MCOtaUpdate`, `OtaUpdate_proofs`)

The variables of the server are the fields of `TCP_UPDATE_SERVER_T`, in units of UF2 blocks. The receive
callback is split at its block loop: `RecvData` fills the buffer and, when it is full, sets `busy`;
`AcceptBlock` or `RejectBlock` then take one block each, so that the power can fail between them; nothing else
of the device runs while `busy` is set, and `at` is the loop's index, from the start for every full buffer.
`WriteBlock` erases from the block's own address, as the code does; the bootrom refuses that if the address is
not that of a sector, which nobody looks at. `main` is `main_join`, `tcp_update_server_open`, `main_reboot`;
the bootrom (external) is `Bootrom`, `TryBeforeYouBuyExpires` and `PowerCycle`. The script is `Start`,
`SendChunk`, `ReadHash`, `ReadEnd`, `Close`. A hash is the chunk it is of. A cell programmed twice
differently, or unerased, becomes `Mixed`. An image counts as bootable when it is whole. Which faults can
happen in an execution is a constant choice, `world`.

### TCP echo (`EchoTest`; `TcpLink`, `TcpServer`, `TcpClient`, `TcpEcho`, `MCTcpEcho`; `TcpEcho_proofs`)

`TcpLink` is the connection as lwIP shows it: in order and once, in segments, with acknowledgements that may
be delayed up to the next thing sent. `TcpServer` and `TcpClient` have one action per callback and per loop of
the test; variables are the fields of their structs with prefix `s_` or `c_`. `tcp_server_result` and
`tcp_result` are operators used by every callback that ends a test. `TcpEcho` composes them. `EchoTest` is
what they promise together: rounds verified by the server, then counted by the client. `TcpEcho` is shown to
implement it (`ImplementsRounds`, with `verified <- s_run_count`, `counted <- c_run_count` and the two
results).

### UsbDevice (`UsbDevice`, `MCUsbDevice`, `UsbDevice_proofs`)

`isr_usbctrl` runs in the steps the hardware can cut into: the snapshot of the interrupt status (`Interrupt`),
`IsrSetup`, `IsrBuffs` (snapshot of `buf_status`), `IsrEach` (one endpoint at a time, in bit order),
`IsrReset`. `main` reads `configured` and then arms EP1 OUT in two steps (`MainConfigured`, `MainListens`)
because the read and the flip of `next_pid` are not atomic. Controller and host (`Host...`) act on the buffers
whenever they are armed. There is one host, which may do anything: reset the bus, give a control transfer up
at any point and start the next, ask what the device does not answer (`Unknown`, whatever is not addressed to
the device itself included). Two histories are kept: `early`, that since the bus was last reset a SETUP came
before the device was done with the transfer before, and `cuts`, how often a configured device was reset. The
bytes of a descriptor are abstracted to the name of the request they answer; `GET_CONFIG` stands for the
string descriptors too.

### WS2812 (`Ws2812Parallel`, `Ws2812Dither`, `Ws2812`, `MCWs2812`, `Ws2812_proofs`)

`Ws2812Parallel` is the double buffer with `main` taking a step per value, the DMA sending a value per step,
the interrupt and the alarm. The content of a value is the number of the frame it was computed for.
`Ws2812Dither` is the arithmetic for one value, at its real widths: `transform_strips`' scaling and
`add_error`'s bit-plane addition with ripple carry. `Ws2812` composes them: the halves also hold the bits,
every step of the double buffer moves them, and what the strips are sent is compared with the light asked for.
Loops over planes are functions defined from the last plane down (`Span`, the numbers the planes from one on
can hold; `Low`, the number in them; `Carries`, `carry_plane` after each), so that they can be reasoned about.

### NtpClient (`NtpClient`, `MCNtpClient`, `Lwip_proofs`)

The two workers are booleans, "scheduled"; `ntp_result` is the operator every outcome ends in.
`request_worker_fn` has the three answers of `dns_gethostbyname`. Wire and server are external. `Late` says
whether answers may outlive the 10 s of `resend_worker` or be doubled, `Strays` whether anybody may send a
datagram to the port once it is bound (`port`): `ntp_recv` ends the request with any of them, the invalid ones
too. `unexpected` notes that one of these has happened.

### MqttClient (`MqttClient`, `MCMqttClient`, `Lwip_proofs`)

From the connection callback on. `pending` is lwIP's list of unanswered requests, `MQTT_REQ_MAX_IN_FLIGHT`
long; `mqtt_request` takes what fits of a list of requests and drops the rest, as the code, which does not
look at the results, lets happen. `RequestAnswered` is `sub_request_cb`, `unsub_request_cb` or
`pub_request_cb` with a result of 0; `RequestFails` is the same with an error, from a broker that refuses or
from lwIP's 30 s: the first two panic, a publication is given up. A connection ends with the status
`mqtt_connection_cb` knows or with another, a keep-alive timeout for one, on which it panics
(`mqtt_connection_cb_disconnected`). `lost_report` notes that the last report of the LED was refused or one
was given up since. The broker carries requests out in order. An execution is `patient` if commands come one
at a time and the broker answers within the time allowed; others come at any pace, or get no answer.

### ApProvisioning (`Credentials`, `CredentialBook`, `ApProvisioning`, `MCApProvisioning`, `ApProvisioning_proofs`)

`Credentials` is the list of networks and what `save_credentials` does to it; both others use it.
`CredentialBook` is the abstract specification: a book changed by one network, or emptied, in one update at a
time, atomic unless the power fails in it. `ApProvisioning` is the program. A flash operation is a step; a
handler that waits for the flash is `handler`, the operations it still waits for are `jobs`, and nothing else
moves meanwhile, since handlers and flash operations both keep the others out. `HandlerReturns` is the rest of
the handler. `main` is where `main` is: the key, `read_credentials`, the loop over saved networks (`try`,
`trying`), its loop (`portal`, `taken`, `joining`, `leaving`, `online`). While it is `joining` the form is
served. A request of the browser is `httpd_post_begin`, any number of `httpd_post_receive_data`,
`httpd_post_finished`, of two connections that overlap as they like. The sector is a list, `Erased`, or
`Garbled`, which `read_credentials` may take for erased or parse past the ends of its arrays (`ReadGarbled`,
after which nothing is claimed). The refinement `KeepsBook` maps the sector to the book: while an update runs,
to what it will leave.

### BleProvisioner (`BleProvisioner`, `MCBleProvisioner`, `BleProvisioner_proofs`)

The handlers of BTstack (`ConnectionComplete`, `DisconnectionComplete`, `WriteConfiguration`,
`WriteCredentials`, `CanSendNow`) against `start_ble_wifi_provisioning`: boot and first join, wait for a pair,
join, retry, save. Bluetooth is on before the page is read, so that `ReadSsid` and `ReadPassword` may
overwrite what a client has just written. `save_credentials` copies the two globals in two steps (`CopySsid`,
`CopyPassword`) and then erases and programs; a client may write between any two of them, also between main's
look at the pair and the call that gives it to the driver (`Connecting`, `StartJoin`). Strings may be blank;
one too long for its buffer overwrites memory, after which nothing is claimed (`WriteTooLong`, main is
"lost"), as after a garbled page that is parsed past the ends of the buffers (`ReadGarbled`). A flash
operation that `flash_safe_execute` refuses ends in a failed assertion or a panic of `example.c`, except in
the wipe of the page, where nobody looks (`FlashFails`). `patience` is what the join was given: what is left
to the deadline, or, when that is negative and passed as an unsigned number, weeks. The driver (external)
tries again by itself as long as it sees no such network (`JoinAgain`) and then reads the same buffers anew.

### UartBoot (`UartBoot`, `MCUartBoot`, `UartBoot_proofs`)

`host` names the answer the host waits for: of `look` for the splash, `knock`, `write`, `clear`, `verify`,
`tail` (the byte after a chunk read back), `exec`. An action is an answer taken, with the next command sent
and obeyed (`Send`, `Obey`), or a timeout: `HangDetected`, `KnockAgain`, `LookInVain`. The boot ROM is what
the host takes it for. Units are chunks of 32 bytes, but the `w` of a write and the data after it are sent
byte by byte: if the data are damaged the chunk is wrong (`Obey` with `Bad`), and if the `w` is lost the ROM
takes the data for commands (`Astray`) and answers with what the constant `Heard` lists; an `x` among them
executes what memory holds then. The line loses or damages what passes in either direction, and whatever is
sent may arrive after the timeout.

## 4. The runs

| run | question | instance, and why it is enough |
|---|---|---|
| `dhcp` | exclusive addresses, leases that outlive their use | two stations, two slots: everything is contention for a slot, and the scan wipes, skips and reuses. Stations may remember an address outside the pool. The clock wraps at 6 with quanta of 2 and a lease of 1, so that wrap and rounding meet in every phase. Two transaction ids and two datagrams on the air: an exchange and a stale one. Loss only: repetition, which the theorems of this component cover, multiplies the states by more than it adds |
| `ota_update` | boot guarantee, truth of "success", acknowledged is programmed, the device gets on, a push arrives | two scripts with different images, three blocks in chunks of two (padding), an address gap, two sectors of two cells, each entered at its start (a chunk straddles). Four worlds: nothing fails; all but flash fails; power and flash; overlapping scripts. Any number of updates in a row |
| `tcp_echo` | refinement of `EchoTest`, nothing cut off, both loops end, success when nothing fails | three segments to a buffer, four rounds: first, middle and last round differ; either no faults or all |
| `usb_device` | right answers, one echo buffer, order and bounded loss over resets, address after acknowledgement, transfers and echo complete | one address, five control transfers (an enumeration has two, and others are cut off or not answered), four packets (one more than the loss of three that one reset allows), one reset; a host that may do anything |
| `ws2812` | frames intact, no light lost, frames for ever | two values, four frames a pattern (first, inner, last), any number of patterns; real widths of the arithmetic (8 and 4 bits), full and quarter scale, two brightnesses, one of them with a remainder in every frame |
| `ntp_client` | one worker, what makes an assert fail, right time, comes back | era of 8 s, offset 5: the wrap is crossed; two of each kind on the way; answers lost, late, doubled, and from strangers |
| `mqtt_client` | count, reports, `/exit`, temperature | three events; the real limit of five requests; patient executions and all others; failed requests, every end of a connection |
| `ap_provisioning` | the book kept (refinement), no network twice, requests served, every boot comes to an end | a network in range with its right and a wrong password, two others, the blank ssid; room for two networks, so that the list is full, empty and in between; two connections; one power cut at any moment, with what a second boot then does |
| `ble_provisioner` | what joined is saved, it ends, right credentials reach the driver, the status is told | two networks, one in range, two passwords, blank and over-long strings; flash operations that fail; one power cut; writes without bound |
| `uart_boot` | what is executed, the first attempt suffices without faults, the device boots once faults are over | three chunks (first, inner, last), 10 knocks and 3 attempts as in the code, four faults anywhere: enough to use an attempt up in more than one way; data taken for commands that are not answered, answered like a knock, a "clear" or a read, or that execute |
| `mqtt_exit`, `ntp_late` | see the findings: each refutes one statement of the sources | the same instances |

The `dhcp`, NTP and WS2812 programs never stop; in the other runs the program, or the bound on its inputs, may
stop the system, and deadlock is not an error there.

Bounds, all named constants: `MaxInFlight` (DHCP datagrams), `MaxControls`, `MaxWrites`, `MaxResets` (USB),
`MaxEvents` (MQTT), `MaxWire` (NTP), `MaxCuts` (power cuts, both provisioning programs), `MaxFaults` (UART).
They bound inputs and the environment, never the program; the theorems hold for any value of them.

## 5. Fairness and assumptions on the environment

* OTA, TCP: lwIP delivers what has arrived and its slow timer polls an open connection, `main` goes round its
  loop. The script owes nothing unless nothing may fail. Wi-Fi and power owe nothing.
* USB: an interrupt that is raised is served, `main` runs, and a host that waits for a packet takes it when it
  is offered; a host owes no new request.
* WS2812: DMA, interrupt, alarm and `main` go on; a semaphore that stays posted is taken.
* NTP: a worker runs when its time has come, a lookup calls back (lwIP's DNS has its own timeout), a datagram
  arrives or is lost. No datagram need arrive.
* MQTT: callbacks and the worker run, and the broker answers as long as the connection lives, though in an
  execution that is not patient lwIP's 30 s for a request may be over first.
* Access point provisioning: flash operations end, handlers return and `main` goes on (weak fairness of
  `Flash`, `HandlerReturns`, `Boot`). `main`'s loop is strongly fair: handlers run in an interrupt and leave
  time between them, but each of them disables `main` for its while. A join ends, at the latest with its
  timeout. The browser owes nothing.
* Bluetooth provisioning: flash, boot, joins, the driver's retries, the clock, and the radio that comes to
  send a notification asked for. The phone owes nothing.
* UART: both chips run, what is sent arrives or is lost.
* DHCP has safety properties only: a radio that may lose everything allows no more.

Assumptions that carry weight:

* NTP: none for loss, delay and strangers. `Late` and `Strays` are TRUE in `ntp_client`; `ntp_late` has `Strays` FALSE so that its
  counterexample is one of lateness. `AssertsHoldIfLossy` and `OneWorker` say in themselves what they depend
  on.
* MQTT: `CountAgrees`, `ExitStopsPatient` and `TemperatureFollows` speak of `patient` executions;
  `CountNotNegative` and `LedReported` of all. The limit of five requests is this example's own
  (`lwipopts.h:34`), and `CountAgrees` needs it.
* USB: the controller answers with NAK while a SETUP waits for the handler, and a host takes what is offered.
  The address is set too soon, and a transfer may hang, once a SETUP has come `early`; `AddressAfterAck` and
  `ControlCompletes` claim nothing after that until the bus is reset, and for all else they claim it of every
  host.
* WS2812: a colour scaled by both brightnesses leaves room for a fraction in the planes (255 * 511 / 256 + 1
  in 8 whole planes and 4 of fraction do, by far).
* OTA: a UF2 file lists its blocks by rising address, and they fit the partition: the code never looks at
  `write_size` (`picow_ota_update.c:175`). `SuccessIsWhole`, `AckedIsProgrammed` and `PushArrives` claim
  something only of images that enter each sector at its first cell (`SectorsFromStart`), as a file without
  gaps does.
* DHCP: twice a lease and a quantum fit the tick range, as 86 400 000 + 65 536 ms in 2^32 do.
* UART: a damaged byte is never another one that would be right in its place, a damaged command is none or is
  answered wrongly, and a byte out of its turn is never the one the host waits for. 32 bytes of data hold no
  whole write (33 bytes), so that data taken for commands change no memory.
* Bluetooth provisioning: nothing is claimed of a device whose memory a string too long or a garbled page has
  overwritten, until it is reset.
* Provisioning: the credentials the handlers copy are abstracted to halves (ssid, password); a copy made while
  the interrupt writes the same string is one of the two strings.

## 6. The proofs

Each is for every value of the constants that meets the assumptions of its module.

* `Lwip_proofs` holds the proofs of three clients of lwIP that share nothing but the library's lemmas.
  DHCP: `DhcpTypeCorrect`, `LeaseCovers` (`LeaseOutlivesUse`), `AckKept` (`AckPromise`), `Exclusive`
  (`AddressExclusive`), with loss and repetition in any combination. `LeaseOutlivesUse` is not inductive: a
  bound station got there by an ACK, so the invariant `IInv` adds that every ACK still awaited is a promise
  that holds (`AckPromise`), that who waits or uses has a lease running no longer than `LeaseTime`
  (`LeaseRunning`), and that before a request no ACK of that exchange exists (`NothingRequestedYet`, from
  fresh transaction ids). The arithmetic is in lemmas on wrapped differences; `GrantedLeft` says that a lease
  granted at any tick lasts at least `LeaseTime` and stays within what a signed comparison can tell.
  `Exclusive` follows: a slot has one owner.
  NTP: `NtpTypeCorrect` and `TimeRight` (`TimeIsRight`) with answers as late as they like: a reply carries the
  time it was made at, and the subtraction modulo the era undoes the addition. `OneAtATime` (`OneWorker`)
  holds whatever arrives: every way out of a request takes the one worker scheduled to the other, or fails.
  `AssertedOnlyIfUnexpected` (`AssertsHoldIfLossy`) says what it takes to fail: an answer that is late, a
  second copy, or a datagram of a stranger. Losses, failed lookups and invalid replies are not enough. Its
  invariant, `LossyInv`, adds that of one request one thing at most is under way (`OneInFlight`), and nothing
  when the next is due (`NothingLeftOver`).
  MQTT: `CountHolds` (`CountNotNegative`) at any pace of commands and for any limit of requests in flight: the
  count could fall below zero only if a subscription were asked for after a cancellation (`UnsubsLast`), or an
  /exit got by before a subscription was counted (`ExitCounted`). `LedIsReported` (`LedReported`), too, holds
  at any pace and for any limit: of the requests the broker has not carried out (`Unserved`) the last report
  is of the LED as it is, and if none is a report the broker knows (`LastIsRight`), until one is refused or
  given up. `CountIsRight` (`CountAgrees`) is of patient executions and assumes a limit of at least 5, which
  `lwipopts.h:34` sets: a command meets no other request than the report of a temperature (`Alone`), and one
  request, of the one kind that the program sends then, is under way for each topic for which it is wanted,
  four beside the temperature (`OneEach`, `Serving`). The premise is needed: TLC refutes `CountAgrees` for 4,
  which is lwIP's default.
* `OtaUpdate_proofs`: `HomeStaysBootable` (`HomeBootable`). The invariant says that the running partition
  differs from the bought one only between a flash-update boot and the end of the join (or a failed join), and
  that blocks are only received while serving: so the partition written, the one not run from, is never the
  bought one, and what is bought is what runs, which booted because it was whole. It holds of every layout of
  an image. `SuccessTold` (`SuccessIsWhole`) and `HashMeansProgrammed` (`AckedIsProgrammed`) concern one
  script at a time, a flash that obeys and images that enter each sector at its first cell (`Orderly`; run
  `ota_update` checks both there). The premises are needed: two scripts share one state, and with a gap that
  ends inside a sector, which is then not erased, TLC refutes `SuccessIsWhole`. `OrderInv` follows a block to
  its cell: one connection from accept to result (`Session`), one script busy (`Scripts`), on the wire only a
  second segment may begin with padding (`Stream`), so the first block of a buffer never is padding (`Buffer`)
  and block number 0 of the padding cannot pass for the first block; the loop is as far in its buffer as the
  blocks done are in their chunk (`Loop`); the blocks done are in flash and what is left of the last sector
  reached is erased (`Written`, from rising addresses); and every chunk counted and every hash on its way
  stands for a whole chunk done (`Acked`).
* `ApProvisioning_proofs`: `NoNetworkTwice` (`OneEntryPerNetwork`), `PageShowsSaved` (`PageIsTrue`) and
  `SectorIsABook` (`KeepsBook`, a refinement), all from `ApInv`: RAM and flash agree whenever nobody waits for
  the flash (`InStep`), who waits and what is left to do to the sector determine what it becomes (`Waiting`),
  an update under way knows what it replaces (`Replacing`), and the form is served only once the sector was
  read (`ServedLate`). `PageIsTrue` alone is not inductive: it says nothing of the time in which a handler has
  erased the sector.
* `BleProvisioner_proofs`: `WhatJoinedIsSaved` (`SavedIfQuiet`). `Copied` follows the pair from the globals to
  the driver, to the page in RAM, half by half, and to the flash: as long as nothing was written, every copy
  made so far agrees. It holds with failing flash operations, blank strings and memory overwritten, for these
  end the program before it is done.
* `UartBoot_proofs`: `OnlyTheImage` (`RunsTheImage`). The invariant follows the answers on their way, in the
  FIFO or not yet arrived: while the host awaits a chunk at most one is on the way, and if one is, the ROM has
  just compared the right piece of memory (`Verifying`); none is left from an attempt given up when the next
  begins to write (`Looking`, `Writing`, `Clearing`); and no acknowledgement of "execute" is there before its
  time. Data taken for commands (`AstrayAnswers`) bring answers, but no `w` and no chunk that compares; so the
  host never gets from there to reading back, and a device that an `x` among them started is reset. That it
  may run until then is part of the property. `NeverReset` (`FirstTry`, an action property) says that without
  faults the host never gives up. Its invariant, `InLockStep`, lists the stages of an attempt (`Stage`): at
  each wait the answer awaited is the first on its way, and the ROM's pointer and memory are where the next
  command needs them.
* `Ws2812_proofs`: `TypeCorrect`, `PermitIsOne`, `Aside`, `ErrorsCarried`, `Intact` (`FramesIntact`) of the
  double buffer. `Inv` adds to the types and the permit which half main works on by the parity of the frame
  (`Halves`: this is where `Frames` must be even), what the halves hold by main's position (`Computed`), and
  that the half being sent holds its frame to the end (`Sending`). `Refines` carries this over to `Ws2812`,
  and `LightKept` (`LightIsKept`) adds the bits, for any number of whole and fraction planes and any colours
  that leave room for a fraction (`LightAssumption`). It has two halves. `DitherAdds`: the planes that
  `add_error` makes are those of the colour plus the fraction left over. This is induction over the planes;
  the prover has no induction rule it can use, so it is got from the least element of a set of numbers
  (`LeastNatural`, `Downward`), which also shows that the functions defined from the last plane down do what
  their bodies say (`SpanDef`, `LowDef`, `CarriesDef`). `SumSoFar` is the invariant of the loop: from each
  plane on, the sum is right but for the carry. `LightInv`: the new frame is the colours and the fractions of
  the other half (`Carried`), that half is the one being sent (`Before`), and each value sent owes just its
  fraction, while one still to be sent has in it what the frame before owed (`Settled`).
* `UsbDevice_proofs`: `TypeCorrect`; `AnswersAreRight` (`AnswersMatch`): whoever awaits data has its SETUP
  still unseen by the handler, or the answer to it, if the device has one, in the buffer (`AnswerReady`);
  `OneGoesRound` (`OneBufferGoesRound`) and `EchoKept` (`EchoSurvivesReset`), for any number of packets and
  resets. The echo buffer is at one of its places or with main (`Round`); a buffer has the toggle taken before
  the flip (`Pids`); the packet under way is the last one written (`Rising`); and packets lost and toggles out
  of step are paid for by the resets of a configured device, two for each (`Losses`), which is why
  `EchoSurvivesReset` alone is not inductive: a loss is prepared by the disagreement of the toggles before it
  happens. `AddressWaits` (`AddressAfterAck`): an address is pending only between its SETUP and the handling
  of its acknowledgement (`Pending`), and a SETUP not yet seen by the handler finds nothing left of the
  transfer before (`Unseen`), as long as none has come early. That this is the only exception is what the
  theorem says; it has no premise on the constants. All four hold for a host that resets the bus, gives up
  transfers and asks what is not answered as it likes.
* `TcpEcho_proofs`: `ImplementsRoundsAlways` (`ImplementsRounds`, the refinement of `EchoTest` step by step),
  `NothingTruncatedAlways` (`NothingTruncated`) and, from the refinement alone, `VerdictsAgree`: success at
  the client is success at the server. Nothing in the programs' variables says that a full buffer is the one
  sent, or that an acknowledgement is of this round: that lies in what is under way, so the invariant counts
  it. Of the messages on their way to each end, `Counts` has the parts acknowledged and the parts of data in
  every prefix. `ServerFlow` and `ClientFlow` say that the parts acknowledged, to be acknowledged and under
  way make up one buffer; `ServerMarks` and `ClientMarks`, that data on its way is the numbered end of the
  server's buffer and that what acknowledges the last buffer comes in front of it; `InStep`, which of the two
  has counted by where the buffer is; `Fresh` and `Once`, that before the connection nothing has happened. The
  counts are bound by an existential quantifier, for a sum over a queue would be a recursive definition: a
  step provides the counts after it from those before (`TakeCounts`, `JoinCounts`).

Only proved, for runs would repeat them: type correctness (`TypeCorrect` and the invariants), `AckPromise`,
`PageIsTrue`, `OnePermit`, `ComputedAside`, `ErrorCarried`, `Refines`, `SuccessAgrees`.

Only model-checked: what needs fairness (`ComesBack`, `KeepsSending`, `TestsEnd`, `BothSucceed`,
`ServingEnds`, `PushArrives`, `ControlCompletes`, `EchoReturns`, `ExitStopsPatient`, `TemperatureFollows`,
`RequestServed`, `BootServes`, `EndsUnlessLate`, `Provisioned`, `StatusTold`, `Boots`), because the prover has
no rules for fairness that these need. Every invariant and action property that a passing run checks is
proved. One of these theorems restricts the constants beyond the modules' assumptions, to what its run has
too: `CountIsRight` (five requests).

## 7. Findings

Two statements of the sources that their code does not keep:

* `ntp_late` (code): an answer after the 10 s makes `ntp_result` schedule a worker that is scheduled, and the
  `hard_assert` of `picow_ntp_client.c:39` stops the program. Lateness is one way to it: a second copy of a
  reply and a datagram of anybody else, "invalid" or not (`:79` to `:90`), end a request once more too.
  `AssertedOnlyIfUnexpected` says that there is no other.
* `mqtt_exit` (comment): "stop the client when ALL subscriptions are stopped" (`mqtt_client.c:211`), but an
  /exit that finds too many requests unanswered has part of its four unsubscriptions refused, and the client
  stays for ever.

Observed without a run of its own:

* WS2812: after the last frame of a pattern `main` clears both halves while the DMA sends one of them
  (`ws2812_parallel.c:329`), against the double buffer promised at line 185. `FramesIntact`, proved, says it
  is only ever the last frame.
* USB: when a SET_ADDRESS comes before the handler has seen that the acknowledgement of the OUT request before
  it is out, the handler, which serves SETUP first, takes that for the acknowledgement of SET_ADDRESS, and the
  address is set too soon, against the comment at `dev_lowlevel.c:349` to `:352`. Requests not addressed to
  the device itself, and IN requests it does not know, are neither answered nor stalled (`:391` to `:426`), so
  that a host that asks one has to give it up.
* OTA: an erase whose address is not that of a sector is refused, and the result ignored
  (`picow_ota_update.c:198` to `:200`): an image with a gap that ends inside a sector is programmed over what
  was there, and "test success" may be untrue. An image larger than its partition is not noticed either
  (`write_size`, `:175`).
* OTA: a failed update ends in a flash-update reboot like a good one, although `ota_update/README.md:9` and
  `:17` speak of the reboot after an update.
* MQTT: a connection that ends with any other status than "disconnected", lwIP's keep-alive timeout for one,
  is a panic (`mqtt_client.c:250` to `:252`), and so is a subscription, or its end, that the broker does not
  answer for 30 s (`:158` to `:168`); `ExitStops` and `ExitStopsPatient` except it.
* MQTT: the first temperature may be refused, because four subscriptions and the online message fill the five
  request slots, although `mqtt/README.md:37` has the temperature published when it changes
  (`TemperatureFollows` excepts it).
* Access point provisioning: credentials are saved before the join, while its README (lines 26, 27 and 41) and
  `AP_provisioning.c:21` say on success; only the first saved network is tried in station mode (`:161`); a
  submission with a blank ssid gives up all that was saved (`:319`); of two POSTs that overlap the second is
  dropped when the first ends (`:547`), and connecting from the list in between replaces what was posted; a
  new network that finds the list full is joined but not saved, and nobody is told (`:345`); a sector torn by
  a power cut may be parsed past the ends of the arrays (`:401`); the form stays reachable over the station
  interface once online.
* Bluetooth provisioning: what is saved is what the globals hold at that time, not the pair that joined
  (`wifi_prov_lib.c:470` to `:480`; hence "quiet" in `SavedIfQuiet`), and a pair that a retry of the first
  join picked up is not saved at all; if the saved network is not there the first join takes all of the 120 s,
  and the next begins with a negative time that stands for weeks (hence "unless" in `EndsUnlessLate`); the
  last status may never be notified, for Bluetooth is powered off at once. Bluetooth is on before the page is
  read, so that what a quick client wrote is overwritten by what was saved (`:441` to `:443`); the length of
  what a client writes is not looked at (`:279`, `:288`); and when the flash operation that saves fails, a
  device that has just joined panics (`example.c:69`).
* UART boot: when the `w` of a write is lost the ROM takes the data for commands, and if there is an `x` in
  them a part of the image may run until the host gives the write up (hence the second half of
  `RunsTheImage`). The host waits for ever when the byte that ends a chunk is lost (`uart_boot.c:147`; hence
  the second half of `Boots`).

## 8. What is not modelled

* Of the modelled components: the set-up before the first callback where it is straight-line (Wi-Fi join, TLS,
  configuration), quitting the NTP client with q, a second client of the TCP server (it replaces `client_pcb`
  while the first one's callbacks keep the state; several connections are modelled in OtaUpdate), STALL and
  the data toggles that CLEAR_FEATURE resets at the USB host (the device takes no part in either), bonding and
  read requests of the Bluetooth provisioner, the pages of the web servers, the drawing of patterns and the
  PIO programs.
* State machines that BTstack, lwIP or the SDK own, with thin callbacks here: the BLE sensors and the
  doorbell, the Bluetooth pointer, the HTTP and TLS clients and servers, SNTP time, the PIO UART receiver,
  TinyUSB examples.
* The multicore, DMA, I2C slave and FreeRTOS demonstrations (a fixed exchange in lock step, or behaviour that
  is hardware's or the kernel's), the encrypted boot loader (one pass over an image), the DNS server (one
  packet in, one out), and all sensors, displays and other drivers (register writes in order, no concurrency).
  `PROJECT.json` gives the reason for each.

The models stand for a small share of the repository's lines. Half of those lines are three pictures in header
files; most of the rest are some three hundred programs of straight-line code, each a demonstration of one
peripheral, in which there is nothing that an execution could do in another order. What has concurrency,
failures or a protocol of its own is modelled.
