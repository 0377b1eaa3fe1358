--------------------------- MODULE BleProvisioner ---------------------------
(***************************************************************************)
(* bluetooth/ble_wifi_provisioner/wifi_prov_lib.c and its example.c: a       *)
(* network saved in one flash page is tried at boot; if it cannot be joined, *)
(* a Bluetooth client writes an ssid and a password, in two writes, which    *)
(* main tries and saves. The handlers of BTstack run in an interrupt, also   *)
(* while main blocks in a join or copies what it is to save. A join has what *)
(* is left of the time allowed at boot; past that moment the difference is   *)
(* negative, is passed as an unsigned number, and stands for weeks.          *)
(***************************************************************************)
EXTENDS Naturals, Sequences

CONSTANTS
  Ssids, Passwords,  \* what a client may write, beside the empty string
  Blank,             \* the empty string
  Erased, Garbled,   \* a page of 0xFF; a page half erased or half programmed
  Known,             \* the ssids in range
  Right,             \* the pairs the networks in range accept
  NoPair,
  MaxCuts            \* bound: power cuts and reboots

Pairs == [ssid : Ssids \cup {Blank}, password : Passwords \cup {Blank}]

ASSUME BleAssumption ==
  /\ Blank \notin Ssids \cup Passwords /\ Known \subseteq Ssids
  /\ Right \subseteq [ssid : Known, password : Passwords]
  /\ NoPair \notin Pairs /\ Erased \notin Pairs /\ Garbled \notin Pairs /\ Erased # Garbled

NoCreds == [ssid |-> Blank, password |-> Blank]

VARIABLES
  \* flash, and what save_credentials is about to do to it
  flash,             \* the page: a pair, Erased or Garbled
  jobs, page,        \* flash operations to come; flash_data, the pair to program
  \* globals of the library
  ssid, password,
  prov_status,
  con_handle,        \* a client is connected
  le_notification_enabled,
  asked, told,       \* a notification was asked for; the last one was of prov_status
  \* main
  main,              \* where it is
  late,              \* timeout_time has passed
  trying,            \* the pair the driver was given, NoCreds where no join is under way or done
  patience,          \* of that join: deadline or weeks
  joined,            \* ghost: the pair that joined
  quiet,             \* ghost: nothing written since the driver was given the pair
  cuts

flashVars == <<flash, jobs, page>>
credVars == <<ssid, password>>
attVars == <<prov_status, con_handle, le_notification_enabled, asked, told>>
joinVars == <<trying, patience, joined, quiet>>
vars == <<flash, jobs, page, ssid, password, prov_status, con_handle, le_notification_enabled,
          asked, told, main, late, trying, patience, joined, quiet, cuts>>

Pair == [ssid |-> ssid, password |-> password]
Complete(pair) == pair.ssid # Blank /\ pair.password # Blank

\* main is there with its memory as at boot, or with one that no longer matters.
Anew(there) ==
  /\ ssid' = Blank /\ password' = Blank /\ prov_status' = "IDLE" /\ con_handle' = FALSE
  /\ le_notification_enabled' = FALSE /\ asked' = FALSE /\ told' = FALSE
  /\ main' = there /\ late' = FALSE /\ trying' = NoCreds /\ patience' = "deadline"
  /\ joined' = NoPair /\ quiet' = FALSE /\ jobs' = <<>> /\ page' = NoCreds

-----------------------------------------------------------------------------
(* The flash page. flash_safe_execute keeps the interrupts out of each operation, *)
(* not out of what comes in between. *)

call_flash_range_erase ==
  /\ jobs # <<>> /\ Head(jobs) = "erase" /\ flash' = Erased /\ jobs' = Tail(jobs)
  /\ UNCHANGED <<page, credVars, attVars, main, late, joinVars, cuts>>

call_flash_range_program ==
  /\ jobs # <<>> /\ Head(jobs) = "program" /\ flash' = page /\ jobs' = Tail(jobs)
  /\ UNCHANGED <<page, credVars, attVars, main, late, joinVars, cuts>>

\* flash_safe_execute may refuse an operation. Where main wipes the page nobody looks at
\* that; reading asserts that it did not happen, saving ends in a panic of the example.
FlashFails ==
  /\ jobs # <<>>
  /\ \/ main = "start" /\ jobs' = <<>> /\ UNCHANGED <<page, credVars, attVars, main, late, joinVars>>
     \/ main # "start" /\ Anew("panicked")
  /\ UNCHANGED <<flash, cuts>>

-----------------------------------------------------------------------------
(* Handlers of BTstack, while Bluetooth is on: from before the page is read. *)

BluetoothOn == main \notin {"key", "start", "online", "failed", "panicked", "lost"}

\* hci_packet_handler.
ConnectionComplete ==
  /\ BluetoothOn /\ ~con_handle /\ con_handle' = TRUE
  /\ UNCHANGED <<flashVars, credVars, prov_status, le_notification_enabled, asked, told, main,
                 late, joinVars, cuts>>

DisconnectionComplete ==
  /\ BluetoothOn /\ con_handle /\ con_handle' = FALSE /\ le_notification_enabled' = FALSE
  /\ asked' = FALSE /\ told' = FALSE
  /\ UNCHANGED <<flashVars, credVars, prov_status, main, late, joinVars, cuts>>

\* The status changes, and a client that subscribed is to be notified.
M_set_prov_status(status) ==
  /\ prov_status' = status
  /\ UNCHANGED asked
  /\ told' = (told /\ status = prov_status)
  /\ UNCHANGED <<con_handle, le_notification_enabled>>

set_prov_status(status) ==
  /\ prov_status' = status
  /\ asked' = (asked \/ (le_notification_enabled /\ con_handle))
  /\ told' = (told /\ status = prov_status)
  /\ UNCHANGED <<con_handle, le_notification_enabled>>

\* ATT_EVENT_CAN_SEND_NOW: the byte notified is the status of this moment.
CanSendNow ==
  /\ BluetoothOn /\ asked /\ asked' = FALSE /\ told' = TRUE
  /\ UNCHANGED <<flashVars, credVars, prov_status, con_handle, le_notification_enabled, main,
                 late, joinVars, cuts>>

WriteConfiguration(enable) ==
  /\ BluetoothOn /\ con_handle
  /\ le_notification_enabled' = enable /\ asked' = (asked \/ enable)
  /\ UNCHANGED <<flashVars, credVars, prov_status, con_handle, told, main, late, joinVars, cuts>>

\* The two characteristics are written one at a time, a blank string like any other.
WriteCredentials(s, p) ==
  /\ BluetoothOn /\ con_handle
  /\ \/ ssid' = s /\ UNCHANGED password
     \/ password' = p /\ UNCHANGED ssid
  /\ IF ssid' # Blank /\ password' # Blank
     THEN set_prov_status("CREDENTIALS_RECEIVED") ELSE UNCHANGED attVars
  /\ quiet' = FALSE
  /\ UNCHANGED <<flashVars, main, late, trying, patience, joined, cuts>>

\* A string longer than its buffer is copied past the end of it: nothing is claimed after.
WriteTooLong ==
  /\ BluetoothOn /\ con_handle /\ Anew("lost") /\ UNCHANGED <<flash, cuts>>

-----------------------------------------------------------------------------
(* main: up to the loop. *)

\* w wipes the page.
Key(wipe) ==
  /\ main = "key" /\ main' = "start"
  /\ jobs' = IF wipe THEN <<"erase">> ELSE <<>>
  /\ UNCHANGED <<flash, page, credVars, attVars, late, joinVars, cuts>>

\* The time allowed runs from here; Bluetooth is turned on.
Start ==
  /\ main = "start" /\ jobs = <<>> /\ main' = "read"
  /\ UNCHANGED <<flashVars, credVars, attVars, late, joinVars, cuts>>

\* A page that begins with 0xFF, or is taken for one, is first made an empty one.
ReadErased ==
  /\ main = "read" /\ jobs = <<>> /\ flash \in {Erased, Garbled}
  /\ jobs' = <<"erase", "program">> /\ page' = NoCreds
  /\ UNCHANGED <<flash, credVars, attVars, main, late, joinVars, cuts>>

\* A garbled page may be parsed past the ends of the two buffers.
ReadGarbled ==
  /\ main = "read" /\ jobs = <<>> /\ flash = Garbled /\ Anew("lost") /\ UNCHANGED <<flash, cuts>>

\* read_credentials sets the ssid, then the password, over what a client may have written.
ReadSsid ==
  /\ main = "read" /\ jobs = <<>> /\ flash \notin {Erased, Garbled} /\ main' = "reading"
  /\ ssid' = flash.ssid
  /\ UNCHANGED <<flashVars, password, attVars, late, joinVars, cuts>>

ReadPassword ==
  /\ main = "reading" /\ main' = "check" /\ password' = flash.password
  /\ UNCHANGED <<flashVars, ssid, attVars, late, joinVars, cuts>>

\* A complete pair is tried.
CheckSaved ==
  /\ main = "check" /\ main' = IF Complete(Pair) THEN "first_call" ELSE "loop"
  /\ UNCHANGED <<flashVars, credVars, attVars, late, joinVars, cuts>>

\* What the driver is given: the pair, and what is left of the time.
Join ==
  /\ trying' = Pair /\ quiet' = TRUE /\ patience' = IF late THEN "weeks" ELSE "deadline"
  /\ UNCHANGED joined

NotJoining ==
  /\ trying' = NoCreds /\ quiet' = FALSE /\ patience' = "deadline"
  /\ UNCHANGED joined

FirstJoin ==
  /\ main = "first_call" /\ main' = "first" /\ Join
  /\ UNCHANGED <<flashVars, credVars, attVars, late, cuts>>

-----------------------------------------------------------------------------
(* The driver (external), and what main makes of its answers. *)

TimedOut == late /\ patience = "deadline"
BadAuth == trying.ssid \in Known /\ trying \notin Right
Joinable == trying \in Right

M_JoinAgainWithTheOld ==
  /\ main \in {"first", "joining"} /\ trying.ssid \notin Known /\ ~TimedOut
  /\ quiet' = TRUE
  /\ UNCHANGED <<flashVars, credVars, attVars, main, late, trying, patience, joined, cuts>>

\* No such network: it tries again until the timeout, from the same two buffers.
JoinAgain ==
  /\ main \in {"first", "joining"} /\ trying.ssid \notin Known /\ ~TimedOut
  /\ trying' = Pair /\ quiet' = TRUE
  /\ UNCHANGED <<flashVars, credVars, attVars, main, late, patience, joined, cuts>>

FirstJoinFails ==
  /\ main = "first" /\ (TimedOut \/ trying.ssid \in Known) /\ main' = "loop" /\ NotJoining
  /\ UNCHANGED <<flashVars, credVars, attVars, late, cuts>>

FirstJoinSucceeds ==
  /\ main = "first" /\ Joinable /\ main' = "online" /\ joined' = trying
  /\ UNCHANGED <<flashVars, credVars, attVars, late, trying, patience, quiet, cuts>>

\* main sees a complete pair; a client may still write before the driver is given it.
Connecting ==
  /\ main = "loop" /\ Complete(Pair) /\ main' = "call" /\ set_prov_status("CONNECTING")
  /\ UNCHANGED <<flashVars, credVars, late, joinVars, cuts>>

StartJoin ==
  /\ main = "call" /\ main' = "joining" /\ Join
  /\ UNCHANGED <<flashVars, credVars, attVars, late, cuts>>

M_JoinFailsUnlessTimedOut ==
  /\ main = "joining" /\ trying.ssid \in Known /\ main' = "failed"
  /\ set_prov_status("FAILED")
  /\ UNCHANGED <<flashVars, credVars, late, joinVars, cuts>>

\* The time is up, or a network in range answers with some other error.
JoinFails ==
  /\ main = "joining" /\ (TimedOut \/ trying.ssid \in Known) /\ main' = "failed"
  /\ set_prov_status("FAILED")
  /\ UNCHANGED <<flashVars, credVars, late, joinVars, cuts>>

JoinBadAuth ==
  /\ main = "joining" /\ BadAuth /\ main' = "loop" /\ NotJoining
  /\ set_prov_status("FAILED_AUTH")
  /\ UNCHANGED <<flashVars, credVars, late, cuts>>

JoinSucceeds ==
  /\ main = "joining" /\ Joinable /\ main' = "copy" /\ joined' = trying
  /\ set_prov_status("CONNECTED")
  /\ UNCHANGED <<flashVars, credVars, late, trying, patience, quiet, cuts>>

\* save_credentials copies the ssid into the page, then the password.
CopySsid ==
  /\ main = "copy" /\ main' = "save" /\ page' = [page EXCEPT !.ssid = ssid]
  /\ UNCHANGED <<flash, jobs, credVars, attVars, late, joinVars, cuts>>

M_CopyPasswordForgotten ==
  /\ main = "save" /\ main' = "saving"
  /\ jobs' = <<"erase", "program">>
  /\ UNCHANGED <<flash, page, credVars, attVars, late, joinVars, cuts>>

CopyPassword ==
  /\ main = "save" /\ main' = "saving" /\ page' = [page EXCEPT !.password = password]
  /\ jobs' = <<"erase", "program">>
  /\ UNCHANGED <<flash, credVars, attVars, late, joinVars, cuts>>

\* The pair is saved: main turns Bluetooth off and is done.
Saved ==
  /\ main = "saving" /\ jobs = <<>> /\ main' = "online"
  /\ UNCHANGED <<flashVars, credVars, attVars, late, joinVars, cuts>>

\* While there is no pair yet main looks at the time once a second.
GiveUp ==
  /\ main = "loop" /\ ~Complete(Pair) /\ late /\ main' = "failed"
  /\ UNCHANGED <<flashVars, credVars, attVars, late, joinVars, cuts>>

\* timeout_time passes, once the time allowed has begun to run.
TimePasses ==
  /\ ~late /\ main \notin {"key", "start"} /\ late' = TRUE
  /\ UNCHANGED <<flashVars, credVars, attVars, main, joinVars, cuts>>

-----------------------------------------------------------------------------

\* The power fails or d reboots; an operation under way garbles the page or leaves it, and
\* so may a program that is lost.
PowerCut ==
  /\ cuts < MaxCuts /\ cuts' = cuts + 1
  /\ flash' \in IF jobs = <<>> /\ main # "lost" THEN {flash} ELSE {flash, Garbled}
  /\ Anew("key")

Init ==
  /\ flash \in {Erased, Garbled} /\ jobs = <<>> /\ page = NoCreds
  /\ ssid = Blank /\ password = Blank /\ prov_status = "IDLE" /\ con_handle = FALSE
  /\ le_notification_enabled = FALSE /\ asked = FALSE /\ told = FALSE
  /\ main = "key" /\ late = FALSE /\ trying = NoCreds /\ patience = "deadline"
  /\ joined = NoPair /\ quiet = FALSE /\ cuts = 0

Flash == call_flash_range_erase \/ call_flash_range_program \/ FlashFails

Client ==
  \/ ConnectionComplete \/ DisconnectionComplete
  \/ \E enable \in BOOLEAN : WriteConfiguration(enable)
  \/ \E s \in Ssids \cup {Blank}, p \in Passwords \cup {Blank} : WriteCredentials(s, p)
  \/ WriteTooLong

Boot ==
  \/ (\E wipe \in BOOLEAN : Key(wipe)) \/ Start \/ ReadErased \/ ReadGarbled
  \/ ReadSsid \/ ReadPassword \/ CheckSaved \/ FirstJoin

Joins ==
  \/ FirstJoinFails \/ FirstJoinSucceeds
  \/ Connecting \/ StartJoin \/ JoinFails \/ JoinBadAuth \/ JoinSucceeds
  \/ CopySsid \/ CopyPassword \/ Saved \/ GiveUp

Next == Flash \/ Client \/ CanSendNow \/ Boot \/ Joins \/ JoinAgain \/ TimePasses \/ PowerCut

Spec == Init /\ [][Next]_vars

\* The device runs, its clock and its driver too, and the radio comes to send what is asked.
FairSpec ==
  /\ Spec /\ WF_vars(Flash) /\ WF_vars(Boot) /\ WF_vars(Joins)
  /\ WF_vars(JoinAgain) /\ WF_vars(TimePasses) /\ WF_vars(CanSendNow)

-----------------------------------------------------------------------------
(* Properties. *)

TypeOK ==
  /\ flash \in Pairs \cup {Erased, Garbled} /\ page \in Pairs
  /\ jobs \in {<<>>, <<"erase">>, <<"program">>, <<"erase", "program">>}
  /\ ssid \in Ssids \cup {Blank} /\ password \in Passwords \cup {Blank}
  /\ main \in {"key", "start", "read", "reading", "check", "first_call", "first", "loop", "call",
               "joining", "copy", "save", "saving", "online", "failed", "panicked", "lost"}
  /\ trying \in Pairs /\ joined \in Pairs \cup {NoPair}

\* If the client wrote nothing since the driver was last given the pair, what joined is
\* what the page holds once main is done, whatever was written, tried, torn or wiped before.
SavedIfQuiet == main = "online" /\ prov_status = "CONNECTED" /\ quiet => flash = joined

\* Once main waits for credentials it ends, online or having failed, within the time
\* allowed, unless a join that began too late lasts for weeks.
Ended == main \in {"online", "failed", "panicked", "lost"}
EndsUnlessLate ==
  (main = "loop") ~> Ended \/ main = "key" \/ (main = "joining" /\ patience = "weeks")

\* Right credentials that are there while main waits or joins, and stay, are given to the
\* driver, even if they were written under a join with others that would have lasted for
\* weeks; but for a join with others that succeeds, that takes what was left of the time, or
\* that a network in range ends with an error.
Waits == main \in {"check", "first_call", "first", "loop", "call", "joining"}
OthersJoin ==
  \/ joined # NoPair
  \/ main = "failed" /\ prov_status = "FAILED" /\ (patience = "deadline" \/ trying.ssid \in Known)
Provisioned ==
  \A pair \in Right :
    (Waits /\ Pair = pair)
      ~> trying = pair \/ Pair # pair \/ OthersJoin \/ main \in {"key", "lost"}

\* A client that subscribed and stays is told the status, if Bluetooth stays on and the
\* status stays what it is.
Subscribed == con_handle /\ le_notification_enabled
StatusTold ==
  \A status \in {"IDLE", "CREDENTIALS_RECEIVED", "CONNECTING", "CONNECTED", "FAILED_AUTH"} :
    (Subscribed /\ prov_status = status)
      ~> (told \/ prov_status # status \/ ~Subscribed \/ ~BluetoothOn)

=============================================================================
