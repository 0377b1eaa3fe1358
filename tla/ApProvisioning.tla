--------------------------- MODULE ApProvisioning ---------------------------
(***************************************************************************)
(* pico_w/wifi/access_point_wifi_provisioning/AP_provisioning.c: networks   *)
(* saved in one flash sector are tried at boot; if none can be joined an     *)
(* access point with a web form comes up, and what is submitted is saved and *)
(* then tried by main. The handlers of the form run in lwIP's interrupt,     *)
(* also while main blocks in a join. The power may fail at any time, also    *)
(* between erasing the sector and programming it.                            *)
(***************************************************************************)
EXTENDS Credentials

CONSTANTS
  Garbled,           \* a sector half erased or half programmed
  Erased,            \* a sector of 0xFF
  Settled,
  Right,             \* the members of Creds that some network in range accepts
  Conns,             \* HTTP connections of the browser
  NoConn,
  MaxCuts            \* bound: power cuts

ASSUME ApAssumption ==
  /\ MAX_CREDENTIALS \in Nat \ {0}
  /\ Right \subseteq {c \in Creds : c.ssid # Blank}
  /\ NoConn \notin Conns
  /\ Garbled \notin Lists /\ Erased \notin Lists /\ Garbled # Erased
  /\ Settled \notin Lists /\ Settled # Garbled

NoCreds == [ssid |-> Blank, password |-> Blank]     \* ssid and password at start

VARIABLES
  \* flash, and the flash operations under way
  flash,             \* the sector: a list, Erased or Garbled
  jobs,              \* flash operations still to come of the call under way
  target,            \* what the last of them programs
  before,            \* ghost: what a boot would have found before the call
  \* RAM
  list,              \* ssid_list, password_list, num_credentials
  creds,             \* ssid and password
  connect_requested,
  current_post_connection, post_credentials_ok,
  posting,           \* connections between httpd_post_begin and _finished
  handler,           \* the CGI handler waiting for the flash: none, connect, clear
  \* main and the radio
  main,              \* where main is
  index,             \* i of the loop over the saved networks
  skip,              \* try_connect is false
  trying,            \* what the driver was given to join with
  sta, ap,           \* CYW43_STA_IS_ACTIVE, CYW43_AP_IS_ACTIVE
  services_up,
  httpd,             \* httpd_init was called; it has no counterpart
  cuts               \* power cuts so far

flashVars == <<flash, jobs, target, before>>
formVars == <<creds, connect_requested, current_post_connection, post_credentials_ok, posting>>
radioVars == <<sta, ap, services_up, httpd>>
mainVars == <<main, index, skip, trying>>
vars == <<flash, jobs, target, before, list, creds, connect_requested,
          current_post_connection, post_credentials_ok, posting, handler,
          main, index, skip, trying, sta, ap, services_up, httpd, cuts>>

-----------------------------------------------------------------------------
(* The flash sector. *)

\* What read_credentials makes of the sector when it is not garbled.
ReadBack == IF flash = Erased THEN <<>> ELSE flash

\* A call that ends in flash_safe_execute begins: ops will be carried out, in order.
StartFlash(ops, new) ==
  /\ jobs' = ops /\ target' = new /\ before' = ReadBack
  /\ UNCHANGED flash

call_flash_range_erase ==
  /\ jobs # <<>> /\ Head(jobs) = "erase"
  /\ flash' = Erased /\ jobs' = Tail(jobs)
  /\ before' = IF Tail(jobs) = <<>> THEN Settled ELSE before
  /\ UNCHANGED <<target, list, formVars, handler, mainVars, radioVars, cuts>>

call_flash_range_program ==
  /\ jobs # <<>> /\ Head(jobs) = "program"
  /\ flash' = target /\ jobs' = Tail(jobs) /\ target' = <<>> /\ before' = Settled
  /\ UNCHANGED <<list, formVars, handler, mainVars, radioVars, cuts>>

SaveJobs == <<"erase", "program">>

\* Nothing but the flash moves while a call waits for it.
Calm == jobs = <<>> /\ handler = "none"

-----------------------------------------------------------------------------
(* The web form: callbacks of httpd, one at a time. *)

\* httpd answers on whatever interface is up.
Serving == Calm /\ httpd /\ (ap \/ sta)

httpd_post_begin(c) ==
  /\ Serving /\ c \notin posting
  /\ posting' = posting \cup {c}
  /\ current_post_connection' = c /\ post_credentials_ok' = FALSE
  /\ UNCHANGED <<flashVars, list, creds, connect_requested, handler, mainVars, radioVars, cuts>>

\* A pbuf of the body with both fields; one that lacks a field changes nothing.
httpd_post_receive_data(c, new) ==
  /\ Serving /\ c \in posting /\ c = current_post_connection
  /\ creds' = new /\ post_credentials_ok' = TRUE
  /\ UNCHANGED <<flashVars, list, connect_requested, current_post_connection, posting,
                 handler, mainVars, radioVars, cuts>>

\* Only the new network is written.
M_OnlyTheNewSaved(new) ==
  /\ list' = IF new.ssid = Blank THEN list ELSE Put(list, new)
  /\ StartFlash(SaveJobs, Saved(<<>>, new))
  /\ handler' = "connect"

\* attempt_wifi_connection, up to the flash: save_credentials with the lists in RAM.
attempt_wifi_connection(new) ==
  /\ list' = IF new.ssid = Blank THEN list ELSE Put(list, new)
  /\ StartFlash(SaveJobs, Saved(list, new))
  /\ handler' = "connect"

\* Called for every POST begun, also when the browser gives up.
httpd_post_finished(c) ==
  /\ Serving /\ c \in posting
  /\ posting' = posting \ {c} /\ current_post_connection' = NoConn
  /\ IF c = current_post_connection /\ post_credentials_ok
     THEN attempt_wifi_connection(creds)
     ELSE UNCHANGED <<flashVars, list, handler>>
  /\ UNCHANGED <<creds, connect_requested, post_credentials_ok, mainVars, radioVars, cuts>>

connect_from_saved_cgi_handler(i) ==
  /\ Serving /\ i \in DOMAIN list
  /\ creds' = list[i] /\ attempt_wifi_connection(list[i])
  /\ UNCHANGED <<connect_requested, current_post_connection, post_credentials_ok, posting,
                 mainVars, radioVars, cuts>>

\* Erases, and then saves the empty list, which erases again.
clear_cgi_handler ==
  /\ Serving
  /\ StartFlash(<<"erase", "erase", "program">>, <<>>) /\ handler' = "clear"
  /\ UNCHANGED <<list, formVars, mainVars, radioVars, cuts>>

\* The rest of the handler once the sector is written: read_credentials, and the request.
HandlerReturns ==
  /\ handler # "none" /\ jobs = <<>>
  /\ list' = ReadBack /\ handler' = "none"
  /\ connect_requested' = (handler = "connect" \/ connect_requested)
  /\ UNCHANGED <<flashVars, creds, current_post_connection, post_credentials_ok, posting,
                 mainVars, radioVars, cuts>>

-----------------------------------------------------------------------------
(* main up to the loop. *)

\* w wipes the sector, s skips the saved networks, anything else or nothing does neither.
KeyWipe ==
  /\ Calm /\ main = "key" /\ main' = "read"
  /\ StartFlash(<<"erase">>, <<>>)
  /\ UNCHANGED <<list, formVars, handler, index, skip, trying, radioVars, cuts>>

KeySkip(s) ==
  /\ Calm /\ main = "key" /\ main' = "read" /\ skip' = s
  /\ UNCHANGED <<flashVars, list, formVars, handler, index, trying, radioVars, cuts>>

\* read_credentials finds a list.
ReadList ==
  /\ Calm /\ main = "read" /\ flash \notin {Erased, Garbled}
  /\ list' = flash /\ skip' = FALSE
  /\ main' = IF skip \/ flash = <<>> THEN "portal" ELSE "try"
  /\ UNCHANGED <<flashVars, formVars, handler, index, trying, radioVars, cuts>>

\* It finds 0xFF in the first byte and lays down an empty list; a sector half written
\* may look like that.
ReadErased ==
  /\ Calm /\ main = "read" /\ flash \in {Erased, Garbled}
  /\ StartFlash(SaveJobs, <<>>)
  /\ UNCHANGED <<list, formVars, handler, mainVars, radioVars, cuts>>

\* Or it parses what is no list, past the ends of its arrays.
ReadGarbled ==
  /\ Calm /\ main = "read" /\ flash = Garbled /\ main' = "lost"
  /\ UNCHANGED <<flashVars, list, formVars, handler, index, skip, trying, radioVars, cuts>>

\* The loop over the saved networks: station mode is turned on for the first only.
TrySaved ==
  /\ Calm /\ main = "try" /\ main' = "trying"
  /\ sta' = (index = 1 \/ sta) /\ trying' = list[index]
  /\ UNCHANGED <<flashVars, list, formVars, handler, index, skip, ap, services_up, httpd, cuts>>

\* The driver (external) joins with the right credentials, in station mode.
Joinable == sta /\ trying \in Right

TrySavedJoined ==
  /\ Calm /\ main = "trying" /\ Joinable /\ main' = "online"
  /\ UNCHANGED <<flashVars, list, formVars, handler, index, skip, trying, radioVars, cuts>>

\* Station mode is left on, and main's loop then starts no services.
M_TrySavedFailedKeepsStation ==
  /\ Calm /\ main = "trying" /\ UNCHANGED sta
  /\ trying' = NoCreds
  /\ IF index < Len(list) THEN index' = index + 1 /\ main' = "try"
                          ELSE index' = 1 /\ main' = "portal"
  /\ UNCHANGED <<flashVars, list, formVars, handler, skip, ap, services_up, httpd, cuts>>

TrySavedFailed ==
  /\ Calm /\ main = "trying" /\ sta' = FALSE
  /\ trying' = NoCreds
  /\ IF index < Len(list) THEN index' = index + 1 /\ main' = "try"
                          ELSE index' = 1 /\ main' = "portal"
  /\ UNCHANGED <<flashVars, list, formVars, handler, skip, ap, services_up, httpd, cuts>>

-----------------------------------------------------------------------------
(* main's loop. *)

StartServices ==
  /\ Calm /\ main = "portal" /\ ~sta /\ ~ap /\ ~services_up
  /\ ap' = TRUE /\ services_up' = TRUE /\ httpd' = TRUE
  /\ UNCHANGED <<flashVars, list, formVars, handler, mainVars, sta, cuts>>

\* The request is taken and the flag cleared before the credentials are read.
TakeRequest ==
  /\ Calm /\ main = "portal" /\ (sta \/ ap \/ services_up)
  /\ connect_requested /\ connect_requested' = FALSE
  /\ main' = "taken"
  /\ UNCHANGED <<flashVars, list, creds, current_post_connection, post_credentials_ok, posting,
                 handler, index, skip, trying, radioVars, cuts>>

StartJoin ==
  /\ Calm /\ main = "taken" /\ main' = "joining"
  /\ sta' = TRUE /\ trying' = creds
  /\ UNCHANGED <<flashVars, list, formVars, handler, index, skip, ap, services_up, httpd, cuts>>

\* The driver tries again when it sees no such network; it is given the same buffers.
JoinAgain ==
  /\ Calm /\ main = "joining" /\ trying' = creds
  /\ UNCHANGED <<flashVars, list, formVars, handler, main, index, skip, radioVars, cuts>>

M_JoinFailedForgetsRequest ==
  /\ Calm /\ main = "joining" /\ main' = "portal" /\ sta' = FALSE
  /\ connect_requested' = FALSE /\ trying' = NoCreds
  /\ UNCHANGED <<flashVars, list, creds, current_post_connection, post_credentials_ok, posting,
                 handler, index, skip, ap, services_up, httpd, cuts>>

JoinFailed ==
  /\ Calm /\ main = "joining" /\ main' = "portal" /\ sta' = FALSE
  /\ trying' = NoCreds
  /\ UNCHANGED <<flashVars, list, formVars, handler, index, skip, ap, services_up, httpd, cuts>>

Joined ==
  /\ Calm /\ main = "joining" /\ Joinable /\ main' = "leaving"
  /\ UNCHANGED <<flashVars, list, formVars, handler, index, skip, trying, radioVars, cuts>>

\* DNS and DHCP server end, then the access point.
StopServices ==
  /\ Calm /\ main = "leaving" /\ main' = "online"
  /\ services_up' = FALSE /\ ap' = FALSE
  /\ UNCHANGED <<flashVars, list, formVars, handler, index, skip, trying, sta, httpd, cuts>>

\* d is pressed or the link goes down.
Leave ==
  /\ Calm /\ main = "online" /\ main' = "stopped" /\ sta' = FALSE
  /\ UNCHANGED <<flashVars, list, formVars, handler, index, skip, trying, ap, services_up,
                 httpd, cuts>>

-----------------------------------------------------------------------------

\* The power fails; an operation under way leaves the sector garbled or untouched.
PowerCut ==
  /\ cuts < MaxCuts /\ cuts' = cuts + 1
  /\ flash' \in IF jobs = <<>> THEN {flash} ELSE {flash, Garbled}
  /\ jobs' = <<>> /\ target' = <<>> /\ before' = Settled
  /\ list' = <<>> /\ creds' = NoCreds /\ connect_requested' = FALSE
  /\ current_post_connection' = NoConn /\ post_credentials_ok' = FALSE /\ posting' = {}
  /\ handler' = "none" /\ main' = "key" /\ index' = 1 /\ skip' = FALSE /\ trying' = NoCreds
  /\ sta' = FALSE /\ ap' = FALSE /\ services_up' = FALSE /\ httpd' = FALSE

Init ==
  /\ flash \in {Erased, Garbled}
  /\ jobs = <<>> /\ target = <<>> /\ before = Settled
  /\ list = <<>> /\ creds = NoCreds /\ connect_requested = FALSE
  /\ current_post_connection = NoConn /\ post_credentials_ok = FALSE /\ posting = {}
  /\ handler = "none" /\ main = "key" /\ index = 1 /\ skip = FALSE /\ trying = NoCreds
  /\ sta = FALSE /\ ap = FALSE /\ services_up = FALSE /\ httpd = FALSE /\ cuts = 0

Flash == call_flash_range_erase \/ call_flash_range_program

Form ==
  \/ \E c \in Conns : httpd_post_begin(c) \/ httpd_post_finished(c)
  \/ \E c \in Conns, new \in Creds : httpd_post_receive_data(c, new)
  \/ \E i \in 1..MAX_CREDENTIALS : connect_from_saved_cgi_handler(i)
  \/ clear_cgi_handler

Boot ==
  \/ KeyWipe \/ \E s \in BOOLEAN : KeySkip(s)
  \/ ReadList \/ ReadErased \/ ReadGarbled
  \/ TrySaved \/ TrySavedJoined \/ TrySavedFailed

Loop == StartServices \/ TakeRequest \/ StartJoin \/ JoinFailed \/ Joined \/ StopServices

Next == Flash \/ HandlerReturns \/ Form \/ Boot \/ Loop \/ JoinAgain \/ Leave \/ PowerCut

Spec == Init /\ [][Next]_vars

\* The device runs: flash operations end, handlers return, main goes on and the driver's
\* joins end, at the latest with the timeout; between handlers there is time for main.
FairSpec == Spec /\ WF_vars(Flash) /\ WF_vars(HandlerReturns) /\ WF_vars(Boot) /\ SF_vars(Loop)

-----------------------------------------------------------------------------
(* Properties. *)

\* The sector as the book of CredentialBook: what an update under way will leave, or
\* what the next boot finds.
Book == INSTANCE CredentialBook
          WITH book <- IF jobs # <<>> THEN target ELSE ReadBack

\* Every change of what is saved is one network saved or all given up, whatever the
\* handlers of several requests, boots and power cuts do in between; only a power cut
\* within an update may lose the book.
KeepsBook == Book!Spec

\* "updates that entry in place rather than adding a duplicate": neither RAM nor flash ever
\* lists a network twice or too many of them.
OneEntryPerNetwork ==
  NoTwins(list) /\ (flash \notin {Erased, Garbled} => NoTwins(flash))

\* What the page lists is what is saved, whenever a handler may be called.
PageIsTrue == Serving => list = ReadBack

\* A request accepted while main waits or is busy joining with older credentials is
\* not forgotten: main comes to join with what was submitted last, or the device is
\* online or restarted.
RequestServed ==
  connect_requested ~> \/ main = "joining" /\ trying = creds
                       \/ main \in {"leaving", "online", "stopped", "key"}

\* Whatever is pressed, saved or in range, a boot ends online or with the form being
\* served, unless it reads a garbled sector.
BootServes == (main = "key") ~> (main \in {"online", "lost"} \/ (ap /\ Serving))

=============================================================================
