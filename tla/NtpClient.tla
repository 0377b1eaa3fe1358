----------------------------- MODULE NtpClient -----------------------------
(***************************************************************************)
(* pico_w/wifi/ntp_client: a request to a time server every 30 s, started   *)
(* by one timed worker of the async context, given up after 10 s by        *)
(* another.  Callbacks of lwIP and workers run one at a time.  The name    *)
(* lookup, the request and the reply may each be lost, and once its port   *)
(* is open, ntp_recv is given whatever datagram anybody sends there.       *)
(***************************************************************************)
EXTENDS Integers, FiniteSets

CONSTANTS
  Era,          \* the seconds of the protocol and of uint32_t wrap, 2^32
  NTP_DELTA,    \* from the epoch of the protocol to the epoch of time_t
  MaxWire,      \* bound: lookups, requests and replies under way, each
  Late,         \* lookups and replies may outlive the 10 s, and be duplicated
  Strays        \* the port may get datagrams that answer nothing

ASSUME EraAssumption == NTP_DELTA \in 0..Era /\ Era \in Nat \ {0}
ASSUME WireAssumption == MaxWire \in Nat /\ Late \in BOOLEAN /\ Strays \in BOOLEAN

VARIABLES
  request_worker, resend_worker,  \* which workers are scheduled
  lookups,      \* name lookups that will call back
  requests,     \* requests under way
  replies,      \* replies under way
  port,         \* the first udp_sendto has bound the port
  server_time,  \* the time at the server
  result,       \* the last time reported, with the true one
  asserted,     \* a hard_assert has failed and the program stopped
  unexpected    \* the network has done more than lose: see the actions that set it

workers == <<request_worker, resend_worker>>
ntpVars == <<workers, lookups, requests, replies, port, server_time, result, asserted, unexpected>>

Seconds == 0..(Era - 1)
NoResult == [epoch |-> 0, at |-> 0]

-----------------------------------------------------------------------------

M_ResultKeepsResend ==
  /\ UNCHANGED resend_worker
  /\ IF request_worker THEN asserted' = TRUE /\ UNCHANGED request_worker
                       ELSE request_worker' = TRUE /\ UNCHANGED asserted

\* The end of a request, however it went: the next one is scheduled.  Scheduling a
\* worker that is scheduled already fails.
ntp_result ==
  /\ resend_worker' = FALSE
  /\ IF request_worker THEN asserted' = TRUE /\ UNCHANGED request_worker
                       ELSE request_worker' = TRUE /\ UNCHANGED asserted

ntp_request == requests < MaxWire /\ requests' = requests + 1 /\ port' = TRUE

\* The answer to the lookup is cached, awaited, or an error at once.
request_worker_fn ==
  /\ ~ asserted /\ request_worker
  /\ asserted' = resend_worker
  /\ \/ ~ resend_worker /\ ntp_request /\ UNCHANGED lookups
     \/ ~ resend_worker /\ lookups < MaxWire /\ lookups' = lookups + 1
        /\ UNCHANGED <<requests, port>>
     \/ UNCHANGED <<lookups, requests, port>>     \* the error, or the assert has failed
  /\ LET error == lookups' = lookups /\ requests' = requests
     IN request_worker' = error /\ resend_worker' = (resend_worker \/ ~ error)
  /\ UNCHANGED <<replies, server_time, result, unexpected>>

M_FoundReportsToo ==
  /\ ~ asserted /\ lookups > 0 /\ lookups' = lookups - 1
  /\ ntp_result /\ (ntp_request \/ UNCHANGED <<requests, port>>)
  /\ UNCHANGED <<replies, server_time, result, unexpected>>

ntp_dns_found ==
  /\ ~ asserted /\ lookups > 0 /\ lookups' = lookups - 1
  /\ \/ ntp_request /\ UNCHANGED <<workers, asserted>>
     \/ ntp_result /\ UNCHANGED <<requests, port>>
  /\ UNCHANGED <<replies, server_time, result, unexpected>>

M_EpochNotWrapped(n) == n - NTP_DELTA

\* seconds_since_1970, in the arithmetic of uint32_t.
Epoch(n) == (n - NTP_DELTA) % Era

\* A reply is the time, or invalid: its length, mode or stratum is wrong.  Either ends the
\* request.  If a copy of it stays under way, that is unexpected.
ntp_recv(r) ==
  /\ ~ asserted /\ r \in replies
  /\ \E copy \in {FALSE, Late} :
       /\ replies' = IF copy THEN replies ELSE replies \ {r}
       /\ unexpected' = (unexpected \/ copy)
  /\ ntp_result
  /\ result' = IF r.valid THEN [epoch |-> Epoch(r.seconds), at |-> r.at] ELSE result
  /\ UNCHANGED <<lookups, requests, port, server_time>>

\* ntp_recv with a datagram of somebody else, at any time: "invalid", and the end of a
\* request all the same.
StrayReceived ==
  /\ Strays /\ ~ asserted /\ port
  /\ ntp_result
  /\ unexpected' = TRUE
  /\ UNCHANGED <<lookups, requests, replies, port, server_time, result>>

UnderWay == lookups > 0 \/ requests > 0 \/ replies # {}

M_ResendRearms ==
  /\ ~ asserted /\ resend_worker
  /\ Late \/ ~ UnderWay
  /\ ntp_request
  /\ UNCHANGED <<workers, asserted, unexpected, lookups, replies, server_time, result>>

\* Unless Late, what has not arrived after 10 s never will.  If Late, it is unexpected.
resend_worker_fn ==
  /\ ~ asserted /\ resend_worker
  /\ Late \/ ~ UnderWay
  /\ ntp_result
  /\ unexpected' = (unexpected \/ UnderWay)
  /\ UNCHANGED <<lookups, requests, replies, port, server_time, result>>

-----------------------------------------------------------------------------
(* The server and the network. *)

ServerReplies ==
  /\ ~ asserted /\ requests > 0 /\ requests' = requests - 1
  /\ Cardinality(replies) < MaxWire
  /\ \E valid \in BOOLEAN :
       replies' = replies \cup {[valid |-> valid, seconds |-> (server_time + NTP_DELTA) % Era,
                                at |-> server_time]}
  /\ UNCHANGED <<workers, lookups, port, server_time, result, asserted, unexpected>>

Lost ==
  /\ ~ asserted
  /\ \/ requests > 0 /\ requests' = requests - 1 /\ UNCHANGED replies
     \/ \E r \in replies : replies' = replies \ {r} /\ UNCHANGED requests
  /\ UNCHANGED <<workers, lookups, port, server_time, result, asserted, unexpected>>

ServerClock ==
  /\ ~ asserted /\ server_time + 1 \in Seconds /\ server_time' = server_time + 1
  /\ UNCHANGED <<workers, lookups, requests, replies, port, result, asserted, unexpected>>

-----------------------------------------------------------------------------

\* run_ntp_test asks for the first request.
NtpInit ==
  /\ request_worker = TRUE /\ resend_worker = FALSE
  /\ lookups = 0 /\ requests = 0 /\ replies = {} /\ port = FALSE
  /\ server_time = 0 /\ result = NoResult /\ asserted = FALSE /\ unexpected = FALSE

NtpNext ==
  \/ request_worker_fn \/ resend_worker_fn \/ ntp_dns_found
  \/ \E r \in replies : ntp_recv(r)
  \/ StrayReceived \/ ServerReplies \/ Lost \/ ServerClock

\* Workers run when their time has come, and what is under way arrives or is lost.
NtpFairness ==
  /\ WF_ntpVars(request_worker_fn) /\ WF_ntpVars(resend_worker_fn) /\ WF_ntpVars(ntp_dns_found)
  /\ WF_ntpVars(ServerReplies \/ Lost \/ \E r \in replies : ntp_recv(r))

NtpSpec == NtpInit /\ [][NtpNext]_ntpVars
NtpFairSpec == NtpSpec /\ NtpFairness

-----------------------------------------------------------------------------
(* Properties. *)

NtpTypeOK ==
  /\ {request_worker, resend_worker, port, asserted, unexpected} \subseteq BOOLEAN
  /\ lookups \in 0..MaxWire /\ requests \in 0..MaxWire
  /\ replies \subseteq [valid : BOOLEAN, seconds : Seconds, at : Seconds]
  /\ server_time \in Seconds /\ result \in [epoch : Seconds, at : Seconds]

\* One thing is planned at any time, whatever arrives: the next request, or giving up this
\* one.  The client never falls silent and never has two requests open.
OneWorker == asserted \/ request_worker # resend_worker

\* The hard_asserts around async_context_add_at_time_worker_in_ms hold: no worker is
\* scheduled twice.
AssertsHold == ~ asserted

\* They fail only if an answer outlived the 10 s of its request, came twice, or was a
\* stranger's: loss and invalid replies of the server alone never stop the program.
AssertsHoldIfLossy == asserted => unexpected

\* The time reported is the server's, also after the 32-bit seconds of the protocol
\* have wrapped (in 2036), as long as time_t's have not, and whatever else arrives.
TimeIsRight == result.epoch = result.at

\* A request never stays the last one, unless the program stops.
ComesBack == resend_worker ~> request_worker \/ asserted

=============================================================================
