------------------------------- MODULE TcpEcho -------------------------------
(***************************************************************************)
(* The TCP server and client examples run against each other, each in its  *)
(* own lwIP context, over one connection.                                  *)
(***************************************************************************)
EXTENDS TcpServer, TcpClient

vars == <<serverVars, clientVars, linkVars>>

Init == ServerInit /\ ClientInit /\ LinkInit

Next ==
  \/ ServerNext /\ UNCHANGED clientVars
  \/ ClientNext /\ UNCHANGED serverVars
  \/ Reset /\ UNCHANGED <<serverVars, clientVars>>

Spec == Init /\ [][Next]_vars

\* Callbacks run as long as there is something to deliver, the poll and the
\* delayed-acknowledgement timers fire, and both main loops go round.
Fairness ==
  /\ WF_vars(ServerCallback /\ UNCHANGED clientVars)
  /\ WF_vars(tcp_server_poll /\ UNCHANGED clientVars)
  /\ WF_vars(run_tcp_server_test /\ UNCHANGED clientVars)
  /\ WF_vars(DelayedAck("server") /\ UNCHANGED <<serverVars, clientVars>>)
  /\ WF_vars(tcp_client_open /\ UNCHANGED serverVars)
  /\ WF_vars(ClientCallback /\ UNCHANGED serverVars)
  /\ WF_vars(tcp_client_poll /\ UNCHANGED serverVars)
  /\ WF_vars(run_tcp_client_test /\ UNCHANGED serverVars)
  /\ WF_vars(DelayedAck("client") /\ UNCHANGED <<serverVars, clientVars>>)

FairSpec == Spec /\ Fairness

-----------------------------------------------------------------------------
(* Properties. *)

\* The two ends implement the rounds of EchoTest: the client's count follows the
\* server's comparisons one by one although it counts acknowledgements only.
Rounds == INSTANCE EchoTest
  WITH verified <- s_run_count, counted <- c_run_count,
       sResult <- s_result, cResult <- c_result
ImplementsRounds == Rounds!Spec

\* No data is cut off at either end: what arrives for a live test always fits the
\* one receive buffer, because the acknowledgement that empties the buffer is
\* handled before the data sent after it.
NothingTruncated ==
  /\ s_client /\ Arrived("server", "DATA") => Len(s_buffer_recv) < Parts
  /\ c_pcb /\ Arrived("client", "DATA") => Len(c_buffer) < Parts

\* Neither main loop waits for ever once the connection is asked for: the poll
\* timer ends a test that no longer progresses.
TestsEnd ==
  /\ c_pcb ~> c_freed
  /\ s_client ~> s_freed

\* With nothing failing, both report success.
BothSucceed == faults = {} => <>(s_result = "ok" /\ c_result = "ok")

=============================================================================
