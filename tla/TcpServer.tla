------------------------------ MODULE TcpServer ------------------------------
(***************************************************************************)
(* The TCP server example (pico_w/wifi/tcp_server): it sends a buffer of   *)
(* random bytes, waits for the echo, compares, and does so TEST_ITERATIONS *)
(* times.  One action per lwIP callback; lengths count segments, and the   *)
(* random contents of the n-th buffer are n.                               *)
(***************************************************************************)
EXTENDS TcpLink

VARIABLES
  s_listening, s_client,        \* server_pcb # NULL, client_pcb # NULL
  s_complete, s_buffer_sent, s_buffer_recv, s_sent_len, s_run_count,
  s_result,                     \* the status given to tcp_server_result
  s_freed                       \* run_tcp_server_test has freed the state

serverVars == <<s_listening, s_client, s_complete, s_buffer_sent, s_buffer_recv,
                s_sent_len, s_run_count, s_result, s_freed>>

ServerInit ==
  /\ s_listening = TRUE /\ s_client = FALSE /\ s_complete = FALSE
  /\ s_buffer_sent = 0 /\ s_buffer_recv = <<>> /\ s_sent_len = 0 /\ s_run_count = 0
  /\ s_result = "none" /\ s_freed = FALSE

\* tcp_server_result with tcp_server_close; the closing goes out with the call.
tcp_server_result(status) ==
  /\ s_complete' = TRUE /\ s_result' = status
  /\ s_client' = FALSE /\ s_listening' = FALSE

\* The end of a callback that took one entry, of which `acked` parts are to be
\* acknowledged, and failed or finished.
ServerEnds(acked, status) ==
  /\ tcp_server_result(status)
  /\ \E out \in Closings : Exchange("server", acked, out)

NothingEnds == UNCHANGED <<s_listening, s_client, s_complete, s_result>>

\* tcp_server_send_data, in a callback that took one entry.
tcp_server_send_data(acked) ==
  /\ s_buffer_sent' = s_run_count' + 1
  /\ s_sent_len' = 0
  /\ \/ Exchange("server", acked, Buffer(s_run_count' + 1)) /\ NothingEnds
     \/ "memory" \in faults /\ ServerEnds(acked, "failed")

tcp_server_accept ==
  /\ s_listening /\ Arrived("server", "SYN")
  /\ s_buffer_sent' = 1 /\ s_sent_len' = 0
  /\ \/ /\ s_client' = TRUE
        /\ Exchange("server", 0, <<Entry("SYNACK", 0, 0)>> \o Buffer(1))
        /\ UNCHANGED <<s_listening, s_complete, s_result>>
     \/ /\ "memory" \in faults
        /\ tcp_server_result("failed")
        /\ \E out \in Closings : Exchange("server", 0, <<Entry("SYNACK", 0, 0)>> \o out)
  /\ UNCHANGED <<s_buffer_recv, s_run_count, s_freed>>

\* recv_len left alone: the buffer stays full.
M_SentKeepsBuffer ==
  /\ s_client /\ Arrived("server", "ACK")
  /\ s_sent_len' = s_sent_len + Head(wire["server"]).n
  /\ Exchange("server", 0, <<>>)
  /\ UNCHANGED <<s_listening, s_client, s_complete, s_buffer_sent, s_buffer_recv,
                 s_run_count, s_result, s_freed>>

\* The buffer acknowledged: ready for its echo.
tcp_server_sent ==
  /\ s_client /\ Arrived("server", "ACK")
  /\ s_sent_len' = s_sent_len + Head(wire["server"]).n
  /\ s_buffer_recv' = IF s_sent_len' >= Parts THEN <<>> ELSE s_buffer_recv
  /\ Exchange("server", 0, <<>>)
  /\ UNCHANGED <<s_listening, s_client, s_complete, s_buffer_sent, s_run_count,
                 s_result, s_freed>>

\* The echo: the part that fits is copied; a full buffer is compared, and the
\* next one sent or the test ended.
tcp_server_recv ==
  /\ s_client /\ Arrived("server", "DATA")
  /\ LET got  == Append(s_buffer_recv, Head(wire["server"]))
         data == SubSeq(got, 1, IF Len(got) < Parts THEN Len(got) ELSE Parts)
     IN  /\ s_buffer_recv' = data
         /\ \/ /\ Len(data) < Parts
               /\ Exchange("server", 1, <<>>) /\ NothingEnds
               /\ UNCHANGED <<s_run_count, s_buffer_sent, s_sent_len>>
            \/ /\ Len(data) = Parts /\ data # Buffer(s_buffer_sent)
               /\ ServerEnds(1, "failed")
               /\ UNCHANGED <<s_run_count, s_buffer_sent, s_sent_len>>
            \/ /\ data = Buffer(s_buffer_sent)
               /\ s_run_count' = s_run_count + 1
               /\ \/ /\ s_run_count' >= Iterations
                     /\ ServerEnds(1, "ok")
                     /\ UNCHANGED <<s_buffer_sent, s_sent_len>>
                  \/ /\ s_run_count' < Iterations
                     /\ tcp_server_send_data(1)
  /\ UNCHANGED s_freed

\* The client closed: recv with a null pbuf.
tcp_server_recv_closed ==
  /\ s_client /\ Arrived("server", "FIN")
  /\ ServerEnds(0, "failed")
  /\ UNCHANGED <<s_buffer_sent, s_buffer_recv, s_sent_len, s_run_count, s_freed>>

\* "no response is an error?"
tcp_server_poll ==
  /\ s_client /\ "timeout" \in faults
  /\ tcp_server_result("failed")
  /\ \E out \in Closings : Transmit("server", out)
  /\ UNCHANGED <<s_buffer_sent, s_buffer_recv, s_sent_len, s_run_count, s_freed>>

\* The connection was reset; lwIP has dropped it.
tcp_server_err ==
  /\ s_client /\ Arrived("server", "RST")
  /\ tcp_server_result("failed")
  /\ Exchange("server", 0, <<>>)
  /\ UNCHANGED <<s_buffer_sent, s_buffer_recv, s_sent_len, s_run_count, s_freed>>

\* lwIP, for a connection request nobody listens for or a closed connection.
ServerClosedArrival ==
  /\ ~ s_client
  /\ \/ Arrived("server", "SYN") /\ ~ s_listening /\ Exchange("server", 0, <<Entry("RST", 0, 0)>>)
     \/ ~ Arrived("server", "SYN") /\ ArrivesClosed("server")
  /\ UNCHANGED serverVars

\* The loop of run_tcp_server_test sees complete and frees the state.
run_tcp_server_test ==
  /\ s_complete /\ ~ s_freed
  /\ s_freed' = TRUE
  /\ UNCHANGED <<s_listening, s_client, s_complete, s_buffer_sent, s_buffer_recv,
                 s_sent_len, s_run_count, s_result, linkVars>>

ServerCallback ==
  \/ tcp_server_accept \/ tcp_server_sent \/ tcp_server_recv
  \/ tcp_server_recv_closed \/ tcp_server_err \/ ServerClosedArrival
ServerNext ==
  \/ ServerCallback \/ tcp_server_poll \/ run_tcp_server_test
  \/ DelayedAck("server") /\ UNCHANGED serverVars

=============================================================================
