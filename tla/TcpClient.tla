------------------------------ MODULE TcpClient ------------------------------
(***************************************************************************)
(* The TCP client example (pico_w/wifi/tcp_client): it sends back every    *)
(* full buffer it receives and counts a round when the echo is             *)
(* acknowledged.  One action per lwIP callback.                            *)
(***************************************************************************)
EXTENDS TcpLink

VARIABLES
  c_pcb,                        \* tcp_pcb # NULL
  c_connected, c_buffer, c_sent_len, c_complete, c_run_count,
  c_result,                     \* the status given to tcp_result
  c_freed                       \* run_tcp_client_test has freed the state

clientVars == <<c_pcb, c_connected, c_buffer, c_sent_len, c_complete, c_run_count,
                c_result, c_freed>>

ClientInit ==
  /\ c_pcb = FALSE /\ c_connected = FALSE /\ c_buffer = <<>> /\ c_sent_len = 0
  /\ c_complete = FALSE /\ c_run_count = 0 /\ c_result = "none" /\ c_freed = FALSE

\* complete is not set.
M_ResultForgetsComplete(status) ==
  /\ UNCHANGED c_complete /\ c_result' = status /\ c_pcb' = FALSE

\* tcp_result with tcp_client_close.
tcp_result(status) ==
  /\ c_complete' = TRUE /\ c_result' = status /\ c_pcb' = FALSE

ClientEnds(acked, status) ==
  /\ tcp_result(status)
  /\ \E out \in Closings : Exchange("client", acked, out)

\* Callbacks registered and the connection requested; no pcb ends the test.
tcp_client_open ==
  /\ ~ c_pcb /\ ~ c_complete
  /\ c_buffer' = <<>>
  /\ \/ c_pcb' = TRUE /\ Transmit("client", <<Entry("SYN", 0, 0)>>)
        /\ UNCHANGED <<c_complete, c_result>>
     \/ "memory" \in faults /\ tcp_result("failed") /\ UNCHANGED linkVars
  /\ UNCHANGED <<c_connected, c_sent_len, c_run_count, c_freed>>

tcp_client_connected ==
  /\ c_pcb /\ Arrived("client", "SYNACK")
  /\ c_connected' = TRUE
  /\ Exchange("client", 0, <<>>)
  /\ UNCHANGED <<c_pcb, c_buffer, c_sent_len, c_complete, c_run_count, c_result, c_freed>>

\* A round counted for every acknowledgement, whole or not.
M_SentCountsEveryAck ==
  /\ c_pcb /\ Arrived("client", "ACK")
  /\ c_run_count' = c_run_count + 1
  /\ c_buffer' = <<>> /\ c_sent_len' = 0
  /\ IF c_run_count' >= Iterations THEN ClientEnds(0, "ok")
     ELSE Exchange("client", 0, <<>>) /\ UNCHANGED <<c_pcb, c_complete, c_result>>
  /\ UNCHANGED <<c_connected, c_freed>>

\* A whole echo acknowledged: the round counts, and the buffer is free again.
tcp_client_sent ==
  /\ c_pcb /\ Arrived("client", "ACK")
  /\ LET sent == c_sent_len + Head(wire["client"]).n
     IN  \/ /\ sent < Parts
            /\ c_sent_len' = sent
            /\ Exchange("client", 0, <<>>)
            /\ UNCHANGED <<c_run_count, c_buffer, c_pcb, c_complete, c_result>>
         \/ /\ sent >= Parts /\ c_run_count + 1 >= Iterations
            /\ c_run_count' = c_run_count + 1 /\ c_sent_len' = sent
            /\ ClientEnds(0, "ok")
            /\ UNCHANGED c_buffer
         \/ /\ sent >= Parts /\ c_run_count + 1 < Iterations
            /\ c_run_count' = c_run_count + 1
            /\ c_buffer' = <<>> /\ c_sent_len' = 0
            /\ Exchange("client", 0, <<>>)
            /\ UNCHANGED <<c_pcb, c_complete, c_result>>
  /\ UNCHANGED <<c_connected, c_freed>>

\* Data: the part that fits is copied, a full buffer is written back.
tcp_client_recv ==
  /\ c_pcb /\ Arrived("client", "DATA")
  /\ LET got  == Append(c_buffer, Head(wire["client"]))
         data == SubSeq(got, 1, IF Len(got) < Parts THEN Len(got) ELSE Parts)
     IN  /\ c_buffer' = data
         /\ \/ /\ Exchange("client", 1, IF Len(data) = Parts THEN data ELSE <<>>)
               /\ UNCHANGED <<c_pcb, c_complete, c_result>>
            \/ /\ Len(data) = Parts /\ "memory" \in faults
               /\ ClientEnds(1, "failed")
  /\ UNCHANGED <<c_connected, c_sent_len, c_run_count, c_freed>>

tcp_client_recv_closed ==
  /\ c_pcb /\ Arrived("client", "FIN")
  /\ ClientEnds(0, "failed")
  /\ UNCHANGED <<c_connected, c_buffer, c_sent_len, c_run_count, c_freed>>

\* The poll timer runs from tcp_client_open on, connected or not.
tcp_client_poll ==
  /\ c_pcb /\ "timeout" \in faults
  /\ tcp_result("failed")
  /\ \E out \in Closings : Transmit("client", out)
  /\ UNCHANGED <<c_connected, c_buffer, c_sent_len, c_run_count, c_freed>>

\* The connection was refused or reset; lwIP has dropped it.
tcp_client_err ==
  /\ c_pcb /\ Arrived("client", "RST")
  /\ tcp_result("failed")
  /\ Exchange("client", 0, <<>>)
  /\ UNCHANGED <<c_connected, c_buffer, c_sent_len, c_run_count, c_freed>>

ClientClosedArrival ==
  /\ ~ c_pcb /\ ArrivesClosed("client")
  /\ UNCHANGED clientVars

run_tcp_client_test ==
  /\ c_complete /\ ~ c_freed
  /\ c_freed' = TRUE
  /\ UNCHANGED <<c_pcb, c_connected, c_buffer, c_sent_len, c_complete, c_run_count,
                 c_result, linkVars>>

ClientCallback ==
  \/ tcp_client_connected \/ tcp_client_sent \/ tcp_client_recv
  \/ tcp_client_recv_closed \/ tcp_client_err \/ ClientClosedArrival
ClientNext ==
  \/ tcp_client_open \/ ClientCallback \/ tcp_client_poll \/ run_tcp_client_test
  \/ DelayedAck("client") /\ UNCHANGED clientVars

=============================================================================
