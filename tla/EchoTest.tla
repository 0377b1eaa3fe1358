------------------------------ MODULE EchoTest ------------------------------
(***************************************************************************)
(* What the TCP server and client examples promise together: rounds of     *)
(* echo, each verified by the server before the client counts it, so that  *)
(* the two never differ by more than one and a client that reports success *)
(* has talked to a server that reports it too.  Either side may give up.   *)
(***************************************************************************)
EXTENDS Naturals

CONSTANT Iterations   \* TEST_ITERATIONS

VARIABLES
  verified,   \* rounds the server has compared
  counted,    \* rounds the client has counted
  sResult,    \* "none", "ok" or "failed"
  cResult

vars == <<verified, counted, sResult, cResult>>

Init ==
  /\ verified = 0 /\ counted = 0
  /\ sResult = "none" /\ cResult = "none"

\* A round verified; the server may be unable to send the next buffer.
Verify ==
  /\ sResult = "none" /\ verified = counted
  /\ verified' = verified + 1
  /\ sResult' \in IF verified' = Iterations THEN {"ok"} ELSE {"none", "failed"}
  /\ UNCHANGED <<counted, cResult>>

Count ==
  /\ cResult = "none" /\ counted < verified
  /\ counted' = counted + 1
  /\ cResult' = IF counted' = Iterations THEN "ok" ELSE "none"
  /\ UNCHANGED <<verified, sResult>>

ServerFails ==
  /\ sResult = "none" /\ sResult' = "failed"
  /\ UNCHANGED <<verified, counted, cResult>>

ClientFails ==
  /\ cResult = "none" /\ cResult' = "failed"
  /\ UNCHANGED <<verified, counted, sResult>>

Next == Verify \/ Count \/ ServerFails \/ ClientFails

Spec == Init /\ [][Next]_vars

=============================================================================
