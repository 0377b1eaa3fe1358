------------------------------- MODULE TcpLink -------------------------------
(***************************************************************************)
(* The TCP connection between the two ends of an example, as lwIP shows it *)
(* to their callbacks: bytes arrive in order and once, a buffer arrives in *)
(* as many pbufs as it has segments, and an acknowledgement is sent after  *)
(* the recv callback of what it acknowledges, at the latest in front of    *)
(* the next thing the same end sends.  A segment that acknowledges and     *)
(* carries data is two entries: lwIP calls sent before recv.               *)
(***************************************************************************)
EXTENDS Integers, Sequences

CONSTANTS
  Parts,      \* segments a buffer of BUF_SIZE bytes is sent in
  Iterations, \* TEST_ITERATIONS, the rounds of a test
  FaultSets   \* what may go wrong: subsets of {"timeout", "reset", "memory"}

ASSUME PartsAssumption == Parts \in Nat \ {0}
ASSUME RoundsAssumption == Iterations \in Nat \ {0}
ASSUME FaultsAssumption == FaultSets \subseteq SUBSET {"timeout", "reset", "memory"}

Ends == {"server", "client"}
Peer(x) == IF x = "server" THEN "client" ELSE "server"

VARIABLES
  faults, \* what may go wrong in this execution
  wire,   \* end -> what is on its way to it
  owed    \* end -> parts it has received and not acknowledged

linkVars == <<faults, wire, owed>>

LinkInit ==
  /\ faults \in FaultSets
  /\ wire = [x \in Ends |-> <<>>]
  /\ owed = [x \in Ends |-> 0]

Entry(type, n, part) == [type |-> type, n |-> n, part |-> part]
Ack(x) == IF owed[x] = 0 THEN <<>> ELSE <<Entry("ACK", owed[x], 0)>>
Buffer(b) == [k \in 1..Parts |-> Entry("DATA", b, k)]

Arrived(x, type) == wire[x] # <<>> /\ Head(wire[x]).type = type

\* End x takes what has arrived and sends something back.
Exchange(x, acked, out) ==
  LET toPeer == IF out = <<>> THEN <<>>
                ELSE (IF owed[x] + acked = 0 THEN <<>> ELSE <<Entry("ACK", owed[x] + acked, 0)>>) \o out
  IN  /\ wire' = [wire EXCEPT ![x] = IF @ = <<>> THEN @ ELSE Tail(@), ![Peer(x)] = @ \o toPeer]
      /\ owed' = [owed EXCEPT ![x] = IF out = <<>> THEN @ + acked ELSE 0]
      /\ UNCHANGED faults

\* End x sends out of a callback that consumes nothing.
Transmit(x, out) ==
  /\ wire' = [wire EXCEPT ![Peer(x)] = @ \o Ack(x) \o out]
  /\ owed' = [owed EXCEPT ![x] = 0]
  /\ UNCHANGED faults

\* tcp_close, or tcp_abort when there is no memory to close.
Closings == {<<Entry("FIN", 0, 0)>>} \cup
            (IF "memory" \in faults THEN {<<Entry("RST", 0, 0)>>} ELSE {})

\* The delayed-acknowledgement timer.
DelayedAck(x) == owed[x] > 0 /\ Transmit(x, <<>>)

\* The connection is lost on both sides.
Reset ==
  /\ "reset" \in faults
  /\ wire' = [x \in Ends |-> <<Entry("RST", 0, 0)>>]
  /\ owed' = [x \in Ends |-> 0]
  /\ UNCHANGED faults

\* What arrives at an end that has closed: data is answered with a reset, for
\* not all of it will be processed.
ArrivesClosed(x) ==
  /\ wire[x] # <<>>
  /\ wire' = [wire EXCEPT ![x] = Tail(@),
                ![Peer(x)] = IF Arrived(x, "DATA") THEN Append(@, Entry("RST", 0, 0)) ELSE @]
  /\ UNCHANGED <<faults, owed>>

=============================================================================
