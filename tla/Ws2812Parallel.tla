--------------------------- MODULE Ws2812Parallel ---------------------------
(***************************************************************************)
(* pio/ws2812/ws2812_parallel: two strips of pixels refreshed by DMA.  main *)
(* computes the next frame into one half of states while the DMA sends the *)
(* other half, fragment by fragment; the interrupt at the end of the frame *)
(* sets an alarm for the reset delay of the strips, and the alarm posts    *)
(* the semaphore that lets main send again.                                *)
(*                                                                         *)
(* A value's content is the number, from 1, of the frame it was computed   *)
(* for; 0 is a cleared value.  Its bits are added in Ws2812.            *)
(***************************************************************************)
EXTENDS Naturals, Sequences

CONSTANTS
  Values,   \* value_length, NUM_PIXELS * 4
  Frames    \* frames of one pattern, 1000

\* 1000 is even: a pattern starts with current = 0 whatever buffer was sent last.
ASSUME SizeAssumption == Values \in Nat \ {0} /\ Frames \in Nat \ {0} /\ Frames % 2 = 0

VARIABLES
  at, i, current, v,      \* main: its step, frame, half of states and value
  states,                 \* the two halves
  sem,                    \* permits of reset_delay_complete_sem
  alarm,                  \* the reset delay is running (reset_delay_alarm_id)
  irq,                    \* DMA_IRQ_0 is pending
  dma                     \* what the channels are sending, and have sent of it

vars == <<at, i, current, v, states, sem, alarm, irq, dma>>

Half == 0..1
Index == 1..Values

-----------------------------------------------------------------------------
(* main *)

\* The pattern is drawn and transform_strips fills colors, which only main uses.
transform_strips ==
  /\ at = "transform" /\ at' = "dither" /\ v' = 1
  /\ UNCHANGED <<i, current, states, sem, alarm, irq, dma>>

\* Each value of the new frame takes the fraction that the frame before left over.
dither_values ==
  /\ at = "dither"
  /\ states' = [states EXCEPT ![current][v] = i]
  /\ IF v = Values THEN at' = "acquire" /\ UNCHANGED v ELSE v' = v + 1 /\ UNCHANGED at
  /\ UNCHANGED <<i, current, sem, alarm, irq, dma>>

sem_acquire_blocking ==
  /\ at = "acquire" /\ sem > 0
  /\ sem' = sem - 1 /\ at' = "output"
  /\ UNCHANGED <<i, current, v, states, alarm, irq, dma>>

M_OutputKeepsHalf ==
  /\ at = "output"
  /\ dma' = [on |-> TRUE, half |-> current, frame |-> i, sent |-> <<>>]
  /\ IF i = Frames THEN at' = "clear" /\ v' = 1 /\ UNCHANGED i
                   ELSE at' = "transform" /\ i' = i + 1 /\ UNCHANGED v
  /\ UNCHANGED <<current, states, sem, alarm, irq>>

\* The frame is handed to the chain channel, the halves change places, and after
\* the last frame of a pattern the errors are cleared.
output_strips_dma ==
  /\ at = "output"
  /\ dma' = [on |-> TRUE, half |-> current, frame |-> i, sent |-> <<>>]
  /\ current' = 1 - current
  /\ IF i = Frames THEN at' = "clear" /\ v' = 1 /\ UNCHANGED i
                   ELSE at' = "transform" /\ i' = i + 1 /\ UNCHANGED v
  /\ UNCHANGED <<states, sem, alarm, irq>>

\* memset walks over both halves, then the next pattern begins.
memset_states ==
  /\ at = "clear"
  /\ IF v <= Values THEN states' = [states EXCEPT ![0][v] = 0]
                    ELSE states' = [states EXCEPT ![1][v - Values] = 0]
  /\ IF v = 2 * Values
     THEN at' = "transform" /\ i' = 1 /\ current' = 0 /\ UNCHANGED v
     ELSE v' = v + 1 /\ UNCHANGED <<at, i, current>>
  /\ UNCHANGED <<sem, alarm, irq, dma>>

main ==
  \/ transform_strips \/ dither_values \/ sem_acquire_blocking
  \/ output_strips_dma \/ memset_states

-----------------------------------------------------------------------------
(* The DMA channels, the interrupt handler and the alarm. *)

\* The chain channel points the main channel to the next fragment, which is sent.
DmaFragment ==
  /\ dma.on /\ Len(dma.sent) < Values
  /\ dma' = [dma EXCEPT !.sent = Append(@, states[dma.half][Len(@) + 1])]
  /\ UNCHANGED <<at, i, current, v, states, sem, alarm, irq>>

\* The NULL behind the last fragment stops the chain and raises the interrupt.
DmaEnd ==
  /\ dma.on /\ Len(dma.sent) = Values
  /\ dma' = [dma EXCEPT !.on = FALSE] /\ irq' = TRUE
  /\ UNCHANGED <<at, i, current, v, states, sem, alarm>>

\* A pending alarm is replaced by the new one.
dma_complete_handler ==
  /\ irq /\ irq' = FALSE
  /\ alarm' = TRUE
  /\ UNCHANGED <<at, i, current, v, states, sem, dma>>

M_AlarmRepeats ==
  /\ alarm /\ alarm' = TRUE
  /\ UNCHANGED <<at, i, current, v, states, sem, irq, dma>>

\* sem_release stops at the one permit the semaphore was made for.
reset_delay_complete ==
  /\ alarm /\ alarm' = FALSE
  /\ sem' = 1
  /\ UNCHANGED <<at, i, current, v, states, irq, dma>>

-----------------------------------------------------------------------------

Init ==
  /\ at = "transform" /\ i = 1 /\ current = 0 /\ v = 1
  /\ states = [h \in Half |-> [x \in Index |-> 0]]
  /\ sem = 1 /\ alarm = FALSE /\ irq = FALSE
  /\ dma = [on |-> FALSE, half |-> 0, frame |-> 0, sent |-> <<>>]

Next == main \/ DmaFragment \/ DmaEnd \/ dma_complete_handler \/ reset_delay_complete

Fairness ==
  /\ WF_vars(main) /\ WF_vars(DmaFragment \/ DmaEnd)
  /\ WF_vars(dma_complete_handler) /\ WF_vars(reset_delay_complete)

Spec == Init /\ [][Next]_vars
FairSpec == Spec /\ Fairness

-----------------------------------------------------------------------------
(* Properties. *)

TypeOK ==
  /\ at \in {"transform", "dither", "acquire", "output", "clear"}
  /\ i \in 1..Frames /\ current \in Half /\ v \in 1..(2 * Values)
  /\ states \in [Half -> [Index -> 0..Frames]]
  /\ sem \in 0..1 /\ alarm \in BOOLEAN /\ irq \in BOOLEAN
  /\ dma \in [on : BOOLEAN, half : Half, frame : 0..Frames, sent : Seq(0..Frames)]
  /\ Len(dma.sent) <= Values

\* One permit goes round: main sends only when the frame before is out, its
\* interrupt is served and the reset delay is over, and the permit is never lost.
One(holds) == IF holds THEN 1 ELSE 0
OnePermit == sem + One(at = "output") + One(dma.on) + One(irq) + One(alarm) = 1

\* "double buffer the state of the pixel strip, since we update next version in
\* parallel with DMAing out old version": a frame is never computed into the half
\* that is being sent.
ComputedAside == dma.on /\ at = "dither" => dma.half # current

\* Dithering carries each value's error from one frame to the next, starting from
\* none with each pattern.
ErrorCarried == at = "dither" => states[1 - current][v] = i - 1

\* What the strips are sent is the frame as it was computed, whatever main does to
\* states meanwhile ...
EveryFrameIntact == \A x \in DOMAIN dma.sent : dma.sent[x] = dma.frame

\* ... which holds of all frames but the last of each pattern.
FramesIntact == dma.frame < Frames => EveryFrameIntact

\* Frame after frame is sent for ever.
KeepsSending == []<>(at = "output")

=============================================================================
