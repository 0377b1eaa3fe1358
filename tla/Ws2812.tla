------------------------------- MODULE Ws2812 -------------------------------
(***************************************************************************)
(* The whole of pio/ws2812/ws2812_parallel: the double buffer and the DMA   *)
(* of Ws2812Parallel, carrying the bits that Ws2812Dither computes, so that *)
(* what the strips are sent can be compared with the light asked for.       *)
(***************************************************************************)
EXTENDS Ws2812Parallel, Ws2812Dither, Integers

CONSTANTS
  Data,         \* colour bytes of the patterns
  Scales,       \* frac_brightness of the strips, 256 is 1.0
  Brightness    \* frac_brightness of the frames

Colours == {transform(d, s, b) : d \in Data, s \in Scales, b \in Brightness}

\* At most 255 * 1.0 * (0x20 << FRAC_BITS) / 256 in 8 + FRAC_BITS bits: the planes hold a
\* colour and the fraction that is added to it.
ASSUME LightAssumption ==
  /\ Data \subseteq Nat /\ Scales \subseteq Nat /\ Brightness \subseteq Nat
  /\ \A c \in Colours : c + Unit <= Span[0]

VARIABLES
  colors,    \* the frame asked for, as numbers
  bits,      \* what is in states, as numbers
  asked,     \* ghost: the colour each value of the two halves was computed for
  owed       \* ghost: light asked for and not sent, in fractions, since the pattern began;
             \* the last frame of a pattern is not counted

allvars == <<vars, colors, bits, asked, owed>>

-----------------------------------------------------------------------------

Transform ==
  /\ transform_strips /\ colors' \in [Index -> Colours]
  /\ UNCHANGED <<bits, asked, owed>>

\* The fraction left over is that of the other half.
Dither ==
  /\ dither_values
  /\ bits' = [bits EXCEPT ![current][v] =
                NumberOf(add_error(PlanesOf(colors[v]), PlanesOf(bits[1 - current][v])))]
  /\ asked' = [asked EXCEPT ![current][v] = colors[v]]
  /\ UNCHANGED <<colors, owed>>

Clear ==
  /\ memset_states
  /\ LET Cleared(f) == [h \in Half |-> [x \in Index |-> IF states'[h][x] = 0 THEN 0 ELSE f[h][x]]]
     IN bits' = Cleared(bits) /\ asked' = Cleared(asked)
  /\ UNCHANGED <<colors, owed>>

\* The whole planes of one value go out to the strip.
Fragment ==
  /\ DmaFragment
  /\ LET x == Len(dma.sent) + 1
         whole == bits[dma.half][x] \div Unit
         more == asked[dma.half][x] - whole * Unit
     IN owed' = [owed EXCEPT ![x] = CASE dma.frame = 1 -> more
                                      [] dma.frame = Frames -> 0
                                      [] OTHER -> @ + more]
  /\ UNCHANGED <<colors, bits, asked>>

Others ==
  /\ \/ sem_acquire_blocking \/ output_strips_dma
     \/ DmaEnd \/ dma_complete_handler \/ reset_delay_complete
  /\ UNCHANGED <<colors, bits, asked, owed>>

AllInit ==
  /\ Init
  /\ colors = [x \in Index |-> 0] /\ owed = [x \in Index |-> 0]
  /\ bits = [h \in Half |-> colors] /\ asked = bits

AllNext == Transform \/ Dither \/ Clear \/ Fragment \/ Others

\* main, the DMA, the interrupt and the alarm run.
AllSpec == AllInit /\ [][AllNext]_allvars /\ Fairness

-----------------------------------------------------------------------------
(* Properties. *)

\* Through all frames but the last of a pattern, whose values may be cleared on their way
\* out, each value of the strips keeps within one step of the light asked for: the
\* double buffer always carries on the fraction that the frame before did not send.
LightIsKept ==
  dma.frame < Frames => \A x \in DOMAIN dma.sent : owed[x] \in 0..(Unit - 1)

=============================================================================
