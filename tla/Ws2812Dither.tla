---------------------------- MODULE Ws2812Dither ----------------------------
(***************************************************************************)
(* The arithmetic of pio/ws2812/ws2812_parallel: a colour value is scaled   *)
(* by two brightnesses to 8 + FRAC_BITS bits, of which the strip is sent    *)
(* the upper 8; the fraction that was not sent is added to the next frame.  *)
(* The program keeps the bits in planes, one bit of every strip to a word,  *)
(* and adds with word operations; a strip's bits never meet another's, so   *)
(* one value of one strip stands for all.                                   *)
(***************************************************************************)
EXTENDS Naturals

CONSTANTS
  IntBits,      \* 8
  FRAC_BITS     \* 4

ASSUME PlanesAssumption == IntBits \in Nat /\ FRAC_BITS \in Nat

VALUE_PLANE_COUNT == IntBits + FRAC_BITS
Planes == 0..(VALUE_PLANE_COUNT - 1)       \* most significant first
Places == 0..VALUE_PLANE_COUNT

\* Bit operations of one strip.
Xor(a, b) == (a + b) % 2
And(a, b) == a * b
Or(a, b) == IF a + b = 0 THEN 0 ELSE 1

\* How many numbers the planes from p on can hold: 2^(VALUE_PLANE_COUNT - p).
Span[p \in Places] == IF p = VALUE_PLANE_COUNT THEN 1 ELSE 2 * Span[p + 1]

\* 1.0, 2^FRAC_BITS.
Unit == Span[IntBits]

\* The planes of a number, the number in the planes from each on, and in all of them.
PlanesOf(n) == [p \in Planes |-> (n \div Span[p + 1]) % 2]
Low(planes) ==
  LET low[p \in Places] == IF p = VALUE_PLANE_COUNT THEN 0 ELSE planes[p] * Span[p + 1] + low[p + 1]
  IN low
NumberOf(planes) == Low(planes)[0]

\* transform_strips: two fixed-point products.
transform(data, scale, brightness) == (((data * scale) \div 256) * brightness) \div 256

\* carry_plane when plane p is done: the fraction planes are added with carry, the
\* whole planes only take the carry that ripples through them.
Carries(s, e) ==
  LET carry[p \in Places] ==
        IF p = VALUE_PLANE_COUNT THEN 0
        ELSE IF p >= IntBits THEN Or(And(e[p], s[p]), And(carry[p + 1], Xor(s[p], e[p])))
                             ELSE And(carry[p + 1], s[p])
  IN carry

M_AddWithoutRipple(s, e) ==
  LET carry == Carries(s, e)
  IN [p \in Planes |-> IF p >= IntBits THEN Xor(Xor(e[p], s[p]), carry[p + 1]) ELSE s[p]]

add_error(s, e) ==
  LET carry == Carries(s, e)
  IN [p \in Planes |-> Xor(IF p >= IntBits THEN Xor(e[p], s[p]) ELSE s[p], carry[p + 1])]

=============================================================================
