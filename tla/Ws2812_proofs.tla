---------------------------- MODULE Ws2812_proofs ----------------------------
(***************************************************************************)
(* ws2812_parallel, proved for frames of any size, patterns of any even     *)
(* length, values of any number of planes: the double buffer first, then   *)
(* the adder of the planes, then the light that the two together keep.     *)
(***************************************************************************)
EXTENDS Ws2812, FiniteSetTheorems, WellFoundedInduction, TLAPS

-----------------------------------------------------------------------------
(* The double buffer. *)

Parity(n) == n % 2

\* Which half main works on follows from the number of the frame, and what is
\* being sent is the other one; the last frame of a pattern, of even number,
\* was in half 1, so that the next pattern may start with half 0.
Halves ==
  /\ at # "clear" => current = 1 - Parity(i)
  /\ at = "clear" => i = Frames /\ dma.frame = Frames /\ dma.half = 1
  /\ at \in {"transform", "dither", "acquire"} /\ dma.on => dma.half = 1 - current

\* What the halves hold while the frame is computed and after.
Computed ==
  /\ at \in {"transform", "dither"} => \A x \in Index : states[1 - current][x] = i - 1
  /\ at = "dither" => v \in Index /\ \A x \in Index : x < v => states[current][x] = i
  /\ at \in {"acquire", "output"} => \A x \in Index : states[current][x] = i
  /\ at = "clear" => \A x \in Index : /\ x < v => states[0][x] = 0
                                      /\ x + Values < v => states[1][x] = 0

\* The half that is being sent holds the frame to its end.
Sending ==
  dma.frame < Frames =>
    /\ EveryFrameIntact
    /\ dma.on => \A x \in Index : states[dma.half][x] = dma.frame

Inv == TypeOK /\ OnePermit /\ Halves /\ Computed /\ Sending

LEMMA Sizes == Values \in Nat \ {0} /\ Frames \in Nat \ {0}
  BY SizeAssumption

LEMMA ParityFacts ==
  /\ Parity(1) = 1 /\ Parity(Frames) = 0
  /\ \A n \in Nat : Parity(n) \in 0..1 /\ Parity(n + 1) = 1 - Parity(n)
  BY SizeAssumption DEF Parity

LEMMA InvInit == Init => Inv
<1> SUFFICES ASSUME Init PROVE Inv
  OBVIOUS
<1> USE DEF Init
<1>1. TypeOK
  <2>1. states \in [Half -> [Index -> 0..Frames]]
    BY Sizes
  <2>2. /\ dma \in [on : BOOLEAN, half : Half, frame : 0..Frames, sent : Seq(0..Frames)]
        /\ Len(dma.sent) <= Values
    BY Sizes DEF Half
  <2>3. /\ at = "transform" /\ i \in 1..Frames /\ current \in Half /\ v \in 1..(2 * Values)
        /\ sem \in 0..1
    BY Sizes DEF Half
  <2>4. alarm \in BOOLEAN /\ irq \in BOOLEAN
    OBVIOUS
  <2> QED
    BY <2>1, <2>2, <2>3, <2>4 DEF TypeOK
<1>2. OnePermit
  BY DEF OnePermit, One
<1>3. Halves
  BY ParityFacts DEF Halves
<1>4. Computed /\ Sending
  BY DEF Computed, Sending, EveryFrameIntact, Half
<1> QED
  BY <1>1, <1>2, <1>3, <1>4 DEF Inv

LEMMA InvTransform == Inv /\ transform_strips => Inv'
<1> SUFFICES ASSUME Inv, transform_strips PROVE Inv'
  OBVIOUS
<1> USE DEF transform_strips
<1>1. TypeOK'
  BY Sizes DEF Inv, TypeOK, Half, Index
<1>2. OnePermit'
  BY DEF Inv, TypeOK, OnePermit, One
<1>3. Halves'
  BY Sizes, ParityFacts DEF Inv, TypeOK, OnePermit, One, Halves, Half
<1>4. Computed'
  BY Sizes DEF Inv, TypeOK, Computed, Half, Index
<1>5. Sending'
  BY Sizes DEF Inv, TypeOK, OnePermit, One, Halves, Computed, Sending, EveryFrameIntact, Half, Index
<1> QED
  BY <1>1, <1>2, <1>3, <1>4, <1>5 DEF Inv

LEMMA InvDither == Inv /\ dither_values => Inv'
<1> SUFFICES ASSUME Inv, dither_values PROVE Inv'
  OBVIOUS
<1>1. /\ at = "dither" /\ current \in Half /\ i \in 1..Frames /\ v \in Index
      /\ states \in [Half -> [Index -> 0..Frames]]
      /\ 1 - current \in Half /\ 1 - current # current
      /\ \A x \in Index : states[1 - current][x] = i - 1
      /\ \A x \in Index : x < v => states[current][x] = i
      /\ dma.on => dma.half = 1 - current
  BY DEF Inv, TypeOK, Computed, Halves, Half, dither_values
<1>2. /\ states' = [states EXCEPT ![current][v] = i]
      /\ UNCHANGED <<i, current, sem, alarm, irq, dma>>
      /\ \/ v = Values /\ at' = "acquire" /\ v' = v
         \/ v # Values /\ at' = "dither" /\ v' = v + 1
  BY <1>1 DEF dither_values
<1>3. i \in 0..Frames
  BY <1>1, Sizes
<1>4. /\ states' \in [Half -> [Index -> 0..Frames]]
      /\ \A x \in Index : states'[1 - current][x] = states[1 - current][x]
      /\ \A x \in Index : x <= v => states'[current][x] = i
  <2>1. states'[current] = [states[current] EXCEPT ![v] = i]
    BY <1>1, <1>2
  <2>2. states'[1 - current] = states[1 - current]
    BY <1>1, <1>2
  <2>3. states' \in [Half -> [Index -> 0..Frames]]
    BY <1>1, <1>2, <1>3
  <2>4. \A x \in Index : x <= v => x < v \/ x = v
    BY <1>1 DEF Index
  <2> QED
    BY <1>1, <2>1, <2>2, <2>3, <2>4
<1>5. TypeOK' /\ OnePermit'
  <2>1. v' \in 1..(2 * Values) /\ at' \in {"acquire", "dither"}
    <3>1. Values \in Nat /\ v \in 1..Values
      BY <1>1, Sizes DEF Index
    <3>2. v' \in {v, v + 1}
      BY <1>2
    <3>3. v' = v + 1 => v # Values
      BY <1>2, <3>1
    <3>4. v' \in 1..(2 * Values)
      BY <3>1, <3>2, <3>3
    <3> QED
      BY <1>2, <3>4
  <2>2. TypeOK'
    BY <1>1, <1>2, <1>4, <2>1 DEF Inv, TypeOK
  <2> QED
    BY <1>1, <1>2, <2>1, <2>2 DEF Inv, OnePermit, One
<1>6. Halves'
  BY <1>1, <1>2 DEF Inv, Halves
<1>7. Computed'
  <2>1. CASE v = Values
    BY <1>1, <1>2, <1>4, <2>1, Sizes DEF Computed, Index
  <2>2. CASE v # Values
    <3>1. /\ at' = "dither" /\ v' = v + 1 /\ v' \in Index
          /\ \A x \in Index : x < v' => x <= v
      <4>1. at' = "dither" /\ v' = v + 1 /\ v \in 1..Values /\ Values \in Nat
        BY <1>1, <1>2, <2>2, Sizes DEF Index
      <4>2. v' \in Index
        BY <2>2, <4>1 DEF Index
      <4>3. \A x \in Index : x < v' => x <= v
        BY <4>1 DEF Index
      <4> QED
        BY <4>1, <4>2, <4>3
    <3>2. /\ current' = current /\ i' = i
          /\ \A x \in Index : states[1 - current][x] = i - 1
      BY <1>1, <1>2 DEF Inv, Computed
    <3>3. /\ \A x \in Index : states'[1 - current'][x] = i' - 1
          /\ \A x \in Index : x < v' => states'[current'][x] = i'
      BY <1>4, <3>1, <3>2
    <3> QED
      BY <3>1, <3>3, Zenon DEF Computed
  <2> QED
    BY <2>1, <2>2
<1>8. Sending'
  BY <1>1, <1>2, <1>4 DEF Inv, Sending, EveryFrameIntact
<1> QED
  BY <1>5, <1>6, <1>7, <1>8 DEF Inv

LEMMA InvAcquire == Inv /\ sem_acquire_blocking => Inv'
<1> SUFFICES ASSUME Inv, sem_acquire_blocking PROVE Inv'
  OBVIOUS
<1> USE DEF sem_acquire_blocking
<1>1. TypeOK'
  BY Sizes DEF Inv, TypeOK, Half, Index
<1>2. OnePermit'
  BY DEF Inv, TypeOK, OnePermit, One
<1>3. Halves'
  BY Sizes, ParityFacts DEF Inv, TypeOK, OnePermit, One, Halves, Half
<1>4. Computed'
  BY Sizes DEF Inv, TypeOK, Computed, Half, Index
<1>5. Sending'
  BY Sizes DEF Inv, TypeOK, OnePermit, One, Halves, Computed, Sending, EveryFrameIntact, Half, Index
<1> QED
  BY <1>1, <1>2, <1>3, <1>4, <1>5 DEF Inv

LEMMA InvOutput == Inv /\ output_strips_dma => Inv'
<1> SUFFICES ASSUME Inv, output_strips_dma PROVE Inv'
  OBVIOUS
<1>1. /\ at = "output" /\ i \in 1..Frames /\ current \in 0..1 /\ current = 1 - Parity(i)
      /\ \A x \in Index : states[current][x] = i
  BY DEF Inv, TypeOK, Halves, Computed, Half, output_strips_dma
<1>2. /\ dma' = [on |-> TRUE, half |-> current, frame |-> i, sent |-> <<>>]
      /\ current' = 1 - current /\ UNCHANGED <<states, sem, alarm, irq>>
      /\ \/ i = Frames /\ at' = "clear" /\ v' = 1 /\ i' = i
         \/ i # Frames /\ at' = "transform" /\ i' = i + 1 /\ v' = v
  BY DEF output_strips_dma
<1>3. 1 - current' = current /\ current' \in 0..1
  BY <1>1, <1>2
<1>4. TypeOK' /\ OnePermit'
  BY <1>1, <1>2, <1>3, Sizes DEF Inv, TypeOK, OnePermit, One, Half
<1>5. Halves'
  <2>1. CASE i = Frames
    BY <1>1, <1>2, <2>1, Sizes, ParityFacts DEF Halves
  <2>2. CASE i # Frames
    <3>1. Parity(i + 1) = 1 - Parity(i) /\ Parity(i) \in 0..1
      BY <1>1, ParityFacts
    <3>2. at' = "transform" /\ i' = i + 1 /\ dma'.half = current
      BY <1>2, <2>2
    <3> QED
      BY <1>1, <1>2, <1>3, <3>1, <3>2 DEF Halves
  <2> QED
    BY <2>1, <2>2
<1>6. Computed'
  <2>1. CASE i = Frames
    BY <1>2, <2>1, Sizes DEF Computed, Index
  <2>2. CASE i # Frames
    <3>1. at' = "transform" /\ i' - 1 = i
      BY <1>1, <1>2, <2>2
    <3> QED
      BY <1>1, <1>2, <1>3, <3>1 DEF Computed
  <2> QED
    BY <2>1, <2>2
<1>7. Sending'
  BY <1>1, <1>2 DEF Sending, EveryFrameIntact
<1> QED
  BY <1>4, <1>5, <1>6, <1>7 DEF Inv

LEMMA InvClear == Inv /\ memset_states => Inv'
<1> SUFFICES ASSUME Inv, memset_states PROVE Inv'
  OBVIOUS
<1>1. /\ at = "clear" /\ i = Frames /\ dma.frame = Frames /\ dma.half = 1
      /\ UNCHANGED <<sem, alarm, irq, dma>>
      /\ states \in [Half -> [Index -> 0..Frames]] /\ v \in 1..(2 * Values)
  BY DEF Inv, TypeOK, Halves, memset_states
<1>2. \/ v = 2 * Values /\ at' = "transform" /\ i' = 1 /\ current' = 0 /\ v' = v
      \/ v # 2 * Values /\ v' = v + 1 /\ at' = "clear" /\ i' = i /\ current' = current
  BY <1>1 DEF memset_states
<1>3. /\ states' \in [Half -> [Index -> 0..Frames]]
      /\ \A x \in Index : /\ x <= v => states'[0][x] = 0
                          /\ x + Values <= v => states'[1][x] = 0
  <2>1. \A x \in Index : /\ x < v => states[0][x] = 0
                         /\ x + Values < v => states[1][x] = 0
    BY <1>1 DEF Inv, Computed
  <2>2. CASE v <= Values /\ states' = [states EXCEPT ![0][v] = 0]
    BY <1>1, <2>1, <2>2, Sizes DEF Half, Index
  <2>3. CASE ~ (v <= Values) /\ states' = [states EXCEPT ![1][v - Values] = 0]
    BY <1>1, <2>1, <2>3, Sizes DEF Half, Index
  <2> QED
    BY <2>2, <2>3 DEF memset_states
<1>4. CASE v = 2 * Values
  <2>1. at' = "transform" /\ i' = 1 /\ current' = 0 /\ v' = v
    BY <1>2, <1>4
  <2>2. \A x \in Index : states'[1][x] = 0
    BY <1>3, <1>4, Sizes DEF Index
  <2>3. TypeOK' /\ OnePermit'
    BY <1>1, <1>3, <2>1, Sizes DEF Inv, TypeOK, OnePermit, One, Half
  <2>4. Halves'
    BY <1>1, <2>1, ParityFacts DEF Halves
  <2>5. Computed' /\ Sending'
    BY <1>1, <2>1, <2>2, Sizes DEF Computed, Sending
  <2> QED
    BY <2>3, <2>4, <2>5 DEF Inv
<1>5. CASE v # 2 * Values
  <2>1. at' = "clear" /\ v' = v + 1 /\ i' = i /\ current' = current
    BY <1>2, <1>5
  <2>2. TypeOK' /\ OnePermit'
    BY <1>1, <1>3, <1>5, <2>1, Sizes DEF Inv, TypeOK, OnePermit, One
  <2>3. Halves'
    BY <1>1, <2>1 DEF Halves
  <2>4. \A x \in Index : (x < v' => x <= v) /\ (x + Values < v' => x + Values <= v)
    BY <1>1, <2>1, Sizes DEF Index
  <2>5. Computed' /\ Sending'
    BY <1>1, <1>3, <2>1, <2>4, Sizes DEF Computed, Sending
  <2> QED
    BY <2>2, <2>3, <2>5 DEF Inv
<1> QED
  BY <1>4, <1>5

LEMMA InvFragment == Inv /\ DmaFragment => Inv'
<1> SUFFICES ASSUME Inv, DmaFragment PROVE Inv'
  OBVIOUS
<1> USE DEF DmaFragment
<1>1. TypeOK'
  <2>1. /\ dma \in [on : BOOLEAN, half : Half, frame : 0..Frames, sent : Seq(0..Frames)]
        /\ Len(dma.sent) + 1 \in Index
    BY Sizes DEF Inv, TypeOK, Index
  <2>2. states[dma.half][Len(dma.sent) + 1] \in 0..Frames
    BY <2>1 DEF Inv, TypeOK
  <2>3. dma'.sent \in Seq(0..Frames) /\ Len(dma'.sent) <= Values
    BY <2>1, <2>2, Sizes DEF Index
  <2>4. dma' \in [on : BOOLEAN, half : Half, frame : 0..Frames, sent : Seq(0..Frames)]
    BY <2>1, <2>3
  <2> QED
    BY <2>3, <2>4 DEF Inv, TypeOK
<1>2. OnePermit'
  BY DEF Inv, TypeOK, OnePermit, One
<1>3. Halves'
  BY Sizes, ParityFacts DEF Inv, TypeOK, OnePermit, One, Halves, Half
<1>4. Computed'
  BY Sizes DEF Inv, TypeOK, Computed, Half, Index
<1>5. Sending'
  <2> SUFFICES ASSUME dma.frame < Frames PROVE EveryFrameIntact' /\ Sending'
    BY DEF Sending
  <2>1. dma.sent \in Seq(0..Frames) /\ Len(dma.sent) + 1 \in Index
    BY Sizes DEF Inv, TypeOK, Index
  <2>2. /\ \A x \in DOMAIN dma.sent : dma.sent[x] = dma.frame
        /\ \A x \in Index : states[dma.half][x] = dma.frame
    BY DEF Inv, Sending, EveryFrameIntact
  <2>3. dma'.sent = Append(dma.sent, dma.frame)
    BY <2>1, <2>2 DEF Inv, TypeOK
  <2>4. dma'.frame = dma.frame /\ dma'.half = dma.half /\ UNCHANGED states
    BY DEF Inv, TypeOK
  <2>5. \A x \in DOMAIN dma'.sent : dma'.sent[x] = dma.frame
    BY <2>1, <2>2, <2>3
  <2> QED
    BY <2>2, <2>4, <2>5 DEF Sending, EveryFrameIntact
<1> QED
  BY <1>1, <1>2, <1>3, <1>4, <1>5 DEF Inv

LEMMA InvEnd == Inv /\ DmaEnd => Inv'
<1> SUFFICES ASSUME Inv, DmaEnd PROVE Inv'
  OBVIOUS
<1> USE DEF DmaEnd
<1>1. TypeOK'
  BY Sizes DEF Inv, TypeOK, Half, Index
<1>2. OnePermit'
  BY DEF Inv, TypeOK, OnePermit, One
<1>3. Halves'
  BY Sizes, ParityFacts DEF Inv, TypeOK, OnePermit, One, Halves, Half
<1>4. Computed'
  BY Sizes DEF Inv, TypeOK, Computed, Half, Index
<1>5. Sending'
  BY Sizes DEF Inv, TypeOK, OnePermit, One, Halves, Computed, Sending, EveryFrameIntact, Half, Index
<1> QED
  BY <1>1, <1>2, <1>3, <1>4, <1>5 DEF Inv

LEMMA InvInterrupt == Inv /\ dma_complete_handler => Inv'
<1> SUFFICES ASSUME Inv, dma_complete_handler PROVE Inv'
  OBVIOUS
<1> USE DEF dma_complete_handler
<1>1. TypeOK'
  BY Sizes DEF Inv, TypeOK, Half, Index
<1>2. OnePermit'
  BY DEF Inv, TypeOK, OnePermit, One
<1>3. Halves'
  BY Sizes, ParityFacts DEF Inv, TypeOK, OnePermit, One, Halves, Half
<1>4. Computed'
  BY Sizes DEF Inv, TypeOK, Computed, Half, Index
<1>5. Sending'
  BY Sizes DEF Inv, TypeOK, OnePermit, One, Halves, Computed, Sending, EveryFrameIntact, Half, Index
<1> QED
  BY <1>1, <1>2, <1>3, <1>4, <1>5 DEF Inv

LEMMA InvAlarm == Inv /\ reset_delay_complete => Inv'
<1> SUFFICES ASSUME Inv, reset_delay_complete PROVE Inv'
  OBVIOUS
<1> USE DEF reset_delay_complete
<1>1. TypeOK'
  <2>1. sem' = 1 /\ 1 \in 0..1
    OBVIOUS
  <2>2. alarm' \in BOOLEAN
    OBVIOUS
  <2> QED
    BY <2>1, <2>2 DEF Inv, TypeOK
<1>2. OnePermit'
  BY DEF Inv, TypeOK, OnePermit, One
<1>3. Halves'
  BY Sizes, ParityFacts DEF Inv, TypeOK, OnePermit, One, Halves, Half
<1>4. Computed'
  BY Sizes DEF Inv, TypeOK, Computed, Half, Index
<1>5. Sending'
  BY Sizes DEF Inv, TypeOK, OnePermit, One, Halves, Computed, Sending, EveryFrameIntact, Half, Index
<1> QED
  BY <1>1, <1>2, <1>3, <1>4, <1>5 DEF Inv

LEMMA InvNext == Inv /\ [Next]_vars => Inv'
<1> SUFFICES ASSUME Inv, [Next]_vars PROVE Inv'
  OBVIOUS
<1>1. CASE main
  BY <1>1, InvTransform, InvDither, InvAcquire, InvOutput, InvClear DEF main
<1>2. CASE DmaFragment \/ DmaEnd
  BY <1>2, InvFragment, InvEnd
<1>3. CASE dma_complete_handler \/ reset_delay_complete
  BY <1>3, InvInterrupt, InvAlarm
<1>4. CASE UNCHANGED vars
  BY <1>4 DEF vars, Inv, TypeOK, OnePermit, One, Halves, Computed, Sending, EveryFrameIntact
<1> QED
  BY <1>1, <1>2, <1>3, <1>4 DEF Next

THEOREM Invariance == Spec => []Inv
  BY InvInit, InvNext, PTL DEF Spec

\* The variables of main, the handlers and the channels keep their types; the
\* semaphore never holds more than its one permit.
THEOREM TypeCorrect == Spec => []TypeOK
  BY Invariance, PTL DEF Inv

\* There is one permit, and a frame is sent only when it is free: the frame before
\* is out, its interrupt served, its reset delay over.
THEOREM PermitIsOne == Spec => []OnePermit
  BY Invariance, PTL DEF Inv

\* No frame is computed into the half that is being sent, for any even number of
\* frames to a pattern.
THEOREM Aside == Spec => []ComputedAside
<1>1. Inv => ComputedAside
  BY DEF Inv, TypeOK, Halves, ComputedAside, Half
<1> QED
  BY <1>1, Invariance, PTL

\* A value's error is the one the frame before left.
THEOREM ErrorsCarried == Spec => []ErrorCarried
<1>1. Inv => ErrorCarried
  BY DEF Inv, Computed, ErrorCarried
<1> QED
  BY <1>1, Invariance, PTL

\* All frames but the last of a pattern reach the strips as they were computed.
THEOREM Intact == Spec => []FramesIntact
<1>1. Inv => FramesIntact
  BY DEF Inv, Sending, FramesIntact
<1> QED
  BY <1>1, Invariance, PTL

-----------------------------------------------------------------------------
(* Induction from a place down to 0. *)

LEMMA LeastNatural ==
  ASSUME NEW T, T \subseteq Nat, T # {}
  PROVE  \E n \in T : \A m \in T : n <= m
<1> DEFINE U == {0..t : t \in T}
           R == StrictSubsetOrdering(Nat)
           F == FiniteSubsetsOf(Nat)
<1>1. IsWellFoundedOn(R, F)
  BY FS_StrictSubsetOrderingWellFounded
<1>2. \A t \in T : IsFiniteSet(0..t) /\ 0..t \in SUBSET Nat
  BY FS_Interval
<1>3. U \subseteq F /\ U # {}
  BY <1>2 DEF FiniteSubsetsOf
<1> HIDE DEF U, R, F
<1>4. \E x \in U : \A y \in U : ~ (<<y, x>> \in R)
  BY <1>1, <1>3, WFMin
<1>5. PICK n \in T : \A m \in T : ~ (<<0..m, 0..n>> \in R)
  BY <1>4 DEF U
<1>6. \A m \in T : n <= m
  <2> SUFFICES ASSUME NEW m \in T, m < n PROVE FALSE
    OBVIOUS
  <2>0. m \in Nat /\ n \in Nat
    OBVIOUS
  <2>1. 0..m \subseteq 0..n /\ n \in 0..n /\ n \notin 0..m
    BY <2>0
  <2>2. 0..m \in SUBSET Nat /\ 0..n \in SUBSET Nat
    BY <2>0
  <2>3. <<0..m, 0..n>> \in R
    BY <2>1, <2>2 DEF R, StrictSubsetOrdering
  <2> QED BY <1>5, <2>3
<1> QED BY <1>6

\* What holds at n, and below each place where it holds, holds from 0 to n.
LEMMA Downward ==
  ASSUME NEW n \in Nat, NEW T, n \in T,
         \A p \in 0..(n - 1) : p + 1 \in T => p \in T
  PROVE  0..n \subseteq T
<1> DEFINE B == {k \in 0..n : n - k \notin T}
<1> SUFFICES ASSUME B # {} PROVE FALSE
  <2> SUFFICES ASSUME NEW p \in 0..n, p \notin T PROVE B # {}
    OBVIOUS
  <2>1. n - p \in 0..n /\ n - (n - p) = p
    OBVIOUS
  <2>2. n - p \in B
    BY <2>1
  <2> QED BY <2>2
<1>1. PICK k \in B : \A m \in B : k <= m
  <2>1. B \subseteq Nat
    OBVIOUS
  <2> QED BY <2>1, LeastNatural
<1>2. k \in 0..n /\ n - k \notin T
  OBVIOUS
<1>3. k # 0
  BY <1>2
<1>4. k - 1 \in 0..n /\ k - 1 \notin B
  BY <1>1, <1>2, <1>3
<1>5. n - (k - 1) \in T
  BY <1>4
<1>6. n - k \in 0..(n - 1) /\ (n - k) + 1 = n - (k - 1)
  BY <1>2, <1>3
<1> QED BY <1>2, <1>5, <1>6

\* A function of 0..n given at n, and below it by its value one place above.
Steps(n, V) == [0..(n - 1) -> [V -> V]]
GoesDown(g, n, V, c, step) ==
  /\ g \in [0..n -> V] /\ g[n] = c
  /\ \A p \in 0..(n - 1) : g[p] = step[p][g[p + 1]]

LEMMA DownwardFunction ==
  ASSUME NEW n \in Nat, NEW V, NEW c \in V, NEW step \in Steps(n, V)
  PROVE  \E g : GoesDown(g, n, V, c, step)
<1> USE DEF Steps
<1> DEFINE Good(m, g) == g[n] = c /\ \A p \in m..(n - 1) : g[p] = step[p][g[p + 1]]
           T == {m \in 0..n : \E g \in [m..n -> V] : Good(m, g)}
<1>1. n \in T
  <2> DEFINE g == [x \in n..n |-> c]
  <2>1. g \in [n..n -> V] /\ Good(n, g)
    OBVIOUS
  <2> HIDE DEF g, Good
  <2>2. \E f \in [n..n -> V] : Good(n, f)
    BY <2>1
  <2> QED BY <2>2
<1>2. ASSUME NEW p \in 0..(n - 1), p + 1 \in T PROVE p \in T
  <2>1. PICK g \in [(p + 1)..n -> V] : Good(p + 1, g)
    BY <1>2
  <2> DEFINE h == [x \in p..n |-> IF x = p THEN step[p][g[p + 1]] ELSE g[x]]
  <2>2. p + 1 \in (p + 1)..n /\ step[p][g[p + 1]] \in V
    OBVIOUS
  <2>3. \A x \in p..n : x # p => x \in (p + 1)..n
    OBVIOUS
  <2>4. h \in [p..n -> V]
    BY <2>2, <2>3
  <2>5. h[n] = c
    BY <2>1, n \in p..n, n # p
  <2>6. ASSUME NEW q \in p..(n - 1) PROVE h[q] = step[q][h[q + 1]]
    <3>1. q \in p..n /\ q + 1 \in p..n /\ q + 1 # p
      OBVIOUS
    <3>2. h[q + 1] = g[q + 1]
      BY <3>1
    <3>3. CASE q = p
      BY <3>1, <3>2, <3>3
    <3>4. CASE q # p
      BY <2>1, <3>1, <3>2, <3>4, q \in (p + 1)..(n - 1)
    <3> QED BY <3>3, <3>4
  <2>7. Good(p, h)
    BY <2>5, <2>6
  <2> HIDE DEF h, Good
  <2>8. \E f \in [p..n -> V] : Good(p, f)
    BY <2>4, <2>7
  <2> QED BY <2>8
<1> HIDE DEF T
<1>3. 0 \in T
  BY <1>1, <1>2, Downward, 0 \in 0..n
<1>4. PICK g \in [0..n -> V] : Good(0, g)
  BY <1>3 DEF T
<1>5. GoesDown(g, n, V, c, step)
  BY <1>4 DEF GoesDown
<1> QED BY <1>5

-----------------------------------------------------------------------------
(* Arithmetic. *)

LEMMA DivMod ==
  ASSUME NEW n \in Nat, NEW d \in Nat \ {0}
  PROVE  n \div d \in Nat /\ n % d \in 0..(d - 1) /\ n = d * (n \div d) + (n % d)
  OBVIOUS

LEMMA DivUnique ==
  ASSUME NEW n \in Nat, NEW d \in Nat \ {0}, NEW q \in Nat, NEW r \in 0..(d - 1), n = d * q + r
  PROVE  q = n \div d /\ r = n % d
  OBVIOUS

\* The binary digit of weight d, and what is below it, is what is below the next digit.
LEMMA NextDigit ==
  ASSUME NEW n \in Nat, NEW d \in Nat \ {0}
  PROVE  ((n \div d) % 2) * d + (n % d) = n % (2 * d)
  OBVIOUS

-----------------------------------------------------------------------------
(* The recursive functions do what their bodies say. *)

P == VALUE_PLANE_COUNT

LEMMA PlacesAre ==
  P \in Nat /\ IntBits \in 0..P /\ Places = 0..P /\ Planes = 0..(P - 1)
BY PlanesAssumption DEF P, Places, Planes, VALUE_PLANE_COUNT

LEMMA SpanDef ==
  /\ Span \in [Places -> Nat \ {0}]
  /\ Span[P] = 1
  /\ \A p \in Planes : Span[p] = 2 * Span[p + 1]
<1> DEFINE V == Nat \ {0}
           step == [p \in 0..(P - 1) |-> [y \in V |-> 2 * y]]
           Body(f) == [p \in Places |-> IF p = P THEN 1 ELSE 2 * f[p + 1]]
           one == 1
<1>1. PICK g : GoesDown(g, P, V, one, step)
  <2>1. P \in Nat /\ one \in V /\ step \in Steps(P, V)
    BY PlacesAre DEF Steps
  <2> HIDE DEF V, step, one
  <2> QED BY <2>1, DownwardFunction
<1>2. \A p \in 0..(P - 1) : p + 1 \in 0..P /\ p # P /\ g[p] = 2 * g[p + 1]
  <2> TAKE p \in 0..(P - 1)
  <2>1. p + 1 \in 0..P /\ p # P
    BY PlacesAre
  <2>2. g[p + 1] \in V
    BY <1>1, <2>1 DEF GoesDown
  <2>3. step[p][g[p + 1]] = 2 * g[p + 1]
    BY <2>2
  <2> QED BY <1>1, <2>1, <2>3 DEF GoesDown
<1>3. g = Body(g)
  BY <1>1, <1>2, PlacesAre DEF GoesDown
<1>4. Span = CHOOSE f : f = Body(f)
  BY DEF Span, P
<1>5. Span = Body(Span)
  BY <1>3, <1>4
<1> HIDE DEF Body
<1>6. \A p \in Places : Span[p] = IF p = P THEN 1 ELSE 2 * Span[p + 1]
  BY <1>5 DEF Body
<1>7. Places \subseteq {p \in Places : Span[p] \in V}
  <2> DEFINE T == {p \in Places : Span[p] \in V}
  <2>1. P \in T
    BY <1>6, PlacesAre
  <2>2. \A p \in 0..(P - 1) : p + 1 \in T => p \in T
    BY <1>6, PlacesAre
  <2> HIDE DEF T
  <2>3. 0..P \subseteq T
    BY <2>1, <2>2, PlacesAre, Downward
  <2> QED BY <2>3, PlacesAre DEF T
<1>8. Span \in [Places -> V]
  <2>1. Span = [p \in Places |-> Span[p]]
    BY <1>5 DEF Body
  <2> QED BY <2>1, <1>7
<1> QED BY <1>6, <1>8, PlacesAre

BitPlanes == [Planes -> 0..1]

LEMMA LowDef ==
  ASSUME NEW s \in BitPlanes
  PROVE  /\ Low(s) \in [Places -> Nat]
         /\ Low(s)[P] = 0
         /\ \A p \in Planes : Low(s)[p] = s[p] * Span[p + 1] + Low(s)[p + 1]
<1> DEFINE low == Low(s)
           step == [p \in 0..(P - 1) |-> [y \in Nat |-> s[p] * Span[p + 1] + y]]
           Body(f) == [p \in Places |-> IF p = P THEN 0 ELSE s[p] * Span[p + 1] + f[p + 1]]
           zero == 0
<1>0. \A p \in 0..(P - 1) : p + 1 \in 0..P /\ p # P /\ s[p] * Span[p + 1] \in Nat
  <2> TAKE p \in 0..(P - 1)
  <2>1. p + 1 \in 0..P /\ p # P
    BY PlacesAre
  <2>2. s[p] \in 0..1 /\ Span[p + 1] \in Nat
    BY <2>1, PlacesAre, SpanDef DEF BitPlanes
  <2>3. \A x \in 0..1, y \in Nat : x * y \in Nat
    OBVIOUS
  <2> QED BY <2>1, <2>2, <2>3
<1>1. PICK g : GoesDown(g, P, Nat, zero, step)
  <2>1. P \in Nat /\ zero \in Nat /\ step \in Steps(P, Nat)
    BY <1>0, PlacesAre DEF Steps
  <2> HIDE DEF step, zero
  <2> QED BY <2>1, DownwardFunction
<1>2. \A p \in 0..(P - 1) : g[p] = s[p] * Span[p + 1] + g[p + 1]
  <2> TAKE p \in 0..(P - 1)
  <2>2. g[p + 1] \in Nat
    BY <1>1, <1>0 DEF GoesDown
  <2>3. step[p][g[p + 1]] = s[p] * Span[p + 1] + g[p + 1]
    BY <2>2
  <2> QED BY <1>1, <2>3 DEF GoesDown
<1>3. g = Body(g)
  BY <1>1, <1>2, <1>0, PlacesAre DEF GoesDown
<1>4. low = CHOOSE f : f = Body(f)
  BY DEF Low, P
<1> HIDE DEF low
<1>5. low = Body(low)
  BY <1>3, <1>4
<1> HIDE DEF Body
<1>6. \A p \in Places : low[p] = IF p = P THEN 0 ELSE s[p] * Span[p + 1] + low[p + 1]
  BY <1>5 DEF Body
<1>7. Places \subseteq {p \in Places : low[p] \in Nat}
  <2> DEFINE T == {p \in Places : low[p] \in Nat}
  <2>1. P \in T
    BY <1>6, PlacesAre
  <2>2. \A p \in 0..(P - 1) : p + 1 \in T => p \in T
    BY <1>6, <1>0, PlacesAre
  <2> HIDE DEF T
  <2>3. 0..P \subseteq T
    BY <2>1, <2>2, PlacesAre, Downward
  <2> QED BY <2>3, PlacesAre DEF T
<1>8. low \in [Places -> Nat]
  <2>1. low = [p \in Places |-> low[p]]
    BY <1>5 DEF Body
  <2> QED BY <2>1, <1>7
<1>9. low[P] = 0 /\ \A p \in Planes : low[p] = s[p] * Span[p + 1] + low[p + 1]
  BY <1>6, <1>0, PlacesAre
<1> QED BY <1>8, <1>9 DEF low

\* One carry bit.
CarryStep(s, e, p, c) ==
  IF p >= IntBits THEN Or(And(e[p], s[p]), And(c, Xor(s[p], e[p]))) ELSE And(c, s[p])

LEMMA CarryStepBit ==
  ASSUME NEW s \in BitPlanes, NEW e \in BitPlanes, NEW p \in Planes, NEW c \in 0..1
  PROVE  CarryStep(s, e, p, c) \in 0..1
<1>1. s[p] \in {0, 1} /\ e[p] \in {0, 1} /\ c \in {0, 1}
  BY DEF BitPlanes
<1>2. \A x, y \in {0, 1} : And(x, y) \in {0, 1} /\ Or(x, y) \in {0, 1} /\ Xor(x, y) \in {0, 1}
  BY DEF And, Or, Xor
<1>3. \A x \in {0, 1} : x \in 0..1
  OBVIOUS
<1> QED BY <1>1, <1>2, <1>3 DEF CarryStep

LEMMA CarriesDef ==
  ASSUME NEW s \in BitPlanes, NEW e \in BitPlanes
  PROVE  /\ Carries(s, e) \in [Places -> 0..1]
         /\ Carries(s, e)[P] = 0
         /\ \A p \in Planes : Carries(s, e)[p] = CarryStep(s, e, p, Carries(s, e)[p + 1])
<1> DEFINE carry == Carries(s, e)
           V == 0..1
           step == [p \in 0..(P - 1) |-> [y \in V |-> CarryStep(s, e, p, y)]]
           Body(f) == [p \in Places |-> IF p = P THEN 0 ELSE CarryStep(s, e, p, f[p + 1])]
           zero == 0
<1>0. \A p \in 0..(P - 1) : p + 1 \in 0..P /\ p # P /\ p \in Planes
  BY PlacesAre
<1>1. PICK g : GoesDown(g, P, V, zero, step)
  <2>1. P \in Nat /\ zero \in V /\ step \in Steps(P, V)
    BY <1>0, PlacesAre, CarryStepBit DEF Steps
  <2> HIDE DEF step, zero, V
  <2> QED BY <2>1, DownwardFunction
<1>2. \A p \in 0..(P - 1) : g[p] = CarryStep(s, e, p, g[p + 1])
  <2> TAKE p \in 0..(P - 1)
  <2>2. g[p + 1] \in V
    BY <1>1, <1>0 DEF GoesDown
  <2>3. step[p][g[p + 1]] = CarryStep(s, e, p, g[p + 1])
    BY <2>2
  <2> QED BY <1>1, <2>3 DEF GoesDown
<1>3. g = Body(g)
  BY <1>1, <1>2, <1>0, PlacesAre DEF GoesDown
<1>4. carry = CHOOSE f : f = Body(f)
  BY DEF Carries, CarryStep, P
<1> HIDE DEF carry
<1>5. carry = Body(carry)
  BY <1>3, <1>4
<1> HIDE DEF Body
<1>6. \A p \in Places : carry[p] = IF p = P THEN 0 ELSE CarryStep(s, e, p, carry[p + 1])
  BY <1>5 DEF Body
<1>7. Places \subseteq {p \in Places : carry[p] \in V}
  <2> DEFINE T == {p \in Places : carry[p] \in V}
  <2>1. P \in T
    BY <1>6, PlacesAre
  <2>2. \A p \in 0..(P - 1) : p + 1 \in T => p \in T
    BY <1>6, <1>0, PlacesAre, CarryStepBit
  <2> HIDE DEF T
  <2>3. 0..P \subseteq T
    BY <2>1, <2>2, PlacesAre, Downward
  <2> QED BY <2>3, PlacesAre DEF T
<1>8. carry \in [Places -> V]
  <2>1. carry = [p \in Places |-> carry[p]]
    BY <1>5 DEF Body
  <2> QED BY <2>1, <1>7
<1>9. carry[P] = 0 /\ \A p \in Planes : carry[p] = CarryStep(s, e, p, carry[p + 1])
  BY <1>6, <1>0, PlacesAre
<1> QED BY <1>8, <1>9 DEF carry

-----------------------------------------------------------------------------
(* The adder. *)

LEMMA PlanesOfBits ==
  ASSUME NEW n \in Nat
  PROVE  PlanesOf(n) \in BitPlanes
<1>1. \A p \in Planes : Span[p + 1] \in Nat \ {0}
  BY SpanDef, PlacesAre
<1>2. \A d \in Nat \ {0} : n \div d \in Nat
  BY DivMod
<1>3. \A x \in Nat : x % 2 \in 0..1
  OBVIOUS
<1> QED BY <1>1, <1>2, <1>3 DEF PlanesOf, BitPlanes

\* What the planes of a number hold below each plane is its remainder.
LEMMA LowOfPlanes ==
  ASSUME NEW n \in Nat, NEW q \in Places
  PROVE  Low(PlanesOf(n))[q] = n % Span[q]
<1> DEFINE s == PlanesOf(n)
           T == {p \in Places : Low(s)[p] = n % Span[p]}
<1>0. s \in BitPlanes
  BY PlanesOfBits
<1> HIDE DEF s
<1>1. P \in T
  <2>1. n % 1 = 0
    OBVIOUS
  <2> QED BY <2>1, <1>0, LowDef, SpanDef, PlacesAre
<1>2. ASSUME NEW p \in 0..(P - 1), p + 1 \in T PROVE p \in T
  <2>1. p \in Planes /\ p \in Places /\ p + 1 \in Places
    BY PlacesAre
  <2> DEFINE d == Span[p + 1]
  <2>2. d \in Nat \ {0} /\ Span[p] = 2 * d
    BY SpanDef, <2>1
  <2>3. s[p] = (n \div d) % 2
    BY <2>1 DEF s, PlanesOf
  <2>4. Low(s)[p] = s[p] * d + Low(s)[p + 1]
    BY <1>0, <2>1, LowDef
  <2>5. Low(s)[p + 1] = n % d
    BY <1>2
  <2> HIDE DEF d
  <2>6. Low(s)[p] = ((n \div d) % 2) * d + (n % d)
    BY <2>3, <2>4, <2>5
  <2>7. ((n \div d) % 2) * d + (n % d) = n % (2 * d)
    BY <2>2, NextDigit
  <2> QED BY <2>1, <2>2, <2>6, <2>7
<1> HIDE DEF T
<1>3. 0..P \subseteq T
  BY <1>1, <1>2, PlacesAre, Downward
<1> QED BY <1>3, PlacesAre DEF T, s

\* One plane of the adder.
LEMMA FullAdder ==
  ASSUME NEW s \in BitPlanes, NEW e \in BitPlanes, NEW p \in Planes
  PROVE  /\ add_error(s, e)[p] \in 0..1
         /\ (IF p >= IntBits THEN s[p] + e[p] ELSE s[p]) + Carries(s, e)[p + 1]
              = add_error(s, e)[p] + 2 * Carries(s, e)[p]
<1> DEFINE c == Carries(s, e)[p + 1]
           a == s[p]
           b == e[p]
           d == add_error(s, e)[p]
           r == Carries(s, e)[p]
<1>1. a \in {0, 1} /\ b \in {0, 1} /\ c \in {0, 1}
  <2>1. p + 1 \in Places
    BY PlacesAre
  <2>2. a \in 0..1 /\ b \in 0..1 /\ c \in 0..1
    BY <2>1, CarriesDef DEF BitPlanes
  <2> HIDE DEF a, b, c
  <2> QED BY <2>2
<1>2. d = Xor(IF p >= IntBits THEN Xor(b, a) ELSE a, c)
  BY DEF add_error
<1>3. r = CarryStep(s, e, p, c)
  BY CarriesDef
<1>4. r = IF p >= IntBits THEN Or(And(b, a), And(c, Xor(a, b))) ELSE And(c, a)
  BY <1>3 DEF CarryStep
<1> HIDE DEF a, b, c, d, r
<1>5. CASE p >= IntBits
  <2>1. d = Xor(Xor(b, a), c) /\ r = Or(And(b, a), And(c, Xor(a, b)))
    BY <1>2, <1>4, <1>5
  <2>2. d \in 0..1 /\ a + b + c = d + 2 * r
    BY ONLY <1>1, <2>1 DEF Xor, And, Or
  <2> QED BY <1>5, <2>2 DEF a, b, c, d, r
<1>6. CASE ~ (p >= IntBits)
  <2>1. d = Xor(a, c) /\ r = And(c, a)
    BY <1>2, <1>4, <1>6
  <2>2. d \in 0..1 /\ a + c = d + 2 * r
    BY ONLY <1>1, <2>1 DEF Xor, And
  <2> QED BY <1>6, <2>2 DEF a, b, c, d, r
<1> QED BY <1>5, <1>6

\* From each plane on, the sum is that of the two numbers but for the carry; the whole
\* planes have only the fraction of e to take.
LEMMA SumSoFar ==
  ASSUME NEW s \in BitPlanes, NEW e \in BitPlanes, NEW q \in Places
  PROVE  Low(s)[q] + Low(e)[IF q >= IntBits THEN q ELSE IntBits]
           = Low(add_error(s, e))[q] + Carries(s, e)[q] * Span[q]
<1> DEFINE d == add_error(s, e)
           c == Carries(s, e)
           Top(p) == IF p >= IntBits THEN p ELSE IntBits
           T == {p \in Places : Low(s)[p] + Low(e)[Top(p)] = Low(d)[p] + c[p] * Span[p]}
<1>0. d \in BitPlanes
  <2>1. d = [p \in Planes |-> d[p]]
    BY DEF add_error
  <2> QED BY <2>1, FullAdder DEF BitPlanes
<1> HIDE DEF d
<1>1. P \in T
  <2>1. Top(P) = P /\ c[P] = 0 /\ Low(s)[P] = 0 /\ Low(e)[P] = 0 /\ Low(d)[P] = 0 /\ Span[P] = 1
    BY <1>0, LowDef, SpanDef, CarriesDef, PlacesAre
  <2> HIDE DEF c
  <2> QED BY <2>1, PlacesAre
<1>2. ASSUME NEW p \in 0..(P - 1), p + 1 \in T PROVE p \in T
  <2>1. p \in Planes /\ p \in Places /\ p + 1 \in Places /\ p \in Int /\ IntBits \in Places
    BY PlacesAre
  <2> DEFINE S == Span[p + 1]
             L == Low(s)[p + 1]
             N == Low(d)[p + 1]
             x == s[p]
             z == d[p]
             k == c[p + 1]
             r == c[p]
  <2>2. S \in Nat /\ Span[p] = 2 * S
    BY SpanDef, <2>1
  <2>3. Low(s)[p] = x * S + L /\ Low(d)[p] = z * S + N /\ L \in Nat /\ N \in Nat
    BY <1>0, <2>1, LowDef
  <2>4. x \in 0..1 /\ z \in 0..1 /\ k \in 0..1 /\ r \in 0..1
    BY <1>0, <2>1, CarriesDef DEF BitPlanes
  <2>5. (IF p >= IntBits THEN x + e[p] ELSE x) + k = z + 2 * r
    BY <2>1, FullAdder DEF d
  <2>6. L + Low(e)[Top(p + 1)] = N + k * S
    BY <1>2
  <2>7. Low(s)[p] + Low(e)[Top(p)] = Low(d)[p] + r * (2 * S)
    <3>1. CASE p >= IntBits
      <4> DEFINE y == e[p]
                 M == Low(e)[p + 1]
      <4>1. Top(p) = p /\ Top(p + 1) = p + 1
        BY <3>1, PlacesAre
      <4>2. Low(e)[p] = y * S + M /\ M \in Nat /\ y \in 0..1
        BY <2>1, LowDef DEF BitPlanes
      <4>3. L + M = N + k * S /\ x + y + k = z + 2 * r
        BY <2>5, <2>6, <3>1, <4>1
      <4> HIDE DEF S, L, N, x, z, k, r, y, M
      <4>4. (x * S + L) + (y * S + M) = (z * S + N) + r * (2 * S)
        BY ONLY <2>2, <2>3, <2>4, <4>2, <4>3
      <4> HIDE DEF Top
      <4> QED BY <4>1, <4>2, <4>4, <2>3
    <3>2. CASE ~ (p >= IntBits)
      <4> DEFINE M == Low(e)[IntBits]
      <4>1. Top(p) = IntBits /\ Top(p + 1) = IntBits
        BY <3>2, PlacesAre
      <4>2. M \in Nat
        BY <2>1, LowDef
      <4>3. L + M = N + k * S /\ x + k = z + 2 * r
        BY <2>5, <2>6, <3>2, <4>1
      <4> HIDE DEF S, L, N, x, z, k, r, M
      <4>4. (x * S + L) + M = (z * S + N) + r * (2 * S)
        BY ONLY <2>2, <2>3, <2>4, <4>2, <4>3
      <4> HIDE DEF Top
      <4> QED BY <4>1, <4>4, <2>3 DEF M
    <3> QED BY <3>1, <3>2
  <2> HIDE DEF r, S, Top
  <2> QED BY <2>1, <2>2, <2>7 DEF r
<1> HIDE DEF T
<1>3. 0..P \subseteq T
  BY <1>1, <1>2, PlacesAre, Downward
<1>4. q \in T
  BY <1>3, PlacesAre
<1> QED BY <1>4 DEF T, d

\* What add_error does: while it fits the planes, the fraction of the other half is added.
LEMMA DitherAdds ==
  ASSUME NEW n \in Nat, NEW m \in Nat, n + Unit <= Span[0]
  PROVE  NumberOf(add_error(PlanesOf(n), PlanesOf(m))) = n + (m % Unit)
<1> DEFINE s == PlanesOf(n)
           e == PlanesOf(m)
           d == add_error(s, e)
           c == Carries(s, e)[0]
           sum == Low(d)[0]
           top == Span[0]
           f == m % Unit
<1>1. s \in BitPlanes /\ e \in BitPlanes
  BY PlanesOfBits
<1>2. d \in BitPlanes
  <2>1. d = [p \in Planes |-> d[p]]
    BY DEF add_error
  <2> HIDE DEF d, s, e
  <2> QED BY <1>1, <2>1, FullAdder DEF BitPlanes, d
<1>3. 0 \in Places /\ IntBits \in Places
  BY PlacesAre
<1>4. Low(s)[0] = n % top /\ Low(e)[IntBits] = f
  BY <1>3, LowOfPlanes DEF Unit
<1>5. (IF 0 >= IntBits THEN 0 ELSE IntBits) = IntBits
  BY PlacesAre
<1>6. Low(s)[0] + Low(e)[IntBits] = sum + c * top
  <2> HIDE DEF s, e
  <2>1. Low(s)[0] + Low(e)[IF 0 >= IntBits THEN 0 ELSE IntBits] = sum + c * top
    BY <1>1, <1>3, SumSoFar
  <2> QED BY <2>1, <1>5
<1>7. sum \in Nat /\ c \in 0..1 /\ top \in Nat \ {0} /\ Unit \in Nat \ {0}
  <2> HIDE DEF s, e, d
  <2> QED BY <1>1, <1>2, <1>3, LowDef, CarriesDef, SpanDef DEF Unit
<1>8. f \in 0..(Unit - 1) /\ n % top = n
  <2>1. n < top /\ \A a \in Nat, b \in Nat \ {0} : a < b => a % b = a
    BY <1>7
  <2>2. f \in 0..(Unit - 1)
    BY <1>7, DivMod
  <2> QED BY <1>7, <2>1, <2>2
<1>9. NumberOf(d) = sum
  BY DEF NumberOf
<1>10. n + f = sum + c * top
  BY <1>4, <1>6, <1>8
<1>11. n + Unit <= top
  OBVIOUS
<1> HIDE DEF s, e, d, c, sum, top, f
<1>12. sum = n + f
  <2>1. n + f < top
    BY ONLY <1>7, <1>8, <1>11, n \in Nat
  <2>2. c = 0
    BY ONLY <1>7, <1>8, <1>10, <2>1, n \in Nat
  <2> QED BY ONLY <2>2, <1>7, <1>8, <1>10, n \in Nat
<1> QED BY <1>9, <1>12 DEF d, s, e, f

-----------------------------------------------------------------------------
(* The light. *)

Counted ==
  /\ colors \in [Index -> Nat] /\ (at = "dither" => colors \in [Index -> Colours])
  /\ bits \in [Half -> [Index -> Nat]] /\ asked \in [Half -> [Index -> Nat]]
  /\ owed \in [Index -> Int]

\* A value that no frame has filled since it was cleared has no bits.
ClearedBits == \A h \in Half, x \in Index : states[h][x] = 0 => bits[h][x] = 0 /\ asked[h][x] = 0

\* The first frame of a pattern takes nothing over.
Owing(n, rest) == IF n = 1 THEN 0 ELSE rest

\* The new frame is the colours asked for and the fractions of the frame before.
Carried ==
  \A x \in Index : at \in {"acquire", "output"} \/ (at = "dither" /\ x < v) =>
     bits[current][x] = asked[current][x] + Owing(i, bits[1 - current][x] % Unit)

\* Until main sends the new frame, the DMA has the one before, in the other half.
Before ==
  /\ at # "clear" /\ i = 1 => dma.frame \in {0, Frames}
  /\ at # "clear" /\ i > 1 => dma.frame = i - 1 /\ dma.half = 1 - current
  /\ dma.frame = 0 => ~ dma.on /\ dma.sent = <<>>
  /\ dma.frame \in 1..(Frames - 1) /\ ~ dma.on => Len(dma.sent) = Values

\* A value that was sent owes its fraction; one still to be sent has in it what the
\* frame before owed.
Settled ==
  dma.frame \in 1..(Frames - 1) => \A x \in Index :
    IF x <= Len(dma.sent)
    THEN owed[x] = bits[dma.half][x] % Unit
    ELSE bits[dma.half][x] = asked[dma.half][x] + Owing(dma.frame, owed[x])

LightInv == Counted /\ ClearedBits /\ Carried /\ Before /\ Settled

LEMMA UnitType == Unit \in Nat \ {0}
  BY PlacesAre, SpanDef DEF Unit

LEMMA ColoursType == \A c \in Colours : c \in Nat /\ c + Unit <= Span[0]
<1>1. \A d, s, b \in Nat : transform(d, s, b) \in Nat
  <2> TAKE d, s, b \in Nat
  <2>1. d * s \in Nat
    OBVIOUS
  <2>2. (d * s) \div 256 \in Nat
    BY <2>1
  <2>3. ((d * s) \div 256) * b \in Nat
    BY <2>2
  <2> QED BY <2>3 DEF transform
<1> SUFFICES ASSUME NEW c \in Colours PROVE c \in Nat /\ c + Unit <= Span[0]
  OBVIOUS
<1>2. c + Unit <= Span[0]
  BY LightAssumption
<1>3. PICK d \in Data, s \in Scales, b \in Brightness : c = transform(d, s, b)
  BY DEF Colours
<1>4. d \in Nat /\ s \in Nat /\ b \in Nat
  BY LightAssumption
<1>5. c \in Nat
  BY <1>1, <1>3, <1>4
<1> QED BY <1>2, <1>5

LEMMA LightInit == AllInit => Init /\ LightInv
<1> SUFFICES ASSUME AllInit PROVE Init /\ LightInv
  OBVIOUS
<1> USE DEF AllInit, Init
<1>1. Counted
  BY DEF Counted, Index
<1>2. ClearedBits /\ Carried /\ Before /\ Settled
  BY Sizes DEF ClearedBits, Carried, Before, Settled, Half
<1> QED BY <1>1, <1>2 DEF LightInv


LEMMA LightTransform == Inv /\ LightInv /\ Transform => LightInv'
<1> SUFFICES ASSUME Inv, LightInv, Transform PROVE LightInv'
  OBVIOUS
<1> USE DEF Transform, transform_strips
<1>1. Counted'
  <2>1. colors' \in [Index -> Nat]
    BY ColoursType
  <2> QED BY <2>1 DEF LightInv, Counted
<1>2. ClearedBits'
  BY DEF LightInv, ClearedBits
<1>3. Carried'
  BY DEF Carried, Index
<1>4. Before' /\ Settled'
  BY DEF LightInv, Before, Settled
<1> QED BY <1>1, <1>2, <1>3, <1>4 DEF LightInv

LEMMA LightDither == Inv /\ LightInv /\ Dither => LightInv'
<1> SUFFICES ASSUME Inv, LightInv, Dither PROVE LightInv'
  OBVIOUS
<1> DEFINE c == colors[v]
           other == bits[1 - current][v]
           sum == NumberOf(add_error(PlanesOf(c), PlanesOf(other)))
<1>1. /\ at = "dither" /\ current \in Half /\ i \in 1..Frames /\ v \in Index
      /\ states \in [Half -> [Index -> 0..Frames]]
      /\ 1 - current \in Half /\ 1 - current # current
      /\ states[1 - current][v] = i - 1
  BY DEF Inv, TypeOK, Computed, Half, Dither, dither_values
<1>2. /\ states' = [states EXCEPT ![current][v] = i]
      /\ UNCHANGED <<i, current, dma, colors, owed>>
      /\ \/ v = Values /\ at' = "acquire" /\ v' = v
         \/ v # Values /\ at' = "dither" /\ v' = v + 1
  BY <1>1 DEF Dither, dither_values
<1>3. bits' = [bits EXCEPT ![current][v] = sum] /\ asked' = [asked EXCEPT ![current][v] = c]
  BY DEF Dither
<1>4. /\ bits \in [Half -> [Index -> Nat]] /\ asked \in [Half -> [Index -> Nat]]
      /\ colors \in [Index -> Colours]
  BY <1>1 DEF LightInv, Counted
<1>5. c \in Nat /\ other \in Nat /\ sum = c + (other % Unit) /\ other % Unit \in Nat
  <2>1. c \in Nat /\ other \in Nat /\ c + Unit <= Span[0]
    BY <1>1, <1>4, ColoursType
  <2> HIDE DEF c, other
  <2>2. other % Unit \in 0..(Unit - 1)
    BY <2>1, UnitType, DivMod
  <2>3. other % Unit \in Nat
    BY <2>2, UnitType
  <2>4. sum = c + (other % Unit)
    BY <2>1, DitherAdds
  <2> QED BY <2>1, <2>3, <2>4
<1> HIDE DEF c, other, sum
<1>6. sum \in Nat
  BY <1>5
<1>7. /\ bits' \in [Half -> [Index -> Nat]] /\ asked' \in [Half -> [Index -> Nat]]
      /\ bits'[current][v] = sum /\ asked'[current][v] = c
      /\ bits'[1 - current] = bits[1 - current] /\ asked'[1 - current] = asked[1 - current]
      /\ \A x \in Index : x # v => bits'[current][x] = bits[current][x] /\ asked'[current][x] = asked[current][x]
  <2>1. /\ bits' \in [Half -> [Index -> Nat]] /\ bits'[1 - current] = bits[1 - current]
        /\ bits'[current] = [bits[current] EXCEPT ![v] = sum]
    BY <1>1, <1>3, <1>4, <1>6
  <2>2. /\ asked' \in [Half -> [Index -> Nat]] /\ asked'[1 - current] = asked[1 - current]
        /\ asked'[current] = [asked[current] EXCEPT ![v] = c]
    BY <1>1, <1>3, <1>4, <1>5
  <2>3. bits[current] \in [Index -> Nat] /\ asked[current] \in [Index -> Nat]
    BY <1>1, <1>4
  <2> QED BY <1>1, <2>1, <2>2, <2>3
<1>8. Counted'
  BY <1>2, <1>4, <1>7 DEF LightInv, Counted
<1>9. ClearedBits'
  <2> SUFFICES ASSUME NEW h \in Half, NEW x \in Index, states'[h][x] = 0
               PROVE  bits'[h][x] = 0 /\ asked'[h][x] = 0
    BY DEF ClearedBits
  <2>1. ~ (h = current /\ x = v)
    BY <1>1, <1>2
  <2>2. states[h][x] = 0 /\ bits'[h][x] = bits[h][x] /\ asked'[h][x] = asked[h][x]
    BY <1>1, <1>2, <1>3, <1>4, <2>1
  <2> QED BY <2>2 DEF LightInv, ClearedBits
<1>10. Carried'
  <2>1. other % Unit = Owing(i, other % Unit)
    <3>1. CASE i = 1
      <4>1. other = 0
        BY <1>1, <3>1 DEF LightInv, ClearedBits, other
      <4>2. 0 % Unit = 0
        BY UnitType
      <4> QED BY <3>1, <4>1, <4>2 DEF Owing
    <3>2. CASE i # 1
      BY <3>2 DEF Owing
    <3> QED BY <3>1, <3>2
  <2>2. sum = c + Owing(i, other % Unit)
    BY <1>5, <2>1
  <2> SUFFICES ASSUME NEW x \in Index, at' = "acquire" \/ (at' = "dither" /\ x < v')
               PROVE  bits'[current][x] = asked'[current][x] + Owing(i, bits'[1 - current][x] % Unit)
    BY <1>2 DEF Carried
  <2>3. CASE x = v
    BY <1>7, <2>2, <2>3 DEF other
  <2>4. CASE x # v
    <3>1. x < v
      BY <1>1, <1>2, <2>4 DEF Index
    <3>2. bits[current][x] = asked[current][x] + Owing(i, bits[1 - current][x] % Unit)
      BY <1>1, <3>1 DEF LightInv, Carried
    <3> QED BY <1>7, <2>4, <3>2
  <2> QED BY <2>3, <2>4
<1>11. Before'
  BY <1>1, <1>2 DEF LightInv, Before
<1>12. Settled'
  <2>1. dma.frame \in 1..(Frames - 1) => dma.half = 1 - current
    BY <1>1, Sizes DEF LightInv, Before
  <2> QED BY <1>2, <1>7, <2>1 DEF LightInv, Settled
<1> QED BY <1>8, <1>9, <1>10, <1>11, <1>12 DEF LightInv

LEMMA LightClear == Inv /\ LightInv /\ Clear => LightInv'
<1> SUFFICES ASSUME Inv, LightInv, Clear PROVE LightInv'
  OBVIOUS
<1> DEFINE Wiped(f) == [h \in Half |-> [x \in Index |-> IF states'[h][x] = 0 THEN 0 ELSE f[h][x]]]
<1>1. /\ at = "clear" /\ dma.frame = Frames /\ dma' = dma /\ colors' = colors /\ owed' = owed
      /\ at' \in {"clear", "transform"}
      /\ at' = "transform" => i' = 1
  BY DEF Clear, memset_states, Inv, Halves
<1>2. bits' = Wiped(bits) /\ asked' = Wiped(asked)
  BY DEF Clear
<1>3. Counted'
  BY <1>1, <1>2 DEF LightInv, Counted
<1>4. ClearedBits'
  BY <1>2 DEF ClearedBits
<1>5. Carried' /\ Settled'
  BY <1>1, Sizes DEF Carried, Settled
<1>6. Before'
  BY <1>1, Sizes DEF Before
<1> QED BY <1>3, <1>4, <1>5, <1>6 DEF LightInv

\* A value that is sent owes what its whole planes did not give.
LEMMA Fraction ==
  ASSUME NEW b \in Nat, NEW a \in Nat, NEW r \in Int, b = a + r
  PROVE  r + (a - (b \div Unit) * Unit) = b % Unit
<1>1. b \div Unit \in Nat /\ b % Unit \in Nat /\ b = Unit * (b \div Unit) + (b % Unit)
  BY UnitType, DivMod
<1> DEFINE w == (b \div Unit)
           f == b % Unit
           u == Unit
<1>2. u \in Nat
  BY UnitType
<1> HIDE DEF w, f, u
<1>3. w \in Nat /\ f \in Nat /\ b = u * w + f
  BY <1>1 DEF w, f, u
<1>4. r + (a - w * u) = f
  BY <1>2, <1>3
<1> QED BY <1>4 DEF w, f, u

LEMMA LightFragment == Inv /\ LightInv /\ Fragment => LightInv'
<1> SUFFICES ASSUME Inv, LightInv, Fragment PROVE LightInv'
  OBVIOUS
<1> DEFINE x == Len(dma.sent) + 1
           b == bits[dma.half][x]
           a == asked[dma.half][x]
           more == a - (b \div Unit) * Unit
           new == CASE dma.frame = 1 -> more
                    [] dma.frame = Frames -> 0
                    [] OTHER -> owed[x] + more
<1>1. /\ dma.on /\ dma.half \in Half /\ dma.frame \in 0..Frames /\ dma.sent \in Seq(0..Frames)
      /\ dma = [on |-> dma.on, half |-> dma.half, frame |-> dma.frame, sent |-> dma.sent]
      /\ Len(dma.sent) \in Nat /\ x \in Index
      /\ states[dma.half][x] \in 0..Frames
  <2>1. Len(dma.sent) \in Nat /\ Len(dma.sent) < Values /\ dma.half \in Half
    BY DEF Fragment, DmaFragment, Inv, TypeOK
  <2>2. x \in Index
    BY <2>1, Sizes DEF Index
  <2> HIDE DEF x
  <2> QED BY <2>1, <2>2 DEF Fragment, DmaFragment, Inv, TypeOK
<1>2. /\ dma'.on = dma.on /\ dma'.half = dma.half /\ dma'.frame = dma.frame
      /\ dma'.sent = Append(dma.sent, states[dma.half][x])
      /\ UNCHANGED <<at, i, current, v, states, colors, bits, asked>>
  BY <1>1 DEF Fragment, DmaFragment
<1>3. Len(dma'.sent) = x
  BY <1>1, <1>2
<1>4. owed' = [owed EXCEPT ![x] = new]
  BY DEF Fragment
<1>5. owed \in [Index -> Int] /\ b \in Nat /\ a \in Nat /\ owed[x] \in Int /\ more \in Int
  <2>1. owed \in [Index -> Int] /\ b \in Nat /\ a \in Nat /\ owed[x] \in Int
    BY <1>1 DEF LightInv, Counted
  <2> HIDE DEF x, a, b
  <2>2. b \div Unit \in Nat /\ Unit \in Nat
    BY <2>1, UnitType, DivMod
  <2>3. (b \div Unit) * Unit \in Nat
    BY <2>2
  <2> QED BY <2>1, <2>3
<1>6. Frames # 1
  BY SizeAssumption
<1> HIDE DEF x, a, b, more
<1>7. /\ dma.frame = 1 => new = more
      /\ dma.frame = Frames => new = 0
      /\ dma.frame \notin {1, Frames} => new = owed[x] + more
  BY <1>6
<1> HIDE DEF new
<1>8. new \in Int /\ owed' \in [Index -> Int] /\ owed'[x] = new
  <2>1. new \in Int
    BY <1>5, <1>7
  <2> QED BY <1>1, <1>4, <1>5, <2>1
<1>9. Counted' /\ ClearedBits' /\ Carried'
  BY <1>2, <1>8 DEF LightInv, Counted, ClearedBits, Carried
<1>10. Before'
  BY <1>1, <1>2 DEF LightInv, Before
<1>11. Settled'
  <2> SUFFICES ASSUME dma.frame \in 1..(Frames - 1), NEW y \in Index
               PROVE  IF y <= x THEN owed'[y] = bits[dma.half][y] % Unit
                      ELSE bits[dma.half][y] = asked[dma.half][y] + Owing(dma.frame, owed'[y])
    BY <1>2, <1>3 DEF Settled
  <2>1. IF y <= Len(dma.sent) THEN owed[y] = bits[dma.half][y] % Unit
        ELSE bits[dma.half][y] = asked[dma.half][y] + Owing(dma.frame, owed[y])
    BY DEF LightInv, Settled
  <2>2. CASE y # x
    <3>1. (y <= x) <=> (y <= Len(dma.sent))
      BY <1>1, <2>2 DEF x, Index
    <3>2. owed'[y] = owed[y]
      BY <1>4, <1>5, <2>2
    <3> QED BY <2>1, <3>1, <3>2
  <2>3. CASE y = x
    <3>1. ~ (y <= Len(dma.sent)) /\ y <= x
      BY <1>1, <2>3 DEF x
    <3>2. b = a + Owing(dma.frame, owed[x])
      BY <2>1, <2>3, <3>1 DEF a, b
    <3>3. Owing(dma.frame, owed[x]) \in Int
      BY <1>5 DEF Owing
    <3>4. new = Owing(dma.frame, owed[x]) + more
      BY <1>5, <1>7, Sizes DEF Owing
    <3>5. Owing(dma.frame, owed[x]) + more = b % Unit
      <4> DEFINE r == Owing(dma.frame, owed[x])
      <4> HIDE DEF r
      <4>1. b = a + r /\ r \in Int
        BY <3>2, <3>3 DEF r
      <4>2. r + (a - (b \div Unit) * Unit) = b % Unit
        BY <1>5, <4>1, Fraction
      <4> QED BY <4>2 DEF r, more
    <3> QED BY <1>8, <2>3, <3>1, <3>4, <3>5 DEF b
  <2> QED BY <2>2, <2>3
<1> QED BY <1>9, <1>10, <1>11 DEF LightInv

LEMMA LightOutput ==
  Inv /\ LightInv /\ output_strips_dma /\ UNCHANGED <<colors, bits, asked, owed>> => LightInv'
<1> SUFFICES ASSUME Inv, LightInv, output_strips_dma, UNCHANGED <<colors, bits, asked, owed>>
             PROVE  LightInv'
  OBVIOUS
<1>1. /\ at = "output" /\ current \in Half /\ i \in 1..Frames /\ ~ dma.on
      /\ 1 - (1 - current) = current
  BY DEF Inv, TypeOK, OnePermit, One, output_strips_dma, Half
<1>2. /\ dma'.on /\ dma'.half = current /\ dma'.frame = i /\ dma'.sent = <<>>
      /\ current' = 1 - current /\ states' = states
      /\ \/ i = Frames /\ at' = "clear" /\ i' = i
         \/ i # Frames /\ at' = "transform" /\ i' = i + 1
  BY <1>1 DEF output_strips_dma
<1>3. Counted' /\ ClearedBits' /\ Carried'
  BY <1>2 DEF LightInv, Counted, ClearedBits, Carried
<1>4. Before'
  BY <1>1, <1>2, Sizes DEF Before
<1>5. Settled'
  <2> SUFFICES ASSUME i \in 1..(Frames - 1), NEW x \in Index
               PROVE  bits[current][x] = asked[current][x] + Owing(i, owed[x])
    <3>1. Len(dma'.sent) = 0
      BY <1>2
    <3>2. \A x \in Index : ~ (x <= 0)
      BY DEF Index
    <3> QED BY <1>2, <3>1, <3>2 DEF Settled
  <2>1. bits[current][x] = asked[current][x] + Owing(i, bits[1 - current][x] % Unit)
    BY <1>1 DEF LightInv, Carried
  <2>2. CASE i = 1
    BY <2>1, <2>2 DEF Owing
  <2>3. CASE i # 1
    <3>1. dma.frame = i - 1 /\ dma.half = 1 - current /\ dma.frame \in 1..(Frames - 1)
      BY <1>1, <2>3, Sizes DEF LightInv, Before
    <3>2. Len(dma.sent) = Values
      BY <1>1, <3>1 DEF LightInv, Before
    <3>3. x <= Len(dma.sent)
      BY <3>2, Sizes DEF Index
    <3>4. owed[x] = bits[1 - current][x] % Unit
      BY <3>1, <3>3 DEF LightInv, Settled
    <3> QED BY <2>1, <3>4
  <2> QED BY <2>2, <2>3
<1> QED BY <1>3, <1>4, <1>5 DEF LightInv

LEMMA LightOthers == Inv /\ LightInv /\ Others => LightInv'
<1> SUFFICES ASSUME Inv, LightInv, Others PROVE LightInv'
  OBVIOUS
<1>0. UNCHANGED <<colors, bits, asked, owed>>
  BY DEF Others
<1>1. CASE sem_acquire_blocking
  BY <1>0, <1>1 DEF sem_acquire_blocking, LightInv, Counted, ClearedBits, Carried, Before, Settled
<1>2. CASE output_strips_dma
  BY <1>0, <1>2, LightOutput
<1>3. CASE DmaEnd
  <2>1. /\ dma'.half = dma.half /\ dma'.frame = dma.frame /\ dma'.sent = dma.sent /\ dma'.on = FALSE
        /\ dma.on /\ Len(dma.sent) = Values
        /\ UNCHANGED <<at, i, current, v, states>>
    BY <1>3 DEF DmaEnd, Inv, TypeOK
  <2>2. Counted' /\ ClearedBits' /\ Carried' /\ Settled'
    BY <1>0, <2>1 DEF LightInv, Counted, ClearedBits, Carried, Settled
  <2>3. Before'
    BY <2>1 DEF LightInv, Before
  <2> QED BY <2>2, <2>3 DEF LightInv
<1>4. CASE dma_complete_handler \/ reset_delay_complete
  BY <1>0, <1>4 DEF dma_complete_handler, reset_delay_complete, LightInv, Counted, ClearedBits,
                    Carried, Before, Settled
<1> QED BY <1>1, <1>2, <1>3, <1>4 DEF Others

\* Every step of the whole example is one of the double buffer, or changes none of it.
LEMMA AllSteps == [AllNext]_allvars => [Next]_vars
  BY DEF AllNext, allvars, vars, Transform, Dither, Clear, Fragment, Others, Next, main

LEMMA LightNext == Inv /\ LightInv /\ [AllNext]_allvars => LightInv'
<1> SUFFICES ASSUME Inv, LightInv, [AllNext]_allvars PROVE LightInv'
  OBVIOUS
<1>1. CASE AllNext
  BY <1>1, LightTransform, LightDither, LightClear, LightFragment, LightOthers DEF AllNext
<1>2. CASE UNCHANGED allvars
  BY <1>2 DEF allvars, vars, LightInv, Counted, ClearedBits, Carried, Before, Settled
<1> QED BY <1>1, <1>2

\* The bits never change what the double buffer does.
THEOREM Refines == AllSpec => Spec
  BY LightInit, AllSteps, PTL DEF AllSpec, Spec

\* Over every frame of a pattern but the last, each value of the strips has been sent
\* all the light asked for but a fraction, which the next frame takes over.
THEOREM LightKept == AllSpec => []LightIsKept
<1>1. Inv /\ LightInv => LightIsKept
  <2> SUFFICES ASSUME Inv, LightInv, dma.frame < Frames, NEW x \in DOMAIN dma.sent
               PROVE  owed[x] \in 0..(Unit - 1)
    BY DEF LightIsKept
  <2>1. /\ dma.frame \in 0..Frames /\ dma.half \in Half /\ dma.sent \in Seq(0..Frames)
        /\ Len(dma.sent) <= Values /\ Len(dma.sent) \in Nat
    BY DEF Inv, TypeOK
  <2>2. x \in 1..Len(dma.sent)
    BY <2>1
  <2>3. x \in Index /\ x <= Len(dma.sent)
    BY <2>1, <2>2, Sizes DEF Index
  <2>4. dma.frame # 0
    BY <2>2 DEF LightInv, Before
  <2>5. owed[x] = bits[dma.half][x] % Unit
    BY <2>1, <2>3, <2>4, Sizes DEF LightInv, Settled
  <2>6. bits[dma.half][x] \in Nat
    BY <2>1, <2>3 DEF LightInv, Counted
  <2> QED BY <2>5, <2>6, UnitType, DivMod
<1>2. AllSpec => [](Inv /\ LightInv)
  <2>1. AllInit => Inv /\ LightInv
    BY LightInit, InvInit
  <2>2. Inv /\ LightInv /\ [AllNext]_allvars => Inv' /\ LightInv'
    BY AllSteps, InvNext, LightNext
  <2> QED BY <2>1, <2>2, PTL DEF AllSpec
<1> QED BY <1>1, <1>2, PTL

=============================================================================
