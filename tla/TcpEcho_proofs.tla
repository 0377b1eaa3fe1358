--------------------------- MODULE TcpEcho_proofs ---------------------------
(***************************************************************************)
(* For any number of segments in a buffer, of rounds, and whatever fails:  *)
(* the two ends implement the rounds of EchoTest, nothing is cut off at    *)
(* either end, and the verdicts agree.                                     *)
(***************************************************************************)
EXTENDS TcpEcho, TLAPS, SequenceTheorems

Msg == {m \in [type : {"SYN", "SYNACK", "ACK", "DATA", "FIN", "RST"}, n : Nat, part : Nat] :
          m.type = "ACK" => m.n # 0}

\* The parts acknowledged and the parts of data in the first i messages of q.
Counts(q, a, d) ==
  /\ a \in [0..Len(q) -> Nat] /\ d \in [0..Len(q) -> Nat]
  /\ a[0] = 0 /\ d[0] = 0
  /\ \A i \in 1..Len(q) :
       /\ a[i] = a[i - 1] + (IF q[i].type = "ACK" THEN q[i].n ELSE 0)
       /\ d[i] = d[i - 1] + (IF q[i].type = "DATA" THEN 1 ELSE 0)
  /\ \A i, j \in 0..Len(q) : i <= j => a[i] <= a[j] /\ d[i] <= d[j]

-----------------------------------------------------------------------------
(* Counting. *)

\* A message of a queue; an acknowledgement is of something.
LEMMA Elements ==
  ASSUME NEW q \in Seq(Msg), NEW i \in 1..Len(q)
  PROVE  q[i] \in Msg /\ q[i].n \in Nat /\ (q[i].type = "ACK" => q[i].n # 0)
<1>1. q[i] \in Msg
  OBVIOUS
<1> QED
  BY <1>1 DEF Msg

\* The counts of what follows the first message.
Taken(q, a, d, b, e) ==
  /\ Counts(Tail(q), b, e)
  /\ \A i \in 0..(Len(q) - 1) : b[i] = a[i + 1] - a[1] /\ e[i] = d[i + 1] - d[1]

\* Taking the first message.
LEMMA TakeCounts ==
  ASSUME NEW q \in Seq(Msg), q # <<>>, NEW a, NEW d, Counts(q, a, d)
  PROVE  \E b, e : Taken(q, a, d, b, e)
<1> DEFINE n == Len(q)
           b == [i \in 0..(n - 1) |-> a[i + 1] - a[1]]
           e == [i \in 0..(n - 1) |-> d[i + 1] - d[1]]
<1>1. n \in Nat \ {0} /\ Len(Tail(q)) = n - 1
  OBVIOUS
<1>2. \A i \in 1..(n - 1) : Tail(q)[i] = q[i + 1]
  OBVIOUS
<1> HIDE DEF n
<1>3. /\ a \in [0..n -> Nat] /\ d \in [0..n -> Nat]
      /\ \A i \in 1..n : /\ a[i] = a[i - 1] + (IF q[i].type = "ACK" THEN q[i].n ELSE 0)
                         /\ d[i] = d[i - 1] + (IF q[i].type = "DATA" THEN 1 ELSE 0)
      /\ \A i, j \in 0..n : i <= j => a[i] <= a[j] /\ d[i] <= d[j]
  BY DEF Counts, n
<1>4. ASSUME NEW i \in 0..(n - 1)
      PROVE  /\ i + 1 \in 0..n /\ 1 \in 0..n /\ 1 <= i + 1
             /\ a[i + 1] - a[1] \in Nat /\ d[i + 1] - d[1] \in Nat
  <2>1. i + 1 \in 0..n /\ 1 \in 0..n /\ 1 <= i + 1
    BY <1>1
  <2>2. a[1] \in Nat /\ a[i + 1] \in Nat /\ d[1] \in Nat /\ d[i + 1] \in Nat
        /\ a[1] <= a[i + 1] /\ d[1] <= d[i + 1]
    BY <1>3, <2>1
  <2> QED
    BY <2>1, <2>2
<1>5. b \in [0..(n - 1) -> Nat] /\ e \in [0..(n - 1) -> Nat]
  BY <1>4
<1>6. b[0] = 0 /\ e[0] = 0
  BY <1>1, <1>3
<1>7. ASSUME NEW i \in 1..(n - 1)
      PROVE  /\ b[i] = b[i - 1] + (IF q[i + 1].type = "ACK" THEN q[i + 1].n ELSE 0)
             /\ e[i] = e[i - 1] + (IF q[i + 1].type = "DATA" THEN 1 ELSE 0)
  <2>1. i \in 0..(n - 1) /\ i - 1 \in 0..(n - 1) /\ i + 1 \in 1..n /\ i \in 0..n /\ 1 \in 0..n
        /\ (i + 1) - 1 = i /\ (i - 1) + 1 = i /\ i + 1 \in 0..n
    BY <1>1
  <2>2. b[i] = a[i + 1] - a[1] /\ b[i - 1] = a[i] - a[1]
        /\ e[i] = d[i + 1] - d[1] /\ e[i - 1] = d[i] - d[1]
    BY <2>1
  <2>3. a[i + 1] = a[i] + (IF q[i + 1].type = "ACK" THEN q[i + 1].n ELSE 0)
        /\ d[i + 1] = d[i] + (IF q[i + 1].type = "DATA" THEN 1 ELSE 0)
    BY <1>3, <2>1
  <2>4. a[i] \in Nat /\ a[1] \in Nat /\ d[i] \in Nat /\ d[1] \in Nat
    BY <1>3, <2>1
  <2>5. q[i + 1] \in Msg /\ q[i + 1].n \in Nat
    BY <2>1, Elements DEF n
  <2> HIDE DEF b, e
  <2> QED
    BY <2>2, <2>3, <2>4, <2>5
<1>8. ASSUME NEW i \in 0..(n - 1), NEW j \in 0..(n - 1), i <= j
      PROVE  b[i] <= b[j] /\ e[i] <= e[j]
  <2>1. i + 1 \in 0..n /\ j + 1 \in 0..n /\ i + 1 <= j + 1 /\ 1 \in 0..n
    BY <1>1, <1>8
  <2>2. a[i + 1] <= a[j + 1] /\ d[i + 1] <= d[j + 1]
    BY <1>3, <2>1
  <2>3. a[i + 1] \in Nat /\ a[j + 1] \in Nat /\ d[i + 1] \in Nat /\ d[j + 1] \in Nat
        /\ a[1] \in Nat /\ d[1] \in Nat
    BY <1>3, <2>1
  <2>4. b[i] = a[i + 1] - a[1] /\ b[j] = a[j + 1] - a[1]
        /\ e[i] = d[i + 1] - d[1] /\ e[j] = d[j + 1] - d[1]
    OBVIOUS
  <2>5. PICK x, y, z, v, w, t : x = a[i + 1] /\ y = a[j + 1] /\ z = a[1]
                                /\ v = d[i + 1] /\ w = d[j + 1] /\ t = d[1]
    OBVIOUS
  <2> HIDE DEF b, e
  <2>6. x \in Nat /\ y \in Nat /\ z \in Nat /\ v \in Nat /\ w \in Nat /\ t \in Nat
        /\ x <= y /\ v <= w
    BY <2>2, <2>3, <2>5
  <2>7. x - z <= y - z /\ v - t <= w - t
    BY ONLY <2>6
  <2> QED
    BY <2>4, <2>5, <2>7
<1>9. \A i \in 0..(n - 1) : b[i] = a[i + 1] - a[1] /\ e[i] = d[i + 1] - d[1]
  OBVIOUS
<1> HIDE DEF b, e
<1>10. Counts(Tail(q), b, e)
  <2>1. \A i \in 1..(n - 1) :
          /\ b[i] = b[i - 1] + (IF Tail(q)[i].type = "ACK" THEN Tail(q)[i].n ELSE 0)
          /\ e[i] = e[i - 1] + (IF Tail(q)[i].type = "DATA" THEN 1 ELSE 0)
    BY <1>2, <1>7
  <2>2. Len(Tail(q)) = n - 1 /\ \A i, j \in 0..(n - 1) : i <= j => b[i] <= b[j] /\ e[i] <= e[j]
    BY <1>1, <1>8
  <2> QED
    BY <1>5, <1>6, <2>1, <2>2 DEF Counts
<1> QED
  BY <1>9, <1>10 DEF Taken, n

\* The counts of q and then of r.
Joined(q, r, a, d, b, e, f, g) ==
  /\ Counts(q \o r, f, g)
  /\ \A i \in 0..Len(q) : f[i] = a[i] /\ g[i] = d[i]
  /\ \A i \in 0..Len(r) : /\ f[Len(q) + i] = a[Len(q)] + b[i]
                          /\ g[Len(q) + i] = d[Len(q)] + e[i]

\* Adding messages behind.
LEMMA JoinCounts ==
  ASSUME NEW q \in Seq(Msg), NEW r \in Seq(Msg), NEW a, NEW d, NEW b, NEW e,
         Counts(q, a, d), Counts(r, b, e)
  PROVE  \E f, g : Joined(q, r, a, d, b, e, f, g)
<1> DEFINE m == Len(q)
           n == Len(r)
           f == [i \in 0..(m + n) |-> IF i <= m THEN a[i] ELSE a[m] + b[i - m]]
           g == [i \in 0..(m + n) |-> IF i <= m THEN d[i] ELSE d[m] + e[i - m]]
<1>1. m \in Nat /\ n \in Nat /\ Len(q \o r) = m + n
  OBVIOUS
<1>2. /\ \A i \in 1..m : (q \o r)[i] = q[i]
      /\ \A i \in (m + 1)..(m + n) : (q \o r)[i] = r[i - m]
  OBVIOUS
<1> HIDE DEF m, n
<1>3. /\ a \in [0..m -> Nat] /\ d \in [0..m -> Nat] /\ a[0] = 0 /\ d[0] = 0
      /\ \A i \in 1..m : /\ a[i] = a[i - 1] + (IF q[i].type = "ACK" THEN q[i].n ELSE 0)
                         /\ d[i] = d[i - 1] + (IF q[i].type = "DATA" THEN 1 ELSE 0)
      /\ \A i, j \in 0..m : i <= j => a[i] <= a[j] /\ d[i] <= d[j]
  BY DEF Counts, m
<1>4. /\ b \in [0..n -> Nat] /\ e \in [0..n -> Nat] /\ b[0] = 0 /\ e[0] = 0
      /\ \A i \in 1..n : /\ b[i] = b[i - 1] + (IF r[i].type = "ACK" THEN r[i].n ELSE 0)
                         /\ e[i] = e[i - 1] + (IF r[i].type = "DATA" THEN 1 ELSE 0)
      /\ \A i, j \in 0..n : i <= j => b[i] <= b[j] /\ e[i] <= e[j]
  BY DEF Counts, n
<1>5. a[m] \in Nat /\ d[m] \in Nat
  BY <1>1, <1>3
<1>6. ASSUME NEW i \in 0..m
      PROVE  f[i] = a[i] /\ g[i] = d[i] /\ f[i] \in Nat /\ g[i] \in Nat
             /\ f[i] <= a[m] /\ g[i] <= d[m]
  <2>1. i \in 0..(m + n) /\ i <= m /\ m \in 0..m
    BY <1>1
  <2>2. f[i] = a[i] /\ g[i] = d[i]
    BY <2>1
  <2> QED
    BY <1>3, <2>1, <2>2
<1>7. ASSUME NEW i \in m..(m + n)
      PROVE  /\ i - m \in 0..n /\ b[i - m] \in Nat /\ e[i - m] \in Nat
             /\ f[i] = a[m] + b[i - m] /\ g[i] = d[m] + e[i - m]
  <2>1. i - m \in 0..n /\ i \in 0..(m + n) /\ m \in 0..m
    BY <1>1
  <2>2. CASE i = m
    BY <1>4, <1>5, <1>6, <2>1, <2>2
  <2>3. CASE i # m
    <3>1. ~ (i <= m)
      BY <1>1, <2>3
    <3> QED
      BY <1>4, <2>1, <3>1
  <2> QED
    BY <2>2, <2>3
<1>8. f \in [0..(m + n) -> Nat] /\ g \in [0..(m + n) -> Nat] /\ f[0] = 0 /\ g[0] = 0
  <2>1. ASSUME NEW i \in 0..(m + n)
        PROVE  f[i] \in Nat /\ g[i] \in Nat
    <3>1. i \in 0..m \/ i \in m..(m + n)
      BY <1>1
    <3>2. CASE i \in 0..m
      BY <1>6, <3>2
    <3>3. CASE i \in m..(m + n)
      <4> HIDE DEF f, g
      <4>1. PICK x, y, z, w : x = a[m] /\ y = b[i - m] /\ z = d[m] /\ w = e[i - m]
        OBVIOUS
      <4>2. x \in Nat /\ y \in Nat /\ z \in Nat /\ w \in Nat /\ f[i] = x + y /\ g[i] = z + w
        BY <1>5, <1>7, <3>3, <4>1
      <4>3. x + y \in Nat /\ z + w \in Nat
        BY ONLY <4>2
      <4> QED
        BY <4>2, <4>3
    <3> QED
      BY <3>1, <3>2, <3>3
  <2>2. f = [i \in 0..(m + n) |-> f[i]] /\ g = [i \in 0..(m + n) |-> g[i]]
    OBVIOUS
  <2>3. f[0] = 0 /\ g[0] = 0
    BY <1>1, <1>3, <1>6
  <2> HIDE DEF f, g
  <2> QED
    BY <2>1, <2>2, <2>3
<1> HIDE DEF f, g
<1>9. ASSUME NEW i \in 1..(m + n)
      PROVE  /\ f[i] = f[i - 1] + (IF (q \o r)[i].type = "ACK" THEN (q \o r)[i].n ELSE 0)
             /\ g[i] = g[i - 1] + (IF (q \o r)[i].type = "DATA" THEN 1 ELSE 0)
  <2>1. CASE i \in 1..m
    <3>1. i \in 0..m /\ i - 1 \in 0..m
      BY <1>1, <2>1
    <3> QED
      BY <1>2, <1>3, <1>6, <2>1, <3>1
  <2>2. CASE i \in (m + 1)..(m + n)
    <3> DEFINE k == i - m
    <3>1. k \in 1..n /\ i \in m..(m + n) /\ i - 1 \in m..(m + n) /\ (i - 1) - m = k - 1
          /\ k - 1 \in 0..n
      BY <1>1, <2>2
    <3>2. f[i] = a[m] + b[k] /\ g[i] = d[m] + e[k]
      BY <1>7, <3>1
    <3>3. f[i - 1] = a[m] + b[k - 1] /\ g[i - 1] = d[m] + e[k - 1]
      BY <1>7, <3>1
    <3>4. (q \o r)[i] = r[k]
      BY <1>2, <2>2
    <3>5. b[k] = b[k - 1] + (IF r[k].type = "ACK" THEN r[k].n ELSE 0)
          /\ e[k] = e[k - 1] + (IF r[k].type = "DATA" THEN 1 ELSE 0)
      BY <1>4, <3>1
    <3>6. r[k] \in Msg /\ r[k].n \in Nat
      BY <3>1, Elements DEF n
    <3>7. b[k - 1] \in Nat /\ e[k - 1] \in Nat
      BY <1>4, <3>1
    <3> HIDE DEF k
    <3>8. PICK x, y, z, w, p, v : /\ x = a[m] /\ y = b[k - 1] /\ z = d[m] /\ w = e[k - 1]
                                  /\ p = (IF r[k].type = "ACK" THEN r[k].n ELSE 0)
                                  /\ v = (IF r[k].type = "DATA" THEN 1 ELSE 0)
      OBVIOUS
    <3>9. x \in Nat /\ y \in Nat /\ z \in Nat /\ w \in Nat /\ p \in Nat /\ v \in Nat
      BY <1>5, <3>6, <3>7, <3>8
    <3>10. x + (y + p) = (x + y) + p /\ z + (w + v) = (z + w) + v
      BY ONLY <3>9
    <3>11. /\ f[i] = x + (y + p) /\ f[i - 1] = x + y
           /\ g[i] = z + (w + v) /\ g[i - 1] = z + w
      BY <3>2, <3>3, <3>5, <3>8
    <3> QED
      BY <3>4, <3>8, <3>10, <3>11
  <2> QED
    BY <1>1, <2>1, <2>2
<1>10. ASSUME NEW i \in 0..(m + n), NEW j \in 0..(m + n), i <= j
       PROVE  f[i] <= f[j] /\ g[i] <= g[j]
  <2>1. CASE i \in 0..m /\ j \in 0..m
    BY <1>3, <1>6, <1>10, <2>1
  <2>2. CASE i \in 0..m /\ j \in m..(m + n)
    <3>1. f[i] <= a[m] /\ g[i] <= d[m] /\ f[i] \in Nat /\ g[i] \in Nat
      BY <1>6, <2>2
    <3>2. /\ b[j - m] \in Nat /\ e[j - m] \in Nat
          /\ f[j] = a[m] + b[j - m] /\ g[j] = d[m] + e[j - m]
      BY <1>7, <2>2
    <3>3. PICK x, y, z, w : x = a[m] /\ y = b[j - m] /\ z = d[m] /\ w = e[j - m]
      OBVIOUS
    <3>4. x \in Nat /\ y \in Nat /\ z \in Nat /\ w \in Nat
      BY <1>5, <3>2, <3>3
    <3>5. \A h, l \in Nat : h <= x /\ l <= z => h <= x + y /\ l <= z + w
      BY ONLY <3>4
    <3> QED
      BY <3>1, <3>2, <3>3, <3>5
  <2>3. CASE i \in m..(m + n) /\ j \in m..(m + n)
    <3>1. i - m <= j - m /\ i - m \in 0..n /\ j - m \in 0..n
      BY <1>1, <1>10, <2>3
    <3>2. b[i - m] <= b[j - m] /\ e[i - m] <= e[j - m]
      BY <1>4, <3>1
    <3>3. /\ b[i - m] \in Nat /\ e[i - m] \in Nat /\ b[j - m] \in Nat /\ e[j - m] \in Nat
          /\ f[i] = a[m] + b[i - m] /\ g[i] = d[m] + e[i - m]
          /\ f[j] = a[m] + b[j - m] /\ g[j] = d[m] + e[j - m]
      BY <1>7, <2>3
    <3>4. PICK x, y, z, v, w, t : /\ x = a[m] /\ y = b[i - m] /\ z = b[j - m]
                                  /\ v = d[m] /\ w = e[i - m] /\ t = e[j - m]
      OBVIOUS
    <3>5. x \in Nat /\ y \in Nat /\ z \in Nat /\ v \in Nat /\ w \in Nat /\ t \in Nat
          /\ y <= z /\ w <= t
      BY <1>5, <3>2, <3>3, <3>4
    <3>6. x + y <= x + z /\ v + w <= v + t
      BY ONLY <3>5
    <3> QED
      BY <3>3, <3>4, <3>6
  <2> QED
    BY <1>1, <1>10, <2>1, <2>2, <2>3
<1>11. Counts(q \o r, f, g)
  BY <1>1, <1>8, <1>9, <1>10 DEF Counts
<1>12. ASSUME NEW i \in 0..n
       PROVE  f[m + i] = a[m] + b[i] /\ g[m + i] = d[m] + e[i]
  <2>1. m + i \in m..(m + n) /\ (m + i) - m = i
    BY <1>1
  <2> QED
    BY <1>7, <2>1
<1> QED
  BY <1>6, <1>11, <1>12 DEF m, n, Joined

-----------------------------------------------------------------------------
(* Messages by what they are: acknowledgements, data, and the others. *)

AckPart(n) == IF n = 0 THEN <<>> ELSE <<Entry("ACK", n, 0)>>
Plain == {"SYNACK", "FIN", "RST"}
PlainSeq == {q \in Seq(Msg) : \A i \in 1..Len(q) : q[i].type \in Plain}

\* Counts of q that end at n parts acknowledged and no data.
Quiet(q, b, e, n) == Counts(q, b, e) /\ b[Len(q)] = n /\ e[Len(q)] = 0

\* The first message and what it counts.
LEMMA HeadCounts ==
  ASSUME NEW q \in Seq(Msg), q # <<>>, NEW a, NEW d, Counts(q, a, d)
  PROVE  /\ Head(q) = q[1] /\ Head(q) \in Msg /\ Len(q) \in Nat \ {0}
         /\ a[1] \in Nat /\ d[1] \in Nat
         /\ a[1] = IF Head(q).type = "ACK" THEN Head(q).n ELSE 0
         /\ d[1] = IF Head(q).type = "DATA" THEN 1 ELSE 0
         /\ a[1] <= a[Len(q)] /\ d[1] <= d[Len(q)]
<1>1. Len(q) \in Nat \ {0} /\ Head(q) = q[1]
  OBVIOUS
<1>2. 1 \in 1..Len(q) /\ 1 \in 0..Len(q) /\ Len(q) \in 0..Len(q) /\ 1 <= Len(q) /\ 1 - 1 = 0
  BY <1>1
<1>3. q[1] \in Msg /\ q[1].n \in Nat
  BY <1>2, Elements
<1>4. /\ a[1] = a[0] + (IF q[1].type = "ACK" THEN q[1].n ELSE 0)
      /\ d[1] = d[0] + (IF q[1].type = "DATA" THEN 1 ELSE 0)
      /\ a[0] = 0 /\ d[0] = 0 /\ a[1] \in Nat /\ d[1] \in Nat
      /\ a[1] <= a[Len(q)] /\ d[1] <= d[Len(q)]
  BY <1>2 DEF Counts
<1> QED
  BY <1>1, <1>3, <1>4

\* The totals are numbers.
LEMMA Totals ==
  ASSUME NEW q \in Seq(Msg), NEW a, NEW d, Counts(q, a, d)
  PROVE  a[Len(q)] \in Nat /\ d[Len(q)] \in Nat
<1>1. Len(q) \in 0..Len(q)
  OBVIOUS
<1> QED
  BY <1>1 DEF Counts

\* No data in the count, no data in the queue.
LEMMA NoData ==
  ASSUME NEW q \in Seq(Msg), NEW a, NEW d, Counts(q, a, d), d[Len(q)] = 0,
         NEW i \in 1..Len(q)
  PROVE  q[i].type # "DATA"
<1>1. i \in 0..Len(q) /\ i - 1 \in 0..Len(q) /\ Len(q) \in 0..Len(q) /\ i <= Len(q)
  OBVIOUS
<1>2. d[i] \in Nat /\ d[i - 1] \in Nat /\ d[i] <= 0
      /\ d[i] = d[i - 1] + (IF q[i].type = "DATA" THEN 1 ELSE 0)
  BY <1>1 DEF Counts
<1> QED
  BY <1>2

\* An acknowledgement of n parts, if n is not 0, counts n parts.
LEMMA AckCounts ==
  ASSUME NEW n \in Nat
  PROVE  /\ AckPart(n) \in Seq(Msg)
         /\ \A i \in 1..Len(AckPart(n)) : AckPart(n)[i].type = "ACK"
         /\ \E b, e : Quiet(AckPart(n), b, e, n)
<1>1. CASE n = 0
  <2>1. AckPart(n) = <<>>
    BY <1>1 DEF AckPart
  <2> DEFINE z == [i \in 0..0 |-> 0]
  <2>2. Quiet(<<>>, z, z, 0) /\ <<>> \in Seq(Msg) /\ Len(<<>>) = 0
    BY DEF Counts, Quiet
  <2> HIDE DEF z
  <2>3. Quiet(AckPart(n), z, z, n)
    BY <1>1, <2>1, <2>2
  <2> QED
    BY <2>1, <2>2, <2>3
<1>2. CASE n # 0
  <2> DEFINE m == Entry("ACK", n, 0)
             b == [i \in 0..1 |-> IF i = 0 THEN 0 ELSE n]
             e == [i \in 0..1 |-> 0]
  <2>1. AckPart(n) = <<m>>
    BY <1>2 DEF AckPart
  <2>2. m \in Msg /\ m.type = "ACK" /\ m.n = n
    BY <1>2 DEF Entry, Msg
  <2> HIDE DEF m
  <2>3. <<m>> \in Seq(Msg) /\ Len(<<m>>) = 1 /\ <<m>>[1] = m
    BY <2>2
  <2>4. Counts(<<m>>, b, e)
    BY <2>2, <2>3 DEF Counts
  <2>5. b[1] = n /\ e[1] = 0
    OBVIOUS
  <2> HIDE DEF b, e
  <2> QED
    BY <2>1, <2>2, <2>3, <2>4, <2>5 DEF Quiet
<1> QED
  BY <1>1, <1>2

\* The elements of two sequences joined.
LEMMA JoinElements ==
  ASSUME NEW q \in Seq(Msg), NEW r \in Seq(Msg)
  PROVE  /\ q \o r \in Seq(Msg) /\ Len(q \o r) = Len(q) + Len(r)
         /\ \A i \in 1..Len(q) : (q \o r)[i] = q[i]
         /\ \A i \in 1..Len(r) : (q \o r)[Len(q) + i] = r[i]
         /\ \A i \in (Len(q) + 1)..Len(q \o r) : i - Len(q) \in 1..Len(r)
                                                 /\ (q \o r)[i] = r[i - Len(q)]
OBVIOUS

\* An acknowledgement of n parts and plain messages.
LEMMA QuietCounts ==
  ASSUME NEW n \in Nat, NEW q \in PlainSeq
  PROVE  /\ AckPart(n) \o q \in Seq(Msg)
         /\ \A i \in 1..Len(AckPart(n) \o q) : (AckPart(n) \o q)[i].type \in Plain \cup {"ACK"}
         /\ \E b, e : Quiet(AckPart(n) \o q, b, e, n)
<1> DEFINE p == AckPart(n)
           z == [i \in 0..Len(q) |-> 0]
<1>1. PICK b, e : Quiet(p, b, e, n)
  BY AckCounts
<1>0. q \in Seq(Msg) /\ \A i \in 1..Len(q) : q[i].type \in Plain
  BY DEF PlainSeq
<1>2. Counts(q, z, z)
  BY <1>0 DEF Plain, Counts
<1>3. p \in Seq(Msg) /\ \A i \in 1..Len(p) : p[i].type = "ACK"
  BY AckCounts
<1>4. z[Len(q)] = 0 /\ Len(q) \in 0..Len(q)
  BY <1>0
<1> HIDE DEF p, z
<1>5. PICK f, g : Joined(p, q, b, e, z, z, f, g)
  BY <1>0, <1>1, <1>2, <1>3, JoinCounts DEF Quiet
<1>6. p \o q \in Seq(Msg) /\ Len(p \o q) = Len(p) + Len(q)
  BY <1>0, <1>3, JoinElements
<1>7. f[Len(p \o q)] = n /\ g[Len(p \o q)] = 0
  BY <1>1, <1>4, <1>5, <1>6 DEF Joined, Quiet
<1>8. ASSUME NEW i \in 1..Len(p \o q)
      PROVE  (p \o q)[i].type \in Plain \cup {"ACK"}
  <2>1. CASE i \in 1..Len(p)
    <3>1. (p \o q)[i] = p[i]
      BY <1>0, <1>3, <2>1, JoinElements
    <3> QED
      BY <1>3, <2>1, <3>1
  <2>2. CASE i \in (Len(p) + 1)..Len(p \o q)
    <3>1. i - Len(p) \in 1..Len(q) /\ (p \o q)[i] = q[i - Len(p)]
      BY <1>0, <1>3, <2>2, JoinElements
    <3> QED
      BY <1>0, <3>1
  <2>3. Len(p) \in Nat
    BY <1>3
  <2> QED
    BY <1>6, <2>1, <2>2, <2>3
<1>9. Quiet(p \o q, f, g, n)
  BY <1>5, <1>7 DEF Quiet, Joined
<1> QED
  BY <1>6, <1>8, <1>9 DEF p

-----------------------------------------------------------------------------
(* What a step does to the messages on their way to an end. *)

LinkOK == wire \in [Ends -> Seq(Msg)] /\ owed \in [Ends -> Nat]

\* Of every part of data in q, t and the acknowledgements before it make a buffer.
AckedAt(q, a, t) == \A i \in 1..Len(q) : q[i].type = "DATA" => t + a[i] >= Parts

\* The data in q is the end of buffer b.
Numbered(q, d, b) ==
  \A i \in 1..Len(q) : q[i].type = "DATA" => q[i] = Entry("DATA", b, (Parts - d[Len(q)]) + d[i])

Asks(q) == \E i \in 1..Len(q) : q[i].type = "SYN"
AsksOnce(q) == \A i, j \in 1..Len(q) : q[i].type = "SYN" /\ q[j].type = "SYN" => i = j

\* q, of which acknowledgements of g parts and m parts of data have been taken, and to
\* which an acknowledgement of n parts has been added, is r.
Moved(q, a, d, r, b, e, g, m, n) ==
  /\ r \in Seq(Msg) /\ Counts(r, b, e)
  /\ g \in Nat /\ m \in Nat /\ n \in Nat
  /\ b[Len(r)] + g = a[Len(q)] + n /\ e[Len(r)] + m = d[Len(q)]
  /\ \A t \in Nat : AckedAt(q, a, t) => AckedAt(r, b, t + g)
  /\ \A c : Numbered(q, d, c) => Numbered(r, e, c)
  /\ Asks(r) => Asks(q)
  /\ AsksOnce(q) => AsksOnce(r)

\* A message is taken.
LEMMA TakeMoves ==
  ASSUME NEW q \in Seq(Msg), q # <<>>, NEW a, NEW d, Counts(q, a, d)
  PROVE  \E b, e : Moved(q, a, d, Tail(q), b, e, a[1], d[1], 0)
<1> DEFINE r == Tail(q)
<1>1. PICK b, e : Taken(q, a, d, b, e)
  BY TakeCounts
<1>2. r \in Seq(Msg) /\ Len(r) = Len(q) - 1 /\ Len(q) \in Nat \ {0}
      /\ \A i \in 1..Len(r) : r[i] = q[i + 1] /\ i + 1 \in 1..Len(q) /\ i \in 0..(Len(q) - 1)
                              /\ i + 1 \in 0..Len(q)
  OBVIOUS
<1>3. Counts(r, b, e)
  BY <1>1 DEF Taken
<1>4. \A i \in 0..(Len(q) - 1) : b[i] = a[i + 1] - a[1] /\ e[i] = d[i + 1] - d[1]
  BY <1>1 DEF Taken
<1> HIDE DEF r
<1>5. a[1] \in Nat /\ d[1] \in Nat
  BY HeadCounts
<1>6. \A i \in 0..Len(q) : a[i] \in Nat /\ d[i] \in Nat
  BY DEF Counts
<1>7. Len(q) - 1 \in 0..(Len(q) - 1) /\ (Len(q) - 1) + 1 = Len(q) /\ Len(q) \in 0..Len(q)
  BY <1>2
<1>8. b[Len(r)] = a[Len(q)] - a[1] /\ e[Len(r)] = d[Len(q)] - d[1]
  BY <1>2, <1>4, <1>7
<1>9. b[Len(r)] + a[1] = a[Len(q)] + 0 /\ e[Len(r)] + d[1] = d[Len(q)]
  <2>1. a[Len(q)] \in Nat /\ d[Len(q)] \in Nat
    BY <1>6, <1>7
  <2> QED
    BY <1>5, <1>8, <2>1
<1>10. ASSUME NEW t \in Nat, AckedAt(q, a, t)
       PROVE  AckedAt(r, b, t + a[1])
  <2> SUFFICES ASSUME NEW i \in 1..Len(r), r[i].type = "DATA"
               PROVE  (t + a[1]) + b[i] >= Parts
    BY DEF AckedAt
  <2>1. q[i + 1].type = "DATA" /\ i + 1 \in 1..Len(q) /\ b[i] = a[i + 1] - a[1] /\ a[i + 1] \in Nat
    BY <1>2, <1>4, <1>6
  <2>2. t + a[i + 1] >= Parts
    BY <1>10, <2>1 DEF AckedAt
  <2> QED
    BY <1>5, <2>1, <2>2, PartsAssumption
<1>11. ASSUME NEW c, Numbered(q, d, c)
       PROVE  Numbered(r, e, c)
  <2> SUFFICES ASSUME NEW i \in 1..Len(r), r[i].type = "DATA"
               PROVE  r[i] = Entry("DATA", c, (Parts - e[Len(r)]) + e[i])
    BY DEF Numbered
  <2>1. q[i + 1].type = "DATA" /\ i + 1 \in 1..Len(q) /\ e[i] = d[i + 1] - d[1] /\ d[i + 1] \in Nat
        /\ r[i] = q[i + 1]
    BY <1>2, <1>4, <1>6
  <2>2. q[i + 1] = Entry("DATA", c, (Parts - d[Len(q)]) + d[i + 1])
    BY <1>11, <2>1 DEF Numbered
  <2>3. (Parts - e[Len(r)]) + e[i] = (Parts - d[Len(q)]) + d[i + 1]
    <3>1. d[Len(q)] \in Nat
      BY <1>6, <1>7
    <3> QED
      BY <1>5, <1>8, <2>1, <3>1, PartsAssumption
  <2> QED
    BY <2>1, <2>2, <2>3
<1>12. Asks(r) => Asks(q)
  BY <1>2 DEF Asks
<1>13. AsksOnce(q) => AsksOnce(r)
  <2> SUFFICES ASSUME AsksOnce(q), NEW i \in 1..Len(r), NEW j \in 1..Len(r),
                      r[i].type = "SYN", r[j].type = "SYN"
               PROVE  i = j
    BY DEF AsksOnce
  <2>1. i + 1 = j + 1
    BY <1>2 DEF AsksOnce
  <2> QED
    BY <2>1
<1>14. Moved(q, a, d, r, b, e, a[1], d[1], 0)
  BY <1>2, <1>3, <1>5, <1>9, <1>10, <1>11, <1>12, <1>13 DEF Moved
<1> QED
  BY <1>14 DEF r

\* Nothing happens.
LEMMA SameMoves ==
  ASSUME NEW q \in Seq(Msg), NEW a, NEW d, Counts(q, a, d)
  PROVE  Moved(q, a, d, q, a, d, 0, 0, 0)
<1>1. a[Len(q)] \in Nat /\ d[Len(q)] \in Nat
  BY Totals
<1>2. \A t \in Nat : t + 0 = t
  OBVIOUS
<1> QED
  BY <1>1, <1>2 DEF Moved

\* An acknowledgement of n parts and plain messages are added.
LEMMA QuietMoves ==
  ASSUME NEW q \in Seq(Msg), NEW a, NEW d, Counts(q, a, d), NEW n \in Nat, NEW p \in PlainSeq
  PROVE  \E b, e : Moved(q, a, d, q \o (AckPart(n) \o p), b, e, 0, 0, n)
<1> DEFINE s == AckPart(n) \o p
           r == q \o s
<1>1. s \in Seq(Msg) /\ \A i \in 1..Len(s) : s[i].type \in Plain \cup {"ACK"}
  BY QuietCounts
<1>2. PICK f, g : Quiet(s, f, g, n)
  BY QuietCounts
<1> HIDE DEF s
<1>3. PICK b, e : Joined(q, s, a, d, f, g, b, e)
  BY <1>1, <1>2, JoinCounts DEF Quiet
<1>4. /\ r \in Seq(Msg) /\ Len(r) = Len(q) + Len(s)
      /\ \A i \in 1..Len(q) : r[i] = q[i]
      /\ \A i \in (Len(q) + 1)..Len(r) : r[i].type \in Plain \cup {"ACK"}
  <2>1. \A i \in (Len(q) + 1)..Len(r) : i - Len(q) \in 1..Len(s) /\ r[i] = s[i - Len(q)]
    BY <1>1, JoinElements
  <2> QED
    BY <1>1, <2>1, JoinElements
<1> HIDE DEF r
<1>5. Counts(r, b, e) /\ \A i \in 0..Len(q) : b[i] = a[i] /\ e[i] = d[i]
  BY <1>3 DEF Joined, r
<1>6. Len(q) \in Nat /\ Len(s) \in Nat /\ Len(s) \in 0..Len(s) /\ a[Len(q)] \in Nat /\ d[Len(q)] \in Nat
  BY <1>1, Totals
<1>7. b[Len(r)] = a[Len(q)] + n /\ e[Len(r)] = d[Len(q)]
  BY <1>2, <1>3, <1>4, <1>6 DEF Joined, Quiet
<1>8. ASSUME NEW i \in 1..Len(r), r[i].type \in {"DATA", "SYN"}
      PROVE  i \in 1..Len(q) /\ q[i] = r[i] /\ i \in 0..Len(q)
  <2>1. i \notin (Len(q) + 1)..Len(r)
    BY <1>4, <1>8 DEF Plain
  <2>2. i \in 1..Len(q) /\ i \in 0..Len(q)
    BY <1>4, <1>6, <2>1
  <2> QED
    BY <1>4, <2>2
<1>9. ASSUME NEW t \in Nat, AckedAt(q, a, t)
      PROVE  AckedAt(r, b, t + 0)
  BY <1>5, <1>8, <1>9 DEF AckedAt
<1>10. ASSUME NEW c, Numbered(q, d, c)
       PROVE  Numbered(r, e, c)
  BY <1>5, <1>7, <1>8, <1>10 DEF Numbered
<1>11. Asks(r) => Asks(q)
  BY <1>8 DEF Asks
<1>12. AsksOnce(q) => AsksOnce(r)
  BY <1>8 DEF AsksOnce
<1>13. b[Len(r)] + 0 = a[Len(q)] + n /\ e[Len(r)] + 0 = d[Len(q)]
  BY <1>6, <1>7
<1>14. Moved(q, a, d, r, b, e, 0, 0, n)
  BY <1>4, <1>5, <1>9, <1>10, <1>11, <1>12, <1>13 DEF Moved
<1> QED
  BY <1>14 DEF r, s

\* To q, which has no data in it, an acknowledgement of n parts, plain messages and the
\* whole of buffer c have been added.
Loaded(q, a, d, r, b, e, n, c) ==
  /\ r \in Seq(Msg) /\ Counts(r, b, e)
  /\ n \in Nat
  /\ b[Len(r)] = a[Len(q)] + n /\ e[Len(r)] = Parts
  /\ \A t \in Nat : t + (a[Len(q)] + n) >= Parts => AckedAt(r, b, t)
  /\ Numbered(r, e, c)
  /\ Asks(r) => Asks(q)
  /\ AsksOnce(q) => AsksOnce(r)

\* What Buffer is.
LEMMA BufferParts ==
  ASSUME NEW c \in Nat
  PROVE  /\ Buffer(c) \in Seq(Msg) /\ Len(Buffer(c)) = Parts
         /\ \A i \in 1..Parts : Buffer(c)[i] = Entry("DATA", c, i) /\ Buffer(c)[i].type = "DATA"
<1>1. Parts \in Nat
  BY PartsAssumption
<1>2. \A i \in 1..Parts : Entry("DATA", c, i) \in Msg /\ Entry("DATA", c, i).type = "DATA"
  BY DEF Entry, Msg
<1>3. Buffer(c) \in [1..Parts -> Msg]
  BY <1>2 DEF Buffer
<1>4. \A i \in 1..Parts : Buffer(c)[i] = Entry("DATA", c, i)
  BY DEF Buffer
<1>5. Buffer(c) \in Seq(Msg) /\ Len(Buffer(c)) = Parts
  BY <1>1, <1>3
<1> QED
  BY <1>2, <1>4, <1>5

\* A whole buffer is added behind an acknowledgement.
LEMMA LoadMoves ==
  ASSUME NEW q \in Seq(Msg), NEW a, NEW d, Counts(q, a, d), d[Len(q)] = 0,
         NEW n \in Nat, NEW p \in PlainSeq, NEW c \in Nat
  PROVE  \E b, e : Loaded(q, a, d, q \o ((AckPart(n) \o p) \o Buffer(c)), b, e, n, c)
<1> DEFINE s == AckPart(n) \o p
           u == Buffer(c)
           v == s \o u
           r == q \o v
           z == [i \in 0..Parts |-> 0]
           w == [i \in 0..Parts |-> i]
<1>1. s \in Seq(Msg) /\ \A i \in 1..Len(s) : s[i].type \in Plain \cup {"ACK"}
  BY QuietCounts
<1>2. PICK f, g : Quiet(s, f, g, n)
  BY QuietCounts
<1>3. u \in Seq(Msg) /\ Len(u) = Parts /\ Parts \in Nat
      /\ \A i \in 1..Parts : u[i] = Entry("DATA", c, i) /\ u[i].type = "DATA"
  BY BufferParts, PartsAssumption
<1>4. Counts(u, z, w)
  <2>1. z \in [0..Len(u) -> Nat] /\ w \in [0..Len(u) -> Nat] /\ z[0] = 0 /\ w[0] = 0
    BY <1>3
  <2>2. \A i, j \in 0..Len(u) : i <= j => z[i] <= z[j] /\ w[i] <= w[j]
    BY <1>3
  <2>3. ASSUME NEW i \in 1..Len(u)
        PROVE  /\ z[i] = z[i - 1] + (IF u[i].type = "ACK" THEN u[i].n ELSE 0)
               /\ w[i] = w[i - 1] + (IF u[i].type = "DATA" THEN 1 ELSE 0)
    <3>1. u[i].type = "DATA" /\ i \in 0..Parts /\ i - 1 \in 0..Parts
      BY <1>3
    <3>2. z[i] = 0 /\ z[i - 1] = 0 /\ w[i] = i /\ w[i - 1] = i - 1
      BY <3>1
    <3> HIDE DEF z, w, u
    <3> QED
      BY <3>1, <3>2
  <2> QED
    BY <2>1, <2>2, <2>3 DEF Counts
<1>5. \A i \in 0..Parts : z[i] = 0 /\ w[i] = i
  OBVIOUS
<1> HIDE DEF s, u, z, w
<1>6. PICK h, k : Joined(s, u, f, g, z, w, h, k)
  BY <1>1, <1>2, <1>3, <1>4, JoinCounts DEF Quiet
<1>7. /\ v \in Seq(Msg) /\ Len(v) = Len(s) + Parts
      /\ \A i \in 1..Len(s) : v[i] = s[i]
      /\ \A i \in (Len(s) + 1)..Len(v) : i - Len(s) \in 1..Parts /\ v[i] = u[i - Len(s)]
  <2>0. s \in Seq(Msg) /\ u \in Seq(Msg)
    BY <1>1, <1>3
  <2>1. /\ v \in Seq(Msg) /\ Len(v) = Len(s) + Len(u)
        /\ \A i \in 1..Len(s) : v[i] = s[i]
        /\ \A i \in (Len(s) + 1)..Len(v) : i - Len(s) \in 1..Len(u) /\ v[i] = u[i - Len(s)]
    BY ONLY <2>0, JoinElements
  <2>2. Len(u) = Parts
    BY <1>3
  <2> HIDE DEF v
  <2> QED
    BY ONLY <2>1, <2>2
<1>8. Counts(v, h, k) /\ \A i \in 0..Parts : h[Len(s) + i] = n /\ k[Len(s) + i] = i
  <2>1. \A i \in 0..Parts : h[Len(s) + i] = n + 0 /\ k[Len(s) + i] = 0 + i
    BY <1>2, <1>3, <1>5, <1>6 DEF Joined, Quiet
  <2> QED
    BY <1>6, <2>1 DEF Joined, v
<1> HIDE DEF v
<1>9. PICK b, e : Joined(q, v, a, d, h, k, b, e)
  BY <1>7, <1>8, JoinCounts
<1>10. /\ r \in Seq(Msg) /\ Len(r) = Len(q) + Len(v)
       /\ \A i \in 1..Len(q) : r[i] = q[i]
       /\ \A i \in (Len(q) + 1)..Len(r) : i - Len(q) \in 1..Len(v) /\ r[i] = v[i - Len(q)]
  BY <1>7, JoinElements
<1> HIDE DEF r
<1>11. Len(q) \in Nat /\ Len(s) \in Nat /\ Len(v) \in Nat /\ a[Len(q)] \in Nat
  BY <1>1, <1>7, Totals
<1>12. Counts(r, b, e)
       /\ \A i \in 0..Len(v) : b[Len(q) + i] = a[Len(q)] + h[i] /\ e[Len(q) + i] = 0 + k[i]
  BY <1>9 DEF Joined, r
\* An element of r is one of q's, an acknowledgement or plain, or a part of the buffer.
<1>13. ASSUME NEW i \in 1..Len(r), r[i].type = "DATA"
       PROVE  \E j \in 1..Parts : /\ r[i] = Entry("DATA", c, j)
                                  /\ b[i] = a[Len(q)] + n /\ e[i] = j
  <2>1. i \notin 1..Len(q)
    BY <1>10, <1>13, NoData
  <2>2. i \in (Len(q) + 1)..Len(r)
    BY <1>10, <1>11, <2>1
  <2> DEFINE l == i - Len(q)
  <2>3. l \in 1..Len(v) /\ r[i] = v[l] /\ i = Len(q) + l
    BY <1>10, <1>11, <2>2
  <2> HIDE DEF l
  <2>4. l \notin 1..Len(s)
    BY <1>1, <1>7, <1>13, <2>3 DEF Plain
  <2>5. l \in (Len(s) + 1)..Len(v)
    BY <1>11, <2>3, <2>4
  <2> DEFINE j == l - Len(s)
  <2>6. j \in 1..Parts /\ v[l] = u[j] /\ l = Len(s) + j
    BY <1>7, <1>11, <2>5
  <2> HIDE DEF j
  <2>7. h[l] = n /\ k[l] = j /\ j \in Nat
    BY <1>8, <2>6
  <2>8. b[i] = a[Len(q)] + n /\ e[i] = 0 + j
    BY <1>12, <2>3, <2>7
  <2> QED
    BY <1>3, <2>3, <2>6, <2>7, <2>8
<1>14. b[Len(r)] = a[Len(q)] + n /\ e[Len(r)] = Parts
  <2>1. Len(v) \in 0..Len(v) /\ Parts \in 0..Parts
    BY <1>3, <1>11
  <2>2. h[Len(v)] = n /\ k[Len(v)] = Parts
    BY <1>7, <1>8, <2>1
  <2> QED
    BY <1>3, <1>10, <1>12, <2>1, <2>2
<1>15. ASSUME NEW t \in Nat, t + (a[Len(q)] + n) >= Parts
       PROVE  AckedAt(r, b, t)
  BY <1>13, <1>15 DEF AckedAt
<1>16. Numbered(r, e, c)
  <2> SUFFICES ASSUME NEW i \in 1..Len(r), r[i].type = "DATA"
               PROVE  r[i] = Entry("DATA", c, (Parts - e[Len(r)]) + e[i])
    BY DEF Numbered
  <2>1. PICK j \in 1..Parts : r[i] = Entry("DATA", c, j) /\ e[i] = j
    BY <1>13
  <2>2. (Parts - e[Len(r)]) + e[i] = j
    BY <1>3, <1>14, <2>1
  <2> QED
    BY <2>1, <2>2
<1>17. ASSUME NEW i \in 1..Len(r), r[i].type = "SYN"
       PROVE  i \in 1..Len(q) /\ q[i] = r[i]
  <2>1. i \notin (Len(q) + 1)..Len(r)
    <3> SUFFICES ASSUME i \in (Len(q) + 1)..Len(r)
                 PROVE  FALSE
      OBVIOUS
    <3> DEFINE l == i - Len(q)
    <3>1. l \in 1..Len(v) /\ r[i] = v[l]
      BY <1>10
    <3> HIDE DEF l
    <3>2. l \notin 1..Len(s)
      BY <1>1, <1>7, <1>17, <3>1 DEF Plain
    <3>3. l \in (Len(s) + 1)..Len(v)
      BY <1>11, <3>1, <3>2
    <3>4. v[l].type = "DATA"
      BY <1>3, <1>7, <3>3
    <3> QED
      BY <1>17, <3>1, <3>4
  <2> QED
    BY <1>10, <1>11, <2>1
<1>18. Asks(r) => Asks(q)
  BY <1>17 DEF Asks
<1>19. AsksOnce(q) => AsksOnce(r)
  BY <1>17 DEF AsksOnce
<1>20. Loaded(q, a, d, r, b, e, n, c)
  BY <1>10, <1>12, <1>14, <1>15, <1>16, <1>18, <1>19 DEF Loaded
<1> QED
  BY <1>20 DEF r, v, s, u

-----------------------------------------------------------------------------
(* The actions of TcpLink. *)

\* The two ends.
LEMMA PeerEnds ==
  ASSUME NEW x \in Ends
  PROVE  Peer(x) \in Ends /\ Peer(x) # x /\ \A z \in Ends : z = x \/ z = Peer(x)
BY DEF Ends, Peer

\* Joining sequences of messages.
LEMMA Join3 ==
  ASSUME NEW q \in Seq(Msg), NEW r \in Seq(Msg), NEW s \in Seq(Msg)
  PROVE  /\ (q \o r) \o s = q \o (r \o s)
         /\ q \o r \in Seq(Msg) /\ q \o <<>> = q /\ <<>> \o q = q
BY ConcatAssociative, ConcatEmptySeq, ConcatProperties

\* What Exchange does to wire and owed, when something has arrived.
Sends(x, acked, out, n) ==
  /\ wire' = [wire EXCEPT ![x] = Tail(wire[x]),
                          ![Peer(x)] = IF out = <<>> THEN wire[Peer(x)]
                                       ELSE wire[Peer(x)] \o (AckPart(n) \o out)]
  /\ owed' = [owed EXCEPT ![x] = (owed[x] + acked) - n]
  /\ n \in Nat /\ (owed[x] + acked) - n \in Nat

\* Exchange, once something has arrived, as Sends.
LEMMA ExchangeWire ==
  ASSUME LinkOK, NEW x \in Ends, NEW acked \in Nat, wire[x] # <<>>,
         NEW out \in Seq(Msg), Exchange(x, acked, out),
         NEW n, n = IF out = <<>> THEN 0 ELSE owed[x] + acked
  PROVE  Sends(x, acked, out, n)
<1> DEFINE y == Peer(x)
<1>1. y \in Ends /\ y # x /\ owed[x] \in Nat /\ wire[x] \in Seq(Msg) /\ wire[y] \in Seq(Msg)
  BY PeerEnds DEF LinkOK
<1>2. CASE out = <<>>
  <2>1. wire[y] \o <<>> = wire[y]
    BY <1>1
  <2>2. wire' = [wire EXCEPT ![x] = Tail(wire[x]), ![y] = wire[y]]
    BY <1>1, <1>2, <2>1 DEF Exchange, LinkOK
  <2>3. owed' = [owed EXCEPT ![x] = owed[x] + acked] /\ n = 0 /\ (owed[x] + acked) - n = owed[x] + acked
    BY <1>1, <1>2 DEF Exchange
  <2>4. wire[y] = IF out = <<>> THEN wire[y] ELSE wire[y] \o (AckPart(n) \o out)
    BY <1>2
  <2>5. n \in Nat /\ (owed[x] + acked) - n \in Nat
    BY <1>1, <2>3
  <2> QED
    BY <2>2, <2>3, <2>4, <2>5 DEF Sends
<1>3. CASE out # <<>>
  <2>1. n = owed[x] + acked /\ n \in Nat /\ (owed[x] + acked) - n = 0
    BY <1>1, <1>3
  <2>2. wire' = [wire EXCEPT ![x] = Tail(wire[x]), ![y] = wire[y] \o (AckPart(n) \o out)]
    BY <1>1, <1>3, <2>1 DEF Exchange, LinkOK, AckPart
  <2>3. owed' = [owed EXCEPT ![x] = 0]
    BY <1>1, <1>3 DEF Exchange
  <2>4. wire[y] \o (AckPart(n) \o out) = IF out = <<>> THEN wire[y] ELSE wire[y] \o (AckPart(n) \o out)
    BY <1>3
  <2>5. 0 \in Nat
    OBVIOUS
  <2> QED
    BY <2>1, <2>2, <2>3, <2>4, <2>5 DEF Sends
<1> QED
  BY <1>2, <1>3

\* A step of end x: of what is on its way to x, acknowledgements of ga parts and ma parts
\* of data are taken; to what is on its way to its peer, an acknowledgement of n parts is
\* added; `acked` parts more are owed.
Passes(x, a, d, b, e, f, g, h, k, ga, ma, n, acked) ==
  /\ LinkOK'
  /\ Moved(wire[x], a, d, wire'[x], b, e, ga, ma, 0)
  /\ Moved(wire[Peer(x)], f, g, wire'[Peer(x)], h, k, 0, 0, n)
  /\ owed'[x] + n = owed[x] + acked /\ owed'[Peer(x)] = owed[Peer(x)]

\* The same with a whole buffer c sent.
Loads(x, a, d, b, e, f, g, h, k, ga, ma, n, acked, c) ==
  /\ LinkOK'
  /\ Moved(wire[x], a, d, wire'[x], b, e, ga, ma, 0)
  /\ Loaded(wire[Peer(x)], f, g, wire'[Peer(x)], h, k, n, c)
  /\ owed'[x] + n = owed[x] + acked /\ owed'[x] = 0 /\ owed'[Peer(x)] = owed[Peer(x)]

\* Exchange of something arrived for plain messages or none.
LEMMA ExchangePasses ==
  ASSUME LinkOK, NEW x \in Ends, NEW acked \in Nat, wire[x] # <<>>,
         NEW out \in PlainSeq, Exchange(x, acked, out),
         NEW a, NEW d, Counts(wire[x], a, d),
         NEW f, NEW g, Counts(wire[Peer(x)], f, g)
  PROVE  \E b, e, h, k, n : Passes(x, a, d, b, e, f, g, h, k, a[1], d[1], n, acked)
<1> DEFINE y == Peer(x)
           n == IF out = <<>> THEN 0 ELSE owed[x] + acked
<1>1. y \in Ends /\ y # x /\ owed[x] \in Nat /\ wire[x] \in Seq(Msg) /\ wire[y] \in Seq(Msg)
      /\ owed[y] \in Nat /\ out \in Seq(Msg)
  BY PeerEnds DEF LinkOK, PlainSeq
<1>2. n \in Nat /\ n = (IF out = <<>> THEN 0 ELSE owed[x] + acked)
  BY <1>1
<1> HIDE DEF n
<1>3. /\ wire' = [wire EXCEPT ![x] = Tail(wire[x]),
                              ![y] = IF out = <<>> THEN wire[y] ELSE wire[y] \o (AckPart(n) \o out)]
      /\ owed' = [owed EXCEPT ![x] = (owed[x] + acked) - n] /\ (owed[x] + acked) - n \in Nat
  <2>1. Sends(x, acked, out, n)
    BY <1>1, <1>2, ExchangeWire
  <2> QED
    BY <2>1 DEF Sends
<1>4. wire'[x] = Tail(wire[x]) /\ owed'[x] = (owed[x] + acked) - n /\ owed'[y] = owed[y]
      /\ wire'[y] = IF out = <<>> THEN wire[y] ELSE wire[y] \o (AckPart(n) \o out)
  BY <1>1, <1>3 DEF LinkOK
<1>5. PICK b, e : Moved(wire[x], a, d, wire'[x], b, e, a[1], d[1], 0)
  BY <1>1, <1>4, TakeMoves
<1>6. \E h, k : Moved(wire[y], f, g, wire'[y], h, k, 0, 0, n)
  <2>1. CASE out = <<>>
    <3>1. Moved(wire[y], f, g, wire[y], f, g, 0, 0, 0)
      BY <1>1, SameMoves
    <3>2. wire'[y] = wire[y] /\ n = 0
      BY <1>2, <1>4, <2>1
    <3> QED
      BY <3>1, <3>2
  <2>2. CASE out # <<>>
    <3>1. wire'[y] = wire[y] \o (AckPart(n) \o out)
      BY <1>4, <2>2
    <3> QED
      BY <1>1, <1>2, <3>1, QuietMoves
  <2> QED
    BY <2>1, <2>2
<1>7. PICK h, k : Moved(wire[y], f, g, wire'[y], h, k, 0, 0, n)
  BY <1>6
<1>8. LinkOK'
  <2>1. wire'[x] \in Seq(Msg) /\ wire'[y] \in Seq(Msg)
    BY <1>5, <1>7 DEF Moved
  <2>2. wire' \in [Ends -> Seq(Msg)]
    <3>1. wire' = [z \in Ends |-> wire'[z]]
      BY <1>3 DEF LinkOK
    <3> QED
      BY <1>1, <2>1, <3>1, PeerEnds
  <2>3. owed' \in [Ends -> Nat]
    BY <1>1, <1>3 DEF LinkOK
  <2> QED
    BY <2>2, <2>3 DEF LinkOK
<1>9. owed'[x] + n = owed[x] + acked
  BY <1>1, <1>2, <1>4
<1> QED
  BY <1>4, <1>5, <1>7, <1>8, <1>9 DEF Passes

\* Transmit of plain messages or none.
LEMMA TransmitPasses ==
  ASSUME LinkOK, NEW x \in Ends, NEW out \in PlainSeq, Transmit(x, out),
         NEW a, NEW d, Counts(wire[x], a, d),
         NEW f, NEW g, Counts(wire[Peer(x)], f, g)
  PROVE  \E h, k, n : Passes(x, a, d, a, d, f, g, h, k, 0, 0, n, 0)
<1> DEFINE y == Peer(x)
<1>1. y \in Ends /\ y # x /\ owed[x] \in Nat /\ wire[x] \in Seq(Msg) /\ wire[y] \in Seq(Msg)
      /\ owed[y] \in Nat /\ out \in Seq(Msg)
  BY PeerEnds DEF LinkOK, PlainSeq
<1>2. Ack(x) = AckPart(owed[x]) /\ AckPart(owed[x]) \in Seq(Msg)
  BY <1>1, AckCounts DEF Ack, AckPart
<1>3. (wire[y] \o Ack(x)) \o out = wire[y] \o (AckPart(owed[x]) \o out)
  <2>1. (wire[y] \o AckPart(owed[x])) \o out = wire[y] \o (AckPart(owed[x]) \o out)
    <3> DEFINE w == wire[y]
               v == AckPart(owed[x])
    <3>1. w \in Seq(Msg) /\ v \in Seq(Msg) /\ out \in Seq(Msg)
      BY <1>1, <1>2
    <3> HIDE DEF w, v
    <3>2. (w \o v) \o out = w \o (v \o out)
      BY ONLY <3>1, Join3
    <3> QED
      BY <3>2 DEF w, v
  <2> QED
    BY <1>2, <2>1
<1>4. wire' = [wire EXCEPT ![y] = wire[y] \o (AckPart(owed[x]) \o out)]
      /\ owed' = [owed EXCEPT ![x] = 0]
  BY <1>1, <1>3 DEF Transmit, LinkOK
<1>5. wire'[x] = wire[x] /\ owed'[x] = 0 /\ owed'[y] = owed[y]
      /\ wire'[y] = wire[y] \o (AckPart(owed[x]) \o out)
  BY <1>1, <1>4 DEF LinkOK
<1>6. PICK h, k : Moved(wire[y], f, g, wire'[y], h, k, 0, 0, owed[x])
  BY <1>1, <1>5, QuietMoves
<1>7. Moved(wire[x], a, d, wire'[x], a, d, 0, 0, 0)
  BY <1>1, <1>5, SameMoves
<1>8. LinkOK'
  <2>1. wire'[y] \in Seq(Msg)
    BY <1>6 DEF Moved
  <2> QED
    BY <1>1, <1>4, <1>5, <2>1 DEF LinkOK
<1>9. owed'[x] + owed[x] = owed[x] + 0
  BY <1>1, <1>5
<1> QED
  BY <1>5, <1>6, <1>7, <1>8, <1>9 DEF Passes

\* What arrives at an end that has closed.
LEMMA ClosedPasses ==
  ASSUME LinkOK, NEW x \in Ends, ArrivesClosed(x),
         NEW a, NEW d, Counts(wire[x], a, d),
         NEW f, NEW g, Counts(wire[Peer(x)], f, g)
  PROVE  \E b, e, h, k : Passes(x, a, d, b, e, f, g, h, k, a[1], d[1], 0, 0)
<1> DEFINE y == Peer(x)
           p == IF Arrived(x, "DATA") THEN <<Entry("RST", 0, 0)>> ELSE <<>>
<1>1. y \in Ends /\ y # x /\ owed[x] \in Nat /\ wire[x] \in Seq(Msg) /\ wire[y] \in Seq(Msg)
      /\ owed[y] \in Nat /\ wire[x] # <<>>
  BY PeerEnds DEF LinkOK, ArrivesClosed
<1>2. p \in PlainSeq
  BY DEF PlainSeq, Plain, Msg, Entry
<1>3. AckPart(0) = <<>>
  BY DEF AckPart
<1>4. wire[y] \o (AckPart(0) \o p) = IF Arrived(x, "DATA") THEN Append(wire[y], Entry("RST", 0, 0))
                                      ELSE wire[y]
  <2> DEFINE m == Entry("RST", 0, 0)
  <2>1. m \in Msg
    BY DEF Entry, Msg
  <2> HIDE DEF m
  <2>2. wire[y] \o <<m>> = Append(wire[y], m) /\ <<m>> \in Seq(Msg)
    BY <1>1, <2>1, AppendIsConcat
  <2>3. <<>> \o <<m>> = <<m>> /\ wire[y] \o <<>> = wire[y] /\ <<>> \o <<>> = <<>>
    BY <1>1, <2>2, Join3
  <2>4. CASE Arrived(x, "DATA")
    BY <1>3, <2>2, <2>3, <2>4 DEF m
  <2>5. CASE ~ Arrived(x, "DATA")
    BY <1>3, <2>3, <2>5
  <2> QED
    BY <2>4, <2>5
<1> HIDE DEF p
<1>5. wire' = [wire EXCEPT ![x] = Tail(wire[x]), ![y] = wire[y] \o (AckPart(0) \o p)]
      /\ owed' = owed
  BY <1>1, <1>4 DEF ArrivesClosed, LinkOK
<1>6. wire'[x] = Tail(wire[x]) /\ wire'[y] = wire[y] \o (AckPart(0) \o p)
  BY <1>1, <1>5 DEF LinkOK
<1>7. PICK b, e : Moved(wire[x], a, d, wire'[x], b, e, a[1], d[1], 0)
  BY <1>1, <1>6, TakeMoves
<1>8. PICK h, k : Moved(wire[y], f, g, wire'[y], h, k, 0, 0, 0)
  BY <1>1, <1>2, <1>6, QuietMoves
<1>9. LinkOK'
  <2>1. wire'[x] \in Seq(Msg) /\ wire'[y] \in Seq(Msg)
    BY <1>7, <1>8 DEF Moved
  <2> QED
    BY <1>1, <1>5, <1>6, <2>1 DEF LinkOK
<1>10. owed'[x] + 0 = owed[x] + 0 /\ owed'[y] = owed[y]
  BY <1>5
<1> QED
  BY <1>7, <1>8, <1>9, <1>10 DEF Passes

\* Exchange of something arrived for a buffer.
LEMMA ExchangeLoads ==
  ASSUME LinkOK, NEW x \in Ends, NEW acked \in Nat, wire[x] # <<>>,
         NEW p \in PlainSeq, NEW c \in Nat, Exchange(x, acked, p \o Buffer(c)),
         NEW a, NEW d, Counts(wire[x], a, d),
         NEW f, NEW g, Counts(wire[Peer(x)], f, g), g[Len(wire[Peer(x)])] = 0
  PROVE  \E b, e, h, k, n : Loads(x, a, d, b, e, f, g, h, k, a[1], d[1], n, acked, c)
<1> DEFINE y == Peer(x)
           n == owed[x] + acked
           out == p \o Buffer(c)
<1>1. y \in Ends /\ y # x /\ owed[x] \in Nat /\ wire[x] \in Seq(Msg) /\ wire[y] \in Seq(Msg)
      /\ owed[y] \in Nat /\ p \in Seq(Msg)
  BY PeerEnds DEF LinkOK, PlainSeq
<1>2. n \in Nat /\ AckPart(n) \in Seq(Msg)
  <2>1. n \in Nat
    BY <1>1
  <2> HIDE DEF n
  <2> QED
    BY <2>1, AckCounts
<1>3. Buffer(c) \in Seq(Msg) /\ Len(Buffer(c)) = Parts /\ Parts \in Nat \ {0}
  BY BufferParts, PartsAssumption
<1>4. out \in Seq(Msg) /\ out # <<>>
  BY <1>1, <1>3
<1>5. AckPart(n) \o out = (AckPart(n) \o p) \o Buffer(c)
  <2>1. p \in Seq(Msg) /\ AckPart(n) \in Seq(Msg) /\ Buffer(c) \in Seq(Msg)
    BY <1>1, <1>2, <1>3
  <2>2. (AckPart(n) \o p) \o Buffer(c) = AckPart(n) \o (p \o Buffer(c))
    BY ONLY <2>1, Join3
  <2> QED
    BY <2>2
<1>6. n = IF out = <<>> THEN 0 ELSE owed[x] + acked
  BY <1>4
<1> HIDE DEF n, out
<1>7. /\ wire' = [wire EXCEPT ![x] = Tail(wire[x]),
                              ![y] = IF out = <<>> THEN wire[y] ELSE wire[y] \o (AckPart(n) \o out)]
      /\ owed' = [owed EXCEPT ![x] = (owed[x] + acked) - n]
  <2>1. Exchange(x, acked, out)
    BY DEF out
  <2> QED
    <3>1. Sends(x, acked, out, n)
      BY <1>4, <1>6, <2>1, ExchangeWire
    <3> QED
      BY <3>1 DEF Sends
<1>8. wire'[x] = Tail(wire[x]) /\ owed'[x] = 0 /\ owed'[y] = owed[y]
      /\ wire'[y] = wire[y] \o ((AckPart(n) \o p) \o Buffer(c))
  <2>1. (owed[x] + acked) - n = 0
    BY <1>1 DEF n
  <2> QED
    BY <1>1, <1>4, <1>5, <1>7, <2>1 DEF LinkOK
<1>9. PICK b, e : Moved(wire[x], a, d, wire'[x], b, e, a[1], d[1], 0)
  BY <1>1, <1>8, TakeMoves
<1>10. PICK h, k : Loaded(wire[y], f, g, wire'[y], h, k, n, c)
  BY <1>1, <1>2, <1>8, LoadMoves
<1>11. LinkOK'
  <2>1. wire'[x] \in Seq(Msg) /\ wire'[y] \in Seq(Msg)
    BY <1>9, <1>10 DEF Moved, Loaded
  <2>2. owed' \in [Ends -> Nat]
    <3>1. (owed[x] + acked) - n \in Nat
      BY <1>1 DEF n
    <3> QED
      BY <1>1, <1>7, <3>1 DEF LinkOK
  <2>3. wire' \in [Ends -> Seq(Msg)]
    <3>1. wire' = [z \in Ends |-> wire'[z]]
      BY <1>7 DEF LinkOK
    <3> QED
      BY <1>1, <2>1, <3>1, PeerEnds
  <2> QED
    BY <2>2, <2>3 DEF LinkOK
<1>12. owed'[x] + n = owed[x] + acked
  BY <1>1, <1>2, <1>8 DEF n
<1> QED
  BY <1>8, <1>9, <1>10, <1>11, <1>12 DEF Loads

-----------------------------------------------------------------------------
(* The invariant.  A, D: the parts acknowledged and the parts of data on their way to the *)
(* server; F, G: to the client.                                                         *)

Filled(r) == \A j \in 1..Len(r) : r[j] = Entry("DATA", s_buffer_sent, j)

\* The buffer sent, as far as it is acknowledged, on its way in acknowledgements, to be
\* acknowledged, or on its way.  Its echo, when some of it is on its way.
ServerFlow(A, D, G) ==
  s_client =>
    /\ s_sent_len + A + owed["client"] + G <= Parts
    /\ G > 0 /\ c_pcb => s_sent_len + A + owed["client"] + G = Parts
    /\ D > 0 => D + (IF s_sent_len >= Parts THEN Len(s_buffer_recv) ELSE 0) = Parts
    /\ D > 0 /\ s_sent_len >= Parts => Filled(s_buffer_recv)

\* The echo likewise, and the buffer that arrives.
ClientFlow(F, D, G) ==
  c_pcb =>
    /\ c_sent_len + F + owed["server"] + D <= Parts
    /\ Len(c_buffer) < Parts => c_sent_len + F + owed["server"] + D = 0
    /\ D > 0 /\ s_client => c_sent_len + F + owed["server"] + D = Parts
    /\ G > 0 => G + (IF Len(c_buffer) < Parts THEN Len(c_buffer) ELSE 0) = Parts
    /\ G > 0 /\ Len(c_buffer) < Parts => Filled(c_buffer)

\* The rounds, by where the buffer is: going, coming back, or compared.
InStep(F, D) ==
  /\ s_client /\ D > 0 => c_run_count = s_run_count
  /\ s_client /\ c_pcb /\ Len(c_buffer) < Parts => c_run_count = s_run_count
  /\ c_pcb /\ Len(c_buffer) = Parts /\ c_sent_len + F + owed["server"] >= Parts
       => s_run_count = c_run_count + 1

\* Before the connection nothing has happened.
Fresh(A, D, F, G) ==
  Asks(wire["server"]) \/ (~ c_pcb /\ ~ c_complete) =>
    /\ ~ s_client /\ s_run_count = 0 /\ c_run_count = 0
    /\ s_buffer_recv = <<>> /\ c_buffer = <<>> /\ s_sent_len = 0 /\ c_sent_len = 0
    /\ A = 0 /\ D = 0 /\ F = 0 /\ G = 0 /\ owed["server"] = 0 /\ owed["client"] = 0

\* No acknowledgement of a buffer comes behind data of the next.
ServerMarks(a, d) ==
  s_client => /\ AckedAt(wire["server"], a, s_sent_len)
              /\ Numbered(wire["server"], d, s_buffer_sent)
ClientMarks(f, g) ==
  c_pcb => /\ Len(c_buffer) = Parts => AckedAt(wire["client"], f, c_sent_len)
           /\ Numbered(wire["client"], g, s_buffer_sent)

Once ==
  /\ AsksOnce(wire["server"])
  /\ ~ c_pcb /\ ~ c_complete => ~ Asks(wire["server"])

StateOK ==
  /\ s_sent_len \in Nat /\ s_run_count \in Nat /\ s_buffer_sent \in Nat
  /\ c_sent_len \in Nat /\ c_run_count \in Nat
  /\ s_buffer_recv \in Seq(Msg) /\ Len(s_buffer_recv) <= Parts
  /\ c_buffer \in Seq(Msg) /\ Len(c_buffer) <= Parts
Verdicts ==
  /\ s_client \/ s_listening => s_result = "none" /\ s_run_count < Iterations
  /\ c_pcb => c_result = "none" /\ c_run_count < Iterations /\ c_sent_len < Parts
  /\ c_complete \/ c_result = "none"

Counted(a, d, f, g) == Counts(wire["server"], a, d) /\ Counts(wire["client"], f, g)

Flows(A, D, F, G) ==
  ServerFlow(A, D, G) /\ ClientFlow(F, D, G) /\ InStep(F, D) /\ Fresh(A, D, F, G)

IInvWith(a, d, f, g) ==
  /\ LinkOK /\ StateOK /\ Verdicts /\ Once
  /\ Counted(a, d, f, g)
  /\ Flows(a[Len(wire["server"])], d[Len(wire["server"])],
           f[Len(wire["client"])], g[Len(wire["client"])])
  /\ ServerMarks(a, d) /\ ClientMarks(f, g)

IInv == \E a, d, f, g : IInvWith(a, d, f, g)

-----------------------------------------------------------------------------
(* A step of the server. *)

\* What Passes says of the counts.
ServerMoves(a, d, f, g, b, e, h, k, ga, ma, n, acked) ==
  /\ a[Len(wire["server"])] \in Nat /\ d[Len(wire["server"])] \in Nat
  /\ f[Len(wire["client"])] \in Nat /\ g[Len(wire["client"])] \in Nat
  /\ b[Len(wire'["server"])] \in Nat /\ e[Len(wire'["server"])] \in Nat
  /\ h[Len(wire'["client"])] \in Nat /\ k[Len(wire'["client"])] \in Nat
  /\ ga \in Nat /\ ma \in Nat /\ n \in Nat
  /\ b[Len(wire'["server"])] + ga = a[Len(wire["server"])]
  /\ e[Len(wire'["server"])] + ma = d[Len(wire["server"])]
  /\ h[Len(wire'["client"])] = f[Len(wire["client"])] + n
  /\ k[Len(wire'["client"])] = g[Len(wire["client"])]
  /\ owed["server"] \in Nat /\ owed'["server"] \in Nat /\ owed["client"] \in Nat
  /\ owed'["server"] + n = owed["server"] + acked /\ owed'["client"] = owed["client"]

\* Counts and marks after a step of the server that sends no buffer.
LEMMA ServerPasses ==
  ASSUME NEW a, NEW d, NEW f, NEW g, IInvWith(a, d, f, g),
         NEW b, NEW e, NEW h, NEW k, NEW ga, NEW ma, NEW n, NEW acked,
         Passes("server", a, d, b, e, f, g, h, k, ga, ma, n, acked)
  PROVE  /\ ServerMoves(a, d, f, g, b, e, h, k, ga, ma, n, acked)
         /\ LinkOK' /\ Counted(b, e, h, k)'
         /\ Asks(wire'["server"]) => Asks(wire["server"])
         /\ AsksOnce(wire'["server"])
         /\ \A t \in Nat : AckedAt(wire["server"], a, t) => AckedAt(wire'["server"], b, t + ga)
         /\ \A t \in Nat : AckedAt(wire["client"], f, t) => AckedAt(wire'["client"], h, t)
         /\ \A c : Numbered(wire["server"], d, c) => Numbered(wire'["server"], e, c)
         /\ \A c : Numbered(wire["client"], g, c) => Numbered(wire'["client"], k, c)
<1>1. /\ LinkOK' /\ Moved(wire["server"], a, d, wire'["server"], b, e, ga, ma, 0)
      /\ Moved(wire["client"], f, g, wire'["client"], h, k, 0, 0, n)
      /\ owed'["server"] + n = owed["server"] + acked /\ owed'["client"] = owed["client"]
  BY DEF Passes, Peer
<1>2. /\ Counts(wire["server"], a, d) /\ Counts(wire["client"], f, g) /\ LinkOK
      /\ AsksOnce(wire["server"])
  BY DEF IInvWith, Counted, Once
<1>3. wire["server"] \in Seq(Msg) /\ wire["client"] \in Seq(Msg)
      /\ owed["server"] \in Nat /\ owed["client"] \in Nat
  BY <1>2 DEF LinkOK, Ends
<1>4. wire'["server"] \in Seq(Msg) /\ wire'["client"] \in Seq(Msg) /\ owed'["server"] \in Nat
  BY <1>1 DEF LinkOK, Ends
<1>5. Counts(wire'["server"], b, e) /\ Counts(wire'["client"], h, k)
  BY <1>1 DEF Moved
<1>6. /\ a[Len(wire["server"])] \in Nat /\ d[Len(wire["server"])] \in Nat
      /\ f[Len(wire["client"])] \in Nat /\ g[Len(wire["client"])] \in Nat
  BY <1>2, <1>3, Totals
<1>7. /\ b[Len(wire'["server"])] \in Nat /\ e[Len(wire'["server"])] \in Nat
      /\ h[Len(wire'["client"])] \in Nat /\ k[Len(wire'["client"])] \in Nat
  BY <1>4, <1>5, Totals
<1>8. /\ b[Len(wire'["server"])] + ga = a[Len(wire["server"])] + 0
      /\ e[Len(wire'["server"])] + ma = d[Len(wire["server"])]
      /\ h[Len(wire'["client"])] + 0 = f[Len(wire["client"])] + n
      /\ k[Len(wire'["client"])] + 0 = g[Len(wire["client"])]
      /\ ga \in Nat /\ ma \in Nat /\ n \in Nat
  BY <1>1 DEF Moved
<1>9. ServerMoves(a, d, f, g, b, e, h, k, ga, ma, n, acked)
  <2> DEFINE A == a[Len(wire["server"])]
             F == f[Len(wire["client"])]
             Fn == h[Len(wire'["client"])]
             G == g[Len(wire["client"])]
             Gn == k[Len(wire'["client"])]
  <2>1. A \in Nat /\ F \in Nat /\ G \in Nat /\ Fn \in Nat /\ Gn \in Nat
    BY <1>6, <1>7
  <2>2. b[Len(wire'["server"])] + ga = A + 0 /\ Fn + 0 = F + n /\ Gn + 0 = G
    BY <1>8
  <2> HIDE DEF A, F, Fn, G, Gn
  <2>3. b[Len(wire'["server"])] + ga = A /\ Fn = F + n /\ Gn = G
    BY <2>1, <2>2
  <2> QED
    BY <1>1, <1>3, <1>4, <1>6, <1>7, <1>8, <2>3 DEF ServerMoves, A, F, Fn, G, Gn
<1>10. /\ Asks(wire'["server"]) => Asks(wire["server"])
       /\ AsksOnce(wire'["server"])
       /\ \A t \in Nat : AckedAt(wire["server"], a, t) => AckedAt(wire'["server"], b, t + ga)
       /\ \A c : Numbered(wire["server"], d, c) => Numbered(wire'["server"], e, c)
       /\ \A c : Numbered(wire["client"], g, c) => Numbered(wire'["client"], k, c)
  BY <1>1, <1>2 DEF Moved
<1>11. \A t \in Nat : AckedAt(wire["client"], f, t) => AckedAt(wire'["client"], h, t)
  <2> SUFFICES ASSUME NEW t \in Nat, AckedAt(wire["client"], f, t)
               PROVE  AckedAt(wire'["client"], h, t)
    OBVIOUS
  <2>1. AckedAt(wire'["client"], h, t + 0) /\ t + 0 = t
    BY <1>1 DEF Moved
  <2> QED
    BY <2>1
<1> QED
  BY <1>1, <1>5, <1>9, <1>10, <1>11 DEF Counted

\* No data of any buffer where none is counted.
LEMMA NothingMarked ==
  ASSUME NEW q \in Seq(Msg), NEW a, NEW d, Counts(q, a, d), d[Len(q)] = 0, NEW t, NEW c
  PROVE  AckedAt(q, a, t) /\ Numbered(q, d, c)
BY NoData DEF AckedAt, Numbered

\* What the server does with a segment of data or without one leaves the client's side.
LEMMA ServerLeavesClient ==
  ASSUME NEW a, NEW d, NEW f, NEW g, IInvWith(a, d, f, g),
         NEW b, NEW e, NEW h, NEW k, NEW ga, NEW ma, NEW n, NEW acked \in Nat,
         Passes("server", a, d, b, e, f, g, h, k, ga, ma, n, acked),
         UNCHANGED clientVars, acked <= ma, s_client' => s_client /\ acked = ma,
         s_buffer_sent' = s_buffer_sent \/ g[Len(wire["client"])] = 0
  PROVE  /\ ClientFlow(h[Len(wire["client"])], e[Len(wire["server"])], k[Len(wire["client"])])'
         /\ ClientMarks(h, k)'
         /\ Once'
<1> DEFINE D == d[Len(wire["server"])]
           F == f[Len(wire["client"])]
           G == g[Len(wire["client"])]
<1>0. PICK Dn, Fn, Gn : /\ Dn = e[Len(wire'["server"])]
                        /\ Fn = h[Len(wire'["client"])]
                        /\ Gn = k[Len(wire'["client"])]
  OBVIOUS
<1>1. /\ D \in Nat /\ F \in Nat /\ G \in Nat /\ Dn \in Nat /\ Fn \in Nat /\ Gn \in Nat
      /\ ma \in Nat /\ n \in Nat /\ Dn + ma = D /\ Fn = F + n /\ Gn = G
      /\ owed["server"] \in Nat /\ owed'["server"] \in Nat /\ owed'["server"] + n = owed["server"] + acked
  BY <1>0, ServerPasses DEF ServerMoves
<1>2. /\ c_pcb' = c_pcb /\ c_buffer' = c_buffer /\ c_sent_len' = c_sent_len
      /\ c_run_count' = c_run_count /\ c_complete' = c_complete
  BY DEF clientVars
<1>3. ClientFlow(F, D, G) /\ ClientMarks(f, g) /\ Once /\ StateOK
  BY DEF IInvWith, Flows
<1>4. c_sent_len \in Nat /\ Parts \in Nat \ {0} /\ c_buffer \in Seq(Msg) /\ Len(c_buffer) \in Nat
      /\ Len(c_buffer) <= Parts
  BY <1>3, PartsAssumption DEF StateOK
<1>5. G > 0 => s_buffer_sent' = s_buffer_sent
  BY <1>1
<1> HIDE DEF D, F, G
<1> DEFINE Y == c_sent_len + F + owed["server"] + D
<1>6. PICK X : X = c_sent_len + Fn + owed'["server"] + Dn
  OBVIOUS
<1>7. X \in Nat /\ Y \in Nat /\ X <= Y /\ (acked = ma => X = Y)
  <2>8. c_sent_len \in Nat /\ F \in Nat /\ D \in Nat /\ Fn \in Nat /\ Dn \in Nat
        /\ owed["server"] \in Nat /\ owed'["server"] \in Nat /\ n \in Nat /\ ma \in Nat
    BY <1>1, <1>4
  <2>9. Fn = F + n /\ owed'["server"] + n = owed["server"] + acked /\ Dn + ma = D
    BY <1>1
  <2>10. X \in Nat
    BY <1>6, <2>8
  <2>11. Y \in Nat
    BY <2>8
  <2> DEFINE o == owed["server"]
             on == owed'["server"]
  <2>13. o \in Nat /\ on \in Nat /\ on + n = o + acked
    BY <2>8, <2>9
  <2> HIDE DEF o, on
  <2>14. (c_sent_len + Fn + on + Dn) + ma = (c_sent_len + F + o + D) + acked
    BY <2>8, <2>9, <2>13
  <2>12. X + ma = Y + acked
    BY <1>6, <2>14 DEF o, on
  <2>1. X \in Nat /\ Y \in Nat /\ X + ma = Y + acked
    BY <2>10, <2>11, <2>12
  <2>2. X + ma = Y + acked
    BY <2>1
  <2> HIDE DEF Y
  <2>3. X <= Y
    BY <1>1, <2>1, <2>2
  <2>4. acked = ma => X = Y
    BY <1>1, <2>1, <2>2
  <2> QED
    BY <2>1, <2>3, <2>4
<1> HIDE DEF Y
<1>8. ClientFlow(Fn, Dn, Gn)'
  <2>1. ASSUME c_pcb
        PROVE  /\ X <= Parts
               /\ Len(c_buffer) < Parts => X = 0
               /\ Dn > 0 /\ s_client' => X = Parts
               /\ Gn > 0 => Gn + (IF Len(c_buffer) < Parts THEN Len(c_buffer) ELSE 0) = Parts
               /\ Gn > 0 /\ Len(c_buffer) < Parts =>
                    \A i \in 1..Len(c_buffer) : c_buffer[i] = Entry("DATA", s_buffer_sent', i)
    <3>1. /\ Y <= Parts
          /\ Len(c_buffer) < Parts => Y = 0
          /\ D > 0 /\ s_client => Y = Parts
          /\ G > 0 => G + (IF Len(c_buffer) < Parts THEN Len(c_buffer) ELSE 0) = Parts
      BY <1>3, <2>1 DEF ClientFlow, Y
    <3>2. Gn > 0 /\ Len(c_buffer) < Parts =>
            \A i \in 1..Len(c_buffer) : c_buffer[i] = Entry("DATA", s_buffer_sent', i)
      BY <1>1, <1>3, <1>5, <2>1 DEF ClientFlow, Filled
    <3>3. Gn > 0 => Gn + (IF Len(c_buffer) < Parts THEN Len(c_buffer) ELSE 0) = Parts
      BY <1>1, <3>1
    <3>4. Dn > 0 /\ s_client' => X = Parts
      <4> SUFFICES ASSUME Dn > 0, s_client'
                   PROVE  X = Parts
        OBVIOUS
      <4>1. s_client /\ acked = ma
        OBVIOUS
      <4>2. D > 0
        BY <1>1
      <4> QED
        BY <1>7, <3>1, <4>1, <4>2
    <3>5. X <= Parts /\ (Len(c_buffer) < Parts => X = 0)
      BY <1>4, <1>7, <3>1
    <3> QED
      BY <3>2, <3>3, <3>4, <3>5
  <2>2. (\A i \in 1..Len(c_buffer) : c_buffer[i] = Entry("DATA", s_buffer_sent', i)) => Filled(c_buffer)'
    BY <1>2 DEF Filled
  <2> QED
    BY <1>2, <1>6, <2>1, <2>2 DEF ClientFlow
<1>9. ClientMarks(h, k)'
  <2> SUFFICES ASSUME c_pcb
               PROVE  /\ Len(c_buffer) = Parts => AckedAt(wire'["client"], h, c_sent_len)
                      /\ Numbered(wire'["client"], k, s_buffer_sent')
    BY <1>2 DEF ClientMarks
  <2>1. Len(c_buffer) = Parts => AckedAt(wire'["client"], h, c_sent_len)
    BY <1>3, <1>4, ServerPasses DEF ClientMarks
  <2>2. CASE G > 0
    BY <1>3, <1>5, <2>1, <2>2, ServerPasses DEF ClientMarks
  <2>3. CASE G = 0
    <3>1. Counts(wire'["client"], h, k) /\ wire'["client"] \in Seq(Msg)
      BY ServerPasses DEF Counted, LinkOK, Ends
    <3>2. k[Len(wire'["client"])] = 0
      BY <1>0, <1>1, <2>3
    <3> QED
      BY <2>1, <3>1, <3>2, NothingMarked
  <2> QED
    BY <1>1, <2>2, <2>3
<1>10. Once'
  BY <1>2, <1>3, ServerPasses DEF Once
<1> QED
  BY <1>0, <1>8, <1>9, <1>10

\* The server takes no data and no acknowledgement, or its connection ends: with the
\* last part of an echo that has been compared, if a round has been counted.
LEMMA ServerQuiet ==
  ASSUME NEW a, NEW d, NEW f, NEW g, IInvWith(a, d, f, g),
         NEW b, NEW e, NEW h, NEW k, NEW ga, NEW ma, NEW n, NEW acked \in Nat,
         Passes("server", a, d, b, e, f, g, h, k, ga, ma, n, acked),
         UNCHANGED clientVars, StateOK', Verdicts', acked <= ma,
         s_client' => /\ s_client /\ ga = 0 /\ ma = 0
                      /\ UNCHANGED <<s_sent_len, s_buffer_recv, s_run_count, s_buffer_sent>>,
         s_buffer_sent' = s_buffer_sent \/ g[Len(wire["client"])] = 0,
         \/ acked = 0 /\ s_run_count' = s_run_count
         \/ s_client /\ d[Len(wire["server"])] = 1 /\ s_run_count' = s_run_count + 1,
         Asks(wire["server"]) \/ (~ c_pcb /\ ~ c_complete) => UNCHANGED <<s_sent_len, s_buffer_recv>>
  PROVE  IInvWith(b, e, h, k)'
<1> DEFINE A == a[Len(wire["server"])]
           D == d[Len(wire["server"])]
           F == f[Len(wire["client"])]
           G == g[Len(wire["client"])]
<1>0. PICK An, Dn, Fn, Gn, o, on, oc :
        /\ An = b[Len(wire'["server"])] /\ Dn = e[Len(wire'["server"])]
        /\ Fn = h[Len(wire'["client"])] /\ Gn = k[Len(wire'["client"])]
        /\ o = owed["server"] /\ on = owed'["server"] /\ oc = owed["client"]
  OBVIOUS
<1>1. /\ A \in Nat /\ D \in Nat /\ F \in Nat /\ G \in Nat
      /\ An \in Nat /\ Dn \in Nat /\ Fn \in Nat /\ Gn \in Nat
      /\ ga \in Nat /\ ma \in Nat /\ n \in Nat /\ o \in Nat /\ on \in Nat /\ oc \in Nat
      /\ An + ga = A /\ Dn + ma = D /\ Fn = F + n /\ Gn = G
      /\ on + n = o + acked /\ owed'["client"] = oc
  BY <1>0, ServerPasses DEF ServerMoves
<1>2. /\ c_pcb' = c_pcb /\ c_buffer' = c_buffer /\ c_sent_len' = c_sent_len
      /\ c_run_count' = c_run_count /\ c_complete' = c_complete
  BY DEF clientVars
<1>3. /\ ServerFlow(A, D, G) /\ ClientFlow(F, D, G) /\ InStep(F, D) /\ Fresh(A, D, F, G)
      /\ ServerMarks(a, d) /\ Once /\ StateOK
  BY DEF IInvWith, Flows
<1>4. c_sent_len \in Nat /\ Parts \in Nat \ {0} /\ Len(c_buffer) \in Nat /\ s_sent_len \in Nat
      /\ s_run_count \in Nat /\ c_run_count \in Nat
  BY <1>3, PartsAssumption DEF StateOK
<1> HIDE DEF A, D, F, G
<1>5. ClientFlow(Fn, Dn, Gn)' /\ ClientMarks(h, k)' /\ Once'
  <2>1. /\ ClientFlow(h[Len(wire["client"])], e[Len(wire["server"])], k[Len(wire["client"])])'
        /\ ClientMarks(h, k)' /\ Once'
    BY <1>1, ServerLeavesClient
  <2> QED
    BY <1>0, <2>1
<1>6. ServerFlow(An, Dn, Gn)' /\ ServerMarks(b, e)'
  <2>1. CASE ~ s_client'
    BY <2>1 DEF ServerFlow, ServerMarks
  <2>2. CASE s_client'
    <3>1. s_client /\ ga = 0 /\ ma = 0 /\ s_sent_len' = s_sent_len /\ s_buffer_recv' = s_buffer_recv
          /\ s_buffer_sent' = s_buffer_sent
      BY <2>2
    <3>2. An = A /\ Dn = D /\ Gn = G
      BY <1>1, <3>1
    <3>3. owed'["client"] = owed["client"]
      BY <1>0, <1>1
    <3>4. ServerFlow(An, Dn, Gn)'
      BY <1>2, <1>3, <2>2, <3>1, <3>2, <3>3 DEF ServerFlow, Filled
    <3>5. AckedAt(wire'["server"], b, s_sent_len + 0) /\ s_sent_len + 0 = s_sent_len
      BY <1>3, <1>4, <3>1, ServerPasses DEF ServerMarks
    <3>6. Numbered(wire'["server"], e, s_buffer_sent)
      BY <1>3, <3>1, ServerPasses DEF ServerMarks
    <3> QED
      BY <3>1, <3>4, <3>5, <3>6 DEF ServerMarks
  <2> QED
    BY <2>1, <2>2
<1>7. InStep(Fn, Dn)'
  <2>1. ASSUME s_client'
        PROVE  s_client /\ Dn = D /\ s_run_count' = s_run_count
    BY <1>1, <2>1
  <2>2. ASSUME s_client', Dn > 0
        PROVE  c_run_count' = s_run_count'
    BY <1>2, <1>3, <2>1, <2>2 DEF InStep
  <2>3. ASSUME s_client', c_pcb', Len(c_buffer') < Parts
        PROVE  c_run_count' = s_run_count'
    BY <1>2, <1>3, <2>1, <2>3 DEF InStep
  <2>4. ASSUME c_pcb', Len(c_buffer') = Parts, c_sent_len' + Fn + on >= Parts
        PROVE  s_run_count' = c_run_count' + 1
    <3>1. CASE acked = 0 /\ s_run_count' = s_run_count
      <4>1. Fn + on = F + o
        BY <1>1, <3>1
      <4>2. c_sent_len + F + o >= Parts
        BY <1>1, <1>2, <1>4, <2>4, <4>1
      <4> QED
        BY <1>0, <1>2, <1>3, <2>4, <3>1, <4>2 DEF InStep
    <3>2. CASE s_client /\ D = 1 /\ s_run_count' = s_run_count + 1
      <4>1. c_run_count = s_run_count
        BY <1>3, <3>2 DEF InStep
      <4> QED
        BY <1>2, <3>2, <4>1
    <3> QED
      BY <3>1, <3>2 DEF D
  <2> QED
    BY <1>0, <2>2, <2>3, <2>4 DEF InStep
<1>8. Fresh(An, Dn, Fn, Gn)'
  <2>1. ASSUME Asks(wire'["server"]) \/ (~ c_pcb' /\ ~ c_complete')
        PROVE  Asks(wire["server"]) \/ (~ c_pcb /\ ~ c_complete)
    BY <1>2, <2>1, ServerPasses
  <2>2. ASSUME Asks(wire["server"]) \/ (~ c_pcb /\ ~ c_complete)
        PROVE  /\ ~ s_client /\ s_run_count = 0 /\ c_run_count = 0
               /\ s_buffer_recv = <<>> /\ c_buffer = <<>> /\ s_sent_len = 0 /\ c_sent_len = 0
               /\ A = 0 /\ D = 0 /\ F = 0 /\ G = 0 /\ o = 0 /\ oc = 0
    BY <1>0, <1>3, <2>2 DEF Fresh
  <2>3. ASSUME Asks(wire'["server"]) \/ (~ c_pcb' /\ ~ c_complete')
        PROVE  /\ ~ s_client' /\ s_run_count' = 0 /\ An = 0 /\ Dn = 0 /\ Fn = 0 /\ Gn = 0
               /\ on = 0 /\ oc = 0
    <3>1. /\ ~ s_client /\ s_run_count = 0 /\ A = 0 /\ D = 0 /\ F = 0 /\ G = 0 /\ o = 0 /\ oc = 0
      BY <2>1, <2>2, <2>3
    <3>2. An = 0 /\ Dn = 0 /\ ma = 0 /\ acked = 0
      BY <1>1, <3>1
    <3>3. on = 0 /\ n = 0
      BY <1>1, <3>1, <3>2
    <3>4. Fn = 0 /\ Gn = 0
      BY <1>1, <3>1, <3>3
    <3>5. ~ s_client'
      BY <3>1
    <3>6. s_run_count' = 0
      BY <3>1
    <3> QED
      BY <3>1, <3>2, <3>3, <3>4, <3>5, <3>6
  <2>4. ASSUME Asks(wire'["server"]) \/ (~ c_pcb' /\ ~ c_complete')
        PROVE  s_buffer_recv' = <<>> /\ s_sent_len' = 0 /\ c_buffer' = <<>> /\ c_sent_len' = 0
               /\ c_run_count' = 0
    <3>1. s_buffer_recv' = s_buffer_recv /\ s_sent_len' = s_sent_len
      BY <2>1, <2>4
    <3> QED
      BY <1>2, <2>1, <2>2, <2>4, <3>1
  <2> QED
    BY <1>0, <1>1, <2>3, <2>4 DEF Fresh
<1>9. LinkOK' /\ Counted(b, e, h, k)'
  BY ServerPasses
<1> QED
  BY <1>0, <1>5, <1>6, <1>7, <1>8, <1>9 DEF IInvWith, Flows

\* Ready for the buffer: the last one acknowledged, its echo compared and acknowledged.
Ready(a, d, f, ma, acked) ==
  /\ a[Len(wire["server"])] = 0 /\ owed["client"] = 0 /\ d[Len(wire["server"])] = ma
  /\ c_pcb /\ Len(c_buffer) < Parts =>
       /\ Len(c_buffer) = 0 /\ c_run_count = s_run_count'
       /\ c_sent_len + f[Len(wire["client"])] + owed["server"] + acked = 0
  /\ c_pcb /\ Len(c_buffer) = Parts =>
       /\ s_run_count' = c_run_count + 1
       /\ c_sent_len + f[Len(wire["client"])] + owed["server"] + acked = Parts
  /\ ~ Asks(wire'["server"]) /\ (c_pcb \/ c_complete)

\* With the last buffer compared, the next keeps the invariant.
LEMMA ServerSendsBuffer ==
  ASSUME NEW a, NEW d, NEW f, NEW g, IInvWith(a, d, f, g),
         NEW b, NEW e, NEW h, NEW k, NEW ga, NEW ma, NEW n, NEW acked \in Nat, NEW c \in Nat,
         Loads("server", a, d, b, e, f, g, h, k, ga, ma, n, acked, c),
         UNCHANGED clientVars, StateOK', Verdicts', s_client', s_sent_len' = 0, s_buffer_sent' = c,
         Ready(a, d, f, ma, acked)
  PROVE  IInvWith(b, e, h, k)'
<1>20. PICK A, D, F, o : /\ A = a[Len(wire["server"])] /\ D = d[Len(wire["server"])]
                         /\ F = f[Len(wire["client"])] /\ o = owed["server"]
  OBVIOUS
<1>21. /\ A = 0 /\ owed["client"] = 0 /\ D = ma
       /\ c_pcb /\ Len(c_buffer) < Parts =>
            Len(c_buffer) = 0 /\ c_sent_len + F + o + acked = 0 /\ c_run_count = s_run_count'
       /\ c_pcb /\ Len(c_buffer) = Parts =>
            c_sent_len + F + o + acked = Parts /\ s_run_count' = c_run_count + 1
       /\ ~ Asks(wire'["server"]) /\ (c_pcb \/ c_complete)
  BY <1>20 DEF Ready
<1>0. PICK An, Dn, Fn, Gn, on :
        /\ An = b[Len(wire'["server"])] /\ Dn = e[Len(wire'["server"])]
        /\ Fn = h[Len(wire'["client"])] /\ Gn = k[Len(wire'["client"])]
        /\ on = owed'["server"]
  OBVIOUS
<1>1. /\ LinkOK' /\ Moved(wire["server"], a, d, wire'["server"], b, e, ga, ma, 0)
      /\ Loaded(wire["client"], f, g, wire'["client"], h, k, n, c)
      /\ on + n = o + acked /\ on = 0 /\ owed'["client"] = 0
  BY <1>0, <1>20, <1>21 DEF Loads, Peer
<1>2. /\ Counts(wire["server"], a, d) /\ Counts(wire["client"], f, g) /\ LinkOK
      /\ AsksOnce(wire["server"]) /\ StateOK
  BY DEF IInvWith, Counted, Once
<1>3. wire["server"] \in Seq(Msg) /\ wire["client"] \in Seq(Msg) /\ o \in Nat
  BY <1>2, <1>20 DEF LinkOK, Ends
<1>4. wire'["server"] \in Seq(Msg) /\ wire'["client"] \in Seq(Msg)
  BY <1>1 DEF LinkOK, Ends
<1>5. Counts(wire'["server"], b, e) /\ Counts(wire'["client"], h, k)
  BY <1>1 DEF Moved, Loaded
<1>6. A \in Nat /\ D \in Nat /\ F \in Nat
  BY <1>2, <1>3, <1>20, Totals
<1>7. An \in Nat /\ Dn \in Nat /\ Fn \in Nat /\ Gn \in Nat
  BY <1>0, <1>4, <1>5, Totals
<1>8. An + ga = A + 0 /\ Dn + ma = D /\ ga \in Nat /\ ma \in Nat
  BY <1>0, <1>1, <1>20 DEF Moved
<1>9. n \in Nat /\ Fn = F + n /\ Gn = Parts
  BY <1>0, <1>1, <1>20 DEF Loaded
<1>10. An = 0 /\ Dn = 0 /\ n = o + acked /\ Parts \in Nat \ {0}
  BY <1>1, <1>3, <1>6, <1>7, <1>8, <1>9, <1>21, PartsAssumption
<1>11. /\ c_pcb' = c_pcb /\ c_buffer' = c_buffer /\ c_sent_len' = c_sent_len
       /\ c_run_count' = c_run_count /\ c_complete' = c_complete
  BY DEF clientVars
<1>12. c_sent_len \in Nat /\ Len(c_buffer) \in Nat /\ Len(c_buffer) <= Parts
  BY <1>2 DEF StateOK
<1>13. ServerFlow(An, Dn, Gn)' /\ ServerMarks(b, e)'
  <2>1. s_sent_len' + An + owed'["client"] + Gn = Parts
    BY <1>1, <1>9, <1>10
  <2>2. ServerFlow(An, Dn, Gn)'
    BY <1>10, <2>1 DEF ServerFlow
  <2>3. e[Len(wire'["server"])] = 0
    BY <1>0, <1>10
  <2> QED
    BY <1>4, <1>5, <2>2, <2>3, NothingMarked DEF ServerMarks
<1>14. ClientFlow(Fn, Dn, Gn)'
  <2>1. PICK X : X = c_sent_len + Fn + on + Dn
    OBVIOUS
  <2>2. X = c_sent_len + F + o + acked
    <3>1. on = 0 /\ Dn = 0 /\ Fn = F + (o + acked)
      BY <1>1, <1>9, <1>10
    <3>3. c_sent_len \in Nat /\ F \in Nat /\ o \in Nat /\ acked \in Nat
      BY <1>3, <1>6, <1>12
    <3>2. c_sent_len + (F + (o + acked)) + 0 + 0 = c_sent_len + F + o + acked
      BY ONLY <3>3
    <3> QED
      BY <2>1, <3>1, <3>2
  <2>3. CASE c_pcb /\ Len(c_buffer) < Parts
    <3>1. X = 0 /\ Len(c_buffer) = 0
      BY <1>21, <2>2, <2>3
    <3>2. Filled(c_buffer)'
      BY <1>11, <3>1 DEF Filled
    <3> QED
      BY <1>0, <1>9, <1>10, <1>11, <2>1, <3>1, <3>2 DEF ClientFlow
  <2>4. CASE c_pcb /\ Len(c_buffer) = Parts
    <3>1. X = Parts
      BY <1>21, <2>2, <2>4
    <3>2. X <= Parts /\ ~ (Len(c_buffer) < Parts)
      BY <1>10, <2>4, <3>1
    <3> QED
      BY <1>0, <1>9, <1>10, <1>11, <2>1, <2>4, <3>1, <3>2 DEF ClientFlow
  <2>5. CASE ~ c_pcb
    BY <1>11, <2>5 DEF ClientFlow
  <2> QED
    BY <1>10, <1>12, <2>3, <2>4, <2>5
<1>15. ClientMarks(h, k)'
  <2>1. Numbered(wire'["client"], k, c)
    BY <1>1 DEF Loaded
  <2>2. ASSUME c_pcb, Len(c_buffer) = Parts
        PROVE  AckedAt(wire'["client"], h, c_sent_len)
    <3>2. c_sent_len \in Nat /\ F \in Nat /\ o \in Nat /\ acked \in Nat /\ Parts \in Nat
          /\ n = o + acked /\ c_sent_len + F + o + acked = Parts
      BY <1>3, <1>6, <1>10, <1>12, <1>21, <2>2
    <3>1. c_sent_len + (F + n) >= Parts
      BY ONLY <3>2
    <3> QED
      BY <1>1, <1>12, <1>20, <3>1 DEF Loaded
  <2> QED
    BY <1>11, <2>1, <2>2 DEF ClientMarks
<1>16. InStep(Fn, Dn)'
  BY <1>0, <1>10, <1>11, <1>14, <1>21 DEF InStep
<1>17. Fresh(An, Dn, Fn, Gn)'
  BY <1>11, <1>21 DEF Fresh
<1>18. Once'
  BY <1>1, <1>2, <1>11, <1>21 DEF Once, Moved
<1> QED
  BY <1>0, <1>1, <1>5, <1>13, <1>14, <1>15, <1>16, <1>17, <1>18 DEF IInvWith, Flows, Counted

-----------------------------------------------------------------------------
(* The actions of TcpServer. *)

\* What closes or accepts a connection is plain.
LEMMA PlainOuts ==
  /\ Closings \subseteq PlainSeq
  /\ <<>> \in PlainSeq
  /\ <<Entry("SYNACK", 0, 0)>> \in PlainSeq /\ <<Entry("RST", 0, 0)>> \in PlainSeq
  /\ \A out \in Closings : <<Entry("SYNACK", 0, 0)>> \o out \in PlainSeq
<1>1. ASSUME NEW t \in {"SYNACK", "FIN", "RST"}
      PROVE  <<Entry(t, 0, 0)>> \in PlainSeq
  <2> DEFINE m == Entry(t, 0, 0)
  <2>1. m \in Msg /\ m.type \in Plain
    BY DEF Entry, Msg, Plain
  <2> HIDE DEF m
  <2>2. <<m>> \in PlainSeq
    BY <2>1 DEF PlainSeq
  <2> QED
    BY <2>2 DEF m
<1>2. <<>> \in PlainSeq
  BY DEF PlainSeq
<1>3. Closings \subseteq PlainSeq
  BY <1>1 DEF Closings
<1>4. ASSUME NEW p \in PlainSeq, NEW q \in PlainSeq
      PROVE  p \o q \in PlainSeq
  <2>1. p \in Seq(Msg) /\ q \in Seq(Msg)
        /\ (\A i \in 1..Len(p) : p[i].type \in Plain) /\ (\A i \in 1..Len(q) : q[i].type \in Plain)
    BY DEF PlainSeq
  <2>2. p \o q \in Seq(Msg) /\ Len(p \o q) = Len(p) + Len(q)
    BY <2>1, JoinElements
  <2>3. ASSUME NEW i \in 1..Len(p \o q)
        PROVE  (p \o q)[i].type \in Plain
    <3>1. CASE i \in 1..Len(p)
      BY <2>1, <3>1, JoinElements
    <3>2. CASE i \in (Len(p) + 1)..Len(p \o q)
      <4>1. i - Len(p) \in 1..Len(q) /\ (p \o q)[i] = q[i - Len(p)]
        BY <2>1, <3>2, JoinElements
      <4> QED
        BY <2>1, <4>1
    <3>3. Len(p) \in Nat /\ Len(q) \in Nat
      BY <2>1
    <3> QED
      BY <2>2, <3>1, <3>2, <3>3
  <2> QED
    BY <2>2, <2>3 DEF PlainSeq
<1> QED
  BY <1>1, <1>2, <1>3, <1>4

\* The parts of the invariant.
LEMMA ServerCounts ==
  ASSUME NEW a, NEW d, NEW f, NEW g, IInvWith(a, d, f, g)
  PROVE  /\ LinkOK /\ StateOK /\ Verdicts /\ Once
         /\ wire["server"] \in Seq(Msg) /\ wire["client"] \in Seq(Msg)
         /\ Counts(wire["server"], a, d) /\ Counts(wire["client"], f, g)
         /\ Flows(a[Len(wire["server"])], d[Len(wire["server"])],
                  f[Len(wire["client"])], g[Len(wire["client"])])
         /\ ServerMarks(a, d) /\ ClientMarks(f, g)
         /\ "server" \in Ends /\ "client" \in Ends
         /\ Peer("server") = "client" /\ Peer("client") = "server"
BY DEF IInvWith, Counted, LinkOK, Ends, Peer

\* The connection is over for the server, or was never there.
LEMMA ServerOut ==
  ASSUME NEW a, NEW d, NEW f, NEW g, IInvWith(a, d, f, g),
         NEW out \in PlainSeq, NEW acked \in Nat,
         \/ /\ wire["server"] # <<>> /\ Exchange("server", acked, out)
            /\ acked # 0 => acked = 1 /\ Head(wire["server"]).type = "DATA"
         \/ Transmit("server", out) /\ acked = 0
         \/ ArrivesClosed("server") /\ acked = 0,
         UNCHANGED clientVars, StateOK', Verdicts', ~ s_client',
         s_buffer_sent' = s_buffer_sent \/ g[Len(wire["client"])] = 0,
         \/ acked = 0 /\ s_run_count' = s_run_count
         \/ s_client /\ d[Len(wire["server"])] = 1 /\ s_run_count' = s_run_count + 1,
         Asks(wire["server"]) \/ (~ c_pcb /\ ~ c_complete) => UNCHANGED <<s_sent_len, s_buffer_recv>>
  PROVE  IInv'
<1>1. /\ LinkOK /\ wire["server"] \in Seq(Msg) /\ wire["client"] \in Seq(Msg)
      /\ Counts(wire["server"], a, d) /\ Counts(wire["client"], f, g)
      /\ "server" \in Ends /\ Peer("server") = "client"
  BY ServerCounts
<1>2. \E b, e, h, k, ga, ma, n : /\ Passes("server", a, d, b, e, f, g, h, k, ga, ma, n, acked)
                                 /\ acked <= ma
  <2>1. CASE /\ wire["server"] # <<>> /\ Exchange("server", acked, out)
             /\ acked # 0 => acked = 1 /\ Head(wire["server"]).type = "DATA"
    <3>1. \E b, e, h, k, n : Passes("server", a, d, b, e, f, g, h, k, a[1], d[1], n, acked)
      BY <1>1, <2>1, ExchangePasses
    <3>2. d[1] \in Nat /\ d[1] = IF Head(wire["server"]).type = "DATA" THEN 1 ELSE 0
      BY <1>1, <2>1, HeadCounts
    <3>3. acked <= d[1]
      BY <2>1, <3>2
    <3> QED
      BY <3>1, <3>3
  <2>2. CASE Transmit("server", out) /\ acked = 0
    <3>1. \E h, k, n : Passes("server", a, d, a, d, f, g, h, k, 0, 0, n, 0)
      BY <1>1, <2>2, TransmitPasses
    <3> QED
      BY <2>2, <3>1
  <2>3. CASE ArrivesClosed("server") /\ acked = 0
    <3>1. \E b, e, h, k : Passes("server", a, d, b, e, f, g, h, k, a[1], d[1], 0, 0)
      BY <1>1, <2>3, ClosedPasses
    <3>2. d[1] \in Nat
      BY <1>1, <2>3, HeadCounts DEF ArrivesClosed
    <3> QED
      BY <2>3, <3>1, <3>2
  <2> QED
    BY <2>1, <2>2, <2>3
<1>3. PICK b, e, h, k, ga, ma, n : /\ Passes("server", a, d, b, e, f, g, h, k, ga, ma, n, acked)
                                   /\ acked <= ma
  BY <1>2
<1>4. IInvWith(b, e, h, k)'
  BY <1>3, ServerQuiet
<1> QED
  BY <1>4 DEF IInv

\* Closing, reset, poll timer and late arrivals at the server.
LEMMA ServerStepsOut ==
  ASSUME NEW a, NEW d, NEW f, NEW g, IInvWith(a, d, f, g), UNCHANGED clientVars,
         \/ tcp_server_recv_closed \/ tcp_server_err \/ tcp_server_poll \/ ServerClosedArrival
  PROVE  IInv'
<1>1. StateOK /\ Verdicts
  BY ServerCounts
<1>2. /\ c_pcb' = c_pcb /\ c_buffer' = c_buffer /\ c_sent_len' = c_sent_len
      /\ c_run_count' = c_run_count /\ c_complete' = c_complete /\ c_result' = c_result
  BY DEF clientVars
<1>3. ASSUME UNCHANGED <<s_buffer_sent, s_buffer_recv, s_sent_len, s_run_count>>
      PROVE  StateOK'
  BY <1>1, <1>2, <1>3 DEF StateOK
<1>4. ASSUME tcp_server_result("failed")
      PROVE  Verdicts' /\ ~ s_client'
  BY <1>1, <1>2, <1>4 DEF Verdicts, tcp_server_result
<1>5. 0 \in Nat
  OBVIOUS
<1>6. CASE tcp_server_recv_closed
  <2>1. PICK out \in Closings : Exchange("server", 0, out)
    BY <1>6 DEF tcp_server_recv_closed, ServerEnds
  <2>2. wire["server"] # <<>> /\ tcp_server_result("failed")
        /\ UNCHANGED <<s_buffer_sent, s_buffer_recv, s_sent_len, s_run_count>>
    BY <1>6 DEF tcp_server_recv_closed, ServerEnds, Arrived
  <2> QED
    BY <1>3, <1>4, <1>5, <2>1, <2>2, PlainOuts, ServerOut
<1>7. CASE tcp_server_err
  <2>1. wire["server"] # <<>> /\ Exchange("server", 0, <<>>) /\ tcp_server_result("failed")
        /\ UNCHANGED <<s_buffer_sent, s_buffer_recv, s_sent_len, s_run_count>>
    BY <1>7 DEF tcp_server_err, Arrived
  <2> QED
    BY <1>3, <1>4, <1>5, <2>1, PlainOuts, ServerOut
<1>8. CASE tcp_server_poll
  <2>1. PICK out \in Closings : Transmit("server", out)
    BY <1>8 DEF tcp_server_poll
  <2>2. tcp_server_result("failed")
        /\ UNCHANGED <<s_buffer_sent, s_buffer_recv, s_sent_len, s_run_count>>
    BY <1>8 DEF tcp_server_poll
  <2> QED
    BY <1>3, <1>4, <1>5, <2>1, <2>2, PlainOuts, ServerOut
<1>9. CASE ServerClosedArrival
  <2>1. ~ s_client /\ UNCHANGED serverVars
    BY <1>9 DEF ServerClosedArrival
  <2>2. UNCHANGED <<s_buffer_sent, s_buffer_recv, s_sent_len, s_run_count>> /\ ~ s_client'
    BY <2>1 DEF serverVars
  <2>3. Verdicts'
    BY <1>1, <1>2, <2>1 DEF Verdicts, serverVars
  <2>4. CASE Arrived("server", "SYN") /\ Exchange("server", 0, <<Entry("RST", 0, 0)>>)
    <3>1. wire["server"] # <<>>
      BY <2>4 DEF Arrived
    <3> QED
      BY <1>3, <1>5, <2>2, <2>3, <2>4, <3>1, PlainOuts, ServerOut
  <2>5. CASE ArrivesClosed("server")
    BY <1>3, <1>5, <2>2, <2>3, <2>5, PlainOuts, ServerOut
  <2> QED
    BY <1>9, <2>4, <2>5 DEF ServerClosedArrival
<1> QED
  BY <1>6, <1>7, <1>8, <1>9

\* The delayed acknowledgement of the server.
LEMMA ServerDelayedAck ==
  ASSUME NEW a, NEW d, NEW f, NEW g, IInvWith(a, d, f, g), UNCHANGED clientVars,
         DelayedAck("server"), UNCHANGED serverVars
  PROVE  IInv'
<1>1. /\ LinkOK /\ wire["server"] \in Seq(Msg) /\ wire["client"] \in Seq(Msg) /\ StateOK /\ Verdicts
      /\ Counts(wire["server"], a, d) /\ Counts(wire["client"], f, g)
      /\ "server" \in Ends /\ Peer("server") = "client"
  BY ServerCounts
<1>2. Transmit("server", <<>>)
  BY DEF DelayedAck
<1>3. PICK h, k, n : Passes("server", a, d, a, d, f, g, h, k, 0, 0, n, 0)
  BY <1>1, <1>2, PlainOuts, TransmitPasses
<1>4. StateOK' /\ Verdicts'
  BY <1>1 DEF StateOK, Verdicts, serverVars, clientVars
<1>5. /\ UNCHANGED <<s_sent_len, s_buffer_recv, s_run_count, s_buffer_sent>>
      /\ s_client' = s_client
  BY DEF serverVars
<1>6. IInvWith(a, d, h, k)'
  <2>1. 0 \in Nat /\ 0 <= 0 /\ 0 = 0
    OBVIOUS
  <2> QED
    BY <1>3, <1>4, <1>5, <2>1, ServerQuiet
<1> QED
  BY <1>6 DEF IInv

\* The connection is accepted, or there is no memory for it.
LEMMA ServerAccepts ==
  ASSUME NEW a, NEW d, NEW f, NEW g, IInvWith(a, d, f, g), UNCHANGED clientVars,
         tcp_server_accept
  PROVE  IInv'
<1> DEFINE p == <<Entry("SYNACK", 0, 0)>>
<1>1. /\ LinkOK /\ wire["server"] \in Seq(Msg) /\ wire["client"] \in Seq(Msg)
      /\ StateOK /\ Verdicts /\ Once
      /\ Counts(wire["server"], a, d) /\ Counts(wire["client"], f, g)
      /\ "server" \in Ends /\ Peer("server") = "client"
  BY ServerCounts
<1>2. Fresh(a[Len(wire["server"])], d[Len(wire["server"])],
            f[Len(wire["client"])], g[Len(wire["client"])])
  BY ServerCounts DEF Flows
<1>3. s_listening /\ wire["server"] # <<>> /\ Head(wire["server"]).type = "SYN"
      /\ s_buffer_sent' = 1 /\ s_sent_len' = 0 /\ s_buffer_recv' = s_buffer_recv
      /\ s_run_count' = s_run_count
  BY DEF tcp_server_accept, Arrived
<1>4. /\ Head(wire["server"]) = wire["server"][1] /\ Len(wire["server"]) \in Nat \ {0}
      /\ a[1] = 0 /\ d[1] = 0
  BY <1>1, <1>3, HeadCounts
<1>5. Asks(wire["server"])
  BY <1>3, <1>4 DEF Asks
<1>6. /\ ~ s_client /\ s_run_count = 0 /\ c_run_count = 0
      /\ s_buffer_recv = <<>> /\ c_buffer = <<>> /\ s_sent_len = 0 /\ c_sent_len = 0
      /\ a[Len(wire["server"])] = 0 /\ d[Len(wire["server"])] = 0
      /\ f[Len(wire["client"])] = 0 /\ g[Len(wire["client"])] = 0
      /\ owed["server"] = 0 /\ owed["client"] = 0
  BY <1>2, <1>5 DEF Fresh
<1>7. c_pcb \/ c_complete
  BY <1>1, <1>5 DEF Once
<1>8. /\ c_pcb' = c_pcb /\ c_buffer' = c_buffer /\ c_sent_len' = c_sent_len
      /\ c_run_count' = c_run_count /\ c_complete' = c_complete /\ c_result' = c_result
  BY DEF clientVars
<1>9. StateOK'
  BY <1>1, <1>3, <1>8 DEF StateOK
<1>10. CASE s_client' = TRUE /\ Exchange("server", 0, p \o Buffer(1))
            /\ UNCHANGED <<s_listening, s_complete, s_result>>
  <2>1. Verdicts'
    BY <1>1, <1>3, <1>8, <1>10 DEF Verdicts
  <2>2. PICK b, e, h, k, n : Loads("server", a, d, b, e, f, g, h, k, 0, 0, n, 0, 1)
    <3>1. 0 \in Nat /\ 1 \in Nat /\ p \in PlainSeq
      BY PlainOuts
    <3>2. \E b, e, h, k, n : Loads("server", a, d, b, e, f, g, h, k, a[1], d[1], n, 0, 1)
      <4> HIDE DEF p
      <4> QED
        <5>1. Exchange("server", 0, p \o Buffer(1)) /\ g[Len(wire[Peer("server")])] = 0
              /\ Counts(wire[Peer("server")], f, g)
          BY <1>1, <1>6, <1>10
        <5> QED
          BY <1>1, <1>3, <3>1, <5>1, ExchangeLoads
    <3> QED
      BY <1>4, <3>2
  <2>3. ~ Asks(wire'["server"])
    <3>1. wire'["server"] = Tail(wire["server"])
      <4>1. p \o Buffer(1) # <<>>
        <5>1. p \in Seq(Msg) /\ Len(p) = 1
          BY DEF Entry, Msg
        <5>2. Buffer(1) \in Seq(Msg)
          BY BufferParts
        <5> HIDE DEF p
        <5>3. Len(p \o Buffer(1)) = 1 + Len(Buffer(1)) /\ Len(Buffer(1)) \in Nat /\ Len(<<>>) = 0
          BY <5>1, <5>2, JoinElements
        <5> QED
          BY <5>3
      <4> HIDE DEF p
      <4> QED
        BY <1>1, <1>3, <1>10 DEF Exchange, LinkOK, Ends, Peer
    <3>2. \A i \in 1..Len(Tail(wire["server"])) : Tail(wire["server"])[i] = wire["server"][i + 1]
                                                 /\ i + 1 \in 1..Len(wire["server"])
      BY <1>1, <1>3
    <3>3. ASSUME NEW i \in 1..Len(Tail(wire["server"])), Tail(wire["server"])[i].type = "SYN"
          PROVE  FALSE
      <4>1. i + 1 = 1
        BY <1>1, <1>3, <1>4, <3>2, <3>3 DEF Once, AsksOnce
      <4> QED
        BY <1>1, <4>1
    <3> QED
      BY <3>1, <3>3 DEF Asks
  <2>4. IInvWith(b, e, h, k)'
    <3>0. PICK A, D, F, o : /\ A = a[Len(wire["server"])] /\ D = d[Len(wire["server"])]
                            /\ F = f[Len(wire["client"])] /\ o = owed["server"]
      OBVIOUS
    <3>1. A = 0 /\ D = 0 /\ F = 0 /\ o = 0
      BY <1>6, <3>0
    <3>5. s_client' /\ s_sent_len' = 0 /\ s_buffer_sent' = 1 /\ owed["client"] = 0 /\ D = 0
      BY <1>3, <1>6, <1>10, <3>1
    <3>2. Len(c_buffer) = 0 /\ c_run_count = s_run_count' /\ c_sent_len + F + o + 0 = 0
          /\ Len(c_buffer) # Parts
      BY <1>3, <1>6, <3>1, PartsAssumption
    <3>3. 0 \in Nat /\ 1 \in Nat
      OBVIOUS
    <3>4. /\ c_pcb /\ Len(c_buffer) < Parts =>
               Len(c_buffer) = 0 /\ c_sent_len + F + o + 0 = 0 /\ c_run_count = s_run_count'
          /\ c_pcb /\ Len(c_buffer) = Parts =>
               c_sent_len + F + o + 0 = Parts /\ s_run_count' = c_run_count + 1
      BY <3>2
    <3> QED
      <4>1. Ready(a, d, f, 0, 0)
        BY <1>7, <2>3, <3>0, <3>1, <3>4, <3>5 DEF Ready
      <4> QED
        BY <1>9, <2>1, <2>2, <3>3, <3>5, <4>1, ServerSendsBuffer
  <2> QED
    BY <2>4 DEF IInv
<1>11. CASE tcp_server_result("failed") /\ \E out \in Closings : Exchange("server", 0, p \o out)
  <2>1. PICK out \in Closings : Exchange("server", 0, p \o out)
    BY <1>11
  <2>2. Verdicts' /\ ~ s_client'
    BY <1>1, <1>8, <1>11 DEF Verdicts, tcp_server_result
  <2>3. p \o out \in PlainSeq
    BY PlainOuts
  <2>4. UNCHANGED <<s_sent_len, s_buffer_recv>> /\ 0 \in Nat
    BY <1>3, <1>6
  <2> HIDE DEF p
  <2> QED
    BY <1>3, <1>6, <1>9, <2>1, <2>2, <2>3, <2>4, ServerOut
<1> QED
  BY <1>10, <1>11 DEF tcp_server_accept

\* The server's buffer is acknowledged.
LEMMA ServerSent ==
  ASSUME NEW a, NEW d, NEW f, NEW g, IInvWith(a, d, f, g), UNCHANGED clientVars,
         tcp_server_sent
  PROVE  IInv'
<1>1. /\ LinkOK /\ wire["server"] \in Seq(Msg) /\ wire["client"] \in Seq(Msg)
      /\ StateOK /\ Verdicts /\ Once /\ ServerMarks(a, d)
      /\ Counts(wire["server"], a, d) /\ Counts(wire["client"], f, g)
      /\ "server" \in Ends /\ Peer("server") = "client"
  BY ServerCounts
<1> DEFINE A == a[Len(wire["server"])]
           D == d[Len(wire["server"])]
           F == f[Len(wire["client"])]
           G == g[Len(wire["client"])]
<1>2. ServerFlow(A, D, G) /\ InStep(F, D) /\ Fresh(A, D, F, G)
  BY ServerCounts DEF Flows
<1>3. /\ s_client /\ wire["server"] # <<>> /\ Head(wire["server"]).type = "ACK"
      /\ s_sent_len' = s_sent_len + Head(wire["server"]).n
      /\ s_buffer_recv' = IF s_sent_len' >= Parts THEN <<>> ELSE s_buffer_recv
      /\ Exchange("server", 0, <<>>)
      /\ s_client' = s_client /\ s_listening' = s_listening /\ s_result' = s_result
      /\ s_buffer_sent' = s_buffer_sent /\ s_run_count' = s_run_count
  BY DEF tcp_server_sent, Arrived
<1>4. PICK ga : ga = a[1]
  OBVIOUS
<1>5. ga = Head(wire["server"]).n /\ d[1] = 0 /\ ga \in Nat /\ ga <= A /\ ga # 0
  <2>1. Head(wire["server"]) \in Msg
    BY <1>1, <1>3, HeadCounts
  <2> QED
    BY <1>1, <1>3, <1>4, <2>1, HeadCounts DEF Msg
<1>6. PICK b, e, h, k, n : Passes("server", a, d, b, e, f, g, h, k, ga, 0, n, 0)
  <2>1. \E b, e, h, k, n : Passes("server", a, d, b, e, f, g, h, k, a[1], d[1], n, 0)
    BY <1>1, <1>3, PlainOuts, ExchangePasses
  <2> QED
    BY <1>4, <1>5, <2>1
<1>7. PICK An, Dn, Fn, Gn, o, on, oc :
        /\ An = b[Len(wire'["server"])] /\ Dn = e[Len(wire'["server"])]
        /\ Fn = h[Len(wire'["client"])] /\ Gn = k[Len(wire'["client"])]
        /\ o = owed["server"] /\ on = owed'["server"] /\ oc = owed["client"]
  OBVIOUS
<1>8. /\ A \in Nat /\ D \in Nat /\ F \in Nat /\ G \in Nat
      /\ An \in Nat /\ Dn \in Nat /\ Fn \in Nat /\ Gn \in Nat
      /\ n \in Nat /\ o \in Nat /\ on \in Nat /\ oc \in Nat
      /\ An + ga = A /\ Dn + 0 = D /\ Fn = F + n /\ Gn = G
      /\ on + n = o + 0 /\ owed'["client"] = oc
  BY <1>6, <1>7, ServerPasses DEF ServerMoves
<1>9. /\ c_pcb' = c_pcb /\ c_buffer' = c_buffer /\ c_sent_len' = c_sent_len
      /\ c_run_count' = c_run_count /\ c_complete' = c_complete /\ c_result' = c_result
  BY DEF clientVars
<1>10. PICK t, tn : t = s_sent_len /\ tn = s_sent_len'
  OBVIOUS
<1>11. t \in Nat /\ tn = t + ga /\ tn \in Nat /\ Parts \in Nat \ {0} /\ c_sent_len \in Nat
  BY <1>1, <1>3, <1>5, <1>10, PartsAssumption DEF StateOK
<1> HIDE DEF A, D, F, G
<1>12. StateOK' /\ Verdicts'
  <2>1. s_buffer_recv' \in Seq(Msg) /\ Len(s_buffer_recv') <= Parts
    BY <1>1, <1>3, <1>11 DEF StateOK
  <2> QED
    BY <1>1, <1>3, <1>9, <1>10, <1>11, <2>1 DEF StateOK, Verdicts
<1>13. ClientFlow(Fn, Dn, Gn)' /\ ClientMarks(h, k)' /\ Once'
  <2>1. 0 \in Nat /\ 0 <= 0
    OBVIOUS
  <2>2. /\ ClientFlow(h[Len(wire["client"])], e[Len(wire["server"])], k[Len(wire["client"])])'
        /\ ClientMarks(h, k)' /\ Once'
    BY <1>3, <1>6, <2>1, ServerLeavesClient
  <2> QED
    BY <1>7, <2>2
<1>14. ServerFlow(An, Dn, Gn)'
  <2>1. /\ t + A + oc + G <= Parts
        /\ G > 0 /\ c_pcb => t + A + oc + G = Parts
        /\ D > 0 => D + (IF t >= Parts THEN Len(s_buffer_recv) ELSE 0) = Parts
    BY <1>2, <1>3, <1>7, <1>10 DEF ServerFlow
  <2>8. t \in Nat /\ ga \in Nat /\ A \in Nat /\ oc \in Nat /\ G \in Nat /\ Parts \in Nat /\ An \in Nat
        /\ tn = t + ga /\ An + ga = A /\ ga # 0 /\ ga <= A /\ t + A + oc + G <= Parts
    BY <1>5, <1>8, <1>11, <2>1
  <2>2. t < Parts /\ tn + An = t + A
    BY ONLY <2>8
  <2>3. D > 0 => D = Parts
    BY <1>8, <1>11, <2>1, <2>2
  <2>4. tn >= Parts => s_buffer_recv' = <<>>
    BY <1>3, <1>10
  <2>5. tn + An + oc + Gn <= Parts /\ (Gn > 0 /\ c_pcb => tn + An + oc + Gn = Parts)
    <3>1. tn + An + oc + Gn = t + A + oc + G
      BY <1>8, <2>2
    <3> QED
      BY <2>1, <3>1, <1>8
  <2>6. Dn > 0 => Dn + (IF tn >= Parts THEN Len(s_buffer_recv') ELSE 0) = Parts
    BY <1>8, <1>11, <2>3, <2>4
  <2>7. Dn > 0 /\ tn >= Parts => Filled(s_buffer_recv)'
    BY <2>4 DEF Filled
  <2> QED
    BY <1>8, <1>9, <1>10, <2>5, <2>6, <2>7 DEF ServerFlow
<1>15. ServerMarks(b, e)'
  <2>1. AckedAt(wire'["server"], b, t + ga)
    BY <1>1, <1>3, <1>6, <1>10, <1>11, ServerPasses DEF ServerMarks
  <2>2. Numbered(wire'["server"], e, s_buffer_sent)
    BY <1>1, <1>3, <1>6, ServerPasses DEF ServerMarks
  <2> QED
    BY <1>3, <1>10, <1>11, <2>1, <2>2 DEF ServerMarks
<1>16. InStep(Fn, Dn)'
  <2>1. Dn = D /\ c_sent_len + Fn + on = c_sent_len + F + o
    BY <1>8, <1>11
  <2>2. owed["server"] = o /\ owed'["server"] = on
    BY <1>7
  <2> QED
    BY <1>2, <1>3, <1>9, <2>1, <2>2 DEF InStep
<1>17. Fresh(An, Dn, Fn, Gn)'
  <2>1. Asks(wire'["server"]) => Asks(wire["server"])
    BY <1>6, ServerPasses
  <2> QED
    BY <1>2, <1>3, <1>9, <2>1 DEF Fresh
<1>18. IInvWith(b, e, h, k)'
  <2>1. LinkOK' /\ Counted(b, e, h, k)'
    BY <1>6, ServerPasses
  <2> QED
    BY <1>7, <1>12, <1>13, <1>14, <1>15, <1>16, <1>17, <2>1 DEF IInvWith, Flows
<1> QED
  BY <1>18 DEF IInv

\* A part of the echo arrives: it is the next of the buffer sent.
LEMMA EchoArrives ==
  ASSUME NEW a, NEW d, NEW f, NEW g, IInvWith(a, d, f, g), s_client, Arrived("server", "DATA"),
         NEW got, got = Append(s_buffer_recv, Head(wire["server"]))
  PROVE  /\ a[1] = 0 /\ d[1] = 1 /\ s_sent_len >= Parts
         /\ a[Len(wire["server"])] = 0 /\ owed["client"] = 0 /\ g[Len(wire["client"])] = 0
         /\ got \in Seq(Msg) /\ Len(got) = Len(s_buffer_recv) + 1 /\ Len(got) \in Nat
         /\ d[Len(wire["server"])] + Len(s_buffer_recv) = Parts
         /\ d[Len(wire["server"])] \in Nat \ {0}
         /\ Filled(got)
<1>1. /\ LinkOK /\ wire["server"] \in Seq(Msg) /\ wire["client"] \in Seq(Msg)
      /\ StateOK /\ ServerMarks(a, d)
      /\ Counts(wire["server"], a, d) /\ Counts(wire["client"], f, g)
  BY ServerCounts
<1>2. PICK A, D, G, t, oc : /\ A = a[Len(wire["server"])] /\ D = d[Len(wire["server"])]
                            /\ G = g[Len(wire["client"])] /\ t = s_sent_len /\ oc = owed["client"]
  OBVIOUS
<1>3. /\ t + A + oc + G <= Parts
      /\ D > 0 => D + (IF t >= Parts THEN Len(s_buffer_recv) ELSE 0) = Parts
      /\ D > 0 /\ t >= Parts => Filled(s_buffer_recv)
  BY <1>2, ServerCounts DEF Flows, ServerFlow
<1>4. A \in Nat /\ D \in Nat /\ G \in Nat /\ t \in Nat /\ oc \in Nat /\ Parts \in Nat
      /\ Len(s_buffer_recv) \in Nat /\ s_buffer_recv \in Seq(Msg)
  BY <1>1, <1>2, Totals, PartsAssumption DEF StateOK, LinkOK, Ends
<1>5. PICK m : m = Head(wire["server"])
  OBVIOUS
<1>6. /\ wire["server"] # <<>> /\ m.type = "DATA" /\ m = wire["server"][1] /\ m \in Msg
      /\ Len(wire["server"]) \in Nat \ {0} /\ a[1] = 0 /\ d[1] = 1 /\ d[1] <= D
  BY <1>1, <1>2, <1>5, HeadCounts DEF Arrived
<1>7. 1 \in 1..Len(wire["server"])
  BY <1>6
<1>8. t + 0 >= Parts
  BY <1>1, <1>2, <1>6, <1>7 DEF ServerMarks, AckedAt
<1>9. t >= Parts /\ A = 0 /\ oc = 0 /\ G = 0 /\ D \in Nat \ {0} /\ D > 0
  BY ONLY <1>3, <1>4, <1>6, <1>8
<1>10. D + Len(s_buffer_recv) = Parts /\ Filled(s_buffer_recv)
  BY <1>3, <1>9
<1>11. m = Entry("DATA", s_buffer_sent, Len(s_buffer_recv) + 1)
  <2>1. m = Entry("DATA", s_buffer_sent, (Parts - D) + 1)
    BY <1>1, <1>2, <1>6, <1>7 DEF ServerMarks, Numbered
  <2>2. (Parts - D) + 1 = Len(s_buffer_recv) + 1
    BY <1>4, <1>10
  <2> QED
    BY <2>1, <2>2
<1>12. /\ got \in Seq(Msg) /\ Len(got) = Len(s_buffer_recv) + 1 /\ Len(got) \in Nat
       /\ got[Len(s_buffer_recv) + 1] = m
       /\ \A i \in 1..Len(s_buffer_recv) : got[i] = s_buffer_recv[i]
  BY <1>4, <1>5, <1>6
<1>13. Filled(got)
  <2> SUFFICES ASSUME NEW i \in 1..Len(got)
               PROVE  got[i] = Entry("DATA", s_buffer_sent, i)
    BY DEF Filled
  <2>1. CASE i \in 1..Len(s_buffer_recv)
    BY <1>10, <1>12, <2>1 DEF Filled
  <2>2. CASE i = Len(s_buffer_recv) + 1
    BY <1>11, <1>12, <2>2
  <2> QED
    BY <1>4, <1>12, <2>1, <2>2
<1> QED
  BY <1>2, <1>6, <1>9, <1>10, <1>12, <1>13

\* What fits: all of it, until the buffer is full.
LEMMA WhatFits ==
  ASSUME NEW got \in Seq(Msg), Len(got) \in Nat, Len(got) <= Parts,
         NEW data, data = SubSeq(got, 1, IF Len(got) < Parts THEN Len(got) ELSE Parts)
  PROVE  data = got
<1>1. (IF Len(got) < Parts THEN Len(got) ELSE Parts) = Len(got)
  BY PartsAssumption
<1>2. SubSeq(got, 1, Len(got)) = got
  OBVIOUS
<1> QED
  BY <1>1, <1>2

\* A full receive buffer is the buffer sent.
LEMMA FullBuffer ==
  ASSUME NEW got \in Seq(Msg), Len(got) = Parts, NEW c \in Nat,
         \A i \in 1..Len(got) : got[i] = Entry("DATA", c, i)
  PROVE  got = Buffer(c)
<1>1. Buffer(c) \in Seq(Msg) /\ Len(Buffer(c)) = Parts
      /\ \A i \in 1..Parts : Buffer(c)[i] = Entry("DATA", c, i)
  BY BufferParts
<1>2. \A i \in 1..Len(got) : got[i] = Buffer(c)[i]
  BY <1>1
<1> QED
  BY <1>1, <1>2, SeqEqual

\* A part of the echo that does not fill the buffer.
LEMMA ServerReceivesPart ==
  ASSUME NEW a, NEW d, NEW f, NEW g, IInvWith(a, d, f, g), UNCHANGED clientVars,
         s_client, Arrived("server", "DATA"), UNCHANGED <<s_listening, s_client, s_complete, s_result>>,
         UNCHANGED <<s_run_count, s_buffer_sent, s_sent_len>>,
         s_buffer_recv' = Append(s_buffer_recv, Head(wire["server"])),
         Len(s_buffer_recv) + 1 < Parts, Exchange("server", 1, <<>>)
  PROVE  IInv'
<1>1. /\ LinkOK /\ wire["server"] \in Seq(Msg) /\ wire["client"] \in Seq(Msg)
      /\ StateOK /\ Verdicts /\ Once /\ ServerMarks(a, d)
      /\ Counts(wire["server"], a, d) /\ Counts(wire["client"], f, g)
      /\ "server" \in Ends /\ Peer("server") = "client"
  BY ServerCounts
<1> DEFINE A == a[Len(wire["server"])]
           D == d[Len(wire["server"])]
           F == f[Len(wire["client"])]
           G == g[Len(wire["client"])]
<1>2. ServerFlow(A, D, G) /\ InStep(F, D) /\ Fresh(A, D, F, G)
  BY ServerCounts DEF Flows
<1>3. PICK got : got = Append(s_buffer_recv, Head(wire["server"]))
  OBVIOUS
<1>4. /\ a[1] = 0 /\ d[1] = 1 /\ s_sent_len >= Parts /\ owed["client"] = 0
      /\ A = 0 /\ G = 0 /\ got \in Seq(Msg) /\ Len(got) = Len(s_buffer_recv) + 1 /\ Len(got) \in Nat
      /\ D + Len(s_buffer_recv) = Parts /\ D \in Nat \ {0} /\ Filled(got)
  BY <1>3, EchoArrives
<1>5. PICK b, e, h, k, n : Passes("server", a, d, b, e, f, g, h, k, 0, 1, n, 1)
  <2>1. 1 \in Nat /\ wire["server"] # <<>>
    BY DEF Arrived
  <2>2. \E b, e, h, k, n : Passes("server", a, d, b, e, f, g, h, k, a[1], d[1], n, 1)
    BY <1>1, <2>1, PlainOuts, ExchangePasses
  <2> QED
    BY <1>4, <2>2
<1>6. PICK An, Dn, Fn, Gn, o, on, oc :
        /\ An = b[Len(wire'["server"])] /\ Dn = e[Len(wire'["server"])]
        /\ Fn = h[Len(wire'["client"])] /\ Gn = k[Len(wire'["client"])]
        /\ o = owed["server"] /\ on = owed'["server"] /\ oc = owed["client"]
  OBVIOUS
<1>7. /\ F \in Nat
      /\ An \in Nat /\ Dn \in Nat /\ Fn \in Nat /\ Gn \in Nat
      /\ n \in Nat /\ o \in Nat /\ on \in Nat
      /\ An + 0 = A /\ Dn + 1 = D /\ Fn = F + n /\ Gn = G
      /\ on + n = o + 1 /\ owed'["client"] = oc /\ oc = 0
  <2>1. ServerMoves(a, d, f, g, b, e, h, k, 0, 1, n, 1)
    BY <1>5, ServerPasses
  <2>2. oc = 0
    BY <1>4, <1>6
  <2> QED
    BY <1>6, <2>1, <2>2 DEF ServerMoves
<1>8. /\ c_pcb' = c_pcb /\ c_buffer' = c_buffer /\ c_sent_len' = c_sent_len
      /\ c_run_count' = c_run_count /\ c_complete' = c_complete /\ c_result' = c_result
      /\ s_client' /\ s_buffer_recv' = got
  BY <1>3 DEF clientVars
<1> HIDE DEF A, D, F, G
<1>9. StateOK' /\ Verdicts'
  <2>1. Len(got) <= Parts
    BY <1>1, <1>4, PartsAssumption DEF StateOK
  <2>2. StateOK'
    BY <1>1, <1>4, <1>8, <2>1 DEF StateOK
  <2>3. Verdicts'
    BY <1>1, <1>8 DEF Verdicts
  <2> QED
    BY <2>2, <2>3
<1>10. ClientFlow(Fn, Dn, Gn)' /\ ClientMarks(h, k)' /\ Once'
  <2>1. 1 \in Nat /\ 1 <= 1 /\ s_buffer_sent' = s_buffer_sent
    OBVIOUS
  <2>2. /\ ClientFlow(h[Len(wire["client"])], e[Len(wire["server"])], k[Len(wire["client"])])'
        /\ ClientMarks(h, k)' /\ Once'
    BY <1>5, <1>8, <2>1, ServerLeavesClient
  <2> QED
    BY <1>6, <2>2
<1>11. Dn + Len(got) = Parts /\ Dn > 0 /\ An = 0 /\ Gn = 0
  <2>1. Len(s_buffer_recv) \in Nat /\ Parts \in Nat
    BY <1>1, PartsAssumption DEF StateOK
  <2>2. Dn + Len(got) = Parts /\ Dn > 0
    BY <1>4, <1>7, <2>1
  <2> QED
    BY <1>4, <1>7, <2>2
<1>12. ServerFlow(An, Dn, Gn)'
  <2>1. Filled(s_buffer_recv)'
    BY <1>4, <1>8 DEF Filled
  <2>2. s_sent_len + An + oc + Gn <= Parts
    <3>1. s_sent_len + A + oc + G <= Parts
      BY <1>2, <1>6 DEF ServerFlow
    <3> QED
      BY <1>4, <1>7, <1>11, <3>1
  <2> QED
    BY <1>4, <1>7, <1>8, <1>11, <2>1, <2>2 DEF ServerFlow
<1>13. ServerMarks(b, e)'
  <2>1. s_sent_len \in Nat /\ s_sent_len + 0 = s_sent_len
    BY <1>1 DEF StateOK
  <2>2. AckedAt(wire'["server"], b, s_sent_len + 0)
    BY <1>1, <1>5, <2>1, ServerPasses DEF ServerMarks
  <2>3. Numbered(wire'["server"], e, s_buffer_sent)
    BY <1>1, <1>5, ServerPasses DEF ServerMarks
  <2> QED
    BY <2>1, <2>2, <2>3 DEF ServerMarks
<1>14. InStep(Fn, Dn)'
  <2>1. c_run_count = s_run_count
    BY <1>2, <1>4 DEF InStep
  <2>2. ASSUME c_pcb
        PROVE  ~ (c_sent_len + Fn + on >= Parts)
    <3>1. c_sent_len + Fn + on + Dn <= Parts
      BY <1>6, <1>8, <1>10, <2>2 DEF ClientFlow
    <3>2. c_sent_len \in Nat /\ Parts \in Nat /\ Fn \in Nat /\ on \in Nat /\ Dn \in Nat /\ Dn > 0
      BY <1>1, <1>7, <1>11, PartsAssumption DEF StateOK
    <3> QED
      BY ONLY <3>1, <3>2
  <2> QED
    BY <1>6, <1>8, <2>1, <2>2 DEF InStep
<1>15. Fresh(An, Dn, Fn, Gn)'
  <2>1. Asks(wire'["server"]) => Asks(wire["server"])
    BY <1>5, ServerPasses
  <2> QED
    BY <1>2, <1>8, <2>1 DEF Fresh
<1>16. IInvWith(b, e, h, k)'
  <2>1. LinkOK' /\ Counted(b, e, h, k)'
    BY <1>5, ServerPasses
  <2> QED
    BY <1>6, <1>9, <1>10, <1>12, <1>13, <1>14, <1>15, <2>1 DEF IInvWith, Flows
<1> QED
  BY <1>16 DEF IInv

\* The echo, a part of it or its last.
LEMMA ServerReceives ==
  ASSUME NEW a, NEW d, NEW f, NEW g, IInvWith(a, d, f, g), UNCHANGED clientVars,
         tcp_server_recv
  PROVE  IInv'
<1> DEFINE got == Append(s_buffer_recv, Head(wire["server"]))
           data == SubSeq(got, 1, IF Len(got) < Parts THEN Len(got) ELSE Parts)
<1>1. /\ LinkOK /\ wire["server"] \in Seq(Msg) /\ wire["client"] \in Seq(Msg)
      /\ StateOK /\ Verdicts /\ Once
      /\ Counts(wire["server"], a, d) /\ Counts(wire["client"], f, g)
      /\ "server" \in Ends /\ Peer("server") = "client"
  BY ServerCounts
<1>2. s_client /\ Arrived("server", "DATA") /\ s_freed' = s_freed /\ wire["server"] # <<>>
      /\ Head(wire["server"]).type = "DATA"
  BY DEF tcp_server_recv, Arrived
<1>3. /\ a[1] = 0 /\ d[1] = 1 /\ s_sent_len >= Parts
      /\ a[Len(wire["server"])] = 0 /\ owed["client"] = 0 /\ g[Len(wire["client"])] = 0
      /\ got \in Seq(Msg) /\ Len(got) = Len(s_buffer_recv) + 1 /\ Len(got) \in Nat
      /\ d[Len(wire["server"])] + Len(s_buffer_recv) = Parts
      /\ d[Len(wire["server"])] \in Nat \ {0}
      /\ Filled(got)
  BY <1>2, EchoArrives
<1>5. Parts \in Nat /\ Len(s_buffer_recv) \in Nat /\ s_run_count \in Nat /\ s_buffer_sent \in Nat
  BY <1>1, PartsAssumption DEF StateOK
<1>6. Len(got) <= Parts
  <2> HIDE DEF got
  <2> QED
    BY <1>3, <1>5
<1>7. data = got
  <2> DEFINE dat == data
  <2>1. dat = SubSeq(got, 1, IF Len(got) < Parts THEN Len(got) ELSE Parts)
    OBVIOUS
  <2> HIDE DEF got, data
  <2>2. dat = got
    BY <1>3, <1>6, <2>1, WhatFits
  <2> QED
    BY <2>2
<1>8. s_buffer_recv' = got
  BY <1>7 DEF tcp_server_recv
<1>13. \/ /\ Len(data) < Parts
          /\ Exchange("server", 1, <<>>) /\ NothingEnds
          /\ UNCHANGED <<s_run_count, s_buffer_sent, s_sent_len>>
       \/ /\ Len(data) = Parts /\ data # Buffer(s_buffer_sent)
       \/ /\ data = Buffer(s_buffer_sent)
          /\ s_run_count' = s_run_count + 1
          /\ \/ /\ s_run_count' >= Iterations
                /\ ServerEnds(1, "ok")
                /\ UNCHANGED <<s_buffer_sent, s_sent_len>>
             \/ /\ s_run_count' < Iterations
                /\ tcp_server_send_data(1)
  BY DEF tcp_server_recv
<1> HIDE DEF data, got
<1>9. \/ /\ Len(got) < Parts
         /\ Exchange("server", 1, <<>>) /\ NothingEnds
         /\ UNCHANGED <<s_run_count, s_buffer_sent, s_sent_len>>
      \/ /\ Len(got) = Parts /\ got # Buffer(s_buffer_sent)
      \/ /\ got = Buffer(s_buffer_sent)
         /\ s_run_count' = s_run_count + 1
         /\ \/ /\ s_run_count' >= Iterations
               /\ ServerEnds(1, "ok")
               /\ UNCHANGED <<s_buffer_sent, s_sent_len>>
            \/ /\ s_run_count' < Iterations
               /\ tcp_server_send_data(1)
  BY <1>7, <1>13
<1> USE DEF got
<1>10. CASE /\ Len(got) < Parts
            /\ Exchange("server", 1, <<>>) /\ NothingEnds
            /\ UNCHANGED <<s_run_count, s_buffer_sent, s_sent_len>>
  <2>1. Len(s_buffer_recv) + 1 < Parts
    BY <1>3, <1>10
  <2> QED
    BY <1>2, <1>8, <1>10, <2>1, ServerReceivesPart DEF NothingEnds
<1> HIDE DEF got
<1>11. ~ (Len(got) = Parts /\ got # Buffer(s_buffer_sent))
  <2>1. \A i \in 1..Len(got) : got[i] = Entry("DATA", s_buffer_sent, i)
    BY <1>3 DEF Filled
  <2>2. ASSUME Len(got) = Parts
        PROVE  got = Buffer(s_buffer_sent)
    BY <1>3, <1>5, <2>1, <2>2, FullBuffer
  <2> QED
    BY <2>2
<1>12. CASE /\ got = Buffer(s_buffer_sent)
            /\ s_run_count' = s_run_count + 1
            /\ \/ /\ s_run_count' >= Iterations
                  /\ ServerEnds(1, "ok")
                  /\ UNCHANGED <<s_buffer_sent, s_sent_len>>
               \/ /\ s_run_count' < Iterations
                  /\ tcp_server_send_data(1)
  <2>1. Len(got) = Parts
    BY <1>5, <1>12, BufferParts
  <2>2. d[Len(wire["server"])] = 1
    BY <1>3, <1>5, <2>1
  <2>3. /\ c_pcb' = c_pcb /\ c_buffer' = c_buffer /\ c_sent_len' = c_sent_len
        /\ c_run_count' = c_run_count /\ c_complete' = c_complete /\ c_result' = c_result
    BY DEF clientVars
  <2>4. s_run_count' \in Nat /\ s_run_count' + 1 \in Nat /\ 1 \in Nat
    BY <1>5, <1>12
  <2>5. ~ Asks(wire["server"]) /\ (c_pcb \/ c_complete)
    BY <1>2, ServerCounts DEF Flows, Fresh
  <2>6. ASSUME \E out \in Closings : Exchange("server", 1, out), NEW status, tcp_server_result(status),
               s_sent_len' \in Nat, s_buffer_sent' \in Nat
        PROVE  IInv'
    <3>1. PICK out \in Closings : Exchange("server", 1, out)
      BY <2>6
    <3>2. StateOK'
      BY <1>1, <1>3, <1>6, <1>8, <2>3, <2>4, <2>6 DEF StateOK
    <3>3. Verdicts' /\ ~ s_client'
      BY <1>1, <2>3, <2>6 DEF Verdicts, tcp_server_result
    <3> QED
      BY <1>2, <1>3, <1>12, <2>2, <2>4, <2>5, <3>1, <3>2, <3>3, PlainOuts, ServerOut
  <2>7. CASE ServerEnds(1, "ok") /\ UNCHANGED <<s_buffer_sent, s_sent_len>>
    <3>1. s_sent_len' \in Nat /\ s_buffer_sent' \in Nat
      BY <1>1, <2>7 DEF StateOK
    <3> QED
      BY <2>6, <2>7, <3>1 DEF ServerEnds
  <2>8. CASE s_run_count' < Iterations /\ tcp_server_send_data(1)
    <3>1. s_buffer_sent' = s_run_count' + 1 /\ s_sent_len' = 0 /\ 0 \in Nat
      BY <2>8 DEF tcp_server_send_data
    <3>2. CASE ServerEnds(1, "failed")
      BY <2>4, <2>6, <3>1, <3>2 DEF ServerEnds
    <3>3. CASE Exchange("server", 1, Buffer(s_run_count' + 1)) /\ NothingEnds
      <4>1. PICK c \in Nat : c = s_run_count' + 1
        BY <2>4
      <4>2. Exchange("server", 1, <<>> \o Buffer(c))
        <5>1. Buffer(c) \in Seq(Msg)
          BY BufferParts
        <5>2. <<>> \o Buffer(c) = Buffer(c)
          BY <5>1, Join3
        <5> QED
          BY <3>3, <4>1, <5>2
      <4>3. PICK b, e, h, k, n : Loads("server", a, d, b, e, f, g, h, k, 0, 1, n, 1, c)
        <5>1. \E b, e, h, k, n : Loads("server", a, d, b, e, f, g, h, k, a[1], d[1], n, 1, c)
          <6>1. g[Len(wire[Peer("server")])] = 0 /\ Counts(wire[Peer("server")], f, g)
            BY <1>1, <1>3
          <6> QED
            BY <1>1, <1>2, <2>4, <4>2, <6>1, PlainOuts, ExchangeLoads
        <5> QED
          BY <1>3, <5>1
      <4>4. ~ Asks(wire'["server"])
        <5>1. Moved(wire["server"], a, d, wire'["server"], b, e, 0, 1, 0)
          BY <4>3 DEF Loads
        <5> QED
          BY <2>5, <5>1 DEF Moved
      <4>5. StateOK'
        BY <1>1, <1>3, <1>6, <1>8, <2>3, <2>4, <3>1 DEF StateOK
      <4>6. Verdicts' /\ s_client' /\ s_buffer_sent' = c
        BY <1>1, <1>2, <2>3, <2>8, <3>1, <3>3, <4>1 DEF Verdicts, NothingEnds
      <4>7. Ready(a, d, f, 1, 1)
        <5>1. PICK D, F, G, o : /\ D = d[Len(wire["server"])] /\ F = f[Len(wire["client"])]
                                /\ G = g[Len(wire["client"])] /\ o = owed["server"]
          OBVIOUS
        <5>2. c_pcb => /\ c_sent_len + F + o + D <= Parts
                       /\ Len(c_buffer) < Parts => c_sent_len + F + o + D = 0
                       /\ c_sent_len + F + o + D = Parts
          <6>1. ClientFlow(F, D, G)
            BY <5>1, ServerCounts DEF Flows
          <6>2. D > 0
            BY <2>2, <5>1
          <6> QED
            BY <1>2, <5>1, <6>1, <6>2 DEF ClientFlow
        <5>3. D = 1 /\ c_run_count = s_run_count
          <6>1. D = 1
            BY <2>2, <5>1
          <6>2. InStep(F, D)
            BY <5>1, ServerCounts DEF Flows
          <6> QED
            BY <1>2, <6>1, <6>2 DEF InStep
        <5>4. c_pcb => ~ (Len(c_buffer) < Parts)
          BY <5>2, PartsAssumption
        <5>5. c_pcb => c_sent_len + F + o + 1 = Parts
          BY <5>2, <5>3
        <5> QED
          BY <1>3, <1>12, <2>2, <2>5, <4>4, <5>1, <5>3, <5>4, <5>5 DEF Ready
      <4>8. IInvWith(b, e, h, k)'
        BY <2>4, <3>1, <4>3, <4>5, <4>6, <4>7, ServerSendsBuffer
      <4> QED
        BY <4>8 DEF IInv
    <3> QED
      BY <2>8, <3>2, <3>3 DEF tcp_server_send_data
  <2> QED
    BY <1>12, <2>7, <2>8
<1> QED
  BY <1>9, <1>10, <1>11, <1>12

\* Every step of the server keeps the invariant.
LEMMA ServerKeeps ==
  ASSUME IInv, ServerNext, UNCHANGED clientVars
  PROVE  IInv'
<1>1. PICK a, d, f, g : IInvWith(a, d, f, g)
  BY DEF IInv
<1>2. CASE run_tcp_server_test
  <2>1. IInvWith(a, d, f, g)'
    BY <1>1, <1>2 DEF run_tcp_server_test, linkVars, clientVars, IInvWith, LinkOK, StateOK, Verdicts,
       Once, Counted, Flows, ServerFlow, ClientFlow, InStep, Fresh, ServerMarks, ClientMarks, Filled
  <2> QED
    BY <2>1 DEF IInv
<1> QED
  BY <1>1, <1>2, ServerStepsOut, ServerDelayedAck, ServerAccepts, ServerSent, ServerReceives
     DEF ServerNext, ServerCallback

-----------------------------------------------------------------------------
(* A step of the client. *)

ClientMoves(a, d, f, g, b, e, h, k, gf, mg, n, acked) ==
  /\ a[Len(wire["server"])] \in Nat /\ d[Len(wire["server"])] \in Nat
  /\ f[Len(wire["client"])] \in Nat /\ g[Len(wire["client"])] \in Nat
  /\ b[Len(wire'["server"])] \in Nat /\ e[Len(wire'["server"])] \in Nat
  /\ h[Len(wire'["client"])] \in Nat /\ k[Len(wire'["client"])] \in Nat
  /\ gf \in Nat /\ mg \in Nat /\ n \in Nat
  /\ b[Len(wire'["server"])] = a[Len(wire["server"])] + n
  /\ e[Len(wire'["server"])] = d[Len(wire["server"])]
  /\ h[Len(wire'["client"])] + gf = f[Len(wire["client"])]
  /\ k[Len(wire'["client"])] + mg = g[Len(wire["client"])]
  /\ owed["server"] \in Nat /\ owed["client"] \in Nat /\ owed'["client"] \in Nat
  /\ owed'["client"] + n = owed["client"] + acked /\ owed'["server"] = owed["server"]

\* Counts and marks after a step of the client that sends no buffer.
LEMMA ClientPasses ==
  ASSUME NEW a, NEW d, NEW f, NEW g, IInvWith(a, d, f, g),
         NEW b, NEW e, NEW h, NEW k, NEW gf, NEW mg, NEW n, NEW acked,
         Passes("client", f, g, h, k, a, d, b, e, gf, mg, n, acked)
  PROVE  /\ ClientMoves(a, d, f, g, b, e, h, k, gf, mg, n, acked)
         /\ LinkOK' /\ Counted(b, e, h, k)'
         /\ Asks(wire'["server"]) => Asks(wire["server"])
         /\ AsksOnce(wire'["server"])
         /\ \A t \in Nat : AckedAt(wire["client"], f, t) => AckedAt(wire'["client"], h, t + gf)
         /\ \A t \in Nat : AckedAt(wire["server"], a, t) => AckedAt(wire'["server"], b, t)
         /\ \A c : Numbered(wire["server"], d, c) => Numbered(wire'["server"], e, c)
         /\ \A c : Numbered(wire["client"], g, c) => Numbered(wire'["client"], k, c)
<1>1. /\ LinkOK' /\ Moved(wire["client"], f, g, wire'["client"], h, k, gf, mg, 0)
      /\ Moved(wire["server"], a, d, wire'["server"], b, e, 0, 0, n)
      /\ owed'["client"] + n = owed["client"] + acked /\ owed'["server"] = owed["server"]
  BY DEF Passes, Peer
<1>2. /\ LinkOK /\ wire["server"] \in Seq(Msg) /\ wire["client"] \in Seq(Msg)
      /\ Counts(wire["server"], a, d) /\ Counts(wire["client"], f, g) /\ AsksOnce(wire["server"])
      /\ owed["server"] \in Nat /\ owed["client"] \in Nat
  BY ServerCounts DEF LinkOK, Once
<1>4. wire'["server"] \in Seq(Msg) /\ wire'["client"] \in Seq(Msg) /\ owed'["client"] \in Nat
  BY <1>1 DEF LinkOK, Ends
<1>5. Counts(wire'["server"], b, e) /\ Counts(wire'["client"], h, k)
  BY <1>1 DEF Moved
<1>6. PICK A, D, F, G, An, Dn, Fn, Gn :
        /\ A = a[Len(wire["server"])] /\ D = d[Len(wire["server"])]
        /\ F = f[Len(wire["client"])] /\ G = g[Len(wire["client"])]
        /\ An = b[Len(wire'["server"])] /\ Dn = e[Len(wire'["server"])]
        /\ Fn = h[Len(wire'["client"])] /\ Gn = k[Len(wire'["client"])]
  OBVIOUS
<1>7. A \in Nat /\ D \in Nat /\ F \in Nat /\ G \in Nat
  BY <1>2, <1>6, Totals
<1>8. An \in Nat /\ Dn \in Nat /\ Fn \in Nat /\ Gn \in Nat
  BY <1>4, <1>5, <1>6, Totals
<1>9. /\ Fn + gf = F + 0 /\ Gn + mg = G /\ An + 0 = A + n /\ Dn + 0 = D
      /\ gf \in Nat /\ mg \in Nat /\ n \in Nat
  BY <1>1, <1>6 DEF Moved
<1>10. Fn + gf = F /\ Gn + mg = G /\ An = A + n /\ Dn = D
  BY ONLY <1>7, <1>8, <1>9
<1>11. ClientMoves(a, d, f, g, b, e, h, k, gf, mg, n, acked)
  BY <1>1, <1>2, <1>4, <1>6, <1>7, <1>8, <1>9, <1>10 DEF ClientMoves
<1>12. /\ Asks(wire'["server"]) => Asks(wire["server"])
       /\ AsksOnce(wire'["server"])
       /\ \A t \in Nat : AckedAt(wire["client"], f, t) => AckedAt(wire'["client"], h, t + gf)
       /\ \A c : Numbered(wire["server"], d, c) => Numbered(wire'["server"], e, c)
       /\ \A c : Numbered(wire["client"], g, c) => Numbered(wire'["client"], k, c)
  BY <1>1, <1>2 DEF Moved
<1>13. \A t \in Nat : AckedAt(wire["server"], a, t) => AckedAt(wire'["server"], b, t)
  <2> SUFFICES ASSUME NEW t \in Nat, AckedAt(wire["server"], a, t)
               PROVE  AckedAt(wire'["server"], b, t)
    OBVIOUS
  <2>1. AckedAt(wire'["server"], b, t + 0) /\ t + 0 = t
    BY <1>1 DEF Moved
  <2> QED
    BY <2>1
<1> QED
  BY <1>1, <1>5, <1>11, <1>12, <1>13 DEF Counted

\* What the client does with a segment of data or without one leaves the server's side.
LEMMA ClientLeavesServer ==
  ASSUME NEW a, NEW d, NEW f, NEW g, IInvWith(a, d, f, g),
         NEW b, NEW e, NEW h, NEW k, NEW gf, NEW mg, NEW n, NEW acked \in Nat,
         Passes("client", f, g, h, k, a, d, b, e, gf, mg, n, acked),
         UNCHANGED serverVars, acked <= mg, c_pcb' => c_pcb /\ acked = mg
  PROVE  /\ ServerFlow(b[Len(wire["server"])], e[Len(wire["server"])], k[Len(wire["client"])])'
         /\ ServerMarks(b, e)'
<1>0. PICK A, D, G, An, Dn, Gn, oc, on :
        /\ A = a[Len(wire["server"])] /\ D = d[Len(wire["server"])] /\ G = g[Len(wire["client"])]
        /\ An = b[Len(wire'["server"])] /\ Dn = e[Len(wire'["server"])]
        /\ Gn = k[Len(wire'["client"])] /\ oc = owed["client"] /\ on = owed'["client"]
  OBVIOUS
<1>1. ClientMoves(a, d, f, g, b, e, h, k, gf, mg, n, acked)
  BY ClientPasses
<1>2. /\ A \in Nat /\ D \in Nat /\ G \in Nat /\ An \in Nat /\ Dn \in Nat /\ Gn \in Nat
      /\ oc \in Nat /\ on \in Nat /\ n \in Nat /\ mg \in Nat
      /\ An = A + n /\ on + n = oc + acked /\ Gn + mg = G /\ Dn = D
  BY <1>0, <1>1 DEF ClientMoves
<1>3. /\ s_client' = s_client /\ s_sent_len' = s_sent_len /\ s_buffer_recv' = s_buffer_recv
      /\ s_buffer_sent' = s_buffer_sent
  BY DEF serverVars
<1>4. StateOK /\ ServerMarks(a, d) /\ ServerFlow(A, D, G)
  BY <1>0, ServerCounts DEF Flows
<1>5. PICK t, X, Y : t = s_sent_len /\ X = t + An + on + Gn /\ Y = t + A + oc + G
  OBVIOUS
<1>6. t \in Nat /\ Parts \in Nat /\ acked \in Nat
  BY <1>4, <1>5, PartsAssumption DEF StateOK
<1>7. X \in Nat /\ Y \in Nat /\ X + mg = Y + acked
  BY ONLY <1>2, <1>5, <1>6
<1>8. ServerFlow(An, Dn, Gn)'
  <2>1. ASSUME s_client
        PROVE  X <= Parts /\ (Gn > 0 /\ c_pcb' => X = Parts)
    <3>1. Y <= Parts /\ (G > 0 /\ c_pcb => Y = Parts)
      BY <1>0, <1>4, <1>5, <2>1 DEF ServerFlow
    <3>2. X <= Parts
      BY <1>2, <1>6, <1>7, <3>1
    <3>3. ASSUME Gn > 0, c_pcb'
          PROVE  X = Parts
      <4>1. G > 0 /\ acked = mg /\ c_pcb
        BY <1>2, <3>3
      <4>2. X = Y
        BY <1>2, <1>6, <1>7, <4>1
      <4> QED
        BY <3>1, <4>1, <4>2
    <3> QED
      BY <3>2, <3>3
  <2>2. ASSUME s_client
        PROVE  /\ Dn > 0 => Dn + (IF t >= Parts THEN Len(s_buffer_recv) ELSE 0) = Parts
               /\ Dn > 0 /\ t >= Parts => Filled(s_buffer_recv)'
    BY <1>2, <1>3, <1>4, <1>5, <2>2 DEF ServerFlow, Filled
  <2> QED
    BY <1>0, <1>3, <1>5, <2>1, <2>2 DEF ServerFlow
<1>9. ServerMarks(b, e)'
  <2>1. ASSUME s_client
        PROVE  AckedAt(wire'["server"], b, s_sent_len) /\ Numbered(wire'["server"], e, s_buffer_sent)
    BY <1>4, <1>5, <1>6, <2>1, ClientPasses DEF ServerMarks
  <2> QED
    BY <1>3, <2>1 DEF ServerMarks
<1> QED
  BY <1>0, <1>8, <1>9

\* The client takes no data and no acknowledgement, or its connection ends: counting a
\* round, if so.
LEMMA ClientQuiet ==
  ASSUME NEW a, NEW d, NEW f, NEW g, IInvWith(a, d, f, g),
         NEW b, NEW e, NEW h, NEW k, NEW gf, NEW mg, NEW n, NEW acked \in Nat,
         Passes("client", f, g, h, k, a, d, b, e, gf, mg, n, acked),
         UNCHANGED serverVars, StateOK', Verdicts', acked <= mg,
         c_pcb' => /\ c_pcb /\ gf = 0 /\ mg = 0
                   /\ UNCHANGED <<c_buffer, c_sent_len, c_run_count>>,
         c_run_count' = c_run_count \/ d[Len(wire["server"])] = 0,
         ~ c_pcb' /\ ~ c_complete' => ~ c_pcb /\ ~ c_complete,
         Asks(wire["server"]) \/ (~ c_pcb /\ ~ c_complete)
           => UNCHANGED <<c_buffer, c_sent_len, c_run_count>>
  PROVE  IInvWith(b, e, h, k)'
<1>0. PICK A, D, F, G, An, Dn, Fn, Gn, o, oc, on :
        /\ A = a[Len(wire["server"])] /\ D = d[Len(wire["server"])]
        /\ F = f[Len(wire["client"])] /\ G = g[Len(wire["client"])]
        /\ An = b[Len(wire'["server"])] /\ Dn = e[Len(wire'["server"])]
        /\ Fn = h[Len(wire'["client"])] /\ Gn = k[Len(wire'["client"])]
        /\ o = owed["server"] /\ oc = owed["client"] /\ on = owed'["client"]
  OBVIOUS
<1>1. ClientMoves(a, d, f, g, b, e, h, k, gf, mg, n, acked)
  BY ClientPasses
<1>2. /\ A \in Nat /\ D \in Nat /\ F \in Nat /\ G \in Nat
      /\ An \in Nat /\ Dn \in Nat /\ Fn \in Nat /\ Gn \in Nat
      /\ oc \in Nat /\ on \in Nat /\ o \in Nat /\ n \in Nat /\ gf \in Nat /\ mg \in Nat
      /\ An = A + n /\ on + n = oc + acked /\ Gn + mg = G /\ Dn = D /\ Fn + gf = F
      /\ owed'["server"] = o
  BY <1>0, <1>1 DEF ClientMoves
<1>3. /\ s_client' = s_client /\ s_sent_len' = s_sent_len /\ s_buffer_recv' = s_buffer_recv
      /\ s_buffer_sent' = s_buffer_sent /\ s_run_count' = s_run_count
  BY DEF serverVars
<1>4. /\ StateOK /\ ClientMarks(f, g) /\ ClientFlow(F, D, G) /\ InStep(F, D) /\ Fresh(A, D, F, G)
      /\ Once
  BY <1>0, ServerCounts DEF Flows
<1>5. ServerFlow(An, Dn, Gn)' /\ ServerMarks(b, e)'
  <2>1. c_pcb' => c_pcb /\ acked = mg
    BY <1>2
  <2>2. ServerFlow(b[Len(wire["server"])], e[Len(wire["server"])], k[Len(wire["client"])])'
        /\ ServerMarks(b, e)'
    BY <2>1, ClientLeavesServer
  <2> QED
    BY <1>0, <2>2
<1>6. ASSUME c_pcb'
      PROVE  ClientFlow(Fn, Dn, Gn)' /\ ClientMarks(h, k)' /\ InStep(Fn, Dn)'
  <2>1. /\ c_pcb /\ gf = 0 /\ mg = 0 /\ c_buffer' = c_buffer /\ c_sent_len' = c_sent_len
        /\ c_run_count' = c_run_count
    BY <1>6
  <2>2. Fn = F /\ Gn = G
    BY <1>2, <2>1
  <2>3. ClientFlow(Fn, Dn, Gn)'
    BY <1>0, <1>2, <1>3, <1>4, <2>1, <2>2 DEF ClientFlow, Filled
  <2>4. c_sent_len \in Nat /\ c_sent_len + 0 = c_sent_len
    BY <1>4 DEF StateOK
  <2>5. ASSUME Len(c_buffer) = Parts
        PROVE  AckedAt(wire'["client"], h, c_sent_len)
    <3>1. AckedAt(wire'["client"], h, c_sent_len + gf)
      BY <1>4, <2>1, <2>4, <2>5, ClientPasses DEF ClientMarks
    <3> QED
      BY <2>1, <2>4, <3>1
  <2>6. Numbered(wire'["client"], k, s_buffer_sent)
    BY <1>4, <2>1, ClientPasses DEF ClientMarks
  <2>7. ClientMarks(h, k)'
    BY <1>3, <2>1, <2>5, <2>6 DEF ClientMarks
  <2>8. InStep(Fn, Dn)'
    BY <1>0, <1>2, <1>3, <1>4, <2>1, <2>2 DEF InStep
  <2> QED
    BY <2>3, <2>7, <2>8
<1>7. ASSUME ~ c_pcb'
      PROVE  ClientFlow(Fn, Dn, Gn)' /\ ClientMarks(h, k)' /\ InStep(Fn, Dn)'
  <2>1. ClientFlow(Fn, Dn, Gn)' /\ ClientMarks(h, k)'
    BY <1>7 DEF ClientFlow, ClientMarks
  <2>2. s_client /\ Dn > 0 => c_run_count' = s_run_count
    BY <1>0, <1>2, <1>4 DEF InStep
  <2>3. InStep(Fn, Dn)'
    BY <1>3, <1>7, <2>2 DEF InStep
  <2> QED
    BY <2>1, <2>3
<1>8. Fresh(An, Dn, Fn, Gn)' /\ Once'
  <2>1. ASSUME Asks(wire'["server"]) \/ (~ c_pcb' /\ ~ c_complete')
        PROVE  Asks(wire["server"]) \/ (~ c_pcb /\ ~ c_complete)
    BY <2>1, ClientPasses
  <2>2. ASSUME Asks(wire'["server"]) \/ (~ c_pcb' /\ ~ c_complete')
        PROVE  /\ ~ s_client /\ s_run_count = 0 /\ c_run_count' = 0
               /\ s_buffer_recv = <<>> /\ c_buffer' = <<>> /\ s_sent_len = 0 /\ c_sent_len' = 0
               /\ A = 0 /\ D = 0 /\ F = 0 /\ G = 0 /\ o = 0 /\ oc = 0
    BY <1>0, <1>4, <2>1, <2>2 DEF Fresh
  <2>3. ASSUME Asks(wire'["server"]) \/ (~ c_pcb' /\ ~ c_complete')
        PROVE  An = 0 /\ Dn = 0 /\ Fn = 0 /\ Gn = 0 /\ on = 0
    <3>1. A = 0 /\ D = 0 /\ F = 0 /\ G = 0 /\ oc = 0
      BY <2>2, <2>3
    <3>2. Fn = 0 /\ Gn = 0 /\ Dn = 0 /\ mg = 0 /\ acked = 0
      BY <1>2, <3>1
    <3>3. on = 0 /\ n = 0
      BY <1>2, <3>1, <3>2
    <3>4. An = 0
      BY <1>2, <3>1, <3>3
    <3> QED
      BY <3>2, <3>3, <3>4
  <2>4. Fresh(An, Dn, Fn, Gn)'
    BY <1>0, <1>2, <1>3, <2>2, <2>3 DEF Fresh
  <2>5. Once'
    BY <1>4, ClientPasses DEF Once
  <2> QED
    BY <2>4, <2>5
<1>9. LinkOK' /\ Counted(b, e, h, k)'
  BY ClientPasses
<1> QED
  BY <1>0, <1>5, <1>6, <1>7, <1>8, <1>9 DEF IInvWith, Flows

-----------------------------------------------------------------------------
(* The actions of TcpClient. *)

\* The connection is over for the client, or was never there.
LEMMA ClientOut ==
  ASSUME NEW a, NEW d, NEW f, NEW g, IInvWith(a, d, f, g),
         NEW out \in PlainSeq, NEW acked \in Nat,
         \/ /\ wire["client"] # <<>> /\ Exchange("client", acked, out)
            /\ acked # 0 => acked = 1 /\ Head(wire["client"]).type = "DATA"
         \/ Transmit("client", out) /\ acked = 0
         \/ ArrivesClosed("client") /\ acked = 0,
         UNCHANGED serverVars, StateOK', Verdicts', ~ c_pcb',
         c_run_count' = c_run_count \/ d[Len(wire["server"])] = 0,
         ~ c_complete' => ~ c_pcb /\ ~ c_complete,
         Asks(wire["server"]) \/ (~ c_pcb /\ ~ c_complete)
           => UNCHANGED <<c_buffer, c_sent_len, c_run_count>>
  PROVE  IInv'
<1>1. /\ LinkOK /\ wire["server"] \in Seq(Msg) /\ wire["client"] \in Seq(Msg)
      /\ Counts(wire["server"], a, d) /\ Counts(wire["client"], f, g)
      /\ "client" \in Ends /\ Peer("client") = "server"
  BY ServerCounts
<1>2. \E b, e, h, k, gf, mg, n : /\ Passes("client", f, g, h, k, a, d, b, e, gf, mg, n, acked)
                                 /\ acked <= mg
  <2>1. CASE /\ wire["client"] # <<>> /\ Exchange("client", acked, out)
             /\ acked # 0 => acked = 1 /\ Head(wire["client"]).type = "DATA"
    <3>1. \E h, k, b, e, n : Passes("client", f, g, h, k, a, d, b, e, f[1], g[1], n, acked)
      BY <1>1, <2>1, ExchangePasses
    <3>2. g[1] \in Nat /\ g[1] = IF Head(wire["client"]).type = "DATA" THEN 1 ELSE 0
      BY <1>1, <2>1, HeadCounts
    <3>3. acked <= g[1]
      BY <2>1, <3>2
    <3> QED
      BY <3>1, <3>3
  <2>2. CASE Transmit("client", out) /\ acked = 0
    <3>1. \E b, e, n : Passes("client", f, g, f, g, a, d, b, e, 0, 0, n, 0)
      BY <1>1, <2>2, TransmitPasses
    <3> QED
      BY <2>2, <3>1
  <2>3. CASE ArrivesClosed("client") /\ acked = 0
    <3>1. \E h, k, b, e : Passes("client", f, g, h, k, a, d, b, e, f[1], g[1], 0, 0)
      BY <1>1, <2>3, ClosedPasses
    <3>2. g[1] \in Nat
      BY <1>1, <2>3, HeadCounts DEF ArrivesClosed
    <3> QED
      BY <2>3, <3>1, <3>2
  <2> QED
    BY <2>1, <2>2, <2>3
<1>3. PICK b, e, h, k, gf, mg, n : /\ Passes("client", f, g, h, k, a, d, b, e, gf, mg, n, acked)
                                   /\ acked <= mg
  BY <1>2
<1>4. IInvWith(b, e, h, k)'
  BY <1>3, ClientQuiet
<1> QED
  BY <1>4 DEF IInv

\* The state of the client and its verdict once its test has ended.
LEMMA ClientEnded ==
  ASSUME NEW a, NEW d, NEW f, NEW g, IInvWith(a, d, f, g), UNCHANGED serverVars,
         NEW status, tcp_result(status),
         c_buffer' \in Seq(Msg), Len(c_buffer') <= Parts, c_sent_len' \in Nat, c_run_count' \in Nat
  PROVE  StateOK' /\ Verdicts' /\ ~ c_pcb' /\ c_complete'
<1>1. StateOK /\ Verdicts
  BY ServerCounts
<1>2. StateOK'
  BY <1>1 DEF StateOK, serverVars
<1>3. Verdicts' /\ ~ c_pcb' /\ c_complete'
  BY <1>1 DEF Verdicts, serverVars, tcp_result
<1> QED
  BY <1>2, <1>3

\* Closing, reset, poll timer and late arrivals at the client.
LEMMA ClientStepsOut ==
  ASSUME NEW a, NEW d, NEW f, NEW g, IInvWith(a, d, f, g), UNCHANGED serverVars,
         \/ tcp_client_recv_closed \/ tcp_client_err \/ tcp_client_poll \/ ClientClosedArrival
  PROVE  IInv'
<1>1. StateOK /\ Verdicts /\ 0 \in Nat
  BY ServerCounts
<1>2. ASSUME UNCHANGED <<c_buffer, c_sent_len, c_run_count>>, tcp_result("failed")
      PROVE  StateOK' /\ Verdicts' /\ ~ c_pcb' /\ c_complete'
  <2>1. c_buffer' \in Seq(Msg) /\ Len(c_buffer') <= Parts /\ c_sent_len' \in Nat /\ c_run_count' \in Nat
    BY <1>1, <1>2 DEF StateOK
  <2> QED
    BY <1>2, <2>1, ClientEnded
<1>3. CASE tcp_client_recv_closed
  <2>1. PICK out \in Closings : Exchange("client", 0, out)
    BY <1>3 DEF tcp_client_recv_closed, ClientEnds
  <2>2. wire["client"] # <<>> /\ tcp_result("failed") /\ UNCHANGED <<c_buffer, c_sent_len, c_run_count>>
    BY <1>3 DEF tcp_client_recv_closed, ClientEnds, Arrived
  <2> QED
    BY <1>1, <1>2, <2>1, <2>2, PlainOuts, ClientOut
<1>4. CASE tcp_client_err
  <2>1. wire["client"] # <<>> /\ tcp_result("failed") /\ UNCHANGED <<c_buffer, c_sent_len, c_run_count>>
        /\ Exchange("client", 0, <<>>)
    BY <1>4 DEF tcp_client_err, Arrived
  <2> QED
    BY <1>1, <1>2, <2>1, PlainOuts, ClientOut
<1>5. CASE tcp_client_poll
  <2>1. PICK out \in Closings : Transmit("client", out)
    BY <1>5 DEF tcp_client_poll
  <2>2. tcp_result("failed") /\ UNCHANGED <<c_buffer, c_sent_len, c_run_count>>
    BY <1>5 DEF tcp_client_poll
  <2> QED
    BY <1>1, <1>2, <2>1, <2>2, PlainOuts, ClientOut
<1>6. CASE ClientClosedArrival
  <2>1. ~ c_pcb /\ ArrivesClosed("client") /\ UNCHANGED clientVars
    BY <1>6 DEF ClientClosedArrival
  <2>2. UNCHANGED <<c_buffer, c_sent_len, c_run_count>> /\ ~ c_pcb' /\ c_complete' = c_complete
    BY <2>1 DEF clientVars
  <2>3. StateOK' /\ Verdicts'
    BY <1>1, <2>1 DEF StateOK, Verdicts, serverVars, clientVars
  <2> QED
    BY <1>1, <2>1, <2>2, <2>3, PlainOuts, ClientOut
<1> QED
  BY <1>3, <1>4, <1>5, <1>6

\* The connection is made, or the client acknowledges late.
LEMMA ClientIdles ==
  ASSUME NEW a, NEW d, NEW f, NEW g, IInvWith(a, d, f, g), UNCHANGED serverVars,
         tcp_client_connected \/ (DelayedAck("client") /\ UNCHANGED clientVars)
  PROVE  IInv'
<1>1. /\ LinkOK /\ wire["server"] \in Seq(Msg) /\ wire["client"] \in Seq(Msg) /\ StateOK /\ Verdicts
      /\ Counts(wire["server"], a, d) /\ Counts(wire["client"], f, g)
      /\ "client" \in Ends /\ Peer("client") = "server"
  BY ServerCounts
<1>2. /\ c_pcb' = c_pcb /\ c_complete' = c_complete /\ c_result' = c_result
      /\ UNCHANGED <<c_buffer, c_sent_len, c_run_count>>
  BY DEF tcp_client_connected, clientVars
<1>3. \E b, e, h, k, n : Passes("client", f, g, h, k, a, d, b, e, 0, 0, n, 0)
  <2>1. CASE tcp_client_connected
    <3>1. wire["client"] # <<>> /\ Head(wire["client"]).type = "SYNACK" /\ Exchange("client", 0, <<>>)
      BY <2>1 DEF tcp_client_connected, Arrived
    <3>2. f[1] = 0 /\ g[1] = 0
      BY <1>1, <3>1, HeadCounts
    <3>3. \E h, k, b, e, n : Passes("client", f, g, h, k, a, d, b, e, f[1], g[1], n, 0)
      <4>1. 0 \in Nat
        OBVIOUS
      <4> QED
        BY <1>1, <3>1, <4>1, PlainOuts, ExchangePasses
    <3> QED
      BY <3>2, <3>3
  <2>2. CASE DelayedAck("client")
    <3>1. Transmit("client", <<>>)
      BY <2>2 DEF DelayedAck
    <3>2. \E b, e, n : Passes("client", f, g, f, g, a, d, b, e, 0, 0, n, 0)
      BY <1>1, <3>1, PlainOuts, TransmitPasses
    <3> QED
      BY <3>2
  <2> QED
    BY <2>1, <2>2
<1>4. PICK b, e, h, k, n : Passes("client", f, g, h, k, a, d, b, e, 0, 0, n, 0)
  BY <1>3
<1>5. StateOK' /\ Verdicts'
  BY <1>1, <1>2 DEF StateOK, Verdicts, serverVars
<1>6. IInvWith(b, e, h, k)'
  <2>1. 0 \in Nat /\ 0 <= 0 /\ 0 = 0
    OBVIOUS
  <2> QED
    BY <1>2, <1>4, <1>5, <2>1, ClientQuiet
<1> QED
  BY <1>6 DEF IInv

\* The connection is asked for, or there is no pcb for it.
LEMMA ClientOpens ==
  ASSUME NEW a, NEW d, NEW f, NEW g, IInvWith(a, d, f, g), UNCHANGED serverVars,
         tcp_client_open
  PROVE  IInv'
<1>1. /\ LinkOK /\ wire["server"] \in Seq(Msg) /\ wire["client"] \in Seq(Msg)
      /\ StateOK /\ Verdicts /\ Once
      /\ Counts(wire["server"], a, d) /\ Counts(wire["client"], f, g)
      /\ "client" \in Ends /\ Peer("client") = "server" /\ "server" \in Ends
  BY ServerCounts
<1>2. ~ c_pcb /\ ~ c_complete /\ c_buffer' = <<>> /\ c_sent_len' = c_sent_len
      /\ c_run_count' = c_run_count
  BY DEF tcp_client_open
<1>3. /\ ~ s_client /\ s_run_count = 0 /\ c_run_count = 0
      /\ s_buffer_recv = <<>> /\ c_buffer = <<>> /\ s_sent_len = 0 /\ c_sent_len = 0
      /\ a[Len(wire["server"])] = 0 /\ d[Len(wire["server"])] = 0
      /\ f[Len(wire["client"])] = 0 /\ g[Len(wire["client"])] = 0
      /\ owed["server"] = 0 /\ owed["client"] = 0
  BY <1>2, ServerCounts DEF Flows, Fresh
<1>4. /\ s_client' = s_client /\ s_sent_len' = s_sent_len /\ s_buffer_recv' = s_buffer_recv
      /\ s_buffer_sent' = s_buffer_sent /\ s_run_count' = s_run_count
      /\ s_listening' = s_listening /\ s_result' = s_result
  BY DEF serverVars
<1>5. StateOK'
  BY <1>1, <1>2, <1>3, <1>4 DEF StateOK
<1>6. CASE tcp_result("failed") /\ UNCHANGED linkVars
  <2>1. wire' = wire /\ owed' = owed
    BY <1>6 DEF linkVars
  <2>2. ~ c_pcb' /\ c_complete'
    BY <1>6 DEF tcp_result
  <2>3. Verdicts'
    BY <1>1, <1>4, <2>2 DEF Verdicts
  <2>4. LinkOK' /\ Counted(a, d, f, g)' /\ ServerMarks(a, d)' /\ ClientMarks(f, g)' /\ Once'
    BY <1>1, <1>3, <1>4, <2>1, <2>2 DEF LinkOK, Counted, ServerMarks, ClientMarks, Once
  <2>5. Flows(a[Len(wire["server"])], d[Len(wire["server"])],
              f[Len(wire["client"])], g[Len(wire["client"])])'
    BY <1>1, <1>2, <1>3, <1>4, <2>1, <2>2 DEF Flows, ServerFlow, ClientFlow, InStep, Fresh, Once
  <2>6. IInvWith(a, d, f, g)'
    BY <1>5, <2>3, <2>4, <2>5 DEF IInvWith
  <2> QED
    BY <2>6 DEF IInv
<1>7. CASE /\ c_pcb' = TRUE /\ Transmit("client", <<Entry("SYN", 0, 0)>>)
           /\ UNCHANGED <<c_complete, c_result>>
  <2> DEFINE m == Entry("SYN", 0, 0)
             z == [i \in 0..1 |-> 0]
             q == wire["server"]
  <2>1. m \in Msg /\ m.type = "SYN"
    BY DEF Entry, Msg
  <2>2. wire' = [wire EXCEPT !["server"] = q \o Ack("client") \o <<m>>]
        /\ owed' = [owed EXCEPT !["client"] = 0]
    BY <1>1, <1>7 DEF Transmit, LinkOK
  <2> HIDE DEF m
  <2>3. <<m>> \in Seq(Msg) /\ Len(<<m>>) = 1 /\ <<m>>[1] = m
    BY <2>1
  <2>4. Ack("client") = <<>>
    BY <1>3 DEF Ack
  <2>5. wire' = [wire EXCEPT !["server"] = q \o <<m>>] /\ wire'["server"] = q \o <<m>>
        /\ wire'["client"] = wire["client"]
    <3>1. q \o <<>> = q
      BY <1>1, Join3
    <3> QED
      BY <1>1, <2>2, <2>4, <3>1 DEF LinkOK, Ends
  <2>6. owed'["client"] = 0 /\ owed'["server"] = 0 /\ owed' \in [Ends -> Nat]
    BY <1>1, <1>3, <2>2 DEF LinkOK, Ends
  <2>7. Counts(<<m>>, z, z) /\ z[1] = 0
    BY <2>1, <2>3 DEF Counts
  <2> HIDE DEF z, q
  <2>8. PICK b, e : Joined(q, <<m>>, a, d, z, z, b, e)
    BY <1>1, <2>3, <2>7, JoinCounts DEF q
  <2>9. /\ q \o <<m>> \in Seq(Msg) /\ Len(q \o <<m>>) = Len(q) + 1 /\ Len(q) \in Nat
        /\ \A i \in 1..Len(q) : (q \o <<m>>)[i] = q[i]
        /\ \A i \in (Len(q) + 1)..Len(q \o <<m>>) : i - Len(q) \in 1..1
    BY <1>1, <2>3, JoinElements DEF q
  <2>10. Counts(q \o <<m>>, b, e) /\ b[Len(q \o <<m>>)] = 0 /\ e[Len(q \o <<m>>)] = 0
    BY <1>3, <2>3, <2>7, <2>8, <2>9 DEF Joined, q
  <2>11. LinkOK'
    BY <1>1, <2>5, <2>6, <2>9 DEF LinkOK
  <2>12. Counted(b, e, f, g)'
    BY <1>1, <2>5, <2>10 DEF Counted
  <2>13. Once'
    <3>1. \A i \in 1..Len(q) : q[i].type # "SYN"
      BY <1>1, <1>2 DEF Once, Asks, q
    <3>2. ASSUME NEW i \in 1..Len(q \o <<m>>), (q \o <<m>>)[i].type = "SYN"
          PROVE  i = Len(q) + 1
      BY <2>9, <3>1, <3>2
    <3>3. AsksOnce(q \o <<m>>)
      BY <3>2 DEF AsksOnce
    <3> QED
      BY <1>7, <2>5, <3>3 DEF Once
  <2>14. PICK An, Dn, Fn, Gn : /\ An = b[Len(wire'["server"])] /\ Dn = e[Len(wire'["server"])]
                               /\ Fn = f[Len(wire'["client"])] /\ Gn = g[Len(wire'["client"])]
    OBVIOUS
  <2>15. An = 0 /\ Dn = 0 /\ Fn = 0 /\ Gn = 0
    BY <1>3, <2>5, <2>10, <2>14
  <2>16. Parts \in Nat \ {0} /\ Len(<<>>) = 0 /\ Iterations \in Nat \ {0}
    BY PartsAssumption, RoundsAssumption
  <2>17. ServerFlow(An, Dn, Gn)' /\ ServerMarks(b, e)' /\ InStep(Fn, Dn)'
    BY <1>2, <1>3, <1>4, <2>15, <2>16 DEF ServerFlow, ServerMarks, InStep
  <2>18. ClientFlow(Fn, Dn, Gn)'
    BY <1>2, <1>3, <2>6, <2>15, <2>16 DEF ClientFlow
  <2>19. ClientMarks(f, g)'
    <3>1. Numbered(wire["client"], g, s_buffer_sent)
      BY <1>1, <1>3, NothingMarked
    <3>2. Len(c_buffer') # Parts
      BY <1>2, <2>16
    <3> QED
      BY <1>4, <2>5, <3>1, <3>2 DEF ClientMarks
  <2>20. Fresh(An, Dn, Fn, Gn)'
    BY <1>2, <1>3, <1>4, <2>6, <2>15 DEF Fresh
  <2>21. Verdicts'
    BY <1>1, <1>2, <1>3, <1>4, <1>7, <2>16 DEF Verdicts
  <2>22. IInvWith(b, e, f, g)'
    BY <1>5, <2>11, <2>12, <2>13, <2>14, <2>17, <2>18, <2>19, <2>20, <2>21 DEF IInvWith, Flows
  <2> QED
    BY <2>22 DEF IInv
<1> QED
  BY <1>6, <1>7 DEF tcp_client_open

\* The echo, or the rest of it, is acknowledged: a whole buffer is being sent back.
LEMMA AckArrives ==
  ASSUME NEW a, NEW d, NEW f, NEW g, IInvWith(a, d, f, g), c_pcb, Arrived("client", "ACK"),
         NEW u, u = c_sent_len, NEW o, o = owed["server"],
         NEW D, D = d[Len(wire["server"])], NEW F, F = f[Len(wire["client"])]
  PROVE  /\ f[1] = Head(wire["client"]).n /\ f[1] \in Nat \ {0} /\ f[1] <= F /\ g[1] = 0
         /\ u \in Nat /\ o \in Nat /\ D \in Nat /\ F \in Nat
         /\ u + F + o + D <= Parts /\ Len(c_buffer) = Parts
         /\ ~ Asks(wire["server"]) /\ wire["client"] # <<>>
<1>1. /\ LinkOK /\ wire["server"] \in Seq(Msg) /\ wire["client"] \in Seq(Msg) /\ StateOK
      /\ Counts(wire["server"], a, d) /\ Counts(wire["client"], f, g)
  BY ServerCounts
<1>2. u \in Nat /\ o \in Nat /\ D \in Nat /\ F \in Nat /\ Parts \in Nat
  BY <1>1, Totals, PartsAssumption DEF LinkOK, StateOK, Ends
<1>3. wire["client"] # <<>> /\ Head(wire["client"]).type = "ACK"
  BY DEF Arrived
<1>4. f[1] = Head(wire["client"]).n /\ f[1] \in Nat \ {0} /\ f[1] <= F /\ g[1] = 0
  <2>1. Head(wire["client"]) \in Msg
    BY <1>1, <1>3, HeadCounts
  <2> QED
    BY <1>1, <1>3, <2>1, HeadCounts DEF Msg
<1>5. PICK v : v = f[1]
  OBVIOUS
<1>6. v \in Nat \ {0} /\ v <= F
  BY <1>4, <1>5
<1>7. u + F + o + D <= Parts /\ (Len(c_buffer) < Parts => u + F + o + D = 0)
  BY ServerCounts DEF Flows, ClientFlow
<1>8. Len(c_buffer) = Parts
  <2>1. u + F + o + D # 0
    BY ONLY <1>2, <1>6
  <2>2. Len(c_buffer) \in Nat /\ Len(c_buffer) <= Parts
    BY <1>1 DEF StateOK
  <2> QED
    BY <1>2, <1>7, <2>1, <2>2
<1>9. ~ Asks(wire["server"])
  <2>1. F # 0
    BY ONLY <1>2, <1>6
  <2> QED
    BY <2>1, ServerCounts DEF Flows, Fresh
<1> QED
  BY <1>2, <1>3, <1>4, <1>7, <1>8, <1>9

\* The client's echo is acknowledged, in part or whole.
LEMMA ClientSent ==
  ASSUME NEW a, NEW d, NEW f, NEW g, IInvWith(a, d, f, g), UNCHANGED serverVars,
         tcp_client_sent
  PROVE  IInv'
<1>1. /\ LinkOK /\ wire["server"] \in Seq(Msg) /\ wire["client"] \in Seq(Msg)
      /\ StateOK /\ Verdicts /\ Once /\ ClientMarks(f, g)
      /\ Counts(wire["server"], a, d) /\ Counts(wire["client"], f, g)
      /\ "client" \in Ends /\ Peer("client") = "server"
  BY ServerCounts
<1>2. c_pcb /\ Arrived("client", "ACK")
  BY DEF tcp_client_sent
<1> DEFINE t == c_sent_len + Head(wire["client"]).n
<1>3. PICK u, o, A, D, F, G, v :
        /\ u = c_sent_len /\ o = owed["server"] /\ v = f[1]
        /\ A = a[Len(wire["server"])] /\ D = d[Len(wire["server"])]
        /\ F = f[Len(wire["client"])] /\ G = g[Len(wire["client"])]
  OBVIOUS
<1>4. /\ v = Head(wire["client"]).n /\ v \in Nat \ {0} /\ v <= F /\ g[1] = 0
      /\ u \in Nat /\ o \in Nat /\ D \in Nat /\ F \in Nat
      /\ u + F + o + D <= Parts /\ Len(c_buffer) = Parts
      /\ ~ Asks(wire["server"]) /\ wire["client"] # <<>>
  BY <1>2, <1>3, AckArrives
<1>5. ClientFlow(F, D, G) /\ InStep(F, D)
  BY <1>3, ServerCounts DEF Flows
<1>6. /\ s_client' = s_client /\ s_sent_len' = s_sent_len /\ s_buffer_recv' = s_buffer_recv
      /\ s_buffer_sent' = s_buffer_sent /\ s_run_count' = s_run_count
      /\ s_listening' = s_listening /\ s_result' = s_result
  BY DEF serverVars
<1>7. \/ /\ t < Parts /\ c_sent_len' = t
         /\ Exchange("client", 0, <<>>)
         /\ UNCHANGED <<c_run_count, c_buffer, c_pcb, c_complete, c_result>>
      \/ /\ t >= Parts
         /\ c_run_count' = c_run_count + 1 /\ c_sent_len' = t
         /\ ClientEnds(0, "ok")
         /\ UNCHANGED c_buffer
      \/ /\ t >= Parts /\ c_run_count + 1 < Iterations
         /\ c_run_count' = c_run_count + 1
         /\ c_buffer' = <<>> /\ c_sent_len' = 0
         /\ Exchange("client", 0, <<>>)
         /\ UNCHANGED <<c_pcb, c_complete, c_result>>
  BY DEF tcp_client_sent
<1>7a. t = u + v
  BY <1>3, <1>4
<1> HIDE DEF t
<1>8. t \in Nat /\ Parts \in Nat \ {0} /\ c_run_count \in Nat /\ c_run_count + 1 \in Nat
  BY <1>7a, <1>1, <1>4, PartsAssumption DEF StateOK
<1>9. t >= Parts => F = v /\ o = 0 /\ D = 0 /\ u + F + o >= Parts
  <2>1. /\ u \in Nat /\ v \in Nat /\ o \in Nat /\ D \in Nat /\ F \in Nat /\ Parts \in Nat
        /\ t = u + v /\ v <= F /\ u + F + o + D <= Parts
    BY <1>7a, <1>4, <1>8
  <2> QED
    BY ONLY <2>1
<1>10. CASE /\ t >= Parts
            /\ c_run_count' = c_run_count + 1 /\ c_sent_len' = t
            /\ ClientEnds(0, "ok")
            /\ UNCHANGED c_buffer
  <2>1. PICK out \in Closings : Exchange("client", 0, out)
    BY <1>10 DEF ClientEnds
  <2>2. tcp_result("ok")
    BY <1>10 DEF ClientEnds
  <2>3. c_buffer' \in Seq(Msg) /\ Len(c_buffer') <= Parts /\ c_sent_len' \in Nat /\ c_run_count' \in Nat
    BY <1>1, <1>8, <1>10 DEF StateOK
  <2>4. StateOK' /\ Verdicts' /\ ~ c_pcb' /\ c_complete'
    BY <2>2, <2>3, ClientEnded
  <2>5. d[Len(wire["server"])] = 0 /\ 0 \in Nat
    BY <1>3, <1>9, <1>10
  <2> QED
    BY <1>2, <1>4, <2>1, <2>4, <2>5, PlainOuts, ClientOut
<1>11. ASSUME Exchange("client", 0, <<>>), UNCHANGED <<c_pcb, c_complete, c_result>>,
              \/ t < Parts /\ c_sent_len' = t /\ UNCHANGED <<c_run_count, c_buffer>>
              \/ /\ t >= Parts /\ c_run_count + 1 < Iterations
                 /\ c_run_count' = c_run_count + 1
                 /\ c_buffer' = <<>> /\ c_sent_len' = 0
       PROVE  IInv'
  <2>1. PICK b, e, h, k, n : Passes("client", f, g, h, k, a, d, b, e, v, 0, n, 0)
    <3>1. \E h, k, b, e, n : Passes("client", f, g, h, k, a, d, b, e, f[1], g[1], n, 0)
      <4>1. 0 \in Nat
        OBVIOUS
      <4> QED
        BY <1>1, <1>4, <1>11, <4>1, PlainOuts, ExchangePasses
    <3> QED
      BY <1>3, <1>4, <3>1
  <2>2. PICK An, Dn, Fn, Gn : /\ An = b[Len(wire'["server"])] /\ Dn = e[Len(wire'["server"])]
                              /\ Fn = h[Len(wire'["client"])] /\ Gn = k[Len(wire'["client"])]
    OBVIOUS
  <2>3. /\ Fn \in Nat /\ Fn + v = F /\ Gn + 0 = G /\ Dn = D /\ owed'["server"] = o /\ G \in Nat /\ Gn \in Nat
    <3>1. ClientMoves(a, d, f, g, b, e, h, k, v, 0, n, 0)
      BY <2>1, ClientPasses
    <3> QED
      BY <1>3, <2>2, <3>1 DEF ClientMoves
  <2>4. Gn = G
    BY <2>3
  <2>5. ServerFlow(An, Dn, Gn)' /\ ServerMarks(b, e)'
    <3>1. 0 \in Nat /\ 0 <= 0 /\ (c_pcb' => c_pcb /\ 0 = 0)
      BY <1>2
    <3>2. ServerFlow(b[Len(wire["server"])], e[Len(wire["server"])], k[Len(wire["client"])])'
          /\ ServerMarks(b, e)'
      BY <2>1, <3>1, ClientLeavesServer
    <3> QED
      BY <2>2, <3>2
  <2>6. Numbered(wire'["client"], k, s_buffer_sent)
    BY <1>1, <1>2, <2>1, ClientPasses DEF ClientMarks
  <2>7. LinkOK' /\ Counted(b, e, h, k)' /\ ~ Asks(wire'["server"]) /\ AsksOnce(wire'["server"])
    BY <1>4, <2>1, ClientPasses
  <2>8. Once' /\ Fresh(An, Dn, Fn, Gn)'
    BY <1>2, <1>11, <2>7 DEF Once, Fresh
  <2>9. G > 0 => G = Parts
    <3>1. G > 0 => G + (IF Len(c_buffer) < Parts THEN Len(c_buffer) ELSE 0) = Parts
      BY <1>2, <1>5 DEF ClientFlow
    <3> QED
      BY <1>4, <1>8, <2>3, <3>1
  <2>10. CASE t < Parts /\ c_sent_len' = t /\ UNCHANGED <<c_run_count, c_buffer>>
    <3>1. StateOK' /\ Verdicts'
      BY <1>1, <1>2, <1>6, <1>8, <1>11, <2>10 DEF StateOK, Verdicts
    <3>2. t + Fn + o = u + F + o /\ t + Fn + o + D = u + F + o + D
      <4>1. t = u + v /\ Fn + v = F
        BY <1>7a, <2>3
      <4>2. u \in Nat /\ v \in Nat /\ o \in Nat /\ D \in Nat /\ Fn \in Nat
        BY <1>4, <2>3
      <4>3. (u + v) + Fn + o = u + (Fn + v) + o /\ (u + v) + Fn + o + D = u + (Fn + v) + o + D
        BY ONLY <4>2
      <4> QED
        BY <4>1, <4>3
    <3>3. ClientFlow(Fn, Dn, Gn)'
      <4>1. t + Fn + o + D <= Parts /\ (D > 0 /\ s_client => t + Fn + o + D = Parts)
        BY <1>2, <1>3, <1>4, <1>5, <3>2 DEF ClientFlow
      <4>2. ~ (Parts < Parts)
        BY <1>8
      <4>3. Gn > 0 => Gn + 0 = Parts
        BY <1>8, <2>4, <2>9
      <4>4. c_sent_len' = t /\ owed'["server"] = o /\ Len(c_buffer') = Parts
        BY <1>4, <2>3, <2>10
      <4> QED
        BY <1>6, <2>3, <4>1, <4>2, <4>3, <4>4 DEF ClientFlow
    <3>4. InStep(Fn, Dn)'
      <4>1. c_sent_len' = t /\ owed'["server"] = o /\ Len(c_buffer') = Parts /\ ~ (Parts < Parts)
        BY <1>4, <1>8, <2>3, <2>10
      <4>2. (u + F + o >= Parts => s_run_count = c_run_count + 1)
            /\ (s_client /\ D > 0 => c_run_count = s_run_count)
        BY <1>2, <1>3, <1>4, <1>5 DEF InStep
      <4>3. c_run_count' = c_run_count
        BY <2>10
      <4> QED
        BY <1>6, <2>3, <3>2, <4>1, <4>2, <4>3 DEF InStep
    <3>5. ClientMarks(h, k)'
      <4>1. AckedAt(wire["client"], f, u)
        BY <1>1, <1>2, <1>3, <1>4 DEF ClientMarks
      <4>2. AckedAt(wire'["client"], h, u + v)
        BY <1>4, <2>1, <4>1, ClientPasses
      <4> QED
        BY <1>7a, <1>6, <2>6, <2>10, <4>2 DEF ClientMarks
    <3>6. IInvWith(b, e, h, k)'
      BY <2>2, <2>5, <2>7, <2>8, <3>1, <3>3, <3>4, <3>5 DEF IInvWith, Flows
    <3> QED
      BY <3>6 DEF IInv
  <2>11. CASE /\ t >= Parts /\ c_run_count + 1 < Iterations
              /\ c_run_count' = c_run_count + 1
              /\ c_buffer' = <<>> /\ c_sent_len' = 0
    <3>1. Len(c_buffer') = 0 /\ 0 < Parts /\ 0 # Parts /\ c_buffer' \in Seq(Msg)
      BY <1>8, <2>11
    <3>2. StateOK' /\ Verdicts'
      BY <1>1, <1>2, <1>6, <1>8, <1>11, <2>11, <3>1 DEF StateOK, Verdicts
    <3>3. Fn = 0 /\ Dn = 0 /\ owed'["server"] = 0 /\ u + F + o >= Parts
      BY <1>4, <1>9, <2>3, <2>11
    <3>4. ClientFlow(Fn, Dn, Gn)'
      <4>1. c_sent_len' + Fn + owed'["server"] + Dn = 0
        BY <2>11, <3>3
      <4>2. Gn > 0 => Gn + 0 = Parts
        BY <1>8, <2>4, <2>9
      <4> QED
        BY <1>8, <2>11, <3>1, <3>3, <4>1, <4>2 DEF ClientFlow, Filled
    <3>5. InStep(Fn, Dn)'
      <4>1. s_run_count = c_run_count + 1
        BY <1>2, <1>3, <1>4, <1>5, <3>3 DEF InStep
      <4> QED
        BY <1>6, <2>11, <3>1, <3>3, <4>1 DEF InStep
    <3>6. ClientMarks(h, k)'
      BY <1>6, <2>6, <3>1 DEF ClientMarks
    <3>7. IInvWith(b, e, h, k)'
      BY <2>2, <2>5, <2>7, <2>8, <3>2, <3>4, <3>5, <3>6 DEF IInvWith, Flows
    <3> QED
      BY <3>7 DEF IInv
  <2> QED
    BY <1>11, <2>10, <2>11
<1> QED
  BY <1>7, <1>10, <1>11

\* A part of the server's buffer arrives: it is the next, and nothing is coming back.
LEMMA BufferArrives ==
  ASSUME NEW a, NEW d, NEW f, NEW g, IInvWith(a, d, f, g), c_pcb, Arrived("client", "DATA"),
         NEW got, got = Append(c_buffer, Head(wire["client"]))
  PROVE  /\ f[1] = 0 /\ g[1] = 1 /\ Len(c_buffer) < Parts /\ Len(c_buffer) \in Nat
         /\ c_sent_len = 0 /\ f[Len(wire["client"])] = 0 /\ owed["server"] = 0
         /\ d[Len(wire["server"])] = 0
         /\ got \in Seq(Msg) /\ Len(got) = Len(c_buffer) + 1 /\ Len(got) \in Nat
         /\ g[Len(wire["client"])] + Len(c_buffer) = Parts
         /\ g[Len(wire["client"])] \in Nat \ {0}
         /\ Filled(got) /\ ~ Asks(wire["server"]) /\ wire["client"] # <<>>
<1>1. /\ LinkOK /\ wire["server"] \in Seq(Msg) /\ wire["client"] \in Seq(Msg)
      /\ StateOK /\ Verdicts /\ ClientMarks(f, g)
      /\ Counts(wire["server"], a, d) /\ Counts(wire["client"], f, g)
  BY ServerCounts
<1>2. PICK D, F, G, u, o : /\ D = d[Len(wire["server"])] /\ F = f[Len(wire["client"])]
                           /\ G = g[Len(wire["client"])] /\ u = c_sent_len /\ o = owed["server"]
  OBVIOUS
<1>3. /\ Len(c_buffer) < Parts => u + F + o + D = 0
      /\ G > 0 => G + (IF Len(c_buffer) < Parts THEN Len(c_buffer) ELSE 0) = Parts
      /\ G > 0 /\ Len(c_buffer) < Parts => Filled(c_buffer)
  BY <1>2, ServerCounts DEF Flows, ClientFlow
<1>4. D \in Nat /\ F \in Nat /\ G \in Nat /\ u \in Nat /\ o \in Nat /\ Parts \in Nat
      /\ Len(c_buffer) \in Nat /\ c_buffer \in Seq(Msg) /\ Len(c_buffer) <= Parts
  BY <1>1, <1>2, Totals, PartsAssumption DEF StateOK, LinkOK, Ends
<1>5. PICK m : m = Head(wire["client"])
  OBVIOUS
<1>6. /\ wire["client"] # <<>> /\ m.type = "DATA" /\ m = wire["client"][1] /\ m \in Msg
      /\ Len(wire["client"]) \in Nat \ {0} /\ f[1] = 0 /\ g[1] = 1 /\ g[1] <= G
  BY <1>1, <1>2, <1>5, HeadCounts DEF Arrived
<1>7. 1 \in 1..Len(wire["client"])
  BY <1>6
<1>8. Len(c_buffer) < Parts
  <2>1. ASSUME Len(c_buffer) = Parts
        PROVE  FALSE
    <3>1. u + 0 >= Parts
      BY <1>1, <1>2, <1>6, <1>7, <2>1 DEF ClientMarks, AckedAt
    <3>2. u < Parts
      BY <1>1, <1>2 DEF Verdicts
    <3> QED
      BY <1>4, <3>1, <3>2
  <2> QED
    BY <1>4, <2>1
<1>9. u = 0 /\ F = 0 /\ o = 0 /\ D = 0 /\ G \in Nat \ {0} /\ G > 0
  <2>1. u + F + o + D = 0
    BY <1>3, <1>8
  <2>2. u = 0 /\ F = 0 /\ o = 0 /\ D = 0
    BY <1>4, <2>1
  <2>3. G \in Nat \ {0} /\ G > 0
    BY <1>4, <1>6
  <2> QED
    BY <2>2, <2>3
<1>10. G + Len(c_buffer) = Parts /\ Filled(c_buffer)
  BY <1>3, <1>8, <1>9
<1>11. m = Entry("DATA", s_buffer_sent, Len(c_buffer) + 1)
  <2>1. m = Entry("DATA", s_buffer_sent, (Parts - G) + 1)
    BY <1>1, <1>2, <1>6, <1>7 DEF ClientMarks, Numbered
  <2>2. (Parts - G) + 1 = Len(c_buffer) + 1
    BY <1>4, <1>10
  <2> QED
    BY <2>1, <2>2
<1>12. /\ got \in Seq(Msg) /\ Len(got) = Len(c_buffer) + 1 /\ Len(got) \in Nat
       /\ got[Len(c_buffer) + 1] = m
       /\ \A i \in 1..Len(c_buffer) : got[i] = c_buffer[i]
  BY <1>4, <1>5, <1>6
<1>13. Filled(got)
  <2> SUFFICES ASSUME NEW i \in 1..Len(got)
               PROVE  got[i] = Entry("DATA", s_buffer_sent, i)
    BY DEF Filled
  <2>1. CASE i \in 1..Len(c_buffer)
    BY <1>10, <1>12, <2>1 DEF Filled
  <2>2. CASE i = Len(c_buffer) + 1
    BY <1>11, <1>12, <2>2
  <2> QED
    BY <1>4, <1>12, <2>1, <2>2
<1>14. ~ Asks(wire["server"])
  BY <1>2, <1>9, ServerCounts DEF Flows, Fresh
<1> QED
  BY <1>2, <1>4, <1>6, <1>8, <1>9, <1>10, <1>12, <1>13, <1>14

\* A part that does not fill the client's buffer.
LEMMA ClientReceivesPart ==
  ASSUME NEW a, NEW d, NEW f, NEW g, IInvWith(a, d, f, g), UNCHANGED serverVars,
         c_pcb, Arrived("client", "DATA"), UNCHANGED <<c_pcb, c_complete, c_result>>,
         UNCHANGED <<c_run_count, c_sent_len>>,
         c_buffer' = Append(c_buffer, Head(wire["client"])),
         Len(c_buffer) + 1 < Parts, Exchange("client", 1, <<>>)
  PROVE  IInv'
<1>1. /\ LinkOK /\ wire["server"] \in Seq(Msg) /\ wire["client"] \in Seq(Msg)
      /\ StateOK /\ Verdicts /\ Once /\ ClientMarks(f, g)
      /\ Counts(wire["server"], a, d) /\ Counts(wire["client"], f, g)
      /\ "client" \in Ends /\ Peer("client") = "server"
  BY ServerCounts
<1>2. PICK got : got = Append(c_buffer, Head(wire["client"]))
  OBVIOUS
<1>3. PICK A, D, F, G : /\ A = a[Len(wire["server"])] /\ D = d[Len(wire["server"])]
                        /\ F = f[Len(wire["client"])] /\ G = g[Len(wire["client"])]
  OBVIOUS
<1>4. /\ f[1] = 0 /\ g[1] = 1 /\ Len(c_buffer) < Parts /\ Len(c_buffer) \in Nat
      /\ c_sent_len = 0 /\ F = 0 /\ owed["server"] = 0 /\ D = 0
      /\ got \in Seq(Msg) /\ Len(got) = Len(c_buffer) + 1 /\ Len(got) \in Nat
      /\ G + Len(c_buffer) = Parts /\ G \in Nat \ {0}
      /\ Filled(got) /\ ~ Asks(wire["server"]) /\ wire["client"] # <<>>
  BY <1>2, <1>3, BufferArrives
<1>5. PICK b, e, h, k, n : Passes("client", f, g, h, k, a, d, b, e, 0, 1, n, 1)
  <2>1. \E h, k, b, e, n : Passes("client", f, g, h, k, a, d, b, e, f[1], g[1], n, 1)
    <3>1. 1 \in Nat
      OBVIOUS
    <3> QED
      BY <1>1, <1>4, <3>1, PlainOuts, ExchangePasses
  <2> QED
    BY <1>4, <2>1
<1>6. PICK An, Dn, Fn, Gn : /\ An = b[Len(wire'["server"])] /\ Dn = e[Len(wire'["server"])]
                            /\ Fn = h[Len(wire'["client"])] /\ Gn = k[Len(wire'["client"])]
  OBVIOUS
<1>7. Fn \in Nat /\ Gn \in Nat /\ Fn = 0 /\ Gn + 1 = G /\ Dn = 0 /\ owed'["server"] = 0
  <2>1. ClientMoves(a, d, f, g, b, e, h, k, 0, 1, n, 1)
    BY <1>5, ClientPasses
  <2>2. Fn \in Nat /\ Gn \in Nat /\ Fn + 0 = F /\ Gn + 1 = G /\ Dn = D /\ owed'["server"] = owed["server"]
    BY <1>3, <1>6, <2>1 DEF ClientMoves
  <2> QED
    BY <1>4, <2>2
<1>8. /\ s_client' = s_client /\ s_sent_len' = s_sent_len /\ s_buffer_recv' = s_buffer_recv
      /\ s_buffer_sent' = s_buffer_sent /\ s_run_count' = s_run_count
      /\ s_listening' = s_listening /\ s_result' = s_result /\ c_buffer' = got
  BY <1>2 DEF serverVars
<1>9. Parts \in Nat /\ Len(got) < Parts /\ Len(got) # Parts
  BY <1>4, PartsAssumption
<1>10. StateOK' /\ Verdicts'
  BY <1>1, <1>4, <1>8, <1>9 DEF StateOK, Verdicts
<1>11. ServerFlow(An, Dn, Gn)' /\ ServerMarks(b, e)'
  <2>1. 1 \in Nat /\ 1 <= 1 /\ (c_pcb' => c_pcb /\ 1 = 1)
    OBVIOUS
  <2>2. ServerFlow(b[Len(wire["server"])], e[Len(wire["server"])], k[Len(wire["client"])])'
        /\ ServerMarks(b, e)'
    BY <1>5, <2>1, ClientLeavesServer
  <2> QED
    BY <1>6, <2>2
<1>12. ClientFlow(Fn, Dn, Gn)'
  <2>1. Gn + Len(got) = Parts
    BY <1>4, <1>7, <1>9
  <2>2. c_sent_len + Fn + owed'["server"] + Dn = 0
    BY <1>4, <1>7
  <2>3. Filled(c_buffer)'
    BY <1>4, <1>8 DEF Filled
  <2> QED
    BY <1>7, <1>8, <1>9, <2>1, <2>2, <2>3 DEF ClientFlow
<1>13. InStep(Fn, Dn)'
  <2>1. s_client => c_run_count = s_run_count
    BY <1>4, ServerCounts DEF Flows, InStep
  <2> QED
    BY <1>7, <1>8, <1>9, <2>1 DEF InStep
<1>14. ClientMarks(h, k)'
  <2>1. Numbered(wire'["client"], k, s_buffer_sent)
    BY <1>1, <1>5, ClientPasses DEF ClientMarks
  <2> QED
    BY <1>8, <1>9, <2>1 DEF ClientMarks
<1>15. LinkOK' /\ Counted(b, e, h, k)' /\ ~ Asks(wire'["server"]) /\ AsksOnce(wire'["server"])
  BY <1>4, <1>5, ClientPasses
<1>16. Once' /\ Fresh(An, Dn, Fn, Gn)'
  BY <1>15 DEF Once, Fresh
<1>17. IInvWith(b, e, h, k)'
  BY <1>6, <1>10, <1>11, <1>12, <1>13, <1>14, <1>15, <1>16 DEF IInvWith, Flows
<1> QED
  BY <1>17 DEF IInv

\* The part that fills the client's buffer: it is sent back.
LEMMA ClientReturnsBuffer ==
  ASSUME NEW a, NEW d, NEW f, NEW g, IInvWith(a, d, f, g), UNCHANGED serverVars,
         c_pcb, Arrived("client", "DATA"), UNCHANGED <<c_pcb, c_complete, c_result>>,
         UNCHANGED <<c_run_count, c_sent_len>>,
         c_buffer' = Append(c_buffer, Head(wire["client"])),
         Len(c_buffer) + 1 = Parts, Exchange("client", 1, c_buffer')
  PROVE  IInv'
<1>1. /\ LinkOK /\ wire["server"] \in Seq(Msg) /\ wire["client"] \in Seq(Msg)
      /\ StateOK /\ Verdicts /\ Once /\ ClientMarks(f, g)
      /\ Counts(wire["server"], a, d) /\ Counts(wire["client"], f, g)
      /\ "client" \in Ends /\ Peer("client") = "server" /\ "server" \in Ends
  BY ServerCounts
<1>2. PICK got : got = Append(c_buffer, Head(wire["client"]))
  OBVIOUS
<1>3. PICK A, D, F, G, oc, t : /\ A = a[Len(wire["server"])] /\ D = d[Len(wire["server"])]
                               /\ F = f[Len(wire["client"])] /\ G = g[Len(wire["client"])]
                               /\ oc = owed["client"] /\ t = s_sent_len
  OBVIOUS
<1>4. /\ f[1] = 0 /\ g[1] = 1 /\ Len(c_buffer) < Parts /\ Len(c_buffer) \in Nat
      /\ c_sent_len = 0 /\ F = 0 /\ owed["server"] = 0 /\ D = 0
      /\ got \in Seq(Msg) /\ Len(got) = Len(c_buffer) + 1 /\ Len(got) \in Nat
      /\ G + Len(c_buffer) = Parts /\ G \in Nat \ {0}
      /\ Filled(got) /\ ~ Asks(wire["server"]) /\ wire["client"] # <<>>
  BY <1>2, <1>3, BufferArrives
<1>5. PICK c \in Nat : c = s_buffer_sent
  BY <1>1 DEF StateOK
<1>6. Parts \in Nat \ {0} /\ Len(got) = Parts /\ G = 1
  BY <1>4, PartsAssumption
<1>7. Exchange("client", 1, <<>> \o Buffer(c))
  <2>1. \A i \in 1..Len(got) : got[i] = Entry("DATA", c, i)
    BY <1>4, <1>5 DEF Filled
  <2>2. got = Buffer(c)
    BY <1>4, <1>6, <2>1, FullBuffer
  <2>3. <<>> \o Buffer(c) = Buffer(c)
    BY BufferParts, Join3
  <2> QED
    BY <1>2, <2>2, <2>3
<1>8. PICK h, k, b, e, n : Loads("client", f, g, h, k, a, d, b, e, 0, 1, n, 1, c)
  <2>1. \E h, k, b, e, n : Loads("client", f, g, h, k, a, d, b, e, f[1], g[1], n, 1, c)
    <3>1. d[Len(wire[Peer("client")])] = 0 /\ Counts(wire[Peer("client")], a, d) /\ 1 \in Nat
      BY <1>1, <1>3, <1>4
    <3> QED
      BY <1>1, <1>4, <1>7, <3>1, PlainOuts, ExchangeLoads
  <2> QED
    BY <1>4, <2>1
<1>9. /\ LinkOK' /\ Moved(wire["client"], f, g, wire'["client"], h, k, 0, 1, 0)
      /\ Loaded(wire["server"], a, d, wire'["server"], b, e, n, c)
      /\ owed'["client"] + n = owed["client"] + 1 /\ owed'["client"] = 0
      /\ owed'["server"] = owed["server"]
  BY <1>1, <1>8 DEF Loads
<1>10. PICK An, Dn, Fn, Gn : /\ An = b[Len(wire'["server"])] /\ Dn = e[Len(wire'["server"])]
                             /\ Fn = h[Len(wire'["client"])] /\ Gn = k[Len(wire'["client"])]
  OBVIOUS
<1>11. /\ wire'["server"] \in Seq(Msg) /\ wire'["client"] \in Seq(Msg)
       /\ Counts(wire'["server"], b, e) /\ Counts(wire'["client"], h, k)
  BY <1>1, <1>9 DEF LinkOK, Moved, Loaded
<1>12. /\ A \in Nat /\ oc \in Nat /\ t \in Nat /\ n \in Nat /\ Fn \in Nat /\ Gn \in Nat /\ An \in Nat
       /\ 0 + n = oc + 1 /\ An = A + n /\ Dn = Parts /\ Fn + 0 = F + 0 /\ Gn + 1 = G
  <2>1. A \in Nat /\ oc \in Nat /\ t \in Nat
    BY <1>1, <1>3, Totals DEF LinkOK, StateOK
  <2>2. Fn \in Nat /\ Gn \in Nat /\ An \in Nat
    BY <1>10, <1>11, Totals
  <2>3. n \in Nat /\ An = A + n /\ Dn = Parts
    BY <1>3, <1>9, <1>10 DEF Loaded
  <2>4. Fn + 0 = F + 0 /\ Gn + 1 = G
    BY <1>3, <1>9, <1>10 DEF Moved
  <2>5. 0 + n = oc + 1
    BY <1>3, <1>9
  <2> QED
    BY <2>1, <2>2, <2>3, <2>4, <2>5
<1>13. n = oc + 1 /\ Fn = 0 /\ Gn = 0
  <2>1. F = 0 /\ G = 1
    BY <1>4, <1>6
  <2> QED
    BY ONLY <1>12, <2>1
<1>14. /\ s_client' = s_client /\ s_sent_len' = s_sent_len /\ s_buffer_recv' = s_buffer_recv
       /\ s_buffer_sent' = s_buffer_sent /\ s_run_count' = s_run_count
       /\ s_listening' = s_listening /\ s_result' = s_result /\ c_buffer' = got
  BY <1>2 DEF serverVars
<1>15. StateOK' /\ Verdicts'
  <2>1. Len(got) <= Parts
    BY <1>6
  <2> QED
    BY <1>1, <1>4, <1>14, <2>1 DEF StateOK, Verdicts
<1>16. s_client => t + A + oc + 1 = Parts
  <2>1. s_client => t + A + oc + G = Parts
    <3>1. ServerFlow(A, D, G)
      BY <1>3, ServerCounts DEF Flows
    <3>2. G > 0
      BY <1>6
    <3> QED
      BY <1>3, <3>1, <3>2 DEF ServerFlow
  <2> QED
    BY <1>6, <2>1
<1>17. /\ s_client => t + An = Parts /\ t < Parts
       /\ s_client => t + (A + n) >= Parts
  <2>1. ASSUME s_client
        PROVE  t + An = Parts /\ t < Parts /\ t + (A + n) >= Parts
    <3>1. t + A + oc + 1 = Parts
      BY <1>16, <2>1
    <3>2. A \in Nat /\ oc \in Nat /\ t \in Nat /\ Parts \in Nat /\ n = oc + 1 /\ An = A + n
      BY <1>6, <1>12, <1>13
    <3>3. An = (A + oc) + 1 /\ A + n = (A + oc) + 1
      BY ONLY <3>2
    <3> QED
      BY ONLY <3>1, <3>2, <3>3
  <2> QED
    BY <2>1
<1>18. ServerFlow(An, Dn, Gn)'
  <2>1. s_client => t + An + 0 + Gn <= Parts /\ ~ (t >= Parts)
    <3>1. ASSUME s_client
          PROVE  t + An + 0 + Gn <= Parts /\ ~ (t >= Parts)
      <4>1. t + An = Parts /\ t < Parts
        BY <1>17, <3>1
      <4> QED
        BY <1>6, <1>12, <1>13, <4>1
    <3> QED
      BY <3>1
  <2>2. Parts + 0 = Parts
    BY <1>6
  <2> QED
    BY <1>3, <1>9, <1>12, <1>13, <1>14, <2>1, <2>2 DEF ServerFlow
<1>19. ServerMarks(b, e)'
  <2>1. Numbered(wire'["server"], e, c)
    BY <1>9 DEF Loaded
  <2>2. s_client => AckedAt(wire'["server"], b, t)
    <3>1. \A x \in Nat : x + (a[Len(wire["server"])] + n) >= Parts => AckedAt(wire'["server"], b, x)
      BY <1>9 DEF Loaded
    <3> QED
      BY <1>3, <1>12, <1>17, <3>1
  <2> QED
    BY <1>3, <1>5, <1>14, <2>1, <2>2 DEF ServerMarks
<1>20. ClientFlow(Fn, Dn, Gn)'
  <2>1. c_sent_len' + Fn + owed'["server"] + Dn = Parts
    <3>1. c_sent_len' = 0 /\ owed'["server"] = 0
      BY <1>4, <1>9
    <3>2. 0 + 0 + 0 + Parts = Parts
      BY <1>6
    <3> QED
      BY <1>12, <1>13, <3>1, <3>2
  <2>2. Parts <= Parts /\ ~ (Parts < Parts) /\ Parts > 0
    BY <1>6
  <2> QED
    BY <1>6, <1>13, <1>14, <2>1, <2>2 DEF ClientFlow
<1>21. InStep(Fn, Dn)'
  <2>1. s_client => c_run_count = s_run_count
    BY <1>4, ServerCounts DEF Flows, InStep
  <2>2. c_sent_len' = 0 /\ owed'["server"] = 0 /\ ~ (0 + 0 + 0 >= Parts) /\ ~ (Parts < Parts)
    BY <1>4, <1>6, <1>9
  <2> QED
    BY <1>6, <1>13, <1>14, <2>1, <2>2 DEF InStep
<1>22. ClientMarks(h, k)'
  <2>1. k[Len(wire'["client"])] = 0
    BY <1>10, <1>13
  <2>2. AckedAt(wire'["client"], h, c_sent_len') /\ Numbered(wire'["client"], k, s_buffer_sent')
    BY <1>11, <2>1, NothingMarked
  <2> QED
    BY <2>2 DEF ClientMarks
<1>23. ~ Asks(wire'["server"]) /\ AsksOnce(wire'["server"])
  BY <1>1, <1>4, <1>9 DEF Loaded, Once
<1>24. Once' /\ Fresh(An, Dn, Fn, Gn)'
  BY <1>23 DEF Once, Fresh
<1>25. IInvWith(b, e, h, k)'
  BY <1>9, <1>10, <1>11, <1>15, <1>18, <1>19, <1>20, <1>21, <1>22, <1>24
     DEF IInvWith, Flows, Counted
<1> QED
  BY <1>25 DEF IInv

\* Data, a part of the buffer or its last.
LEMMA ClientReceives ==
  ASSUME NEW a, NEW d, NEW f, NEW g, IInvWith(a, d, f, g), UNCHANGED serverVars,
         tcp_client_recv
  PROVE  IInv'
<1> DEFINE got == Append(c_buffer, Head(wire["client"]))
           data == SubSeq(got, 1, IF Len(got) < Parts THEN Len(got) ELSE Parts)
<1>1. StateOK /\ Verdicts /\ Parts \in Nat
  BY ServerCounts, PartsAssumption
<1>2. c_pcb /\ Arrived("client", "DATA") /\ Head(wire["client"]).type = "DATA"
      /\ UNCHANGED <<c_sent_len, c_run_count>>
  BY DEF tcp_client_recv, Arrived
<1>3. /\ Len(c_buffer) < Parts /\ Len(c_buffer) \in Nat
      /\ got \in Seq(Msg) /\ Len(got) = Len(c_buffer) + 1 /\ Len(got) \in Nat
      /\ ~ Asks(wire["server"]) /\ wire["client"] # <<>>
  BY <1>2, BufferArrives
<1>4. Len(got) <= Parts
  <2> HIDE DEF got
  <2> QED
    BY <1>1, <1>3
<1>5. data = got
  <2> DEFINE dat == data
  <2>1. dat = SubSeq(got, 1, IF Len(got) < Parts THEN Len(got) ELSE Parts)
    OBVIOUS
  <2> HIDE DEF got, data
  <2>2. dat = got
    BY <1>3, <1>4, <2>1, WhatFits
  <2> QED
    BY <2>2
<1>6. /\ c_buffer' = data
      /\ \/ /\ Exchange("client", 1, IF Len(data) = Parts THEN data ELSE <<>>)
            /\ UNCHANGED <<c_pcb, c_complete, c_result>>
         \/ ClientEnds(1, "failed")
  BY DEF tcp_client_recv
<1> HIDE DEF data
<1>7. c_buffer' = got
  BY <1>5, <1>6
<1>8. CASE /\ Exchange("client", 1, IF Len(data) = Parts THEN data ELSE <<>>)
           /\ UNCHANGED <<c_pcb, c_complete, c_result>>
  <2>1. CASE Len(got) = Parts
    <3>1. Exchange("client", 1, c_buffer') /\ Len(c_buffer) + 1 = Parts
      BY <1>3, <1>5, <1>6, <1>8, <2>1
    <3> QED
      BY <1>2, <1>7, <1>8, <3>1, ClientReturnsBuffer
  <2>2. CASE Len(got) # Parts
    <3>1. Exchange("client", 1, <<>>)
      BY <1>5, <1>8, <2>2
    <3>2. Len(c_buffer) + 1 < Parts
      <4> HIDE DEF got
      <4> QED
        BY <1>1, <1>3, <1>4, <2>2
    <3> QED
      BY <1>2, <1>7, <1>8, <3>1, <3>2, ClientReceivesPart
  <2> QED
    BY <2>1, <2>2
<1>9. CASE ClientEnds(1, "failed")
  <2>1. PICK out \in Closings : Exchange("client", 1, out)
    BY <1>9 DEF ClientEnds
  <2>2. c_buffer' \in Seq(Msg) /\ Len(c_buffer') <= Parts /\ c_sent_len' \in Nat /\ c_run_count' \in Nat
    BY <1>1, <1>2, <1>3, <1>4, <1>7 DEF StateOK
  <2>3. StateOK' /\ Verdicts' /\ ~ c_pcb' /\ c_complete'
    BY <1>9, <2>2, ClientEnded DEF ClientEnds
  <2>4. 1 \in Nat
    OBVIOUS
  <2> QED
    BY <1>2, <1>3, <2>1, <2>3, <2>4, PlainOuts, ClientOut
<1> QED
  BY <1>6, <1>8, <1>9

\* Every step of the client keeps the invariant.
LEMMA ClientKeeps ==
  ASSUME IInv, ClientNext, UNCHANGED serverVars
  PROVE  IInv'
<1>1. PICK a, d, f, g : IInvWith(a, d, f, g)
  BY DEF IInv
<1>2. CASE run_tcp_client_test
  <2>1. IInvWith(a, d, f, g)'
    BY <1>1, <1>2 DEF run_tcp_client_test, linkVars, serverVars, IInvWith, LinkOK, StateOK, Verdicts,
       Once, Counted, Flows, ServerFlow, ClientFlow, InStep, Fresh, ServerMarks, ClientMarks, Filled
  <2> QED
    BY <2>1 DEF IInv
<1> QED
  BY <1>1, <1>2, ClientStepsOut, ClientIdles, ClientOpens, ClientSent, ClientReceives
     DEF ClientNext, ClientCallback

-----------------------------------------------------------------------------
(* The invariant is inductive. *)

\* An end with nothing on its way to it but a reset, or nothing at all.
LEMMA EmptyCounts ==
  ASSUME NEW q \in {<<>>, <<Entry("RST", 0, 0)>>}
  PROVE  \E a, d : q \in Seq(Msg) /\ Quiet(q, a, d, 0) /\ ~ Asks(q)
                   /\ AsksOnce(q) /\ (\A t : AckedAt(q, a, t)) /\ (\A c : Numbered(q, d, c))
<1>1. q \in PlainSeq
  BY PlainOuts
<1>2. q \in Seq(Msg) /\ \A i \in 1..Len(q) : q[i].type \in Plain
  BY <1>1 DEF PlainSeq
<1>3. \A i \in 1..Len(q) : q[i].type # "DATA" /\ q[i].type # "SYN"
  BY <1>2 DEF Plain
<1>4. AckPart(0) \o q = q
  BY <1>2, Join3 DEF AckPart
<1>5. PICK a, d : Quiet(q, a, d, 0)
  <2>1. \E a, d : Quiet(AckPart(0) \o q, a, d, 0)
    BY <1>1, QuietCounts
  <2> QED
    BY <1>4, <2>1
<1> QED
  BY <1>2, <1>3, <1>5 DEF Asks, AsksOnce, AckedAt, Numbered

\* Nothing has happened and nothing is on its way.
LEMMA InitHolds ==
  ASSUME Init
  PROVE  IInv
<1>1. PICK a, d : <<>> \in Seq(Msg) /\ Quiet(<<>>, a, d, 0) /\ ~ Asks(<<>>)
                  /\ AsksOnce(<<>>) /\ (\A t : AckedAt(<<>>, a, t)) /\ (\A c : Numbered(<<>>, d, c))
  BY EmptyCounts
<1>2. wire["server"] = <<>> /\ wire["client"] = <<>> /\ owed["server"] = 0 /\ owed["client"] = 0
      /\ LinkOK
  BY <1>1 DEF Init, LinkInit, LinkOK, Ends
<1>3. Len(<<>>) = 0 /\ Parts \in Nat \ {0} /\ Iterations \in Nat \ {0}
  BY PartsAssumption, RoundsAssumption
<1>4. StateOK /\ Verdicts
  BY <1>1, <1>3 DEF Init, ServerInit, ClientInit, StateOK, Verdicts
<1>5. Counted(a, d, a, d) /\ a[0] = 0 /\ d[0] = 0
  BY <1>1, <1>2, <1>3 DEF Counted, Quiet
<1>6. ServerFlow(0, 0, 0) /\ ClientFlow(0, 0, 0) /\ InStep(0, 0) /\ Fresh(0, 0, 0, 0)
  BY <1>2, <1>3 DEF Init, ServerInit, ClientInit, ServerFlow, ClientFlow, InStep, Fresh
<1>7. Once /\ ServerMarks(a, d) /\ ClientMarks(a, d)
  BY <1>1, <1>2 DEF Once, ServerMarks, ClientMarks
<1>8. IInvWith(a, d, a, d)
  BY <1>2, <1>3, <1>4, <1>5, <1>6, <1>7 DEF IInvWith, Flows
<1> QED
  BY <1>8 DEF IInv

\* The connection is lost: only resets are on their way.
LEMMA ResetKeeps ==
  ASSUME IInv, Reset, UNCHANGED <<serverVars, clientVars>>
  PROVE  IInv'
<1>1. PICK a, d, f, g : IInvWith(a, d, f, g)
  BY DEF IInv
<1>2. LinkOK /\ StateOK /\ Verdicts /\ Once
      /\ wire["server"] \in Seq(Msg) /\ wire["client"] \in Seq(Msg)
      /\ Counts(wire["server"], a, d) /\ Counts(wire["client"], f, g)
  BY <1>1, ServerCounts
<1>3. PICK q : q = <<Entry("RST", 0, 0)>>
  OBVIOUS
<1>4. PICK z, w : q \in Seq(Msg) /\ Quiet(q, z, w, 0) /\ ~ Asks(q)
                  /\ AsksOnce(q) /\ (\A t : AckedAt(q, z, t)) /\ (\A c : Numbered(q, w, c))
  BY <1>3, EmptyCounts
<1>5. wire' = [x \in Ends |-> q] /\ owed' = [x \in Ends |-> 0]
  BY <1>3 DEF Reset
<1>6. wire'["server"] = q /\ wire'["client"] = q /\ owed'["server"] = 0 /\ owed'["client"] = 0
      /\ LinkOK'
  BY <1>4, <1>5 DEF LinkOK, Ends
<1>7. /\ s_client' = s_client /\ s_sent_len' = s_sent_len /\ s_buffer_recv' = s_buffer_recv
      /\ s_buffer_sent' = s_buffer_sent /\ s_run_count' = s_run_count
      /\ s_listening' = s_listening /\ s_result' = s_result
      /\ c_pcb' = c_pcb /\ c_buffer' = c_buffer /\ c_sent_len' = c_sent_len
      /\ c_run_count' = c_run_count /\ c_complete' = c_complete /\ c_result' = c_result
  BY DEF serverVars, clientVars
<1>8. StateOK' /\ Verdicts'
  BY <1>2, <1>7 DEF StateOK, Verdicts
<1>9. PICK A, D, F, G, o, oc : /\ A = a[Len(wire["server"])] /\ D = d[Len(wire["server"])]
                               /\ F = f[Len(wire["client"])] /\ G = g[Len(wire["client"])]
                               /\ o = owed["server"] /\ oc = owed["client"]
  OBVIOUS
<1>10. A \in Nat /\ D \in Nat /\ F \in Nat /\ G \in Nat /\ o \in Nat /\ oc \in Nat
       /\ s_sent_len \in Nat /\ c_sent_len \in Nat /\ Parts \in Nat \ {0}
  BY <1>2, <1>9, Totals, PartsAssumption DEF LinkOK, StateOK, Ends
<1>11. ServerFlow(A, D, G) /\ ClientFlow(F, D, G) /\ InStep(F, D) /\ Fresh(A, D, F, G)
  BY <1>1, <1>9, ServerCounts DEF Flows
<1>12. ServerFlow(0, 0, 0)'
  <2>1. s_client => s_sent_len + A + oc + G <= Parts
    BY <1>9, <1>11 DEF ServerFlow
  <2>2. s_client => s_sent_len + 0 + 0 + 0 <= Parts
    BY <1>10, <2>1
  <2> QED
    BY <1>6, <1>7, <2>2 DEF ServerFlow
<1>13. ClientFlow(0, 0, 0)'
  <2>1. c_pcb => c_sent_len < Parts /\ (Len(c_buffer) < Parts => c_sent_len + F + o + D = 0)
    BY <1>2, <1>9, <1>11 DEF ClientFlow, Verdicts
  <2>2. c_pcb => /\ c_sent_len + 0 + 0 + 0 <= Parts
                 /\ Len(c_buffer) < Parts => c_sent_len + 0 + 0 + 0 = 0
    BY <1>10, <2>1
  <2> QED
    BY <1>6, <1>7, <2>2 DEF ClientFlow
<1>14. InStep(0, 0)'
  <2>1. c_pcb => ~ (c_sent_len + 0 + 0 >= Parts)
    BY <1>2, <1>10 DEF Verdicts
  <2> QED
    BY <1>6, <1>7, <1>11, <2>1 DEF InStep
<1>15. Fresh(0, 0, 0, 0)'
  BY <1>4, <1>6, <1>7, <1>11 DEF Fresh
<1>16. Once' /\ ServerMarks(z, w)' /\ ClientMarks(z, w)'
  BY <1>4, <1>6, <1>7 DEF Once, ServerMarks, ClientMarks
<1>17. Counted(z, w, z, w)' /\ z[Len(wire'["server"])] = 0 /\ w[Len(wire'["server"])] = 0
       /\ z[Len(wire'["client"])] = 0 /\ w[Len(wire'["client"])] = 0
  BY <1>4, <1>6 DEF Counted, Quiet
<1>18. IInvWith(z, w, z, w)'
  BY <1>6, <1>8, <1>12, <1>13, <1>14, <1>15, <1>16, <1>17 DEF IInvWith, Flows
<1> QED
  BY <1>18 DEF IInv

\* No step, no change.
LEMMA StutterKeeps ==
  ASSUME IInv, UNCHANGED vars
  PROVE  IInv'
<1>1. PICK a, d, f, g : IInvWith(a, d, f, g)
  BY DEF IInv
<1>2. IInvWith(a, d, f, g)'
  BY <1>1 DEF vars, linkVars, serverVars, clientVars, IInvWith, LinkOK, StateOK, Verdicts,
     Once, Counted, Flows, ServerFlow, ClientFlow, InStep, Fresh, ServerMarks, ClientMarks, Filled
<1> QED
  BY <1>2 DEF IInv

\* The invariant holds in every execution, whatever the constants.
LEMMA IInvAlways == Spec => []IInv
<1>1. Init => IInv
  BY InitHolds
<1>2. IInv /\ [Next]_vars => IInv'
  BY ServerKeeps, ClientKeeps, ResetKeeps, StutterKeeps DEF Next
<1> QED
  BY <1>1, <1>2, PTL DEF Spec

-----------------------------------------------------------------------------
(* What it gives. *)

\* No data is cut off at either end, whatever the number of segments and of rounds.
THEOREM NothingTruncatedAlways == Spec => []NothingTruncated
<1>1. IInv => NothingTruncated
  <2> SUFFICES ASSUME IInv
               PROVE  NothingTruncated
    OBVIOUS
  <2>1. PICK a, d, f, g : IInvWith(a, d, f, g)
    BY DEF IInv
  <2>2. ASSUME s_client, Arrived("server", "DATA")
        PROVE  Len(s_buffer_recv) < Parts
    <3>1. PICK got : got = Append(s_buffer_recv, Head(wire["server"]))
      OBVIOUS
    <3>2. PICK D : D = d[Len(wire["server"])]
      OBVIOUS
    <3>3. D + Len(s_buffer_recv) = Parts /\ D \in Nat \ {0}
      BY <2>1, <2>2, <3>1, <3>2, EchoArrives
    <3>4. Len(s_buffer_recv) \in Nat
      BY <2>1, ServerCounts DEF StateOK
    <3> QED
      BY <3>3, <3>4, PartsAssumption
  <2>3. ASSUME c_pcb, Arrived("client", "DATA")
        PROVE  Len(c_buffer) < Parts
    BY <2>1, <2>3, BufferArrives
  <2> QED
    BY <2>2, <2>3 DEF NothingTruncated
<1> QED
  BY <1>1, IInvAlways, PTL

-----------------------------------------------------------------------------
(* The rounds of EchoTest. *)

\* A step of the server verifies a round, fails or changes nothing of the rounds.
LEMMA ServerRounds ==
  ASSUME IInv, ServerNext, UNCHANGED clientVars
  PROVE  [Rounds!Next]_Rounds!vars
<1>1. PICK a, d, f, g : IInvWith(a, d, f, g)
  BY DEF IInv
<1>2. StateOK /\ Verdicts /\ Iterations \in Nat \ {0}
  BY <1>1, ServerCounts, RoundsAssumption
<1>3. c_run_count' = c_run_count /\ c_result' = c_result
  BY DEF clientVars
<1>4. s_client \/ s_listening => s_result = "none" /\ s_run_count < Iterations
  BY <1>2 DEF Verdicts
<1>5. ASSUME s_client \/ s_listening, tcp_server_result("failed"), s_run_count' = s_run_count
      PROVE  Rounds!Next
  BY <1>3, <1>4, <1>5 DEF tcp_server_result, Rounds!Next, Rounds!ServerFails
<1>6. ASSUME s_run_count' = s_run_count, s_result' = s_result
      PROVE  UNCHANGED Rounds!vars
  BY <1>3, <1>6 DEF Rounds!vars
<1>7. CASE tcp_server_accept
  BY <1>5, <1>6, <1>7 DEF tcp_server_accept
<1>8. CASE tcp_server_sent
  BY <1>6, <1>8 DEF tcp_server_sent
<1>9. CASE tcp_server_recv
  <2>1. s_client /\ Arrived("server", "DATA")
    BY <1>9 DEF tcp_server_recv
  <2>2. c_run_count = s_run_count
    <3>1. PICK got, D : got = Append(s_buffer_recv, Head(wire["server"])) /\ D = d[Len(wire["server"])]
      OBVIOUS
    <3>2. D \in Nat \ {0}
      BY <1>1, <2>1, <3>1, EchoArrives
    <3>3. D > 0 /\ InStep(f[Len(wire["client"])], D)
      BY <1>1, <3>1, <3>2, ServerCounts DEF Flows
    <3> QED
      BY <2>1, <3>3 DEF InStep
  <2>3. \/ s_run_count' = s_run_count /\ s_result' = s_result
        \/ s_run_count' = s_run_count /\ tcp_server_result("failed")
        \/ s_run_count' = s_run_count + 1 /\ s_run_count' >= Iterations /\ tcp_server_result("ok")
        \/ s_run_count' = s_run_count + 1 /\ s_run_count' < Iterations /\ s_result' = s_result
        \/ s_run_count' = s_run_count + 1 /\ s_run_count' < Iterations /\ tcp_server_result("failed")
    BY <1>9 DEF tcp_server_recv, ServerEnds, NothingEnds, tcp_server_send_data
  <2>4. s_run_count \in Nat /\ s_run_count < Iterations /\ s_result = "none"
    BY <1>2, <1>4, <2>1 DEF StateOK
  <2>5. CASE s_run_count' = s_run_count + 1 /\ s_run_count' >= Iterations /\ tcp_server_result("ok")
    <3>1. s_run_count' = Iterations /\ s_result' = "ok"
      BY <1>2, <2>4, <2>5 DEF tcp_server_result
    <3> QED
      BY <1>3, <2>2, <2>4, <2>5, <3>1 DEF Rounds!Next, Rounds!Verify
  <2>6. CASE s_run_count' = s_run_count + 1 /\ s_run_count' < Iterations
             /\ (s_result' = s_result \/ tcp_server_result("failed"))
    <3>1. s_run_count' # Iterations /\ s_result' \in {"none", "failed"}
      BY <1>2, <2>4, <2>6 DEF tcp_server_result
    <3> QED
      BY <1>3, <2>2, <2>4, <2>6, <3>1 DEF Rounds!Next, Rounds!Verify
  <2> QED
    BY <1>5, <1>6, <2>1, <2>3, <2>5, <2>6
<1>10. CASE tcp_server_recv_closed
  BY <1>5, <1>10 DEF tcp_server_recv_closed, ServerEnds
<1>11. CASE tcp_server_err
  BY <1>5, <1>11 DEF tcp_server_err
<1>12. CASE tcp_server_poll
  BY <1>5, <1>12 DEF tcp_server_poll
<1>13. CASE ServerClosedArrival \/ (DelayedAck("server") /\ UNCHANGED serverVars)
  BY <1>6, <1>13 DEF ServerClosedArrival, serverVars
<1>14. CASE run_tcp_server_test
  BY <1>6, <1>14 DEF run_tcp_server_test
<1> QED
  BY <1>7, <1>8, <1>9, <1>10, <1>11, <1>12, <1>13, <1>14 DEF ServerNext, ServerCallback

\* A step of the client counts a round, fails or changes nothing of the rounds.
LEMMA ClientRounds ==
  ASSUME IInv, ClientNext, UNCHANGED serverVars
  PROVE  [Rounds!Next]_Rounds!vars
<1>1. PICK a, d, f, g : IInvWith(a, d, f, g)
  BY DEF IInv
<1>2. StateOK /\ Verdicts /\ Iterations \in Nat \ {0}
  BY <1>1, ServerCounts, RoundsAssumption
<1>3. s_run_count' = s_run_count /\ s_result' = s_result
  BY DEF serverVars
<1>4. /\ c_pcb => c_result = "none" /\ c_run_count < Iterations
      /\ ~ c_complete => c_result = "none"
  BY <1>2 DEF Verdicts
<1>5. ASSUME c_result = "none", tcp_result("failed"), c_run_count' = c_run_count
      PROVE  Rounds!Next
  BY <1>3, <1>5 DEF tcp_result, Rounds!Next, Rounds!ClientFails
<1>6. ASSUME c_run_count' = c_run_count, c_result' = c_result
      PROVE  UNCHANGED Rounds!vars
  BY <1>3, <1>6 DEF Rounds!vars
<1>7. CASE tcp_client_open
  BY <1>4, <1>5, <1>6, <1>7 DEF tcp_client_open
<1>8. CASE tcp_client_connected
  BY <1>6, <1>8 DEF tcp_client_connected
<1>9. CASE tcp_client_sent
  <2>1. c_pcb /\ Arrived("client", "ACK")
    BY <1>9 DEF tcp_client_sent
  <2>2. PICK u, o, D, F, v :
          /\ u = c_sent_len /\ o = owed["server"] /\ v = Head(wire["client"]).n
          /\ D = d[Len(wire["server"])] /\ F = f[Len(wire["client"])]
    BY ONLY TRUE
  <2>3. /\ v \in Nat /\ v <= F /\ u \in Nat /\ o \in Nat /\ F \in Nat /\ Len(c_buffer) = Parts
    BY <1>1, <2>1, <2>2, AckArrives
  <2>4. \/ c_run_count' = c_run_count /\ c_result' = c_result
        \/ /\ u + v >= Parts /\ c_run_count + 1 >= Iterations
           /\ c_run_count' = c_run_count + 1 /\ tcp_result("ok")
        \/ /\ u + v >= Parts /\ c_run_count + 1 < Iterations
           /\ c_run_count' = c_run_count + 1 /\ c_result' = c_result
    BY <1>9, <2>2 DEF tcp_client_sent, ClientEnds
  <2>5. u + v >= Parts => s_run_count = c_run_count + 1
    <3>1. u + v >= Parts => u + F + o >= Parts
      BY <2>3, PartsAssumption
    <3>2. InStep(F, D)
      BY <1>1, <2>2, ServerCounts DEF Flows
    <3> QED
      BY <2>1, <2>2, <2>3, <3>1, <3>2 DEF InStep
  <2>6. c_run_count \in Nat /\ c_run_count < Iterations /\ c_result = "none"
    BY <1>2, <1>4, <2>1 DEF StateOK
  <2>7. CASE /\ u + v >= Parts /\ c_run_count + 1 >= Iterations
             /\ c_run_count' = c_run_count + 1 /\ tcp_result("ok")
    <3>1. c_run_count' = Iterations /\ c_result' = "ok" /\ c_run_count < s_run_count
      BY <1>2, <2>5, <2>6, <2>7 DEF tcp_result
    <3> QED
      BY <1>3, <2>6, <2>7, <3>1 DEF Rounds!Next, Rounds!Count
  <2>8. CASE /\ u + v >= Parts /\ c_run_count + 1 < Iterations
             /\ c_run_count' = c_run_count + 1 /\ c_result' = c_result
    <3>1. c_run_count' # Iterations /\ c_result' = "none" /\ c_run_count < s_run_count
      BY <1>2, <2>5, <2>6, <2>8
    <3> QED
      BY <1>3, <2>6, <2>8, <3>1 DEF Rounds!Next, Rounds!Count
  <2> QED
    BY <1>6, <2>4, <2>7, <2>8
<1>10. CASE tcp_client_recv
  BY <1>4, <1>5, <1>6, <1>10 DEF tcp_client_recv, ClientEnds
<1>11. CASE tcp_client_recv_closed
  BY <1>4, <1>5, <1>11 DEF tcp_client_recv_closed, ClientEnds
<1>12. CASE tcp_client_err
  BY <1>4, <1>5, <1>12 DEF tcp_client_err
<1>13. CASE tcp_client_poll
  BY <1>4, <1>5, <1>13 DEF tcp_client_poll
<1>14. CASE ClientClosedArrival \/ (DelayedAck("client") /\ UNCHANGED clientVars)
  BY <1>6, <1>14 DEF ClientClosedArrival, clientVars
<1>15. CASE run_tcp_client_test
  BY <1>6, <1>15 DEF run_tcp_client_test
<1> QED
  BY <1>7, <1>8, <1>9, <1>10, <1>11, <1>12, <1>13, <1>14, <1>15 DEF ClientNext, ClientCallback

\* The examples implement the rounds: whatever fails, and however the segments and the
\* acknowledgements are timed, the client counts exactly the rounds the server compared.
THEOREM ImplementsRoundsAlways == Spec => ImplementsRounds
<1>1. Init => Rounds!Init
  BY DEF Init, ServerInit, ClientInit, Rounds!Init
<1>2. IInv /\ [Next]_vars => [Rounds!Next]_Rounds!vars
  <2>1. ASSUME UNCHANGED vars
        PROVE  UNCHANGED Rounds!vars
    BY <2>1 DEF vars, serverVars, clientVars, Rounds!vars
  <2>2. ASSUME Reset, UNCHANGED <<serverVars, clientVars>>
        PROVE  UNCHANGED Rounds!vars
    BY <2>2 DEF serverVars, clientVars, Rounds!vars
  <2> QED
    BY <2>1, <2>2, ServerRounds, ClientRounds DEF Next
<1> QED
  BY <1>1, <1>2, IInvAlways, PTL DEF Spec, ImplementsRounds, Rounds!Spec

\* What the rounds keep: the counts go in step, and "ok" is the verdict of the last.
RoundsInStep ==
  /\ s_run_count \in Nat /\ c_run_count \in Nat
  /\ c_run_count <= s_run_count /\ s_run_count <= c_run_count + 1 /\ s_run_count <= Iterations
  /\ s_result = "ok" <=> s_run_count = Iterations
  /\ c_result = "ok" => c_run_count = Iterations

\* "test success" at the client is never said while the server says "test failed" or is
\* still waiting.
SuccessAgrees == c_result = "ok" => s_result = "ok"

\* The client, which counts acknowledgements, reports success only together with the
\* server, which compares.
THEOREM VerdictsAgree == Spec => []SuccessAgrees
<1>1. Rounds!Init => RoundsInStep
  BY RoundsAssumption DEF Rounds!Init, RoundsInStep
<1>2. RoundsInStep /\ [Rounds!Next]_Rounds!vars => RoundsInStep'
  <2> SUFFICES ASSUME RoundsInStep, [Rounds!Next]_Rounds!vars
               PROVE  RoundsInStep'
    OBVIOUS
  <2> USE RoundsAssumption DEF RoundsInStep
  <2>1. CASE Rounds!Verify
    BY <2>1 DEF Rounds!Verify
  <2>2. CASE Rounds!Count
    BY <2>2 DEF Rounds!Count
  <2>3. CASE Rounds!ServerFails
    BY <2>3 DEF Rounds!ServerFails
  <2>4. CASE Rounds!ClientFails
    BY <2>4 DEF Rounds!ClientFails
  <2>5. CASE UNCHANGED Rounds!vars
    BY <2>5 DEF Rounds!vars
  <2> QED
    BY <2>1, <2>2, <2>3, <2>4, <2>5 DEF Rounds!Next
<1>3. RoundsInStep => SuccessAgrees
  BY DEF RoundsInStep, SuccessAgrees
<1> QED
  BY <1>1, <1>2, <1>3, ImplementsRoundsAlways, PTL DEF ImplementsRounds, Rounds!Spec

=============================================================================
