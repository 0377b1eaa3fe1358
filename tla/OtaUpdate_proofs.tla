-------------------------- MODULE OtaUpdate_proofs --------------------------
(***************************************************************************)
(* For images of any size and layout and any number of scripts: whatever   *)
(* fails, the device never loses its last bootable partition; and when     *)
(* scripts come one at a time, the flash obeys and the image enters every  *)
(* sector at its first cell, a success and a hash both mean what the       *)
(* script takes them to mean.                                              *)
(***************************************************************************)
EXTENDS OtaUpdate, TLAPS

\* The device runs an image that is not the bought one only from a flash-update boot
\* to the end of the Wi-Fi join, and it receives blocks only while it serves: so the
\* partition written to is never the one bought.
HomeInv ==
  /\ running \in Partitions /\ home \in Partitions
  /\ DOMAIN flash = Partitions
  /\ Bootable(home) /\ Bootable(running)
  /\ running # home => mode \in {"updateBoot", "halted"}
  /\ busy # NoHost => mode = "serving"

-----------------------------------------------------------------------------

LEMMA OtherDiffers ==
  ASSUME NEW p \in Partitions
  PROVE  Other(p) \in Partitions /\ Other(p) # p
BY DEF Partitions, Other

\* Whether a partition boots depends on its own cells only.
LEMMA BootableKept ==
  ASSUME NEW p, flash'[p] = flash[p], Bootable(p)
  PROVE  Bootable(p)'
BY DEF Bootable, HoldsImage

\* A block goes to the partition the device does not run from.
LEMMA WriteElsewhere ==
  ASSUME HomeInv, NEW b, NEW erased, NEW programmed, WriteBlock(b, erased, programmed)
  PROVE  DOMAIN flash' = Partitions /\ flash'[running] = flash[running]
<1> DEFINE new == flash'[Other(running)]
<1>1. flash' = [flash EXCEPT ![Other(running)] = new]
  BY OtherDiffers DEF WriteBlock, HomeInv
<1> HIDE DEF new
<1> QED
  BY <1>1, OtherDiffers DEF HomeInv

LEMMA HomeInit == Init => HomeInv
<1> SUFFICES ASSUME Init PROVE HomeInv
  OBVIOUS
<1>1. ASSUME NEW n \in BlockNos
      PROVE  flash["A"][AddrOf[n]] = Block(Factory, n)
  <2> DEFINE m == CHOOSE k \in BlockNos : AddrOf[k] = AddrOf[n]
  <2>1. m \in BlockNos /\ AddrOf[m] = AddrOf[n]
    OBVIOUS
  <2>2. AddrOf[n] \in 0..(Cells - 1)
    BY ImageAssumption
  <2>3. flash["A"][AddrOf[n]] = Block(Factory, m)
    BY <2>2 DEF Init, Partitions
  <2> HIDE DEF m
  <2>4. AddrOf[m] \in Int /\ AddrOf[n] \in Int /\ m \in Int /\ n \in Int
    BY <2>1, ImageAssumption, SizesAssumption DEF BlockNos
  <2>5. ~ m < n /\ ~ n < m
    BY <2>1, <2>4, ImageAssumption
  <2>6. m = n
    BY <2>4, <2>5
  <2> QED
    BY <2>3, <2>6
<1>2. Bootable("A")
  BY <1>1 DEF Bootable, HoldsImage, Images
<1> QED
  BY <1>2 DEF Init, HomeInv, Partitions

-----------------------------------------------------------------------------
(* The steps. *)

\* A block is programmed.
LEMMA HomeBlock == HomeInv /\ BlockNext => HomeInv'
<1> SUFFICES ASSUME HomeInv, BlockNext PROVE HomeInv'
  OBVIOUS
<1>1. mode = "serving" /\ running = home
  BY DEF HomeInv, BlockNext, AcceptBlock, RejectBlock
<1>2. UNCHANGED bootVars
  BY DEF BlockNext, AcceptBlock, RejectBlock
<1>3. DOMAIN flash' = Partitions /\ flash'[running] = flash[running]
  <2>1. CASE AcceptBlock
    <3>1. PICK erased, programmed \in (IF "flash" \in world.faults THEN BOOLEAN ELSE {TRUE}) :
            WriteBlock(buffer_recv[at], erased, programmed)
      BY <2>1 DEF AcceptBlock
    <3> QED
      BY <3>1, WriteElsewhere
  <2>2. CASE RejectBlock
    BY <2>2 DEF RejectBlock, HomeInv
  <2> QED
    BY <2>1, <2>2 DEF BlockNext
<1>4. Bootable(running)'
  BY <1>2, <1>3, BootableKept DEF HomeInv, bootVars
<1> QED
  BY <1>1, <1>2, <1>3, <1>4 DEF HomeInv, bootVars

\* main, the bootrom, and what ends an image that is only tried.
LEMMA HomeMain ==
  HomeInv /\ (MainNext \/ main_join_fails \/ TryBeforeYouBuyExpires \/ PowerCycle) => HomeInv'
<1> SUFFICES ASSUME HomeInv,
                    MainNext \/ main_join_fails \/ TryBeforeYouBuyExpires \/ PowerCycle
             PROVE  HomeInv'
  OBVIOUS
<1>1. UNCHANGED flash
  BY DEF MainNext, main_join, tcp_update_server_open, main_reboot, Bootrom,
         main_join_fails, TryBeforeYouBuyExpires, PowerCycle
<1>2. \A p \in Partitions : Bootable(p) => Bootable(p)'
  BY <1>1, BootableKept
<1>3. CASE main_join
  <2>1. busy = NoHost /\ UNCHANGED busy
    BY <1>3 DEF main_join, HomeInv, serverVars
  <2>2. running' = home'
    BY <1>3 DEF main_join, HomeInv
  <2> QED
    BY <1>1, <1>2, <1>3, <2>1, <2>2 DEF main_join, HomeInv
<1>4. CASE tcp_update_server_open
  BY <1>1, <1>2, <1>4 DEF tcp_update_server_open, HomeInv
<1>5. CASE main_reboot
  BY <1>1, <1>2, <1>5 DEF main_reboot, HomeInv
<1>6. CASE Bootrom
  BY <1>1, <1>2, <1>6, OtherDiffers DEF Bootrom, ServerReset, HomeInv
<1>7. CASE main_join_fails
  BY <1>1, <1>2, <1>7 DEF main_join_fails, HomeInv, serverVars
<1>8. CASE TryBeforeYouBuyExpires
  BY <1>1, <1>2, <1>8 DEF TryBeforeYouBuyExpires, ServerReset, HomeInv
<1>9. CASE PowerCycle
  BY <1>1, <1>2, <1>9 DEF PowerCycle, ServerReset, HomeInv
<1> QED
  BY <1>3, <1>4, <1>5, <1>6, <1>7, <1>8, <1>9 DEF MainNext

\* Callbacks and scripts touch neither the flash nor the boot, and a callback that
\* starts on a chunk does so while the device serves.
LEMMA HomeRest ==
  ASSUME HomeInv, NEW h \in Hosts, ServerNext(h) \/ FaultNext(h) \/ HostNext(h) \/ Start(h)
  PROVE  HomeInv'
<1>1. UNCHANGED <<flash, running, home, mode>>
  BY DEF ServerNext, FaultNext, HostNext, Start, tcp_update_server_accept,
         tcp_update_server_sent, RecvClosed, RecvData, Unattended, tcp_update_server_poll,
         tcp_update_server_err, Refused, SendChunk, ReadHash, ReadEnd, Close, bootVars
<1>2. UNCHANGED busy \/ mode = "serving"
  BY DEF ServerNext, FaultNext, HostNext, Start, tcp_update_server_accept,
         tcp_update_server_sent, RecvClosed, RecvData, Unattended, tcp_update_server_poll,
         tcp_update_server_err, Refused, SendChunk, ReadHash, ReadEnd, Close, Callback,
         serverVars
<1>3. \A p \in Partitions : Bootable(p) => Bootable(p)'
  BY <1>1, BootableKept
<1> QED
  BY <1>1, <1>2, <1>3 DEF HomeInv

LEMMA HomeNext == HomeInv /\ [Next]_vars => HomeInv'
<1> SUFFICES ASSUME HomeInv, [Next]_vars PROVE HomeInv'
  OBVIOUS
<1>1. CASE UNCHANGED vars
  <2>1. UNCHANGED <<flash, running, home, mode, busy>>
    BY <1>1 DEF vars, bootVars, serverVars
  <2>2. \A p \in Partitions : Bootable(p) => Bootable(p)'
    BY <2>1, BootableKept
  <2> QED
    BY <2>1, <2>2 DEF HomeInv
<1>2. CASE Next
  BY <1>2, HomeBlock, HomeMain, HomeRest DEF Next, Step
<1> QED
  BY <1>1, <1>2

\* Whatever fails, flash operations included, and whenever the power does, a plain
\* boot of the device finds a whole image.
THEOREM HomeStaysBootable == Spec => []HomeBootable
<1>1. HomeInv => HomeBootable
  BY DEF HomeInv, HomeBootable
<1> QED
  BY <1>1, HomeInit, HomeNext, PTL DEF Spec

-----------------------------------------------------------------------------
(* One script at a time, and no flash operation fails. What is programmed, and what    *)
(* has been acknowledged, follows from what is on the way.                            *)

BlocksOf(h) == {Block(h, n) : n \in BlockNos} \cup {Pad}
Wire(h) == [type : {"ACK", "FIN"}]
             \cup [type : {"DATA"}, blocks : Seq(BlocksOf(h)) \ {<<>>}]

\* A server that has received nothing.
Fresh ==
  /\ buffer_recv = <<>> /\ num_blocks = 0 /\ blocks_done = 0 /\ highest_erased_sector = 0

\* The server has one connection, from accept to the result.
Session ==
  /\ client_pcb \in Hosts \cup {NoHost}
  /\ attached = {client_pcb} \ {NoHost}
  /\ busy \in {NoHost, client_pcb}
  /\ outcome # "none" => client_pcb = NoHost /\ ~listening
  /\ complete => outcome # "none"
  /\ client_pcb = NoHost /\ outcome = "none" => Fresh
  /\ mode \in {"boot", "updateBoot", "open"}
       => outcome = "none" /\ client_pcb = NoHost /\ ~listening

\* What a script is about to do, and that there is one at a time.
Scripts ==
  /\ DOMAIN script = Hosts /\ DOMAIN chunk = Hosts /\ DOMAIN up = Hosts /\ DOMAIN down = Hosts
  /\ \A h \in Hosts :
       /\ chunk[h] \in Nat /\ up[h] \in Seq(Wire(h))
       /\ script[h] = "connecting"
            => h \notin attached /\ up[h] = <<>> /\ down[h] = <<>> /\ chunk[h] = 0
       /\ script[h] = "sending" => chunk[h] < Chunks
       /\ script[h] = "reading" => chunk[h] + 1 < Chunks
  /\ \A g, h \in Hosts : Busy(g) /\ Busy(h) => g = h

IsData(h, i) == up[h][i].type = "DATA"

\* Only the second segment of a chunk may begin with padding.
Stream ==
  client_pcb # NoHost =>
    \A i \in DOMAIN up[client_pcb] :
      IsData(client_pcb, i) /\ up[client_pcb][i].blocks[1] = Pad
        => (i = 1 => buffer_recv # <<>>) /\ (i # 1 => IsData(client_pcb, i - 1))

\* The buffer holds blocks of the one image, its first no padding, and the loop only
\* runs on a full buffer.
Buffer ==
  client_pcb # NoHost =>
    /\ buffer_recv \in Seq(BlocksOf(client_pcb))
    /\ busy # NoHost => Len(buffer_recv) = ChunkBlocks
    /\ buffer_recv # <<>> => buffer_recv[1] # Pad

\* Buffers are full chunks: the loop is as far in its buffer as the blocks done are in
\* their chunk, and outside it every chunk begun is done.
Place == (blocks_done % ChunkBlocks) + 1
Loop == client_pcb # NoHost => IF busy = NoHost THEN Place = 1 ELSE at = Place

\* The first `done` blocks of an image are in partition p of flash f, and what is left of
\* the last sector reached is erased.
Programmed(p, img, f, done, highest) ==
  /\ highest = IF done = 0 THEN 0 ELSE Sector(done - 1)
  /\ \A n \in BlockNos : n < done => f[p][AddrOf[n]] = Block(img, n)
  /\ \A c \in 0..(Cells - 1) :
       (c \div SectorCells) + 1 = highest
         /\ (\A n \in BlockNos : n < done => AddrOf[n] # c)
       => f[p][c] = Erased

Written ==
  client_pcb # NoHost =>
    /\ blocks_done \in Nat /\ blocks_done < ImageBlocks /\ num_blocks \in {0, ImageBlocks}
    /\ Programmed(Other(running), client_pcb, flash, blocks_done, highest_erased_sector)

\* There is a whole chunk done for each chunk the script counts and for each hash that
\* is on its way to it.
Acked ==
  \A h \in attached :
    /\ down[h] \in Seq([type : {"HASH"}, blocks : Seq(BlocksOf(h))])
    /\ (chunk[h] + Len(down[h])) * ChunkBlocks <= blocks_done

OrderInv == Session /\ Scripts /\ Stream /\ Buffer /\ Loop /\ Written /\ Acked /\ SuccessIsWhole

-----------------------------------------------------------------------------
(* Arithmetic. *)

\* Lower addresses lie in lower sectors.
LEMMA DivMonotone ==
  ASSUME NEW s \in Nat \ {0}, NEW a \in Nat, NEW b \in Nat, a <= b
  PROVE  a \div s \in Nat /\ b \div s \in Nat /\ a \div s <= b \div s
<1>1. s * (a \div s) <= a /\ a < s * (a \div s) + s /\ a \div s \in Nat
  BY SMT
<1>2. s * (b \div s) <= b /\ b < s * (b \div s) + s /\ b \div s \in Nat
  BY SMT
<1>3. ASSUME NEW p \in Nat, NEW q \in Nat, p < q PROVE s * p + s <= s * q
  BY <1>3
<1>4. ~ (b \div s < a \div s)
  BY <1>1, <1>2, <1>3
<1> QED
  BY <1>1, <1>2, <1>4

\* Every chunk begins with a block of the image.
LEMMA ChunkBegins ==
  ASSUME NEW i \in Nat, i < Chunks
  PROVE  i * ChunkBlocks \in BlockNos
<1> DEFINE m == ImageBlocks + ChunkBlocks - 1
<1>1. ImageBlocks \in Nat /\ ChunkBlocks \in Nat \ {0} /\ ImageBlocks # 0 /\ m \in Nat
  BY SizesAssumption
<1>2. ChunkBlocks * (m \div ChunkBlocks) <= m /\ m \div ChunkBlocks \in Nat
  BY <1>1, SMT
<1>3. i + 1 <= m \div ChunkBlocks
  BY <1>2 DEF Chunks
<1>4. ASSUME NEW p \in Nat, NEW q \in Nat, p <= q PROVE ChunkBlocks * p <= ChunkBlocks * q
  BY <1>1, <1>4
<1>5. ChunkBlocks * (i + 1) <= m
  BY <1>1, <1>2, <1>3, <1>4
<1>6. ChunkBlocks * (i + 1) = i * ChunkBlocks + ChunkBlocks /\ i * ChunkBlocks \in Nat
  BY <1>1
<1> QED
  BY <1>1, <1>5, <1>6 DEF BlockNos

\* Quotient and remainder are unique.
LEMMA Division ==
  ASSUME NEW c \in Nat \ {0}, NEW p \in Nat, NEW q \in Nat, NEW a \in 0..(c - 1),
         NEW b \in 0..(c - 1), c * p + a = c * q + b
  PROVE  a = b
<1>1. ASSUME NEW k \in Nat, NEW l \in Nat, k < l PROVE c * k + c <= c * l
  BY <1>1
<1>2. c * p \in Nat /\ c * q \in Nat
  OBVIOUS
<1>3. ~ p < q /\ ~ q < p
  BY <1>1, <1>2
<1>4. p = q
  BY <1>3
<1> QED
  BY <1>2, <1>4

\* One block further: the next place, or the first of the next buffer.
LEMMA Remainder ==
  ASSUME NEW d \in Nat, NEW c \in Nat \ {0}
  PROVE  /\ d % c \in 0..(c - 1) /\ 0 % c = 0
         /\ (d % c) + 1 < c => (d + 1) % c = (d % c) + 1
         /\ (d % c) + 1 = c => (d + 1) % c = 0
<1>1. d % c \in 0..(c - 1) /\ (d + 1) % c \in 0..(c - 1) /\ 0 % c = 0
  OBVIOUS
<1>2. PICK q \in Nat : d = c * q + (d % c)
  <2>1. d \div c \in Nat /\ d = c * (d \div c) + (d % c)
    BY SMT
  <2> QED
    BY <2>1
<1>3. PICK p \in Nat : d + 1 = c * p + ((d + 1) % c)
  <2>1. (d + 1) \div c \in Nat /\ d + 1 = c * ((d + 1) \div c) + ((d + 1) % c)
    BY SMT
  <2> QED
    BY <2>1
<1> DEFINE r == d % c
           s == (d + 1) % c
<1>4. r \in 0..(c - 1) /\ s \in 0..(c - 1) /\ d = c * q + r /\ d + 1 = c * p + s
  BY <1>1, <1>2, <1>3
<1> HIDE DEF r, s
<1>5. ASSUME r + 1 < c PROVE s = r + 1
  <2>1. c * q + (r + 1) = c * p + s /\ r + 1 \in 0..(c - 1)
    <3>1. c * q \in Nat /\ c * p \in Nat
      OBVIOUS
    <3> QED
      BY <1>4, <1>5, <3>1
  <2> QED
    BY <1>4, <2>1, Division
<1>6. ASSUME r + 1 = c PROVE s = 0
  <2>1. c * (q + 1) + 0 = c * p + s /\ 0 \in 0..(c - 1) /\ q + 1 \in Nat
    <3>1. c * q \in Nat /\ c * p \in Nat /\ c * (q + 1) = c * q + c
      OBVIOUS
    <3> QED
      BY <1>4, <1>6, <3>1
  <2> QED
    BY <1>4, <2>1, Division
<1> QED
  BY <1>1, <1>5, <1>6 DEF r, s

\* The loop is at a block of the buffer, at first at the first, and moves on.
LEMMA PlaceRange ==
  ASSUME blocks_done \in Nat
  PROVE  /\ Place \in 1..ChunkBlocks /\ (blocks_done = 0 => Place = 1)
         /\ blocks_done' = blocks_done + 1 /\ Place < ChunkBlocks => Place' = Place + 1
         /\ blocks_done' = blocks_done + 1 /\ Place = ChunkBlocks => Place' = 1
<1>1. ChunkBlocks \in Nat \ {0}
  BY SizesAssumption
<1>2. PICK m : m = blocks_done % ChunkBlocks
  OBVIOUS
<1>3. PICK n : n = (blocks_done + 1) % ChunkBlocks
  OBVIOUS
<1>4. /\ m \in 0..(ChunkBlocks - 1) /\ 0 % ChunkBlocks = 0
      /\ m + 1 < ChunkBlocks => n = m + 1
      /\ m + 1 = ChunkBlocks => n = 0
  BY <1>1, <1>2, <1>3, Remainder
<1>5. blocks_done' = blocks_done + 1 => Place' = n + 1
  BY <1>3 DEF Place
<1>6. Place = m + 1
  BY <1>2 DEF Place
<1>7. blocks_done = 0 => m = 0
  BY <1>2, <1>4
<1> QED
  BY <1>1, <1>4, <1>5, <1>6, <1>7

\* At the end of a chunk one more chunk is done.
LEMMA ChunkEnds ==
  ASSUME blocks_done \in Nat, NEW k \in Nat, k * ChunkBlocks <= blocks_done, Place = ChunkBlocks
  PROVE  (k + 1) * ChunkBlocks <= blocks_done + 1
<1> DEFINE q == blocks_done \div ChunkBlocks
<1>1. ChunkBlocks \in Nat \ {0}
  BY SizesAssumption
<1>2. q \in Nat /\ blocks_done = ChunkBlocks * q + (blocks_done % ChunkBlocks)
  BY <1>1, SMT
<1>3. blocks_done + 1 = ChunkBlocks * q + ChunkBlocks
  BY <1>1, <1>2 DEF Place
<1> HIDE DEF q
<1>4. ASSUME NEW a \in Nat, NEW b \in Nat, a < b
      PROVE  ChunkBlocks * a + ChunkBlocks <= ChunkBlocks * b
  BY <1>1, <1>4
<1>5. ChunkBlocks * k <= blocks_done /\ (k + 1) * ChunkBlocks = ChunkBlocks * k + ChunkBlocks
      /\ ChunkBlocks * k \in Nat /\ ChunkBlocks * q \in Nat
  BY <1>1, <1>2
<1>6. ~ (q < k)
  BY <1>1, <1>2, <1>3, <1>4, <1>5
<1>7. k = q \/ k < q
  BY <1>2, <1>6
<1> QED
  BY <1>1, <1>2, <1>3, <1>4, <1>5, <1>7

-----------------------------------------------------------------------------
(* What the parts of the steps do. *)

\* An update that ends leaves no connection and no claim about one.
LEMMA Gone ==
  ASSUME client_pcb' = NoHost, attached' = {}
  PROVE  Stream' /\ Buffer' /\ Loop' /\ Written' /\ Acked'
BY DEF Stream, Buffer, Loop, Written, Acked

LEMMA Closed ==
  ASSUME Session, Scripts, NEW status, status # "none", tcp_update_server_result(status)
  PROVE  /\ client_pcb' = NoHost /\ attached' = {} /\ ~listening'
         /\ outcome' # "none" /\ (outcome = "none" => outcome' = status)
         /\ DOMAIN down' = Hosts
         /\ \A h \in Hosts : h \notin attached => down'[h] = down[h]
<1>1. client_pcb' = NoHost /\ attached' = {} /\ outcome' # "none"
      /\ (outcome = "none" => outcome' = status)
  BY DEF tcp_update_server_result, Session
<1>2. ~listening'
  BY DEF tcp_update_server_result
<1>3. CASE client_pcb = NoHost
  BY <1>1, <1>2, <1>3 DEF tcp_update_server_result, Scripts
<1>4. CASE client_pcb # NoHost
  <2>1. client_pcb \in Hosts /\ client_pcb \in attached
    BY <1>4 DEF Session
  <2>2. PICK m : down' = [down EXCEPT ![client_pcb] = Append(@, m)]
    BY <1>4 DEF tcp_update_server_result
  <2> QED
    BY <1>1, <1>2, <2>1, <2>2 DEF Scripts
<1> QED
  BY <1>3, <1>4

\* A reset server has done nothing.
LEMMA ResetFresh ==
  ASSUME ServerReset, listening' = FALSE
  PROVE  Session' /\ SuccessIsWhole'
BY DEF ServerReset, Session, Fresh, SuccessIsWhole

\* A message is added behind those that wait.
LEMMA AppendKeeps ==
  ASSUME NEW S, NEW q \in Seq(S), NEW m \in S
  PROVE  /\ Append(q, m) \in Seq(S) /\ Append(q, m) # <<>>
         /\ \A i \in DOMAIN Append(q, m) :
              \/ i \in DOMAIN q /\ Append(q, m)[i] = q[i]
              \/ i = Len(q) + 1 /\ Append(q, m)[i] = m
         /\ \A i \in DOMAIN q : i \in DOMAIN Append(q, m) /\ Append(q, m)[i] = q[i]
OBVIOUS

-----------------------------------------------------------------------------
(* One connection at a time. *)

\* Who connects finds no other connection.
LEMMA AcceptAlone ==
  ASSUME Session, Scripts, NEW h \in Hosts, tcp_update_server_accept(h)
  PROVE  client_pcb = NoHost /\ h \notin attached /\ outcome = "none" /\ Fresh
<1>1. script[h] = "connecting" /\ h \notin attached /\ Busy(h)
  BY DEF tcp_update_server_accept, Scripts, Busy, Live
<1>2. client_pcb = NoHost
  <2> SUFFICES ASSUME client_pcb # NoHost PROVE FALSE
    OBVIOUS
  <2>1. client_pcb \in Hosts /\ client_pcb \in attached
    BY DEF Session
  <2>2. Busy(client_pcb)
    BY <2>1 DEF Busy
  <2>3. client_pcb = h
    BY <1>1, <2>1, <2>2 DEF Scripts
  <2> QED
    BY <1>1, <2>1, <2>3
<1>3. listening
  BY DEF tcp_update_server_accept
<1>4. outcome = "none"
  BY <1>3 DEF Session
<1> QED
  BY <1>1, <1>2, <1>4 DEF Session

\* A connection that ended, and whatever the server did before, leaves no session.
LEMMA SessionEnds ==
  ASSUME HomeInv, Session, Scripts, mode = "serving", mode' = mode,
         NEW status, status # "none", tcp_update_server_result(status), busy' = NoHost
  PROVE  Session'
<1>1. client_pcb' = NoHost /\ attached' = {} /\ ~listening' /\ outcome' # "none"
  BY Closed
<1> QED
  BY <1>1 DEF Session

\* A callback of a connection is that of the one connection.
LEMMA CallbackOfClient ==
  ASSUME Session, NEW h \in Hosts, Callback(h)
  PROVE  client_pcb = h /\ client_pcb # NoHost /\ outcome = "none" /\ ~complete
         /\ busy = NoHost /\ mode = "serving"
BY HostsAssumption DEF Callback, Session

\* While it is in the block loop there is a connection, and no result yet.
LEMMA BusyOfClient ==
  ASSUME HomeInv, Session, busy # NoHost
  PROVE  client_pcb = busy /\ client_pcb \in Hosts /\ client_pcb # NoHost /\ outcome = "none"
         /\ ~complete /\ mode = "serving" /\ client_pcb \in attached
BY DEF Session, HomeInv

LEMMA SessionBlock ==
  ASSUME HomeInv, Session, Scripts, BlockNext
  PROVE  Session'
<1>1. busy # NoHost /\ mode' = mode /\ client_pcb = busy /\ client_pcb # NoHost
      /\ outcome = "none" /\ ~complete /\ mode = "serving"
  BY BusyOfClient DEF BlockNext, AcceptBlock, RejectBlock, bootVars
<1>2. CASE tcp_update_server_result("failed") /\ busy' = NoHost
  BY <1>1, <1>2, SessionEnds
<1>3. CASE tcp_update_server_result("ok") /\ busy' = NoHost
  BY <1>1, <1>3, SessionEnds
<1>4. CASE UNCHANGED <<complete, client_pcb, listening, attached, outcome>>
            /\ busy' \in {busy, NoHost}
  BY <1>1, <1>4 DEF Session
<1>5. CASE RejectBlock
  BY <1>2, <1>5 DEF RejectBlock
<1>6. CASE AcceptBlock
  BY <1>2, <1>3, <1>4, <1>6 DEF AcceptBlock, tcp_update_server_send_data
<1> QED
  BY <1>5, <1>6 DEF BlockNext

LEMMA SessionKept ==
  ASSUME Session, UNCHANGED <<complete, client_pcb, listening, buffer_recv, num_blocks,
                              blocks_done, highest_erased_sector, attached, busy, outcome,
                              mode>>
  PROVE  Session'
BY DEF Session, Fresh

LEMMA SessionMain ==
  ASSUME HomeInv, Session, Scripts,
         MainNext \/ main_join_fails \/ TryBeforeYouBuyExpires \/ PowerCycle
  PROVE  Session'
<1>1. CASE main_join
  BY <1>1 DEF main_join, serverVars, Session, Fresh
<1>2. CASE main_join_fails
  BY <1>2 DEF main_join_fails, serverVars, Session, Fresh
<1>3. CASE tcp_update_server_open
  <2>1. mode = "open" /\ outcome = "none"
    BY <1>3 DEF tcp_update_server_open, Session
  <2>2. CASE mode' = "serving" /\ UNCHANGED <<complete, outcome>>
    <3>1. UNCHANGED <<client_pcb, attached, busy, outcome, complete>> /\ (Fresh => Fresh')
      BY <1>3, <2>2 DEF tcp_update_server_open, Fresh
    <3>2. outcome' = "none" /\ ~complete'
      BY <2>1, <3>1 DEF Session
    <3> QED
      BY <2>2, <3>1, <3>2 DEF Session
  <2>3. CASE mode' = "halted" /\ outcome' = "failed" /\ UNCHANGED listening
    <3>1. client_pcb = NoHost /\ ~listening
      BY <1>3, <2>3 DEF tcp_update_server_open, Session
    <3>2. UNCHANGED <<client_pcb, attached, busy>> /\ outcome' = "failed" /\ ~listening'
          /\ mode' = "halted"
      BY <1>3, <2>3, <3>1 DEF tcp_update_server_open
    <3> QED
      BY <3>1, <3>2 DEF Session
  <2> QED
    BY <1>3, <2>2, <2>3 DEF tcp_update_server_open
<1>4. CASE main_reboot
  <2>1. complete /\ client_pcb = NoHost /\ outcome # "none" /\ ~listening
    BY <1>4 DEF main_reboot, Session
  <2> QED
    BY <1>4, <2>1 DEF main_reboot, Session
<1>5. CASE Bootrom
  BY <1>5, ResetFresh DEF Bootrom
<1>6. CASE TryBeforeYouBuyExpires
  BY <1>6, ResetFresh DEF TryBeforeYouBuyExpires
<1>7. CASE PowerCycle
  BY <1>7, ResetFresh DEF PowerCycle
<1> QED
  BY <1>1, <1>2, <1>3, <1>4, <1>5, <1>6, <1>7 DEF MainNext

LEMMA SessionRest ==
  ASSUME HomeInv, Session, Scripts, NEW h \in Hosts,
         ServerNext(h) \/ FaultNext(h) \/ HostNext(h) \/ Start(h)
  PROVE  Session'
<1>1. CASE tcp_update_server_accept(h)
  BY <1>1, AcceptAlone, HostsAssumption DEF tcp_update_server_accept, Session, bootVars
<1>2. CASE tcp_update_server_sent(h)
  BY <1>2, CallbackOfClient DEF tcp_update_server_sent, Session, bootVars
<1>3. CASE RecvClosed(h)
  BY <1>3, CallbackOfClient, SessionEnds DEF RecvClosed, bootVars
<1>4. CASE RecvData(h)
  BY <1>4, CallbackOfClient DEF RecvData, Session, bootVars
<1>5. CASE tcp_update_server_poll(h)
  BY <1>5, CallbackOfClient, SessionEnds DEF tcp_update_server_poll, bootVars
<1>6. CASE tcp_update_server_err(h)
  BY <1>6, CallbackOfClient DEF tcp_update_server_err, Session, bootVars
<1>7. CASE Unattended(h) \/ HostNext(h) \/ Start(h)
  <2>1. UNCHANGED <<serverVars, bootVars>>
    BY <1>7 DEF Unattended, HostNext, Start, Refused, SendChunk, ReadHash, ReadEnd, Close
  <2> QED
    BY <2>1, SessionKept DEF serverVars, bootVars
<1> QED
  BY <1>1, <1>2, <1>3, <1>4, <1>5, <1>6, <1>7 DEF ServerNext, FaultNext

-----------------------------------------------------------------------------
(* One script at a time. *)

LEMMA ChunkSeq ==
  ASSUME NEW h \in Hosts, NEW i \in Nat
  PROVE  /\ ChunkOf(h, i) \in Seq(BlocksOf(h)) /\ Len(ChunkOf(h, i)) = ChunkBlocks
         /\ i < Chunks => ChunkOf(h, i)[1] # Pad
<1> DEFINE c == ChunkOf(h, i)
<1>1. ChunkBlocks \in Nat \ {0}
  BY SizesAssumption
<1>2. ASSUME NEW k \in 1..ChunkBlocks
      PROVE  c[k] \in BlocksOf(h)
  BY <1>2 DEF ChunkOf, BlocksOf
<1>3. c \in [1..ChunkBlocks -> BlocksOf(h)]
  BY <1>2 DEF ChunkOf
<1>4. c \in Seq(BlocksOf(h)) /\ Len(c) = ChunkBlocks
  <2> HIDE DEF c
  <2> QED
    BY <1>1, <1>3
<1>5. ASSUME i < Chunks
      PROVE  c[1] # Pad
  <2>1. i * ChunkBlocks \in BlockNos /\ i * ChunkBlocks + 1 - 1 = i * ChunkBlocks
    BY <1>1, <1>5, ChunkBegins
  <2>2. c[1] = Block(h, i * ChunkBlocks)
    BY <1>1, <2>1 DEF ChunkOf
  <2>3. Block(h, i * ChunkBlocks).img # Pad.img
    BY HostsAssumption DEF Block, Pad
  <2> QED
    BY <2>2, <2>3
<1> QED
  BY <1>4, <1>5

\* A chunk goes out in one segment or in two, and the first begins with a block.
LEMMA Segments ==
  ASSUME Scripts, NEW h \in Hosts, SendChunk(h)
  PROVE  \E s \in Wire(h) :
           /\ s.type = "DATA" /\ s.blocks[1] # Pad
           /\ \/ up' = [up EXCEPT ![h] = Append(@, s)]
              \/ \E t \in Wire(h) :
                   t.type = "DATA" /\ up' = [up EXCEPT ![h] = Append(Append(@, s), t)]
<1> DEFINE c == ChunkOf(h, chunk[h])
           seg(b) == [type |-> "DATA", blocks |-> b]
<1>1. chunk[h] \in Nat /\ chunk[h] < Chunks /\ up[h] \in Seq(Wire(h))
  BY DEF Scripts, SendChunk
<1>2. c \in Seq(BlocksOf(h)) /\ Len(c) = ChunkBlocks /\ c[1] # Pad
  BY <1>1, ChunkSeq
<1>3. ChunkBlocks \in Nat \ {0}
  BY SizesAssumption
<1>4. PICK cut \in 0..(ChunkBlocks - 1) :
        up' = [up EXCEPT ![h] = @ \o
          (IF cut = 0 THEN <<seg(c)>>
           ELSE <<seg(SubSeq(c, 1, cut)), seg(SubSeq(c, cut + 1, ChunkBlocks))>>)]
  BY DEF SendChunk
<1> HIDE DEF c
<1>5. CASE cut = 0
  <2>1. c # <<>>
    BY <1>2, <1>3
  <2>2. seg(c) \in Wire(h)
    BY <1>2, <2>1 DEF Wire
  <2>3. up[h] \o <<seg(c)>> = Append(up[h], seg(c))
    BY <1>1, <2>2
  <2>4. up' = [up EXCEPT ![h] = Append(@, seg(c))]
    BY <1>4, <1>5, <2>3
  <2> QED
    BY <1>2, <2>2, <2>4
<1>6. CASE cut # 0
  <2> DEFINE a == SubSeq(c, 1, cut)
             b == SubSeq(c, cut + 1, ChunkBlocks)
  <2>1. cut \in 1..(ChunkBlocks - 1)
    BY <1>3, <1>6
  <2>2. a \in Seq(BlocksOf(h)) /\ Len(a) = cut /\ a[1] = c[1]
    BY <1>2, <1>3, <2>1
  <2>3. b \in Seq(BlocksOf(h)) /\ Len(b) = ChunkBlocks - cut
    BY <1>2, <1>3, <2>1
  <2>4. up' = [up EXCEPT ![h] = @ \o <<seg(a), seg(b)>>]
    BY <1>4, <1>6
  <2> HIDE DEF a, b
  <2>5. a # <<>> /\ b # <<>>
    <3>1. Len(a) # 0 /\ Len(b) # 0
      BY <1>3, <2>1, <2>2, <2>3
    <3> QED
      BY <3>1
  <2>6. seg(a) \in Wire(h) /\ seg(b) \in Wire(h)
    BY <2>2, <2>3, <2>5 DEF Wire
  <2>7. up[h] \o <<seg(a), seg(b)>> = Append(Append(up[h], seg(a)), seg(b))
    BY <1>1, <2>6
  <2>8. up' = [up EXCEPT ![h] = Append(Append(@, seg(a)), seg(b))]
    BY <2>4, <2>7
  <2> QED
    BY <1>2, <2>2, <2>6, <2>8
<1> QED
  BY <1>5, <1>6

\* The device takes messages, and speaks to its connection only.
LEMMA ScriptsServer ==
  ASSUME Scripts, UNCHANGED <<script, chunk>>, attached' \subseteq attached,
         DOMAIN up' = Hosts, DOMAIN down' = Hosts,
         \A h \in Hosts : up'[h] = up[h] \/ (up[h] # <<>> /\ up'[h] = Tail(up[h])),
         \A h \in Hosts : h \notin attached => down'[h] = down[h]
  PROVE  Scripts'
<1>1. ASSUME NEW h \in Hosts
      PROVE  /\ up'[h] \in Seq(Wire(h))
             /\ up'[h] # <<>> => up[h] # <<>>
  <2>1. up[h] \in Seq(Wire(h))
    BY DEF Scripts
  <2>2. up[h] # <<>> => Tail(up[h]) \in Seq(Wire(h))
    BY <2>1
  <2> QED
    BY <2>1, <2>2
<1>2. ASSUME NEW h \in Hosts
      PROVE  Busy(h)' => Busy(h)
  BY <1>1, <1>2 DEF Busy
<1>3. ASSUME NEW h \in Hosts, script[h] = "connecting"
      PROVE  h \notin attached' /\ up'[h] = <<>> /\ down'[h] = <<>> /\ chunk[h] = 0
  BY <1>1, <1>3 DEF Scripts
<1>4. \A g, h \in Hosts : Busy(g)' /\ Busy(h)' => g = h
  BY <1>2 DEF Scripts
<1> HIDE DEF Busy, Wire
<1> QED
  BY <1>1, <1>3, <1>4 DEF Scripts, Wire

LEMMA ScriptsBroken ==
  ASSUME Scripts, NEW hs, Broken(hs), UNCHANGED chunk, attached' \subseteq attached
  PROVE  Scripts'
<1>1. DOMAIN script' = Hosts /\ DOMAIN up' = Hosts /\ DOMAIN down' = Hosts /\ DOMAIN chunk' = Hosts
  BY DEF Broken, Scripts
<1>2. ASSUME NEW h \in Hosts
      PROVE  /\ up'[h] \in Seq(Wire(h)) /\ up'[h] \in {<<>>, up[h]}
             /\ down'[h] \in {<<>>, down[h]}
             /\ script'[h] \in {"error", script[h]}
  BY <1>2 DEF Broken, Scripts
<1>3. ASSUME NEW h \in Hosts
      PROVE  Busy(h)' => Busy(h)
  BY <1>2, <1>3 DEF Busy, Live
<1>4. \A g, h \in Hosts : Busy(g)' /\ Busy(h)' => g = h
  BY <1>3 DEF Scripts
<1>5. ASSUME NEW h \in Hosts, script'[h] = "connecting"
      PROVE  h \notin attached' /\ up'[h] = <<>> /\ down'[h] = <<>> /\ chunk'[h] = 0
  BY <1>2, <1>5 DEF Scripts
<1>6. ASSUME NEW h \in Hosts
      PROVE  /\ chunk'[h] \in Nat
             /\ script'[h] = "sending" => chunk'[h] < Chunks
             /\ script'[h] = "reading" => chunk'[h] + 1 < Chunks
  BY <1>2, <1>6 DEF Scripts
<1> QED
  BY <1>1, <1>2, <1>4, <1>5, <1>6 DEF Scripts, Wire, BlocksOf

LEMMA ScriptsBlock ==
  ASSUME HomeInv, Session, Scripts, BlockNext
  PROVE  Scripts'
<1>1. client_pcb \in Hosts /\ client_pcb \in attached /\ busy # NoHost
  BY BusyOfClient DEF BlockNext, AcceptBlock, RejectBlock
<1>2. UNCHANGED <<script, chunk, up>>
  BY DEF BlockNext, AcceptBlock, RejectBlock
<1> DEFINE Speaks == /\ attached' \subseteq attached /\ DOMAIN down' = Hosts
                     /\ \A h \in Hosts : h \notin attached => down'[h] = down[h]
<1>3. ASSUME NEW status, status # "none", tcp_update_server_result(status)
      PROVE  Speaks
  BY <1>3, Closed
<1>4. ASSUME UNCHANGED <<attached, down>>
      PROVE  Speaks
  BY <1>4 DEF Scripts
<1>5. ASSUME UNCHANGED attached,
             NEW m, down' = [down EXCEPT ![client_pcb] = Append(@, m)]
      PROVE  Speaks
  BY <1>1, <1>5 DEF Scripts
<1>6. Speaks
  <2>1. CASE RejectBlock
    BY <1>3, <2>1 DEF RejectBlock
  <2>2. CASE AcceptBlock
    <3> HIDE DEF Speaks
    <3>1. CASE tcp_update_server_send_data
      BY <1>3, <1>5, <3>1 DEF tcp_update_server_send_data
    <3> QED
      BY <1>3, <1>4, <2>2, <3>1 DEF AcceptBlock
  <2> QED
    BY <2>1, <2>2 DEF BlockNext
<1> QED
  BY <1>2, <1>6, ScriptsServer DEF Scripts

LEMMA ScriptsMain ==
  ASSUME Scripts, MainNext \/ main_join_fails \/ TryBeforeYouBuyExpires \/ PowerCycle
  PROVE  Scripts'
<1>1. CASE UNCHANGED hostVars /\ attached' \subseteq attached
  BY <1>1, ScriptsServer DEF hostVars, Scripts
<1>2. CASE main_reboot \/ PowerCycle
  BY <1>2, ScriptsBroken DEF main_reboot, PowerCycle, ServerReset
<1>3. CASE main_join \/ main_join_fails
  BY <1>1, <1>3 DEF main_join, main_join_fails, serverVars
<1>4. CASE tcp_update_server_open
  BY <1>1, <1>4 DEF tcp_update_server_open
<1>5. CASE Bootrom \/ TryBeforeYouBuyExpires
  BY <1>1, <1>5 DEF Bootrom, TryBeforeYouBuyExpires, ServerReset
<1> QED
  BY <1>2, <1>3, <1>4, <1>5 DEF MainNext

\* What one script does, it does alone.
LEMMA ScriptsOne ==
  ASSUME Scripts, NEW h \in Hosts, attached' \subseteq attached \cup {h},
         Busy(h) \/ \A g \in Hosts : ~Busy(g),
         DOMAIN script' = Hosts, DOMAIN chunk' = Hosts, DOMAIN up' = Hosts, DOMAIN down' = Hosts,
         \A g \in Hosts \ {h} : /\ script'[g] = script[g] /\ chunk'[g] = chunk[g]
                                /\ up'[g] = up[g] /\ down'[g] = down[g],
         chunk'[h] \in Nat, up'[h] \in Seq(Wire(h)),
         script'[h] = "connecting"
           => h \notin attached' /\ up'[h] = <<>> /\ down'[h] = <<>> /\ chunk'[h] = 0,
         script'[h] = "sending" => chunk'[h] < Chunks,
         script'[h] = "reading" => chunk'[h] + 1 < Chunks
  PROVE  Scripts'
<1>1. ASSUME NEW g \in Hosts, g # h
      PROVE  Busy(g)' => Busy(g)
  BY <1>1 DEF Busy
<1>2. \A f, g \in Hosts : Busy(f)' /\ Busy(g)' => f = g
  BY <1>1 DEF Scripts
<1>3. ASSUME NEW g \in Hosts
      PROVE  /\ chunk'[g] \in Nat /\ up'[g] \in Seq(Wire(g))
             /\ script'[g] = "connecting"
                  => g \notin attached' /\ up'[g] = <<>> /\ down'[g] = <<>> /\ chunk'[g] = 0
             /\ script'[g] = "sending" => chunk'[g] < Chunks
             /\ script'[g] = "reading" => chunk'[g] + 1 < Chunks
  BY <1>3 DEF Scripts
<1> QED
  BY <1>2, <1>3 DEF Scripts, Wire, BlocksOf

LEMMA ScriptsHost ==
  ASSUME Scripts, NEW h \in Hosts, HostNext(h) \/ (Start(h) /\ ~world.overlap)
  PROVE  Scripts'
<1> USE DEF Scripts
<1>1. UNCHANGED attached
  BY DEF HostNext, Start, Refused, SendChunk, ReadHash, ReadEnd, Close, serverVars
<1>2. chunk[h] \in Nat /\ up[h] \in Seq(Wire(h))
  OBVIOUS
<1>3. [type |-> "ACK"] \in Wire(h) /\ [type |-> "FIN"] \in Wire(h)
  BY DEF Wire
<1>4. HostNext(h) => Busy(h)
  BY DEF HostNext, Refused, SendChunk, ReadHash, ReadEnd, Close, Busy, Live
<1>5. CASE Start(h) /\ ~world.overlap
  <2>1. h \notin attached' /\ up[h] = <<>> /\ UNCHANGED up /\ \A g \in Hosts : ~Busy(g)
    BY <1>1, <1>5 DEF Start, Busy
  <2> QED
    BY <1>1, <1>2, <1>5, <2>1, ScriptsOne DEF Start
<1>6. CASE Refused(h) \/ ReadEnd(h)
  <2>1. script'[h] \in {"error", "spinning"} /\ UNCHANGED <<chunk, up>>
        /\ DOMAIN script' = Hosts /\ \A g \in Hosts \ {h} : script'[g] = script[g]
    BY <1>6 DEF Refused, ReadEnd
  <2>2. UNCHANGED down
    BY <1>6 DEF Refused, ReadEnd
  <2> QED
    BY <1>1, <1>2, <1>4, <1>6, <2>1, <2>2, ScriptsOne DEF HostNext
<1>7. CASE SendChunk(h)
  <2>1. PICK s \in Wire(h) :
           \/ up' = [up EXCEPT ![h] = Append(@, s)]
           \/ \E t \in Wire(h) : up' = [up EXCEPT ![h] = Append(Append(@, s), t)]
    BY <1>7, Segments
  <2>2. up'[h] \in Seq(Wire(h)) /\ DOMAIN up' = Hosts /\ \A g \in Hosts \ {h} : up'[g] = up[g]
    <3>1. CASE up' = [up EXCEPT ![h] = Append(@, s)]
      BY <1>2, <3>1, AppendKeeps
    <3>2. ASSUME NEW t \in Wire(h), up' = [up EXCEPT ![h] = Append(Append(@, s), t)]
          PROVE  <2>2!1
      BY <1>2, <3>2, AppendKeeps
    <3> QED
      BY <2>1, <3>1, <3>2
  <2>3. /\ script'[h] \in {"reading", "closing"} /\ DOMAIN script' = Hosts
        /\ script'[h] = "reading" => chunk[h] < Chunks - 1
        /\ \A g \in Hosts \ {h} : script'[g] = script[g]
        /\ UNCHANGED <<chunk, down>>
    BY <1>7 DEF SendChunk
  <2>4. ImageBlocks \in Nat /\ ChunkBlocks \in Nat \ {0}
    BY SizesAssumption
  <2>5. Chunks \in Int
    BY <2>4 DEF Chunks
  <2>6. script'[h] = "reading" => chunk'[h] + 1 < Chunks
    BY <1>2, <2>3, <2>5
  <2> QED
    BY <1>1, <1>2, <1>4, <1>7, <2>2, <2>3, <2>6, ScriptsOne DEF HostNext
<1>8. CASE Close(h)
  <2>1. up'[h] \in Seq(Wire(h)) /\ DOMAIN up' = Hosts /\ \A g \in Hosts \ {h} : up'[g] = up[g]
    BY <1>2, <1>3, <1>8, AppendKeeps DEF Close
  <2>2. script'[h] = "done" /\ DOMAIN script' = Hosts /\ UNCHANGED <<chunk, down>>
        /\ \A g \in Hosts \ {h} : script'[g] = script[g]
    BY <1>8 DEF Close
  <2> QED
    BY <1>1, <1>2, <1>4, <1>8, <2>1, <2>2, ScriptsOne DEF HostNext
<1>9. CASE ReadHash(h)
  <2>1. DOMAIN down' = Hosts /\ \A g \in Hosts \ {h} : down'[g] = down[g]
    BY <1>9 DEF ReadHash
  <2>2. CASE Head(down[h]).blocks = ChunkOf(h, chunk[h])
    <3>1. up'[h] = Append(up[h], [type |-> "ACK"]) /\ DOMAIN up' = Hosts
          /\ \A g \in Hosts \ {h} : up'[g] = up[g]
      BY <1>9, <2>2 DEF ReadHash
    <3>2. up'[h] \in Seq(Wire(h))
      BY <1>2, <1>3, <3>1, AppendKeeps
    <3>3. /\ script'[h] = "sending" /\ chunk'[h] = chunk[h] + 1
          /\ DOMAIN script' = Hosts /\ DOMAIN chunk' = Hosts
          /\ \A g \in Hosts \ {h} : script'[g] = script[g] /\ chunk'[g] = chunk[g]
      BY <1>9, <2>2 DEF ReadHash
    <3>4. chunk'[h] \in Nat /\ chunk'[h] < Chunks
      BY <1>2, <1>9, <3>3 DEF ReadHash
    <3> QED
      BY <1>1, <1>4, <1>9, <2>1, <3>1, <3>2, <3>3, <3>4, ScriptsOne DEF HostNext
  <2>3. CASE Head(down[h]).blocks # ChunkOf(h, chunk[h])
    <3>1. up'[h] = up[h] \o <<[type |-> "ACK"], [type |-> "FIN"]>> /\ DOMAIN up' = Hosts
          /\ \A g \in Hosts \ {h} : up'[g] = up[g]
      BY <1>9, <2>3 DEF ReadHash
    <3>2. up'[h] \in Seq(Wire(h))
      BY <1>2, <1>3, <3>1
    <3>3. /\ script'[h] = "error" /\ UNCHANGED chunk /\ DOMAIN script' = Hosts
          /\ \A g \in Hosts \ {h} : script'[g] = script[g]
      BY <1>9, <2>3 DEF ReadHash
    <3> QED
      BY <1>1, <1>2, <1>4, <1>9, <2>1, <3>1, <3>2, <3>3, ScriptsOne DEF HostNext
  <2> QED
    BY <2>2, <2>3
<1> QED
  BY <1>5, <1>6, <1>7, <1>8, <1>9 DEF HostNext

LEMMA ScriptsServerNext ==
  ASSUME Session, Scripts, NEW h \in Hosts, ServerNext(h) \/ FaultNext(h)
  PROVE  Scripts'
<1>1. CASE tcp_update_server_accept(h)
  <2>1. script[h] = "connecting" /\ up[h] = <<>> /\ chunk[h] = 0
    BY <1>1 DEF tcp_update_server_accept, Scripts
  <2>2. ImageBlocks \in Nat \ {0} /\ ChunkBlocks \in Nat \ {0}
    BY SizesAssumption
  <2>3. 0 < Chunks
    BY <2>2, SMT DEF Chunks
  <2>4. Busy(h)
    BY <2>1 DEF Busy, Live
  <2>5. /\ script'[h] = "sending" /\ DOMAIN script' = Hosts
        /\ \A g \in Hosts \ {h} : script'[g] = script[g]
        /\ UNCHANGED <<chunk, up, down>> /\ attached' = attached \cup {h}
    BY <1>1 DEF tcp_update_server_accept, Scripts
  <2>6. DOMAIN chunk = Hosts /\ DOMAIN up = Hosts /\ DOMAIN down = Hosts /\ up[h] \in Seq(Wire(h))
    BY DEF Scripts
  <2>7. /\ attached' \subseteq attached \cup {h}
        /\ \A g \in Hosts \ {h} : /\ script'[g] = script[g] /\ chunk'[g] = chunk[g]
                                 /\ up'[g] = up[g] /\ down'[g] = down[g]
        /\ DOMAIN chunk' = Hosts /\ DOMAIN up' = Hosts /\ DOMAIN down' = Hosts
    BY <2>5, <2>6
  <2>8. chunk'[h] = 0 /\ up'[h] \in Seq(Wire(h)) /\ chunk'[h] \in Nat
    BY <2>1, <2>5, <2>6
  <2>9. /\ script'[h] # "connecting" /\ script'[h] # "reading"
        /\ script'[h] = "sending" => chunk'[h] < Chunks
    BY <2>3, <2>5, <2>8
  <2> QED
    BY <2>4, <2>5, <2>7, <2>8, <2>9, ScriptsOne
<1>2. ASSUME Consume(h), up[h] # <<>>
      PROVE  DOMAIN up' = Hosts
             /\ \A g \in Hosts : up'[g] = up[g] \/ (up[g] # <<>> /\ up'[g] = Tail(up[g]))
  BY <1>2 DEF Consume, Scripts
<1>3. UNCHANGED <<attached, down>> => attached' \subseteq attached /\ DOMAIN down' = Hosts
  BY DEF Scripts
<1>4. CASE tcp_update_server_sent(h) \/ RecvData(h) \/ Unattended(h)
  BY <1>2, <1>3, <1>4, ScriptsServer
     DEF tcp_update_server_sent, RecvData, Unattended, Arrived, serverVars
<1>5. CASE RecvClosed(h)
  <2>1. attached' \subseteq attached /\ DOMAIN down' = Hosts
        /\ \A g \in Hosts : g \notin attached => down'[g] = down[g]
    BY <1>5, Closed DEF RecvClosed
  <2> QED
    BY <1>2, <1>5, <2>1, ScriptsServer DEF RecvClosed, Arrived
<1>6. CASE tcp_update_server_poll(h)
  <2>1. attached' \subseteq attached /\ DOMAIN down' = Hosts
        /\ \A g \in Hosts : g \notin attached => down'[g] = down[g]
    BY <1>6, Closed DEF tcp_update_server_poll
  <2> QED
    BY <1>6, <2>1, ScriptsServer DEF tcp_update_server_poll, Scripts
<1>7. CASE tcp_update_server_err(h)
  BY <1>7, ScriptsBroken DEF tcp_update_server_err
<1> QED
  BY <1>1, <1>4, <1>5, <1>6, <1>7 DEF ServerNext, FaultNext

-----------------------------------------------------------------------------
(* What is on the way and in the buffer. *)

\* Steps that leave the connection and the order of its messages alone.
LEMMA StreamKept ==
  ASSUME Stream, Buffer, UNCHANGED <<client_pcb, buffer_recv>>, busy' \in {busy, NoHost},
         up'[client_pcb] = up[client_pcb]
  PROVE  Stream' /\ Buffer'
BY DEF Stream, Buffer, IsData

LEMMA StreamGone ==
  ASSUME client_pcb' = NoHost
  PROVE  Stream' /\ Buffer'
BY DEF Stream, Buffer

\* A script appends to its own connection; padding comes second.
LEMMA StreamAppend ==
  ASSUME Session, Scripts, Stream, NEW h \in Hosts, NEW m \in Wire(h),
         m.type = "DATA" => m.blocks[1] # Pad,
         UNCHANGED <<client_pcb, buffer_recv>>, up' = [up EXCEPT ![h] = Append(@, m)]
  PROVE  Stream'
<1>1. up[h] \in Seq(Wire(h)) /\ DOMAIN up = Hosts
  BY DEF Scripts
<1>2. CASE client_pcb # h
  BY <1>1, <1>2 DEF Stream, IsData, Session
<1>3. CASE client_pcb = h
  <2>1. up'[h] = Append(up[h], m)
    BY <1>1
  <2>2. ASSUME NEW i \in DOMAIN up'[h], up'[h][i].type = "DATA", up'[h][i].blocks[1] = Pad
        PROVE  (i = 1 => buffer_recv # <<>>) /\ (i # 1 => up'[h][i - 1].type = "DATA")
    <3>1. i \in DOMAIN up[h] /\ up'[h][i] = up[h][i]
      BY <1>1, <2>1, <2>2
    <3>2. i # 1 => i - 1 \in DOMAIN up[h] /\ up'[h][i - 1] = up[h][i - 1]
      BY <1>1, <2>1, <3>1
    <3>3. client_pcb # NoHost
      BY <1>3, HostsAssumption
    <3> QED
      BY <1>3, <2>2, <3>1, <3>2, <3>3 DEF Stream, IsData
  <2>3. client_pcb' = h /\ buffer_recv' = buffer_recv
    BY <1>3
  <2> QED
    BY <2>2, <2>3 DEF Stream, IsData
<1> QED
  BY <1>2, <1>3

LEMMA StreamAppendTwo ==
  ASSUME Session, Scripts, Stream, NEW h \in Hosts, NEW m \in Wire(h), NEW n \in Wire(h),
         m.type = "DATA" => m.blocks[1] # Pad,
         n.type = "DATA" => m.type = "DATA",
         UNCHANGED <<client_pcb, buffer_recv>>, up' = [up EXCEPT ![h] = Append(Append(@, m), n)]
  PROVE  Stream'
<1>1. up[h] \in Seq(Wire(h)) /\ DOMAIN up = Hosts
  BY DEF Scripts
<1>2. CASE client_pcb # h
  BY <1>1, <1>2 DEF Stream, IsData, Session
<1>3. CASE client_pcb = h
  <2>1. up'[h] = Append(Append(up[h], m), n)
    BY <1>1
  <2>2. ASSUME NEW i \in DOMAIN up'[h], up'[h][i].type = "DATA", up'[h][i].blocks[1] = Pad
        PROVE  (i = 1 => buffer_recv # <<>>) /\ (i # 1 => up'[h][i - 1].type = "DATA")
    <3>1. CASE i \in DOMAIN up[h]
      <4>1. up'[h][i] = up[h][i]
        BY <1>1, <2>1, <3>1
      <4>2. i # 1 => i - 1 \in DOMAIN up[h] /\ up'[h][i - 1] = up[h][i - 1]
        BY <1>1, <2>1, <3>1
      <4>3. client_pcb # NoHost
        BY <1>3, HostsAssumption
      <4> QED
        BY <1>3, <2>2, <3>1, <4>1, <4>2, <4>3 DEF Stream, IsData
    <3>2. CASE i \notin DOMAIN up[h]
      <4>1. i \in {Len(up[h]) + 1, Len(up[h]) + 2} /\ Len(up[h]) \in Nat
        BY <1>1, <2>1, <3>2
      <4>2. up'[h][Len(up[h]) + 1] = m /\ up'[h][Len(up[h]) + 2] = n
        BY <1>1, <2>1
      <4>3. i = Len(up[h]) + 2 /\ n.type = "DATA"
        BY <2>2, <4>1, <4>2
      <4>4. i # 1 /\ i - 1 = Len(up[h]) + 1
        BY <4>1, <4>3
      <4> QED
        BY <4>2, <4>3, <4>4
    <3> QED
      BY <3>1, <3>2
  <2>3. client_pcb' = h /\ buffer_recv' = buffer_recv
    BY <1>3
  <2> QED
    BY <2>2, <2>3 DEF Stream, IsData
<1> QED
  BY <1>2, <1>3

LEMMA StreamHost ==
  ASSUME Session, Scripts, Stream, Buffer, NEW h \in Hosts, HostNext(h) \/ Start(h)
  PROVE  Stream' /\ Buffer'
<1>1. UNCHANGED <<client_pcb, buffer_recv, busy>>
  BY DEF HostNext, Start, Refused, SendChunk, ReadHash, ReadEnd, Close, serverVars
<1>2. Buffer'
  BY <1>1 DEF Buffer
<1>3. up[h] \in Seq(Wire(h)) /\ [type |-> "ACK"] \in Wire(h) /\ [type |-> "FIN"] \in Wire(h)
  BY DEF Scripts, Wire
<1>4. CASE Start(h) \/ Refused(h) \/ ReadEnd(h)
  BY <1>1, <1>4, StreamKept DEF Start, Refused, ReadEnd
<1>5. CASE SendChunk(h)
  BY <1>1, <1>2, <1>5, Segments, StreamAppend, StreamAppendTwo
<1>6. CASE Close(h)
  BY <1>1, <1>2, <1>3, <1>6, StreamAppend DEF Close
<1>7. CASE ReadHash(h)
  <2>1. CASE Head(down[h]).blocks = ChunkOf(h, chunk[h])
    BY <1>1, <1>2, <1>3, <1>7, <2>1, StreamAppend DEF ReadHash
  <2>2. CASE Head(down[h]).blocks # ChunkOf(h, chunk[h])
    <3>1. up' = [up EXCEPT ![h] = @ \o <<[type |-> "ACK"], [type |-> "FIN"]>>]
      BY <1>7, <2>2 DEF ReadHash
    <3>2. up[h] \o <<[type |-> "ACK"], [type |-> "FIN"]>>
            = Append(Append(up[h], [type |-> "ACK"]), [type |-> "FIN"])
      BY <1>3
    <3>3. up' = [up EXCEPT ![h] = Append(Append(@, [type |-> "ACK"]), [type |-> "FIN"])]
      BY <3>1, <3>2
    <3> QED
      BY <1>1, <1>2, <1>3, <3>3, StreamAppendTwo
  <2> QED
    BY <2>1, <2>2
<1> QED
  BY <1>4, <1>5, <1>6, <1>7 DEF HostNext

LEMMA StreamMain ==
  ASSUME Session, Stream, Buffer,
         MainNext \/ main_join_fails \/ TryBeforeYouBuyExpires \/ PowerCycle
  PROVE  Stream' /\ Buffer'
<1>1. CASE main_join \/ main_join_fails
  BY <1>1, StreamKept DEF main_join, main_join_fails, serverVars, hostVars
<1>2. CASE tcp_update_server_open
  BY <1>2, StreamKept DEF tcp_update_server_open, hostVars
<1>3. CASE main_reboot
  <2>1. client_pcb = NoHost
    BY <1>3 DEF main_reboot, Session
  <2>2. client_pcb' = NoHost
    BY <1>3, <2>1 DEF main_reboot
  <2> QED
    BY <2>2, StreamGone
<1>4. CASE Bootrom \/ TryBeforeYouBuyExpires \/ PowerCycle
  <2>1. client_pcb' = NoHost
    BY <1>4 DEF Bootrom, TryBeforeYouBuyExpires, PowerCycle, ServerReset
  <2> QED
    BY <2>1, StreamGone
<1> QED
  BY <1>1, <1>2, <1>3, <1>4 DEF MainNext

LEMMA StreamBlock ==
  ASSUME HomeInv, Session, Scripts, Stream, Buffer, BlockNext
  PROVE  Stream' /\ Buffer'
<1>1. ASSUME NEW status, status # "none", tcp_update_server_result(status)
      PROVE  client_pcb' = NoHost
  BY <1>1 DEF tcp_update_server_result
<1>2. CASE RejectBlock
  BY <1>1, <1>2, StreamGone DEF RejectBlock
<1>3. CASE AcceptBlock
  <2>1. UNCHANGED <<up, buffer_recv>>
    BY <1>3 DEF AcceptBlock
  <2>2. tcp_update_server_send_data => client_pcb' = NoHost \/ UNCHANGED client_pcb
    BY <1>1 DEF tcp_update_server_send_data
  <2>3. client_pcb' = NoHost \/ (UNCHANGED client_pcb /\ busy' \in {busy, NoHost})
    BY <1>1, <1>3, <2>2 DEF AcceptBlock
  <2> QED
    BY <2>1, <2>3, StreamGone, StreamKept
<1> QED
  BY <1>2, <1>3 DEF BlockNext

\* What is left of the stream when its first message is taken.
LEMMA StreamTail ==
  ASSUME Session, Scripts, Stream, NEW h \in Hosts, client_pcb = h, up[h] # <<>>, Consume(h),
         UNCHANGED client_pcb, buffer_recv' # <<>> \/ ~IsData(h, 1)
  PROVE  Stream'
<1>1. up[h] \in Seq(Wire(h)) /\ DOMAIN up = Hosts
  BY DEF Scripts
<1>2. up'[h] = Tail(up[h]) /\ client_pcb' = h /\ h # NoHost
  BY <1>1, HostsAssumption DEF Consume
<1>3. ASSUME NEW i \in DOMAIN up'[h], up'[h][i].type = "DATA", up'[h][i].blocks[1] = Pad
      PROVE  (i = 1 => buffer_recv' # <<>>) /\ (i # 1 => up'[h][i - 1].type = "DATA")
  <2>1. i + 1 \in DOMAIN up[h] /\ i \in Nat \ {0} /\ up'[h][i] = up[h][i + 1]
    BY <1>1, <1>2, <1>3
  <2>2. up[h][i].type = "DATA"
    <3>1. i + 1 # 1 /\ (i + 1) - 1 = i
      BY <2>1
    <3>2. IsData(h, i + 1) /\ up[h][i + 1].blocks[1] = Pad
      BY <1>3, <2>1 DEF IsData
    <3>3. IsData(h, (i + 1) - 1)
      BY <1>2, <2>1, <3>1, <3>2 DEF Stream
    <3> QED
      BY <3>1, <3>3 DEF IsData
  <2>3. i = 1 => buffer_recv' # <<>>
    BY <2>2 DEF IsData
  <2>4. i # 1 => i - 1 \in DOMAIN up'[h] /\ up'[h][i - 1] = up[h][i]
    BY <1>1, <1>2, <2>1
  <2> QED
    BY <2>2, <2>3, <2>4
<1> QED
  BY <1>2, <1>3 DEF Stream, IsData

LEMMA StreamRecv ==
  ASSUME Session, Scripts, Stream, Buffer, NEW h \in Hosts, RecvData(h)
  PROVE  Stream' /\ Buffer'
<1> DEFINE new == Head(up[h]).blocks
           data == buffer_recv \o new
<1>1. client_pcb = h /\ h # NoHost /\ UNCHANGED client_pcb
  BY CallbackOfClient DEF RecvData
<1>2. up[h] \in Seq(Wire(h)) /\ up[h] # <<>> /\ Head(up[h]).type = "DATA" /\ Consume(h)
  BY DEF RecvData, Arrived, Scripts
<1>3. Head(up[h]) \in Wire(h) /\ Head(up[h]) = up[h][1] /\ 1 \in DOMAIN up[h]
  BY <1>2
<1>4. new \in Seq(BlocksOf(h)) /\ new # <<>>
  BY <1>2, <1>3 DEF Wire
<1>5. buffer_recv \in Seq(BlocksOf(h)) /\ (buffer_recv # <<>> => buffer_recv[1] # Pad)
  BY <1>1 DEF Buffer
<1>6. buffer_recv = <<>> => new[1] # Pad
  BY <1>1, <1>2, <1>3 DEF Stream, IsData
<1>7. ChunkBlocks \in Nat \ {0}
  BY SizesAssumption
<1>8. /\ buffer_recv' = IF Len(data) >= ChunkBlocks THEN SubSeq(data, 1, ChunkBlocks) ELSE data
      /\ busy' = IF Len(data) >= ChunkBlocks THEN h ELSE NoHost
  BY DEF RecvData
<1> HIDE DEF new
<1>9. data \in Seq(BlocksOf(h)) /\ Len(data) \in Nat \ {0} /\ data[1] # Pad
  <2>1. data \in Seq(BlocksOf(h)) /\ Len(data) = Len(buffer_recv) + Len(new)
    BY <1>4, <1>5
  <2>2. Len(buffer_recv) \in Nat /\ Len(new) \in Nat \ {0}
    BY <1>4, <1>5
  <2>3. CASE buffer_recv = <<>>
    BY <1>4, <1>6, <2>1, <2>2, <2>3
  <2>4. CASE buffer_recv # <<>>
    <3>1. data[1] = buffer_recv[1]
      BY <1>4, <1>5, <2>4
    <3> QED
      BY <1>5, <2>1, <2>2, <2>4, <3>1
  <2> QED
    BY <2>3, <2>4
<1> HIDE DEF data
<1>10. /\ buffer_recv' \in Seq(BlocksOf(h)) /\ buffer_recv' # <<>> /\ buffer_recv'[1] # Pad
       /\ busy' # NoHost => Len(buffer_recv') = ChunkBlocks
  <2>1. CASE Len(data) >= ChunkBlocks
    <3>1. buffer_recv' = SubSeq(data, 1, ChunkBlocks)
      BY <1>8, <2>1
    <3>2. buffer_recv' \in Seq(BlocksOf(h)) /\ Len(buffer_recv') = ChunkBlocks
          /\ buffer_recv'[1] = data[1]
      BY <1>7, <1>9, <2>1, <3>1
    <3>3. buffer_recv' # <<>>
      BY <1>7, <3>2
    <3> QED
      BY <1>9, <3>2, <3>3
  <2>2. CASE ~ (Len(data) >= ChunkBlocks)
    BY <1>8, <1>9, <2>2
  <2> QED
    BY <2>1, <2>2
<1>11. Buffer'
  BY <1>1, <1>10 DEF Buffer, BlocksOf
<1>12. Stream'
  BY <1>1, <1>2, <1>10, StreamTail
<1> QED
  BY <1>11, <1>12

LEMMA StreamServer ==
  ASSUME Session, Scripts, Stream, Buffer, NEW h \in Hosts, ServerNext(h) \/ FaultNext(h)
  PROVE  Stream' /\ Buffer'
<1>1. CASE tcp_update_server_accept(h)
  <2>1. up[h] = <<>> /\ UNCHANGED <<up, buffer_recv, busy>> /\ client_pcb' = h
    BY <1>1 DEF tcp_update_server_accept, Scripts
  <2>2. client_pcb = NoHost /\ buffer_recv = <<>> /\ busy = NoHost
    BY <1>1, AcceptAlone DEF tcp_update_server_accept, Fresh
  <2>3. Stream'
    BY <2>1 DEF Stream
  <2> QED
    BY <2>1, <2>2, <2>3 DEF Buffer
<1>2. CASE tcp_update_server_sent(h)
  <2>1. client_pcb = h /\ UNCHANGED <<client_pcb, busy>> /\ busy = NoHost
    BY <1>2, CallbackOfClient DEF tcp_update_server_sent
  <2>2. up[h] # <<>> /\ Head(up[h]).type = "ACK" /\ Consume(h)
        /\ (buffer_recv' = <<>> \/ UNCHANGED buffer_recv)
    BY <1>2 DEF tcp_update_server_sent, Arrived
  <2>3. ~IsData(h, 1)
    BY <2>2 DEF IsData, Scripts
  <2>4. Stream'
    BY <2>1, <2>2, <2>3, StreamTail
  <2>5. buffer_recv' = <<>> => buffer_recv' \in Seq(BlocksOf(client_pcb))
    OBVIOUS
  <2> QED
    BY <2>1, <2>2, <2>4, <2>5 DEF Buffer, BlocksOf
<1>3. CASE RecvData(h)
  BY <1>3, StreamRecv
<1>4. CASE RecvClosed(h) \/ tcp_update_server_poll(h) \/ tcp_update_server_err(h)
  <2>1. client_pcb' = NoHost
    BY <1>4 DEF RecvClosed, tcp_update_server_poll, tcp_update_server_err,
                tcp_update_server_result
  <2> QED
    BY <2>1, StreamGone
<1>5. CASE Unattended(h)
  <2>1. client_pcb # NoHost => client_pcb # h
    BY <1>5 DEF Unattended, Session
  <2>2. up'[client_pcb] = up[client_pcb] \/ client_pcb = NoHost
    BY <1>5, <2>1 DEF Unattended, Consume, Session, Scripts
  <2>3. UNCHANGED <<client_pcb, buffer_recv, busy>>
    BY <1>5 DEF Unattended, serverVars
  <2>4. CASE client_pcb = NoHost
    BY <2>3, <2>4, StreamGone
  <2> QED
    BY <2>2, <2>3, <2>4, StreamKept
<1> QED
  BY <1>1, <1>2, <1>3, <1>4, <1>5 DEF ServerNext, FaultNext

-----------------------------------------------------------------------------
(* What a block does to the flash. *)

\* The loop only accepts the next block of the image: the padding has number 0, and
\* the first block of a buffer is no padding.
LEMMA NextBlock ==
  ASSUME HomeInv, Session, Buffer, Loop, Written, AcceptBlock
  PROVE  /\ buffer_recv[at] = Block(client_pcb, blocks_done)
         /\ blocks_done \in BlockNos /\ client_pcb # NoHost /\ client_pcb \in Hosts
<1>1. client_pcb \in Hosts /\ client_pcb # NoHost /\ busy # NoHost
  BY BusyOfClient DEF AcceptBlock
<1>2. ChunkBlocks \in Nat \ {0} /\ ImageBlocks \in Nat
  BY SizesAssumption
<1>3. blocks_done \in Nat /\ blocks_done < ImageBlocks
  BY <1>1 DEF Written
<1>4. buffer_recv \in Seq(BlocksOf(client_pcb)) /\ Len(buffer_recv) = ChunkBlocks
  BY <1>1 DEF Buffer
<1>5. at \in 1..ChunkBlocks /\ (blocks_done = 0 => at = 1)
  <2>1. at = Place
    BY <1>1 DEF Loop
  <2> QED
    BY <1>3, <2>1, PlaceRange
<1>6. buffer_recv[1] # Pad
  <2>1. buffer_recv # <<>>
    BY <1>2, <1>4
  <2> QED
    BY <1>1, <2>1 DEF Buffer
<1>7. buffer_recv[at].no = blocks_done
  BY DEF AcceptBlock
<1>8. buffer_recv[at] \in BlocksOf(client_pcb)
  BY <1>4, <1>5
<1>9. buffer_recv[at] # Pad
  <2>1. buffer_recv[at] = Pad => blocks_done = 0
    BY <1>7 DEF Pad, Block
  <2> QED
    BY <1>5, <1>6, <2>1
<1>10. PICK n \in BlockNos : buffer_recv[at] = Block(client_pcb, n)
  BY <1>8, <1>9 DEF BlocksOf
<1>11. n = blocks_done
  BY <1>7, <1>10 DEF Block
<1> QED
  BY <1>1, <1>10, <1>11

LEMMA Sectors ==
  ASSUME NEW m \in BlockNos, NEW n \in BlockNos, m <= n
  PROVE  /\ Sector(m) \in Nat \ {0} /\ Sector(n) \in Nat \ {0} /\ Sector(m) <= Sector(n)
         /\ AddrOf[m] \in 0..(Cells - 1) /\ AddrOf[n] \in 0..(Cells - 1)
         /\ m # n => AddrOf[m] # AddrOf[n]
<1>1. m \in Nat /\ n \in Nat /\ Cells \in Nat /\ SectorCells \in Nat \ {0}
  BY SizesAssumption DEF BlockNos
<1>2. AddrOf[m] \in 0..(Cells - 1) /\ AddrOf[n] \in 0..(Cells - 1)
  BY ImageAssumption
<1>3. m # n => AddrOf[m] < AddrOf[n]
  BY <1>1, ImageAssumption
<1>4. AddrOf[m] \in Nat /\ AddrOf[n] \in Nat /\ AddrOf[m] <= AddrOf[n]
  BY <1>1, <1>2, <1>3
<1>5. AddrOf[m] \div SectorCells \in Nat /\ AddrOf[n] \div SectorCells \in Nat
      /\ AddrOf[m] \div SectorCells <= AddrOf[n] \div SectorCells
  BY <1>1, <1>4, DivMonotone
<1> QED
  BY <1>2, <1>3, <1>4, <1>5 DEF Sector

\* The cells from the first of a sector on are the sector's.
LEMMA SectorCellsOf ==
  ASSUME NEW s \in Nat \ {0}, NEW a \in Nat, NEW c \in Nat, a % s = 0
  PROVE  c \in a..(a + s - 1) <=> c \div s = a \div s
<1>1. PICK p \in Nat : p = a \div s /\ a = s * p
  BY SMT
<1>2. PICK q \in Nat, m \in 0..(s - 1) : q = c \div s /\ c = s * q + m
  <2>1. c \div s \in Nat /\ c % s \in 0..(s - 1) /\ c = s * (c \div s) + (c % s)
    BY SMT
  <2> QED
    BY <2>1
<1>3. ASSUME NEW k \in Nat, NEW l \in Nat, k < l PROVE s * k + s <= s * l
  BY <1>3
<1>4. s * p \in Nat /\ s * q \in Nat
  OBVIOUS
<1>5. c \in a..(a + s - 1) <=> q = p
  <2>1. p < q => s * p + s <= s * q
    BY <1>3
  <2>2. q < p => s * q + s <= s * p
    BY <1>3
  <2>3. p < q \/ q < p \/ q = p
    OBVIOUS
  <2> QED
    BY <1>1, <1>2, <1>4, <2>1, <2>2, <2>3
<1> QED
  BY <1>1, <1>2, <1>5

LEMMA WriteEffect ==
  ASSUME HomeInv, SectorsFromStart, NEW img, NEW done \in BlockNos,
         Programmed(Other(running), img, flash, done, highest_erased_sector),
         WriteBlock(Block(img, done), TRUE, TRUE)
  PROVE  Programmed(Other(running), img, flash', done + 1, Sector(done))
<1> DEFINE p == Other(running)
           b == Block(img, done)
           a == AddrOf[done]
           InSector(c) == a % SectorCells = 0 /\ c \in a..(a + SectorCells - 1)
           f == [c \in 0..(Cells - 1) |->
                   IF NeedsErase(done) /\ InSector(c) THEN Erased ELSE flash[p][c]]
           g == flash'[p]
<1>1. b.no = done
  BY DEF Block
<1>2. flash' = [flash EXCEPT ![p] = [f EXCEPT ![a] = IF @ \in {Erased, b} THEN b ELSE Mixed]]
  BY <1>1 DEF WriteBlock
<1>3. g = [f EXCEPT ![a] = IF @ \in {Erased, b} THEN b ELSE Mixed]
  BY <1>2, OtherDiffers DEF HomeInv
<1>4. a \in 0..(Cells - 1) /\ Sector(done) \in Nat \ {0} /\ done \in Nat
      /\ Sector(done) = (a \div SectorCells) + 1
  BY Sectors DEF BlockNos, Sector
<1>5. ASSUME NEW c \in 0..(Cells - 1)
      PROVE  /\ NeedsErase(done) /\ InSector(c) => f[c] = Erased
             /\ ~(NeedsErase(done) /\ InSector(c)) => f[c] = flash[p][c]
             /\ c # a => g[c] = f[c]
             /\ c = a /\ f[c] = Erased => g[c] = b
  BY <1>3
<1>6. ASSUME NEW c \in 0..(Cells - 1)
      PROVE  c \div SectorCells \in Int /\ a \div SectorCells \in Int
  BY <1>4, SizesAssumption
<1> HIDE DEF f, g, b
<1>7. done > 0 => done - 1 \in BlockNos /\ done - 1 <= done
  BY SizesAssumption DEF BlockNos
<1>8. ~NeedsErase(done) => done > 0 /\ highest_erased_sector = Sector(done)
  <2>1. done > 0 => highest_erased_sector = Sector(done - 1)
                    /\ Sector(done - 1) \in Nat /\ Sector(done - 1) <= Sector(done)
    BY <1>4, <1>7, Sectors DEF Programmed
  <2>2. done = 0 => highest_erased_sector = 0
    BY DEF Programmed
  <2> QED
    BY <1>4, <2>1, <2>2 DEF NeedsErase
\* A sector is reached at its first cell, so all of it is erased.
<1>8a. ASSUME NeedsErase(done), NEW c \in 0..(Cells - 1)
       PROVE  InSector(c) <=> c \div SectorCells = a \div SectorCells
  <2>1. a % SectorCells = 0
    <3>1. ASSUME a % SectorCells # 0 PROVE FALSE
      <4>1. done > 0 /\ Sector(done - 1) = Sector(done)
        BY <3>1 DEF SectorsFromStart
      <4>2. highest_erased_sector = Sector(done)
        BY <1>4, <4>1 DEF Programmed
      <4> QED
        BY <1>4, <1>8a, <4>2 DEF NeedsErase
    <3> QED
      BY <3>1
  <2>2. SectorCells \in Nat \ {0} /\ a \in Nat /\ c \in Nat
    BY <1>4, <1>8a, SizesAssumption
  <2> QED
    BY <2>1, <2>2, SectorCellsOf
\* The cell is erased, now or since its sector was.
<1>9. f[a] = Erased
  <2>1. CASE NeedsErase(done)
    BY <1>4, <1>5, <1>8a, <2>1
  <2>2. CASE ~NeedsErase(done)
    <3>1. f[a] = flash[p][a] /\ (a \div SectorCells) + 1 = highest_erased_sector
      BY <1>4, <1>5, <1>8, <2>2
    <3>2. ASSUME NEW n \in BlockNos, n < done
          PROVE  AddrOf[n] # a
      <4>1. n <= done /\ n # done
        BY <3>2 DEF BlockNos
      <4> QED
        BY <4>1, Sectors
    <3> QED
      BY <1>4, <3>1, <3>2 DEF Programmed
  <2> QED
    BY <2>1, <2>2
<1>10. g[a] = b
  BY <1>4, <1>5, <1>9
\* No earlier block lies in a sector that is erased now.
<1>11. ASSUME NEW n \in BlockNos, n < done + 1
       PROVE  g[AddrOf[n]] = Block(img, n)
  <2>1. CASE n = done
    BY <1>10, <2>1 DEF b
  <2>2. CASE n # done
    <3>1. n < done /\ n <= done /\ done - 1 \in BlockNos /\ n <= done - 1 /\ done > 0
      BY <1>7, <1>11, <2>2 DEF BlockNos
    <3>2. AddrOf[n] # a /\ AddrOf[n] \in 0..(Cells - 1)
      BY <2>2, <3>1, Sectors
    <3>3. flash[p][AddrOf[n]] = Block(img, n)
      BY <3>1 DEF Programmed
    <3>4. ~(NeedsErase(done) /\ InSector(AddrOf[n]))
      <4>1. highest_erased_sector = Sector(done - 1)
        BY <1>4, <3>1 DEF Programmed
      <4>2. Sector(n) \in Nat /\ Sector(done - 1) \in Nat /\ Sector(n) <= Sector(done - 1)
        BY <3>1, Sectors
      <4>3. NeedsErase(done) /\ InSector(AddrOf[n]) => Sector(n) = Sector(done)
        BY <1>8a, <3>2 DEF Sector
      <4> QED
        BY <1>4, <4>1, <4>2, <4>3 DEF NeedsErase
    <3> QED
      BY <1>5, <3>2, <3>3, <3>4
  <2> QED
    BY <2>1, <2>2
<1>12. ASSUME NEW c \in 0..(Cells - 1), (c \div SectorCells) + 1 = Sector(done),
              \A n \in BlockNos : n < done + 1 => AddrOf[n] # c
       PROVE  g[c] = Erased
  <2>1. c # a /\ (NeedsErase(done) => InSector(c))
    BY <1>4, <1>6, <1>12, <1>8a
  <2>2. \A n \in BlockNos : n < done => AddrOf[n] # c
    BY <1>12 DEF BlockNos
  <2>3. CASE NeedsErase(done)
    BY <1>5, <2>1, <2>3
  <2>4. CASE ~NeedsErase(done)
    <3>1. flash[p][c] = Erased
      BY <1>8, <1>12, <2>2, <2>4 DEF Programmed
    <3> QED
      BY <1>5, <2>1, <2>4, <3>1
  <2> QED
    BY <2>3, <2>4
<1>13. done + 1 # 0 /\ (done + 1) - 1 = done
  BY <1>4
<1> QED
  BY <1>11, <1>12, <1>13 DEF Programmed, g

\* The loop leaves one place for the next, and a full buffer only at its end.
LEMMA LoopBlock ==
  ASSUME HomeInv, Session, Loop, Written, BlockNext
  PROVE  Loop'
<1>1. busy # NoHost /\ client_pcb # NoHost
  BY BusyOfClient DEF BlockNext, AcceptBlock, RejectBlock
<1>2. at = Place /\ blocks_done \in Nat
  BY <1>1 DEF Loop, Written
<1>3. ASSUME NEW status, tcp_update_server_result(status)
      PROVE  Loop'
  BY <1>3 DEF tcp_update_server_result, Loop
<1>4. CASE RejectBlock
  BY <1>3, <1>4 DEF RejectBlock
<1>5. CASE AcceptBlock
  <2>1. blocks_done' = blocks_done + 1
    BY <1>5 DEF AcceptBlock
  <2>2. CASE tcp_update_server_result("ok")
    BY <1>3, <2>2
  <2>3. CASE at < ChunkBlocks /\ at' = at + 1 /\ UNCHANGED busy
    <3>1. at' = Place'
      BY <1>2, <2>1, <2>3, PlaceRange
    <3> QED
      BY <1>1, <2>3, <3>1 DEF Loop
  <2>4. CASE at = ChunkBlocks /\ busy' = NoHost
    <3>1. Place' = 1
      BY <1>2, <2>1, <2>4, PlaceRange
    <3> QED
      BY <2>4, <3>1 DEF Loop
  <2> QED
    BY <1>5, <2>2, <2>3, <2>4 DEF AcceptBlock
<1> QED
  BY <1>4, <1>5 DEF BlockNext

LEMMA LoopKept ==
  ASSUME Loop, UNCHANGED <<client_pcb, busy, at, blocks_done>>
  PROVE  Loop'
BY DEF Loop, Place

LEMMA LoopGone ==
  ASSUME client_pcb' = NoHost
  PROVE  Loop'
BY DEF Loop

LEMMA LoopMain ==
  ASSUME Session, Loop, MainNext \/ main_join_fails \/ TryBeforeYouBuyExpires \/ PowerCycle
  PROVE  Loop'
<1>1. CASE main_join \/ main_join_fails
  BY <1>1, LoopKept DEF main_join, main_join_fails, serverVars
<1>2. CASE tcp_update_server_open
  BY <1>2, LoopKept DEF tcp_update_server_open
<1>3. CASE main_reboot
  BY <1>3, LoopKept DEF main_reboot
<1>4. CASE Bootrom \/ TryBeforeYouBuyExpires \/ PowerCycle
  BY <1>4, LoopGone DEF Bootrom, TryBeforeYouBuyExpires, PowerCycle, ServerReset
<1> QED
  BY <1>1, <1>2, <1>3, <1>4 DEF MainNext

LEMMA LoopRest ==
  ASSUME Session, Scripts, Loop, Written,
         NEW h \in Hosts, ServerNext(h) \/ FaultNext(h) \/ HostNext(h) \/ Start(h)
  PROVE  Loop'
<1>1. CASE HostNext(h) \/ Start(h) \/ Unattended(h) \/ tcp_update_server_sent(h)
  BY <1>1, LoopKept DEF HostNext, Start, Refused, SendChunk, ReadHash, ReadEnd, Close,
                        Unattended, tcp_update_server_sent, serverVars
<1>2. CASE tcp_update_server_accept(h)
  <2>1. blocks_done = 0 /\ UNCHANGED <<blocks_done, busy>> /\ busy = NoHost
    BY <1>2, AcceptAlone DEF tcp_update_server_accept, Fresh
  <2>2. Place = 1
    BY <2>1, PlaceRange
  <2>3. Place' = 1
    BY <2>1, <2>2 DEF Place
  <2> QED
    BY <2>1, <2>3 DEF Loop
<1>3. CASE RecvData(h)
  <2>1. client_pcb # NoHost /\ busy = NoHost /\ UNCHANGED blocks_done
    BY <1>3, CallbackOfClient DEF RecvData
  <2>2. Place = 1 /\ Place' = 1
    BY <2>1 DEF Loop, Place
  <2>3. busy' = NoHost \/ at' = 1
    BY <1>3 DEF RecvData
  <2> QED
    BY <2>2, <2>3 DEF Loop
<1>4. CASE RecvClosed(h) \/ tcp_update_server_poll(h) \/ tcp_update_server_err(h)
  BY <1>4, LoopGone DEF RecvClosed, tcp_update_server_poll, tcp_update_server_err,
                        tcp_update_server_result
<1> QED
  BY <1>1, <1>2, <1>3, <1>4 DEF ServerNext, FaultNext

\* Steps that leave the connection's progress alone.
LEMMA WrittenKept ==
  ASSUME Written, UNCHANGED <<client_pcb, blocks_done, num_blocks, highest_erased_sector,
                              flash, running>>
  PROVE  Written'
<1>1. Other(running)' = Other(running)
  BY DEF Other
<1> QED
  BY <1>1 DEF Written, Programmed, Sector, Erased, Block

LEMMA SuccessKept ==
  ASSUME SuccessIsWhole, UNCHANGED <<world, flash, running>>,
         outcome' = "ok" => outcome = "ok"
  PROVE  SuccessIsWhole'
BY DEF SuccessIsWhole, Orderly, Bootable, HoldsImage, Other

LEMMA SuccessNone ==
  ASSUME outcome' # "ok"
  PROVE  SuccessIsWhole'
BY DEF SuccessIsWhole

LEMMA ProgressAccept ==
  ASSUME HomeInv, Session, Scripts, Buffer, Loop, Written, Acked, SectorsFromStart,
         "flash" \notin world.faults,
         AcceptBlock
  PROVE  Written' /\ Acked' /\ SuccessIsWhole'
<1> DEFINE h == client_pcb
           p == Other(running)
<1>1. /\ buffer_recv[at] = Block(h, blocks_done) /\ blocks_done \in BlockNos
      /\ h # NoHost /\ h \in Hosts
  BY NextBlock
<1>2. blocks_done \in Nat /\ ImageBlocks \in Nat \ {0} /\ ChunkBlocks \in Nat \ {0}
      /\ num_blocks \in {0, ImageBlocks}
  BY <1>1, SizesAssumption DEF BlockNos, Written
<1>3. Programmed(p, h, flash, blocks_done, highest_erased_sector)
  BY <1>1 DEF Written
<1>4. WriteBlock(Block(h, blocks_done), TRUE, TRUE)
  BY <1>1 DEF AcceptBlock
<1>5. Programmed(p, h, flash', blocks_done + 1, Sector(blocks_done))
  BY <1>1, <1>3, <1>4, WriteEffect
<1>6. /\ blocks_done' = blocks_done + 1 /\ num_blocks' = ImageBlocks
      /\ UNCHANGED <<running, buffer_recv, script, chunk, up>>
  BY <1>2 DEF AcceptBlock, bootVars
<1>7. highest_erased_sector' = Sector(blocks_done)
  <2>1. highest_erased_sector' = IF NeedsErase(blocks_done) THEN Sector(blocks_done)
                                 ELSE highest_erased_sector
    BY <1>1 DEF AcceptBlock, Block
  <2>2. blocks_done > 0 => blocks_done - 1 \in BlockNos /\ blocks_done - 1 <= blocks_done
    BY <1>1, <1>2 DEF BlockNos
  <2>3. Sector(blocks_done) \in Nat \ {0}
    BY <1>1, <1>2, Sectors
  <2>4. blocks_done > 0 => highest_erased_sector = Sector(blocks_done - 1)
                           /\ Sector(blocks_done - 1) \in Nat
                           /\ Sector(blocks_done - 1) <= Sector(blocks_done)
    BY <1>1, <1>2, <1>3, <2>2, Sectors DEF Programmed
  <2>5. blocks_done = 0 => highest_erased_sector = 0
    BY <1>3 DEF Programmed
  <2>6. ~NeedsErase(blocks_done) => highest_erased_sector = Sector(blocks_done)
    BY <1>2, <2>3, <2>4, <2>5 DEF NeedsErase
  <2> QED
    BY <2>1, <2>6
<1>8. outcome = "none" /\ attached = {h} /\ busy = h
  BY <1>1, BusyOfClient DEF AcceptBlock, Session
<1>9. down[h] \in Seq([type : {"HASH"}, blocks : Seq(BlocksOf(h))])
      /\ (chunk[h] + Len(down[h])) * ChunkBlocks <= blocks_done /\ chunk[h] \in Nat
  BY <1>1, <1>8 DEF Acked, Scripts
<1>10. (chunk[h] + Len(down[h])) * ChunkBlocks \in Nat
  BY <1>2, <1>9
\* The last block of the image.
<1>11. CASE blocks_done' >= num_blocks' /\ tcp_update_server_result("ok")
  <2>1. client_pcb' = NoHost /\ attached' = {}
    BY <1>11, Closed
  <2>2. \A n \in BlockNos : flash'[p][AddrOf[n]] = Block(h, n)
    <3>1. \A n \in BlockNos : n < blocks_done + 1
      BY <1>2, <1>6, <1>11 DEF BlockNos
    <3> QED
      BY <1>5, <3>1 DEF Programmed
  <2>3. p' = p
    BY <1>6 DEF Other
  <2>4. Bootable(p)'
    BY <1>1, <2>2, <2>3 DEF Bootable, HoldsImage, Images
  <2>5. SuccessIsWhole'
    BY <2>4 DEF SuccessIsWhole
  <2> QED
    BY <2>1, <2>5, Gone
<1>12. CASE blocks_done' < num_blocks' /\ tcp_update_server_result("failed")
  <2>1. client_pcb' = NoHost /\ attached' = {} /\ outcome' = "failed"
    BY <1>8, <1>12, Closed
  <2> QED
    BY <2>1, Gone, SuccessNone
<1>13. CASE blocks_done' < num_blocks' /\ UNCHANGED <<client_pcb, attached, outcome>>
            /\ down'[h] \in Seq([type : {"HASH"}, blocks : Seq(BlocksOf(h))])
            /\ (chunk[h] + Len(down'[h])) * ChunkBlocks <= blocks_done + 1
  <2>1. SuccessIsWhole'
    BY <1>8, <1>13, SuccessNone
  <2>2. Acked'
    BY <1>6, <1>8, <1>13 DEF Acked, BlocksOf
  <2>3. p' = p /\ h' = h
    BY <1>6, <1>13 DEF Other
  <2>4. blocks_done' \in Nat /\ blocks_done' < ImageBlocks /\ num_blocks' \in {0, ImageBlocks}
    BY <1>2, <1>6, <1>13
  <2>5. Programmed(p, h, flash', blocks_done', highest_erased_sector')
    BY <1>5, <1>6, <1>7
  <2>6. Written'
    BY <2>3, <2>4, <2>5 DEF Written, Programmed, Sector, Erased, Block
  <2> QED
    BY <2>1, <2>2, <2>6
\* In the middle of a chunk.
<1>14. CASE blocks_done' < num_blocks' /\ UNCHANGED <<client_pcb, attached, outcome, down>>
  <2>1. (chunk[h] + Len(down[h])) * ChunkBlocks <= blocks_done + 1
    BY <1>2, <1>9, <1>10
  <2> QED
    BY <1>9, <1>13, <1>14, <2>1
\* The last block of a chunk.
<1>15. CASE blocks_done' < num_blocks' /\ at = ChunkBlocks /\ tcp_update_server_send_data
  <2>1. CASE tcp_update_server_result("failed")
    BY <1>12, <1>15, <2>1
  <2>2. CASE /\ down' = [down EXCEPT ![h] =
                           Append(@, [type |-> "HASH", blocks |-> buffer_recv])]
             /\ UNCHANGED <<client_pcb, attached, outcome>>
    <3>1. buffer_recv \in Seq(BlocksOf(h))
      BY <1>1 DEF Buffer
    <3>2. down'[h] = Append(down[h], [type |-> "HASH", blocks |-> buffer_recv])
      BY <1>1, <2>2 DEF Scripts
    <3>3. down'[h] \in Seq([type : {"HASH"}, blocks : Seq(BlocksOf(h))])
          /\ Len(down'[h]) = Len(down[h]) + 1
      BY <1>9, <3>1, <3>2
    <3>4. Len(down[h]) \in Nat /\ chunk[h] + Len(down[h]) \in Nat
      BY <1>9
    <3>5. (chunk[h] + Len(down[h]) + 1) * ChunkBlocks <= blocks_done + 1
      <4>1. Place = ChunkBlocks
        BY <1>1, <1>8, <1>15 DEF Loop
      <4> QED
        BY <1>2, <1>9, <3>4, <4>1, ChunkEnds
    <3>6. chunk[h] + Len(down'[h]) = chunk[h] + Len(down[h]) + 1
      <4> DEFINE l == Len(down[h])
                 m == Len(down'[h])
      <4>1. l \in Nat /\ m = l + 1 /\ chunk[h] \in Nat
        BY <1>9, <3>3, <3>4
      <4> HIDE DEF l, m
      <4>2. chunk[h] + m = chunk[h] + l + 1
        BY <4>1
      <4> QED
        BY <4>2 DEF l, m
    <3> QED
      BY <1>13, <1>15, <2>2, <3>3, <3>5, <3>6
  <2> QED
    BY <1>15, <2>1, <2>2 DEF tcp_update_server_send_data
<1> QED
  BY <1>11, <1>14, <1>15 DEF AcceptBlock

LEMMA AckedKept ==
  ASSUME Acked, UNCHANGED <<attached, blocks_done>>,
         \A h \in attached : chunk'[h] = chunk[h] /\ down'[h] = down[h]
  PROVE  Acked'
BY DEF Acked, BlocksOf, Block, Pad

LEMMA ProgressBlock ==
  ASSUME HomeInv, Session, Scripts, Buffer, Loop, Written, Acked, SectorsFromStart,
         "flash" \notin world.faults,
         BlockNext
  PROVE  Written' /\ Acked' /\ SuccessIsWhole'
<1>1. CASE RejectBlock
  <2>1. outcome = "none" /\ tcp_update_server_result("failed")
    BY <1>1, BusyOfClient DEF RejectBlock
  <2>2. client_pcb' = NoHost /\ attached' = {} /\ outcome' = "failed"
    BY <2>1, Closed
  <2> QED
    BY <2>2, Gone, SuccessNone
<1> QED
  BY <1>1, ProgressAccept DEF BlockNext

LEMMA ProgressMain ==
  ASSUME Session, Written, Acked, SuccessIsWhole, UNCHANGED world,
         MainNext \/ main_join_fails \/ TryBeforeYouBuyExpires \/ PowerCycle
  PROVE  Written' /\ Acked' /\ SuccessIsWhole'
<1>1. ASSUME UNCHANGED <<client_pcb, blocks_done, num_blocks, highest_erased_sector, flash,
                         running, attached, chunk, down>>,
             outcome' = "ok" => outcome = "ok"
      PROVE  Written' /\ Acked' /\ SuccessIsWhole'
  BY <1>1, WrittenKept, AckedKept, SuccessKept
<1>2. CASE main_join \/ main_join_fails
  BY <1>1, <1>2 DEF main_join, main_join_fails, serverVars, hostVars
<1>3. CASE tcp_update_server_open
  BY <1>1, <1>3 DEF tcp_update_server_open, hostVars
<1>4. CASE main_reboot
  <2>1. client_pcb = NoHost
    BY <1>4 DEF main_reboot, Session
  <2>2. client_pcb' = NoHost /\ attached' = {} /\ UNCHANGED <<outcome, flash, running>>
    BY <1>4, <2>1 DEF main_reboot
  <2> QED
    BY <2>2, Gone, SuccessKept
<1>5. CASE Bootrom \/ TryBeforeYouBuyExpires \/ PowerCycle
  <2>1. client_pcb' = NoHost /\ attached' = {} /\ outcome' = "none"
    BY <1>5 DEF Bootrom, TryBeforeYouBuyExpires, PowerCycle, ServerReset
  <2> QED
    BY <2>1, Gone, SuccessNone
<1> QED
  BY <1>2, <1>3, <1>4, <1>5 DEF MainNext

LEMMA ProgressServer ==
  ASSUME Session, Scripts, Written, Acked, SuccessIsWhole, UNCHANGED world,
         NEW h \in Hosts, ServerNext(h) \/ FaultNext(h)
  PROVE  Written' /\ Acked' /\ SuccessIsWhole'
<1>1. CASE tcp_update_server_accept(h)
  <2>1. /\ client_pcb' = h /\ attached' = {h} /\ h # NoHost
        /\ UNCHANGED <<blocks_done, num_blocks, highest_erased_sector, outcome, flash,
                       running, chunk, down>>
    BY <1>1, AcceptAlone, HostsAssumption DEF tcp_update_server_accept, bootVars, Session
  <2>2. blocks_done = 0 /\ num_blocks = 0 /\ highest_erased_sector = 0
    BY <1>1, AcceptAlone DEF Fresh
  <2>3. chunk[h] = 0 /\ down[h] = <<>>
    BY <1>1 DEF tcp_update_server_accept, Scripts
  <2>4. ImageBlocks \in Nat \ {0} /\ ChunkBlocks \in Nat \ {0} /\ SectorCells \in Nat \ {0}
        /\ Cells \in Nat
    BY SizesAssumption
  <2>5. ASSUME NEW c \in 0..(Cells - 1)
        PROVE  (c \div SectorCells) + 1 # 0
    <3>1. c \in Nat
      BY <2>4
    <3>2. c \div SectorCells \in Nat
      BY <2>4, <3>1, DivMonotone
    <3> QED
      BY <3>2
  <2>6. Programmed(Other(running), h, flash, 0, 0)
    BY <2>4, <2>5 DEF Programmed, BlockNos
  <2>7. Other(running)' = Other(running)
    BY <2>1 DEF Other
  <2>8. Programmed(Other(running), h, flash', blocks_done', highest_erased_sector')
    BY <2>1, <2>2, <2>6
  <2>9. Written'
    BY <2>1, <2>2, <2>4, <2>7, <2>8 DEF Written, Programmed, Sector, Erased, Block
  <2>10. down'[h] = <<>> /\ (chunk'[h] + Len(down'[h])) * ChunkBlocks = 0
    BY <2>1, <2>3, <2>4
  <2>11. Acked'
    <3>1. down'[h] \in Seq([type : {"HASH"}, blocks : Seq(BlocksOf(h))])
      BY <2>10
    <3>2. (chunk'[h] + Len(down'[h])) * ChunkBlocks <= blocks_done'
      BY <2>1, <2>2, <2>10
    <3> QED
      BY <2>1, <3>1, <3>2 DEF Acked, BlocksOf, Block, Pad
  <2>12. SuccessIsWhole'
    BY <2>1, SuccessKept
  <2> QED
    BY <2>9, <2>11, <2>12
<1>2. CASE tcp_update_server_sent(h) \/ RecvData(h) \/ Unattended(h)
  <2>1. UNCHANGED <<client_pcb, blocks_done, num_blocks, highest_erased_sector, flash,
                    running, attached, chunk, down, outcome>>
    BY <1>2 DEF tcp_update_server_sent, RecvData, Unattended, serverVars, bootVars
  <2> QED
    BY <2>1, WrittenKept, AckedKept, SuccessKept
<1>3. CASE RecvClosed(h) \/ tcp_update_server_poll(h) \/ tcp_update_server_err(h)
  <2>1. Callback(h)
    BY <1>3 DEF RecvClosed, tcp_update_server_poll, tcp_update_server_err
  <2>2. client_pcb = h /\ outcome = "none" /\ attached = {h}
    BY <2>1, CallbackOfClient DEF Session
  <2>3. client_pcb' = NoHost /\ attached' = {} /\ outcome' = "failed"
    BY <1>3, <2>2 DEF RecvClosed, tcp_update_server_poll, tcp_update_server_err,
                      tcp_update_server_result
  <2> QED
    BY <2>3, Gone, SuccessNone
<1> QED
  BY <1>1, <1>2, <1>3 DEF ServerNext, FaultNext

LEMMA ProgressHost ==
  ASSUME Session, Scripts, Written, Acked, SuccessIsWhole, UNCHANGED world,
         NEW h \in Hosts, HostNext(h) \/ Start(h)
  PROVE  Written' /\ Acked' /\ SuccessIsWhole'
<1>1. UNCHANGED <<client_pcb, blocks_done, num_blocks, highest_erased_sector, flash,
                  running, attached, outcome>>
  BY DEF HostNext, Start, Refused, SendChunk, ReadHash, ReadEnd, Close, serverVars, bootVars
<1>2. Written' /\ SuccessIsWhole'
  BY <1>1, WrittenKept, SuccessKept
<1>3. CASE UNCHANGED <<chunk, down>>
  BY <1>1, <1>2, <1>3, AckedKept
<1>4. CASE Start(h)
  <2>1. h \notin attached /\ attached \subseteq Hosts
    BY <1>4 DEF Start, Busy, Session
  <2>2. \A g \in attached : chunk'[g] = chunk[g] /\ down'[g] = down[g]
    BY <1>4, <2>1 DEF Start, Scripts
  <2> QED
    BY <1>1, <1>2, <2>2, AckedKept
<1>5. CASE ReadHash(h)
  <2>1. down[h] # <<>> /\ down' = [down EXCEPT ![h] = Tail(@)]
        /\ \/ chunk' = [chunk EXCEPT ![h] = @ + 1]
           \/ UNCHANGED chunk
    BY <1>5 DEF ReadHash
  <2>2. ASSUME NEW g \in attached
        PROVE  /\ down'[g] \in Seq([type : {"HASH"}, blocks : Seq(BlocksOf(g))])
               /\ (chunk'[g] + Len(down'[g])) * ChunkBlocks <= blocks_done
    <3> DEFINE Hashes == [type : {"HASH"}, blocks : Seq(BlocksOf(g))]
    <3>1. /\ down[g] \in Seq(Hashes) /\ chunk[g] \in Nat /\ g \in Hosts /\ client_pcb = g
          /\ (chunk[g] + Len(down[g])) * ChunkBlocks <= blocks_done
      BY <2>2 DEF Acked, Session, Scripts
    <3> HIDE DEF Hashes
    <3>2. CASE g # h
      BY <2>1, <3>1, <3>2 DEF Scripts, Hashes
    <3>3. CASE g = h
      <4>1. down'[h] = Tail(down[h]) /\ chunk'[h] \in {chunk[h], chunk[h] + 1}
        BY <2>1, <3>1, <3>3 DEF Scripts
      <4>2. down'[h] \in Seq(Hashes) /\ Len(down'[h]) = Len(down[h]) - 1
            /\ Len(down[h]) \in Nat \ {0}
        <5>1. down[h] \in Seq(Hashes) /\ down[h] # <<>>
          BY <2>1, <3>1, <3>3
        <5> QED
          BY <4>1, <5>1
      <4> DEFINE k == chunk'[h] + Len(down'[h])
                 l == chunk[h] + Len(down[h])
      <4>3. k \in Nat /\ l \in Nat /\ k <= l
        <5> DEFINE m == Len(down[h])
                   n == Len(down'[h])
                   a == chunk[h]
                   b == chunk'[h]
        <5>1. m \in Nat \ {0} /\ n = m - 1 /\ a \in Nat /\ b \in {a, a + 1}
          BY <3>1, <3>3, <4>1, <4>2
        <5> HIDE DEF m, n, a, b
        <5>2. b + n \in Nat /\ a + m \in Nat /\ b + n <= a + m
          BY <5>1
        <5> QED
          BY <5>2 DEF m, n, a, b
      <4>4. blocks_done \in Nat /\ ChunkBlocks \in Nat
        BY <3>1, HostsAssumption, SizesAssumption DEF Written
      <4>5. l * ChunkBlocks <= blocks_done
        BY <3>1, <3>3
      <4> HIDE DEF k, l
      <4>6. k * ChunkBlocks <= l * ChunkBlocks
        BY <4>3, <4>4
      <4>7. k * ChunkBlocks <= blocks_done
        BY <4>3, <4>4, <4>5, <4>6
      <4> QED
        BY <3>3, <4>2, <4>7 DEF k, Hashes
    <3> QED
      BY <3>2, <3>3
  <2>3. Acked'
    BY <1>1, <2>2 DEF Acked, BlocksOf, Block, Pad
  <2> QED
    BY <1>2, <2>3
<1>6. CASE Refused(h) \/ SendChunk(h) \/ ReadEnd(h) \/ Close(h)
  BY <1>3, <1>6 DEF Refused, SendChunk, ReadEnd, Close
<1> QED
  BY <1>4, <1>5, <1>6 DEF HostNext

-----------------------------------------------------------------------------
(* All together. *)

OrderlyInv == HomeInv /\ (Orderly => OrderInv)

LEMMA OrderInit == Init => OrderlyInv
<1> SUFFICES ASSUME Init PROVE OrderInv
  BY HomeInit DEF OrderlyInv
<1>1. Session
  BY DEF Init, Session, Fresh
<1>2. Scripts
  <2>1. DOMAIN script = Hosts /\ DOMAIN chunk = Hosts /\ DOMAIN up = Hosts /\ DOMAIN down = Hosts
        /\ \A h \in Hosts : /\ script[h] = "idle" /\ chunk[h] = 0 /\ up[h] = <<>>
    BY DEF Init
  <2>2. \A h \in Hosts : ~Busy(h)
    BY <2>1 DEF Busy, Live, Init
  <2>3. ASSUME NEW h \in Hosts
        PROVE  /\ chunk[h] \in Nat /\ up[h] \in Seq(Wire(h))
               /\ script[h] \notin {"connecting", "sending", "reading"}
    <3>1. <<>> \in Seq(Wire(h))
      OBVIOUS
    <3>2. script[h] = "idle" /\ chunk[h] = 0 /\ up[h] = <<>>
      BY <2>1, <2>3
    <3> QED
      BY <3>1, <3>2
  <2>4. \A g, h \in Hosts : Busy(g) /\ Busy(h) => g = h
    BY <2>2
  <2> HIDE DEF Busy, Wire
  <2> QED
    BY <2>1, <2>3, <2>4 DEF Scripts
<1>3. Stream /\ Buffer /\ Loop /\ Written /\ Acked
  BY DEF Init, Stream, Buffer, Loop, Written, Acked
<1>4. SuccessIsWhole
  BY DEF Init, SuccessIsWhole
<1> QED
  BY <1>1, <1>2, <1>3, <1>4 DEF OrderInv

LEMMA OrderStep ==
  ASSUME HomeInv, OrderInv, Orderly, Next
  PROVE  OrderInv'
<1> USE DEF OrderInv
<1>1. UNCHANGED world /\ Step /\ "flash" \notin world.faults /\ ~world.overlap
      /\ SectorsFromStart
  BY DEF Next, Orderly
<1>2. CASE BlockNext
  BY <1>1, <1>2, SessionBlock, ScriptsBlock, StreamBlock, LoopBlock, ProgressBlock
<1>3. CASE MainNext \/ main_join_fails \/ TryBeforeYouBuyExpires \/ PowerCycle
  BY <1>1, <1>3, SessionMain, ScriptsMain, StreamMain, LoopMain, ProgressMain
<1>4. ASSUME NEW h \in Hosts, ServerNext(h) \/ FaultNext(h)
      PROVE  OrderInv'
  <2>1. Session'
    BY <1>4, SessionRest
  <2>2. Scripts' /\ Stream' /\ Buffer' /\ Loop'
    BY <1>4, ScriptsServerNext, StreamServer, LoopRest
  <2>3. Written' /\ Acked' /\ SuccessIsWhole'
    BY <1>1, <1>4, ProgressServer
  <2> QED
    BY <2>1, <2>2, <2>3
<1>5. ASSUME NEW h \in Hosts, HostNext(h) \/ Start(h)
      PROVE  OrderInv'
  <2>1. Session'
    BY <1>5, SessionRest
  <2>2. Scripts' /\ Stream' /\ Buffer' /\ Loop'
    BY <1>1, <1>5, ScriptsHost, StreamHost, LoopRest
  <2>3. Written' /\ Acked' /\ SuccessIsWhole'
    BY <1>1, <1>5, ProgressHost
  <2> QED
    BY <2>1, <2>2, <2>3
<1> QED
  BY <1>1, <1>2, <1>3, <1>4, <1>5 DEF Step

LEMMA OrderNext == OrderlyInv /\ [Next]_vars => OrderlyInv'
<1> SUFFICES ASSUME OrderlyInv, [Next]_vars PROVE OrderlyInv'
  OBVIOUS
<1>1. HomeInv'
  BY HomeNext DEF OrderlyInv
<1>2. Orderly' => Orderly
  BY DEF Orderly, Next, vars
<1>3. CASE Next
  BY <1>1, <1>2, <1>3, OrderStep DEF OrderlyInv
<1>4. CASE UNCHANGED vars
  <2> SUFFICES ASSUME Orderly, OrderInv PROVE OrderInv'
    BY <1>1, <1>2 DEF OrderlyInv
  <2>1. UNCHANGED <<serverVars, bootVars, hostVars, flash, world>>
    BY <1>4 DEF vars
  <2>2. Session'
    BY <2>1, SessionKept DEF OrderInv, serverVars, bootVars
  <2>3. Scripts'
    BY <2>1, ScriptsServer DEF OrderInv, serverVars, hostVars, Scripts
  <2>4. Stream' /\ Buffer' /\ Loop'
    BY <2>1, StreamKept, LoopKept DEF OrderInv, serverVars, hostVars
  <2>5. Written' /\ Acked' /\ SuccessIsWhole'
    BY <2>1, WrittenKept, AckedKept, SuccessKept DEF OrderInv, serverVars, bootVars, hostVars
  <2> QED
    BY <2>2, <2>3, <2>4, <2>5 DEF OrderInv
<1> QED
  BY <1>3, <1>4

\* A server that reports success has a whole image in the partition it will ask the
\* bootrom to try, if the image enters every sector at its start, however its chunks were cut on the way, whatever connection or
\* power failure came before and whatever padding the last chunk carried.
THEOREM SuccessTold == Spec => []SuccessIsWhole
<1>1. OrderlyInv => SuccessIsWhole
  BY DEF OrderlyInv, OrderInv, SuccessIsWhole
<1> QED
  BY <1>1, OrderInit, OrderNext, PTL DEF Spec

\* Every chunk of such an image whose hash has reached the script is in flash, block by
\* block, as long as its connection is served.
THEOREM HashMeansProgrammed == Spec => []AckedIsProgrammed
<1>1. ASSUME OrderlyInv
      PROVE  AckedIsProgrammed
  <2> SUFFICES ASSUME Orderly, NEW h \in attached, client_pcb = h,
                      NEW n \in BlockNos, n < chunk[h] * ChunkBlocks
               PROVE  flash[Other(running)][AddrOf[n]] = Block(h, n)
    BY DEF AckedIsProgrammed
  <2>1. OrderInv
    BY <1>1 DEF OrderlyInv
  <2>2. h \in Hosts /\ h # NoHost /\ chunk[h] \in Nat
    BY <2>1 DEF OrderInv, Session, Scripts
  <2>3. blocks_done \in Nat
        /\ Programmed(Other(running), h, flash, blocks_done, highest_erased_sector)
    BY <2>1, <2>2 DEF OrderInv, Written
  <2>4. Len(down[h]) \in Nat /\ (chunk[h] + Len(down[h])) * ChunkBlocks <= blocks_done
    <3>1. down[h] \in Seq([type : {"HASH"}, blocks : Seq(BlocksOf(h))])
          /\ (chunk[h] + Len(down[h])) * ChunkBlocks <= blocks_done
      BY <2>1 DEF OrderInv, Acked
    <3> QED
      BY <3>1
  <2>5. ChunkBlocks \in Nat /\ n \in Nat
    BY SizesAssumption DEF BlockNos
  <2> DEFINE k == chunk[h]
             l == Len(down[h])
  <2> HIDE DEF k, l
  <2>6. k \in Nat /\ l \in Nat /\ n < k * ChunkBlocks /\ (k + l) * ChunkBlocks <= blocks_done
    BY <2>2, <2>4 DEF k, l
  <2>7. (k + l) * ChunkBlocks = k * ChunkBlocks + l * ChunkBlocks
        /\ l * ChunkBlocks \in Nat /\ k * ChunkBlocks \in Nat
    BY <2>5, <2>6
  <2>8. n < blocks_done
    BY <2>3, <2>5, <2>6, <2>7
  <2> QED
    BY <2>3, <2>8 DEF Programmed
<1> QED
  BY <1>1, OrderInit, OrderNext, PTL DEF Spec

=============================================================================
