------------------------------ MODULE OtaUpdate ------------------------------
(***************************************************************************)
(* The over-the-air update of pico_w/wifi/ota_update: the lwIP callbacks   *)
(* of the device's TCP server, its main(), and the host script that pushes *)
(* a UF2 image chunk by chunk, each chunk but the last answered by a hash. *)
(*                                                                         *)
(* A callback runs alone (lwIP context); the power may fail between two    *)
(* blocks of a chunk all the same, so the loop over a chunk takes one step *)
(* per block, with `busy` naming the connection whose callback is running. *)
(* Lengths count UF2 blocks; a flash cell is the 256 bytes one block       *)
(* programs.  The bootrom (target partition, reboot, try-before-you-buy)   *)
(* and TCP are external.                                                   *)
(***************************************************************************)
EXTENDS Integers, Sequences, FiniteSets

CONSTANTS
  Hosts,         \* the host scripts, each pushing an image of its own
  NoHost,
  Factory,       \* the image on the device at first
  ImageBlocks,   \* numBlocks of a UF2 file
  Family,        \* familyID of each image
  AddrOf,        \* target_addr of each block, in flash cells from XIP_BASE
  Cells,         \* flash cells of a partition
  ChunkBlocks,   \* BUF_SIZE / sizeof(uf2_block_t)
  SectorCells,   \* FLASH_SECTOR_ERASE_SIZE / 256
  Worlds         \* what may happen: may a script start while the device is busy
                 \* with another, and which faults there are

Images == Hosts \cup {Factory}
BlockNos == 0..(ImageBlocks - 1)

ASSUME HostsAssumption == NoHost \notin Hosts /\ Factory \notin Hosts /\ NoHost # Factory
ASSUME SizesAssumption ==
  /\ ImageBlocks \in Nat \ {0} /\ ChunkBlocks \in Nat \ {0}
  /\ SectorCells \in Nat \ {0} /\ Cells \in Nat \ {0}
\* A UF2 file lists its blocks by rising address, the first is where the image
\* starts, and the partition has room for them all (write_size is never looked at).
ASSUME ImageAssumption ==
  /\ AddrOf \in [BlockNos -> 0..(Cells - 1)]
  /\ AddrOf[0] = 0
  /\ \A m, n \in BlockNos : m < n => AddrOf[m] < AddrOf[n]
ASSUME WorldsAssumption ==
  Worlds \subseteq [overlap : BOOLEAN,
                    faults : SUBSET {"timeout", "reset", "memory", "flash", "power", "wifi"}]

VARIABLES
  world,      \* one of Worlds
  \* the device: TCP_UPDATE_SERVER_T, one field each
  complete, client_pcb, listening,
  buffer_recv, buffer_sent, sent_len, num_blocks, blocks_done, family_id,
  flash_update, highest_erased_sector,
  attached,   \* connections whose tcp_arg is the state: their callbacks run
  busy,       \* the connection whose recv callback is in the block loop
  at,         \* which block of the buffer the loop is at (its i), from 1; 0 outside it
  outcome,    \* status given to tcp_update_server_result, which it only prints
  \* flash and bootrom
  flash,      \* partition -> cell -> contents
  running,    \* the partition the device runs from
  home,       \* the partition bought last: where a plain boot goes
  mode,       \* where main() is: see Modes
  \* the hosts and the two directions of their connections
  script, chunk, up, down

serverVars == <<complete, client_pcb, listening, buffer_recv, buffer_sent, sent_len,
                num_blocks, blocks_done, family_id, flash_update,
                highest_erased_sector, attached, busy, at, outcome>>
hostVars == <<script, chunk, up, down>>
bootVars == <<running, home, mode>>
vars == <<world, serverVars, flash, bootVars, hostVars>>

Partitions == {"A", "B"}
Other(p) == IF p = "A" THEN "B" ELSE "A"

\* A UF2 block of an image; Pad is the zeroes that fill the last chunk.
Block(img, n) == [img |-> img, no |-> n]
Pad == Block(NoHost, 0)
Blocks == [img : Images, no : BlockNos] \cup {Pad}
FamilyOf(b) == IF b = Pad THEN 0 ELSE Family[b.img]
Erased == Block(NoHost, 0)
Mixed == Block(NoHost, 1)     \* programmed without an erase, or twice differently

Chunks == (ImageBlocks + ChunkBlocks - 1) \div ChunkBlocks

\* Chunk i of the padded file.
ChunkOf(h, i) ==
  [k \in 1..ChunkBlocks |->
     LET n == i * ChunkBlocks + k - 1 IN IF n \in BlockNos THEN Block(h, n) ELSE Pad]

HoldsImage(p, img) == \A n \in BlockNos : flash[p][AddrOf[n]] = Block(img, n)

\* An image that is not whole is not bootable.
Bootable(p) == \E img \in Images : HoldsImage(p, img)

-----------------------------------------------------------------------------
(* The device's server. *)

\* tcp_update_server_init and tcp_update_server_open: a zeroed state, listening.
ServerReset ==
  /\ complete' = FALSE
  /\ client_pcb' = NoHost
  /\ buffer_recv' = <<>>
  /\ buffer_sent' = <<>>
  /\ sent_len' = 0
  /\ num_blocks' = 0
  /\ blocks_done' = 0
  /\ family_id' = 0
  /\ flash_update' = 0
  /\ highest_erased_sector' = 0
  /\ attached' = {}
  /\ busy' = NoHost
  /\ at' = 0
  /\ outcome' = "none"

\* tcp_update_server_result with tcp_update_server_close: the client's callbacks
\* are removed and its connection closed, or reset when lwIP has no memory to
\* close it; the listener goes too.
tcp_update_server_result(status) ==
  /\ complete' = TRUE
  /\ outcome' = IF outcome = "none" THEN status ELSE outcome
  /\ attached' = attached \ {client_pcb}
  /\ IF client_pcb = NoHost THEN UNCHANGED down
     ELSE \E last \in {"FIN"} \cup (IF "memory" \in world.faults THEN {"RST"} ELSE {}) :
            down' = [down EXCEPT ![client_pcb] = Append(@, [type |-> last])]
  /\ client_pcb' = NoHost
  /\ listening' = FALSE

\* The callbacks of a connection run only while it is attached, one at a time.
Callback(h) == mode = "serving" /\ h \in attached /\ busy = NoHost

Consume(h) == up' = [up EXCEPT ![h] = Tail(@)]
Arrived(h, type) == up[h] # <<>> /\ Head(up[h]).type = type

tcp_update_server_accept(h) ==
  /\ mode = "serving" /\ listening /\ busy = NoHost
  /\ script[h] = "connecting"
  /\ client_pcb' = h
  /\ attached' = attached \cup {h}
  /\ script' = [script EXCEPT ![h] = "sending"]
  /\ UNCHANGED <<complete, listening, buffer_recv, buffer_sent, sent_len, num_blocks,
                 blocks_done, family_id, flash_update, highest_erased_sector, busy, at,
                 outcome, flash, bootVars, chunk, up, down>>

\* recv_len left alone: the old chunk stays in the buffer.
M_SentKeepsBuffer(h) ==
  /\ Callback(h) /\ Arrived(h, "ACK")
  /\ Consume(h)
  /\ sent_len' = sent_len + 1
  /\ UNCHANGED <<complete, client_pcb, listening, buffer_recv, buffer_sent, num_blocks,
                 blocks_done, family_id, flash_update, highest_erased_sector, attached,
                 busy, at, outcome, flash, bootVars, script, chunk, down>>

\* The whole hash acknowledged: ready for the next chunk.
tcp_update_server_sent(h) ==
  /\ Callback(h) /\ Arrived(h, "ACK")
  /\ Consume(h)
  /\ sent_len' = sent_len + 1
  /\ buffer_recv' = IF sent_len' >= 1 THEN <<>> ELSE buffer_recv
  /\ UNCHANGED <<complete, client_pcb, listening, buffer_sent, num_blocks, blocks_done,
                 family_id, flash_update, highest_erased_sector, attached, busy, at,
                 outcome, flash, bootVars, script, chunk, down>>

\* The other side closed: recv with a null pbuf.
RecvClosed(h) ==
  /\ Callback(h) /\ Arrived(h, "FIN")
  /\ Consume(h)
  /\ tcp_update_server_result("failed")
  /\ UNCHANGED <<buffer_recv, buffer_sent, sent_len, num_blocks, blocks_done, family_id,
                 flash_update, highest_erased_sector, busy, at, flash, bootVars,
                 script, chunk>>

\* Data: as much as fits is copied behind what is there; the loop over the blocks
\* starts when the buffer is full.
RecvData(h) ==
  /\ Callback(h) /\ Arrived(h, "DATA")
  /\ Consume(h)
  /\ LET data == buffer_recv \o Head(up[h]).blocks
         full == Len(data) >= ChunkBlocks
     IN  /\ buffer_recv' = IF full THEN SubSeq(data, 1, ChunkBlocks) ELSE data
         /\ busy' = IF full THEN h ELSE NoHost
         /\ at' = IF full THEN 1 ELSE 0
  /\ UNCHANGED <<complete, client_pcb, listening, buffer_sent, sent_len, num_blocks,
                 blocks_done, family_id, flash_update, highest_erased_sector, attached,
                 outcome, flash, bootVars, script, chunk, down>>

Sector(n) == (AddrOf[n] \div SectorCells) + 1    \* XIP_BASE lies above sector 0

\* One sector too many is taken for erased.
M_EraseLate(n) == Sector(n) > highest_erased_sector + 1

\* No erase at all.
M_NeverErase(n) == FALSE

\* A sector is erased when a block first reaches it.
NeedsErase(n) == Sector(n) > highest_erased_sector

\* Erase, if due, and program block b of the target partition, each flash
\* operation done only if the flag given says so: its result is discarded.  The erase
\* takes a sector's worth of cells from the block's own address on, and the bootrom
\* refuses it when that is not where a sector starts.
WriteBlock(b, erased, programmed) ==
  LET p == Other(running)
      a == AddrOf[b.no]
      f == [c \in 0..(Cells - 1) |->
              IF /\ NeedsErase(b.no) /\ erased
                 /\ a % SectorCells = 0 /\ c \in a..(a + SectorCells - 1)
              THEN Erased ELSE flash[p][c]]
  IN  flash' = [flash EXCEPT ![p] =
        IF ~ programmed THEN f
        ELSE [f EXCEPT ![a] = IF @ \in {Erased, b} THEN b ELSE Mixed]]

\* One round of the loop with a block the checks reject.
RejectBlock ==
  /\ busy # NoHost
  /\ LET b == buffer_recv[at]
     IN  /\ \/ b.no # blocks_done
            \/ num_blocks # 0 /\ FamilyOf(b) # family_id
         /\ IF num_blocks = 0
            THEN /\ num_blocks' = ImageBlocks
                 /\ family_id' = FamilyOf(b)
                 /\ flash_update' = 1
            ELSE UNCHANGED <<num_blocks, family_id, flash_update>>
  /\ busy' = NoHost /\ at' = 0
  /\ tcp_update_server_result("failed")
  /\ UNCHANGED <<buffer_recv, buffer_sent, sent_len, blocks_done, highest_erased_sector,
                 flash, bootVars, script, chunk, up>>

\* The hash of the buffer goes to client_pcb, whoever sent the chunk.
tcp_update_server_send_data ==
  /\ buffer_sent' = buffer_recv
  /\ sent_len' = 0
  /\ \/ /\ client_pcb # NoHost
        /\ down' = [down EXCEPT ![client_pcb] =
                      Append(@, [type |-> "HASH", blocks |-> buffer_recv])]
        /\ UNCHANGED <<complete, client_pcb, listening, attached, outcome>>
     \/ /\ client_pcb = NoHost \/ "memory" \in world.faults
        /\ tcp_update_server_result("failed")

\* One round of the loop with a block in order: initialise from the first, write
\* it, and after the last of the image finish, after the last of the chunk answer.
AcceptBlock ==
  /\ busy # NoHost
  /\ LET b == buffer_recv[at]
     IN  /\ b.no = blocks_done
         /\ num_blocks # 0 => FamilyOf(b) = family_id
         /\ num_blocks' = IF num_blocks = 0 THEN ImageBlocks ELSE num_blocks
         /\ family_id' = FamilyOf(b)
         /\ flash_update' = 1
         /\ \E erased, programmed \in (IF "flash" \in world.faults THEN BOOLEAN ELSE {TRUE}) :
              WriteBlock(b, erased, programmed)
         /\ highest_erased_sector' =
              IF NeedsErase(b.no) THEN Sector(b.no) ELSE highest_erased_sector
         /\ blocks_done' = blocks_done + 1
         /\ \/ /\ blocks_done' >= num_blocks'
               /\ busy' = NoHost /\ at' = 0
               /\ tcp_update_server_result("ok")
               /\ UNCHANGED <<buffer_sent, sent_len>>
            \/ /\ blocks_done' < num_blocks' /\ at < ChunkBlocks
               /\ at' = at + 1
               /\ UNCHANGED <<complete, client_pcb, listening, buffer_sent, sent_len,
                              attached, busy, outcome, down>>
            \/ /\ blocks_done' < num_blocks' /\ at = ChunkBlocks
               /\ busy' = NoHost /\ at' = 0
               /\ tcp_update_server_send_data
  /\ UNCHANGED <<buffer_recv, bootVars, script, chunk, up>>

\* The poll callback only returns.
M_PollIgnores(h) == Callback(h) /\ "timeout" \in world.faults /\ UNCHANGED vars

\* No acknowledgement for a whole poll interval.
tcp_update_server_poll(h) ==
  /\ Callback(h) /\ "timeout" \in world.faults
  /\ tcp_update_server_result("failed")
  /\ UNCHANGED <<buffer_recv, buffer_sent, sent_len, num_blocks, blocks_done, family_id,
                 flash_update, highest_erased_sector, busy, at, flash, bootVars,
                 script, chunk, up>>

Live == {"connecting", "sending", "reading", "closing"}
Broken(hs) ==
  /\ script' = [h \in Hosts |-> IF h \in hs /\ script[h] \in Live THEN "error" ELSE script[h]]
  /\ up' = [h \in Hosts |-> IF h \in hs THEN <<>> ELSE up[h]]
  /\ down' = [h \in Hosts |-> IF h \in hs THEN <<>> ELSE down[h]]

\* The connection is reset; lwIP has already dropped it.
tcp_update_server_err(h) ==
  /\ Callback(h) /\ "reset" \in world.faults
  /\ complete' = TRUE
  /\ outcome' = IF outcome = "none" THEN "failed" ELSE outcome
  /\ attached' = attached \ {h, client_pcb}
  /\ client_pcb' = NoHost
  /\ listening' = FALSE
  /\ Broken({h, client_pcb})
  /\ UNCHANGED <<buffer_recv, buffer_sent, sent_len, num_blocks, blocks_done, family_id,
                 flash_update, highest_erased_sector, busy, at, flash, bootVars, chunk>>

\* What arrives on a connection with no callbacks is dropped by lwIP.
Unattended(h) ==
  /\ mode = "serving" /\ h \notin attached /\ up[h] # <<>>
  /\ Consume(h)
  /\ UNCHANGED <<serverVars, flash, bootVars, script, chunk, down>>

-----------------------------------------------------------------------------
(* main() and the bootrom. *)

\* "boot" and "updateBoot": connecting to Wi-Fi, after a plain or a flash-update
\* boot; "open": about to listen; "halted": main has returned.
Modes == {"boot", "updateBoot", "open", "serving", "rebooting", "halted"}

\* rom_explicit_buy forgotten.
M_JoinWithoutBuying ==
  /\ mode \in {"boot", "updateBoot"}
  /\ mode' = "open"
  /\ UNCHANGED <<running, home, serverVars, flash, hostVars>>

\* Wi-Fi is up; after a flash-update boot the running image is bought.
main_join ==
  /\ mode \in {"boot", "updateBoot"}
  /\ mode' = "open"
  /\ home' = IF mode = "updateBoot" THEN running ELSE home
  /\ UNCHANGED <<running, serverVars, flash, hostVars>>

main_join_fails ==
  /\ mode \in {"boot", "updateBoot"} /\ "wifi" \in world.faults
  /\ mode' = "halted"
  /\ UNCHANGED <<running, home, serverVars, flash, hostVars>>

tcp_update_server_open ==
  /\ mode = "open"
  /\ \/ /\ mode' = "serving" /\ listening' = TRUE
        /\ UNCHANGED <<complete, outcome>>
     \/ /\ "memory" \in world.faults
        /\ mode' = "halted" /\ complete' = TRUE /\ outcome' = "failed"
        /\ UNCHANGED listening
  /\ UNCHANGED <<client_pcb, buffer_recv, buffer_sent, sent_len, num_blocks, blocks_done,
                 family_id, flash_update, highest_erased_sector, attached, busy, at,
                 running, home, flash, hostVars>>

\* complete is seen: the network goes down and a flash-update reboot is asked for.
main_reboot ==
  /\ mode = "serving" /\ complete /\ busy = NoHost
  /\ mode' = "rebooting"
  /\ attached' = {}
  /\ Broken(Hosts)
  /\ UNCHANGED <<complete, client_pcb, listening, buffer_recv, buffer_sent, sent_len,
                 num_blocks, blocks_done, family_id, flash_update,
                 highest_erased_sector, busy, at, outcome, running, home, flash, chunk>>

\* rom_reboot(FLASH_UPDATE, flash_update): the partition named is tried if there
\* is one and its image is bootable.
Bootrom ==
  /\ mode = "rebooting"
  /\ mode' = "updateBoot"
  /\ running' = IF flash_update # 0 /\ Bootable(Other(running)) THEN Other(running) ELSE running
  /\ ServerReset /\ listening' = FALSE
  /\ UNCHANGED <<home, flash, hostVars>>

\* An image not bought in time is given up (the Wi-Fi timeout of 30 s is longer
\* than the 16.7 s the bootrom allows).
TryBeforeYouBuyExpires ==
  /\ running # home
  /\ mode = "halted" \/ (mode = "updateBoot" /\ "wifi" \in world.faults)
  /\ mode' = "boot" /\ running' = home
  /\ ServerReset /\ listening' = FALSE
  /\ UNCHANGED <<home, flash, hostVars>>

\* The power fails at any moment, in the middle of a chunk too.
PowerCycle ==
  /\ "power" \in world.faults
  /\ mode' = "boot" /\ running' = home
  /\ ServerReset /\ listening' = FALSE
  /\ Broken(Hosts)
  /\ UNCHANGED <<home, flash, chunk>>

-----------------------------------------------------------------------------
(* The host script. *)

Busy(h) == script[h] \in Live \/ h \in attached \/ up[h] # <<>>

Start(h) ==
  /\ script[h] \in {"idle", "done", "error"} /\ ~ Busy(h)
  /\ world.overlap \/ \A g \in Hosts : ~ Busy(g)
  /\ script' = [script EXCEPT ![h] = "connecting"]
  /\ chunk' = [chunk EXCEPT ![h] = 0]
  /\ down' = [down EXCEPT ![h] = <<>>]
  /\ UNCHANGED <<serverVars, flash, bootVars, up>>

Refused(h) ==
  /\ script[h] = "connecting" /\ (mode # "serving" \/ ~ listening)
  /\ script' = [script EXCEPT ![h] = "error"]
  /\ UNCHANGED <<serverVars, flash, bootVars, chunk, up, down>>

\* A chunk is sent whole and may arrive in two segments; the last one is not
\* followed by a read of its hash.
SendChunk(h) ==
  /\ script[h] = "sending"
  /\ \E cut \in 0..(ChunkBlocks - 1) :
       LET c == ChunkOf(h, chunk[h])
           seg(b) == [type |-> "DATA", blocks |-> b]
       IN  up' = [up EXCEPT ![h] = @ \o
             (IF cut = 0 THEN <<seg(c)>>
              ELSE <<seg(SubSeq(c, 1, cut)), seg(SubSeq(c, cut + 1, ChunkBlocks))>>)]
  /\ script' = [script EXCEPT ![h] = IF chunk[h] < Chunks - 1 THEN "reading" ELSE "closing"]
  /\ UNCHANGED <<serverVars, flash, bootVars, chunk, down>>

\* The hash of a chunk: go on if it is the one sent, else raise (the socket is
\* closed on the way out).  TCP acknowledges it before anything sent later.
ReadHash(h) ==
  /\ script[h] = "reading" /\ down[h] # <<>> /\ Head(down[h]).type = "HASH"
  /\ down' = [down EXCEPT ![h] = Tail(@)]
  /\ IF Head(down[h]).blocks = ChunkOf(h, chunk[h])
     THEN /\ up' = [up EXCEPT ![h] = Append(@, [type |-> "ACK"])]
          /\ chunk' = [chunk EXCEPT ![h] = @ + 1]
          /\ script' = [script EXCEPT ![h] = "sending"]
     ELSE /\ up' = [up EXCEPT ![h] = @ \o <<[type |-> "ACK"], [type |-> "FIN"]>>]
          /\ script' = [script EXCEPT ![h] = "error"]
          /\ UNCHANGED chunk
  /\ UNCHANGED <<serverVars, flash, bootVars>>

\* The device closed: recv returns no bytes, which the read loop counts as
\* nothing, for ever.  A reset raises.
ReadEnd(h) ==
  /\ script[h] = "reading" /\ down[h] # <<>> /\ Head(down[h]).type \in {"FIN", "RST"}
  /\ script' = [script EXCEPT ![h] = IF Head(down[h]).type = "FIN" THEN "spinning" ELSE "error"]
  /\ UNCHANGED <<serverVars, flash, bootVars, chunk, up, down>>

Close(h) ==
  /\ script[h] = "closing"
  /\ up' = [up EXCEPT ![h] = Append(@, [type |-> "FIN"])]
  /\ script' = [script EXCEPT ![h] = "done"]
  /\ UNCHANGED <<serverVars, flash, bootVars, chunk, down>>

-----------------------------------------------------------------------------
Init ==
  /\ world \in Worlds
  /\ complete = FALSE /\ client_pcb = NoHost /\ listening = FALSE
  /\ buffer_recv = <<>> /\ buffer_sent = <<>> /\ sent_len = 0
  /\ num_blocks = 0 /\ blocks_done = 0 /\ family_id = 0 /\ flash_update = 0
  /\ highest_erased_sector = 0
  /\ attached = {} /\ busy = NoHost /\ at = 0 /\ outcome = "none"
  /\ \E old \in {Erased, Mixed} :
       flash = [p \in Partitions |->
         IF p = "A"
         THEN [c \in 0..(Cells - 1) |->
                IF \E n \in BlockNos : AddrOf[n] = c
                THEN Block(Factory, CHOOSE n \in BlockNos : AddrOf[n] = c) ELSE Erased]
         ELSE [c \in 0..(Cells - 1) |-> old]]
  /\ running = "A" /\ home = "A" /\ mode = "boot"
  /\ script = [h \in Hosts |-> "idle"] /\ chunk = [h \in Hosts |-> 0]
  /\ up = [h \in Hosts |-> <<>>] /\ down = [h \in Hosts |-> <<>>]

ServerNext(h) ==
  \/ tcp_update_server_accept(h) \/ tcp_update_server_sent(h)
  \/ RecvClosed(h) \/ RecvData(h) \/ Unattended(h)
BlockNext == AcceptBlock \/ RejectBlock
MainNext == main_join \/ tcp_update_server_open \/ main_reboot \/ Bootrom
FaultNext(h) == tcp_update_server_poll(h) \/ tcp_update_server_err(h)
HostNext(h) == Refused(h) \/ SendChunk(h) \/ ReadHash(h) \/ ReadEnd(h) \/ Close(h)

Step ==
  \/ BlockNext \/ MainNext
  \/ main_join_fails \/ TryBeforeYouBuyExpires \/ PowerCycle
  \/ \E h \in Hosts : ServerNext(h) \/ FaultNext(h) \/ HostNext(h) \/ Start(h)

Next == Step /\ UNCHANGED world

Spec == Init /\ [][Next]_vars

\* lwIP delivers what arrives and its slow timer polls an accepted connection;
\* main and the bootrom run.  Wi-Fi and power owe nothing, nor do scripts, but when
\* nothing may fail they run on once started.
Fairness ==
  /\ WF_vars(BlockNext /\ UNCHANGED world)
  /\ WF_vars(MainNext /\ UNCHANGED world)
  /\ \A h \in Hosts :
       /\ WF_vars(ServerNext(h) /\ UNCHANGED world)
       /\ WF_vars(tcp_update_server_poll(h) /\ UNCHANGED world)
       /\ WF_vars(world.faults = {} /\ HostNext(h) /\ UNCHANGED world)

FairSpec == Spec /\ Fairness

-----------------------------------------------------------------------------
(* Properties. *)

\* Whatever fails and whenever the power does, the partition a plain boot uses
\* holds a whole image: an update writes only to the other one, and an image is
\* bought before the server that could overwrite the old one opens.
HomeBootable == Bootable(home)

\* The blocks of an image enter each flash sector at its first cell, as they do in
\* a file that leaves no gaps or whose gaps are filled up to the sector.
SectorsFromStart ==
  \A n \in BlockNos :
    AddrOf[n] % SectorCells # 0 => n > 0 /\ Sector(n - 1) = Sector(n)

\* One script at a time, images that can be erased for, and flash operations that
\* do what they are asked.
Orderly == ~ world.overlap /\ "flash" \notin world.faults /\ SectorsFromStart

\* "test success" is true: when the server has finished an update with status 0,
\* the target partition holds every block of one image, each programmed once on
\* an erased cell.  (Of an image with a gap that ends inside a sector it may not: the
\* erase of that sector is refused.)
SuccessIsWhole ==
  Orderly /\ outcome = "ok" => Bootable(Other(running))

\* The script is never ahead of the flash: a chunk it has the hash of is in the
\* target partition, as long as that connection is the one being served.
AckedIsProgrammed ==
  Orderly => \A h \in attached :
    script[h] \in {"sending", "reading", "closing", "done"} /\ client_pcb = h =>
      \A n \in BlockNos :
        n < chunk[h] * ChunkBlocks => flash[Other(running)][AddrOf[n]] = Block(h, n)

\* No accepted connection can keep the device from going on: it reboots, if only
\* because of the poll timeout ("no response is an error?").
ServingEnds == (attached # {} /\ "timeout" \in world.faults) ~> (mode # "serving")

\* With nothing failing, a pushed image is the one the device runs and keeps.
PushArrives ==
  \A h \in Hosts :
    (SectorsFromStart /\ script[h] = "sending" /\ world.faults = {})
      ~> (home = running /\ HoldsImage(home, h))

=============================================================================
