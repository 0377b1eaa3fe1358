------------------------------ MODULE UartBoot ------------------------------
(***************************************************************************)
(* bootloaders/uart/uart_boot.c: one RP2350 boots another over a UART. The   *)
(* host resets the device with its RUN pin, waits for the splash of the boot *)
(* ROM, knocks, writes the image in chunks of 32 bytes, reads it back,       *)
(* compares, and has it executed. Every wait of the host has a timeout, but  *)
(* one. The line may lose or damage what passes, and delay it past a         *)
(* timeout.                                                                  *)
(*                                                                         *)
(* The boot ROM (external) is modelled from how the host uses it; what runs  *)
(* on the device afterwards is uart_binary.c. A damaged byte is never taken  *)
(* for another one that would be right in its place, and a byte that came    *)
(* out of its turn is never the one the host waits for.                      *)
(***************************************************************************)
EXTENDS Integers, Sequences

CONSTANTS
  Chunks,        \* length of the partition, in chunks
  MaxKnocks,     \* 10
  MaxAttempts,   \* 3
  Bad,           \* contents of memory that are not the image's
  Heard,         \* what bytes of the image, if the ROM takes them for commands, may make
                 \* it answer
  MaxFaults      \* bound: faults of the line

ASSUME UartAssumption ==
  /\ Chunks \in Nat \ {0} /\ MaxKnocks \in Nat /\ MaxAttempts \in Nat /\ MaxFaults \in Nat
  /\ Bad \notin Nat
  /\ Heard \subseteq Seq({"n", "c", "wrong", "r", "x"})

Memory == [1..Chunks -> {Bad} \cup (1..Chunks)]
Image == [a \in 1..Chunks |-> a]
Blank == [a \in 1..Chunks |-> Bad]

VARIABLES
  \* the host
  host,          \* where it is: look, or waiting in knock, write, clear, verify, tail, exec
  knocks, attempts,
  current,       \* current_addr, as a chunk number
  fifo,          \* receive FIFO: what has arrived and is not yet read
  \* the device
  dev,           \* off (RUN low), rom, boot, running
  mem, ptr,      \* its memory, and the ROM's pointer into it
  out,           \* what it has sent that is not yet in the FIFO
  faults

hostVars == <<host, knocks, attempts, current>>
devVars == <<dev, mem, ptr>>
vars == <<host, knocks, attempts, current, fifo, dev, mem, ptr, out, faults>>

Fault == faults < MaxFaults /\ faults' = faults + 1

-----------------------------------------------------------------------------
(* The line and the device. *)

\* What is left in the FIFO of a chunk the host stopped reading, or of noise.
Strays == \E i \in DOMAIN fifo : fifo[i] \in {"chunk", "wrong", "noise"}

\* What the device sends arrives, is damaged, or is lost; while the host does not read,
\* a FIFO that holds the better part of a chunk may have no room for it.
Arrives ==
  /\ out # <<>> /\ out' = Tail(out)
  /\ \/ fifo' = Append(fifo, Head(out)) /\ UNCHANGED faults
     \/ fifo' = Append(fifo, "noise") /\ Fault
     \/ UNCHANGED fifo /\ Fault
     \/ host = "look" /\ Strays /\ UNCHANGED <<fifo, faults>>
  /\ UNCHANGED <<hostVars, devVars>>

\* The boot ROM comes out of reset.
Splash ==
  /\ dev = "off" /\ dev' = "rom" /\ out' = <<"splash">>
  /\ UNCHANGED <<hostVars, fifo, mem, ptr, faults>>

\* uart_binary prints once a second, if it is what was meant to run.
Hello ==
  /\ dev = "running" /\ mem = Image /\ out = <<>>
  /\ \A i \in DOMAIN fifo : fifo[i] # "hello"
  /\ out' = <<"hello">>
  /\ UNCHANGED <<hostVars, fifo, devVars, faults>>

\* What the ROM does with a command that arrives whole; chunk is what the host sends
\* with it or will compare with.
Obey(command, chunk) ==
  \/ /\ command = "knock" /\ dev \in {"rom", "boot"}
     /\ dev' = "boot" /\ out' = Append(out, "n") /\ UNCHANGED <<mem, ptr>>
  \/ /\ command = "write" /\ dev = "boot" /\ ptr \in 1..Chunks
     /\ mem' = [mem EXCEPT ![ptr] = chunk] /\ ptr' = ptr + 1 /\ out' = Append(out, "w")
     /\ UNCHANGED dev
  \/ /\ command = "clear" /\ dev = "boot"
     /\ ptr' = 1 /\ out' = Append(out, "c") /\ UNCHANGED <<dev, mem>>
  \/ /\ command = "read" /\ dev = "boot" /\ ptr \in 1..Chunks
     /\ out' = Append(Append(out, IF mem[ptr] = chunk THEN "chunk" ELSE "wrong"), "r")
     /\ ptr' = ptr + 1 /\ UNCHANGED <<dev, mem>>
  \/ /\ command = "execute" /\ dev = "boot"
     /\ dev' = "running" /\ out' = Append(out, "x") /\ UNCHANGED <<mem, ptr>>

\* The ROM cannot obey: it is not there, or has run out of the partition.
Deaf(command) ==
  \/ dev \notin {"rom", "boot"}
  \/ command # "knock" /\ dev = "rom"
  \/ command \in {"write", "read"} /\ ptr \notin 1..Chunks

\* The w of a write is lost, and the ROM takes the data that follow for commands. The one
\* thing they cannot be is a whole write; an x among them executes what is in memory.
Astray ==
  /\ dev = "boot"
  /\ \E answers \in Heard :
       /\ out' = out \o answers
       /\ dev' = IF \E i \in DOMAIN answers : answers[i] = "x" THEN "running" ELSE "boot"
  /\ ptr' \in 1..(Chunks + 1) /\ UNCHANGED mem

\* The host sends a command: it arrives; is lost or damaged on the way, and then not
\* answered; or some of a write is damaged or lost, its data or the w itself.
Send(command, chunk) ==
  \/ Obey(command, chunk) /\ UNCHANGED faults
  \/ Deaf(command) /\ UNCHANGED <<devVars, out, faults>>
  \/ ~Deaf(command) /\ Fault /\ UNCHANGED <<devVars, out>>
  \/ command = "write" /\ Fault /\ (Obey("write", Bad) \/ Astray)

-----------------------------------------------------------------------------
(* main of the host. *)

\* The RUN pin: the device stops, its RAM may or may not keep what it held, and what
\* has arrived of its last words stays in the FIFO.
reset_chip ==
  /\ dev' = "off" /\ mem' \in {mem, Blank} /\ ptr' = 1 /\ out' = <<>>
  /\ host' = "look" /\ knocks' = 0 /\ current' = 1 /\ attempts' = 0

\* What the host may recognise in what it read: it looks from the first byte with the
\* right letter on, and strays may hold such bytes.
Readings ==
  LET seen == {fifo[i] : i \in DOMAIN fifo} \cap {"splash", "hello"}
  IN IF Strays THEN SUBSET seen ELSE {seen}

\* It looks once a second. By then whoever had something to say has said it, unless
\* delayed.
Look(reading) ==
  /\ host = "look" /\ reading \in Readings /\ fifo' = <<>>
  /\ IF out = <<>> /\ dev # "off" /\ (dev = "running" => fifo # <<>>)
     THEN UNCHANGED faults ELSE Fault

M_LookInVainWaitsOn(reading) ==
  /\ Look(reading) /\ reading = {} /\ attempts' = 1
  /\ UNCHANGED <<host, knocks, current, devVars, out>>

\* Neither splash nor greeting: the device is given some seconds, then reset.
LookInVain(reading) ==
  /\ Look(reading) /\ reading = {}
  /\ IF attempts > MaxAttempts
     THEN reset_chip
     ELSE attempts' = attempts + 1 /\ UNCHANGED <<host, knocks, current, devVars, out>>

LookAtHello(reading) ==
  /\ Look(reading) /\ reading = {"hello"} /\ attempts' = 0
  /\ UNCHANGED <<host, knocks, current, devVars, out>>

\* uart_boot begins with the first knock.
LookAtSplash(reading) ==
  /\ host = "look" /\ reading \in Readings /\ "splash" \in reading
  /\ fifo' = <<>> /\ host' = "knock" /\ attempts' = 0 /\ Send("knock", 1)
  /\ UNCHANGED <<knocks, current>>

-----------------------------------------------------------------------------
(* uart_boot. *)

\* No answer within the millisecond: once more, the answer perhaps still to come.
KnockAgain ==
  /\ host = "knock" /\ fifo = <<>> /\ knocks <= MaxKnocks /\ knocks' = knocks + 1
  /\ IF out = <<>> THEN Send("knock", 1) ELSE Fault /\ Obey("knock", 1)
  /\ UNCHANGED <<host, attempts, current, fifo>>

\* What each wait is for.
Awaited == [knock |-> "n", write |-> "w", clear |-> "c", verify |-> "chunk", tail |-> "r",
            exec |-> "x"]

\* uart_is_readable_within_us gives up, with nothing on the way or, as a fault, too soon;
\* the wait for the r that ends a chunk does not.
HangDetected ==
  /\ host \in DOMAIN Awaited \ {"tail"} /\ fifo = <<>>
  /\ host = "knock" => knocks > MaxKnocks
  /\ IF out = <<>> THEN UNCHANGED faults ELSE Fault
  /\ reset_chip /\ UNCHANGED fifo

\* Something else than what was waited for; a chunk is read up to the first byte that
\* differs.
IncorrectResponse ==
  /\ host \in DOMAIN Awaited /\ fifo # <<>> /\ Head(fifo) # Awaited[host]
  /\ fifo' = Tail(fifo) \/ (host = "verify" /\ UNCHANGED fifo)
  /\ reset_chip /\ UNCHANGED faults

\* What was waited for is read, and the host goes on.
Goes(from, to, chunk) ==
  /\ host = from /\ fifo # <<>> /\ Head(fifo) = Awaited[from] /\ fifo' = Tail(fifo)
  /\ host' = to /\ current' = chunk
  /\ UNCHANGED <<knocks, attempts>>

KnockAnswered == Goes("knock", "write", 1) /\ Send("write", 1)

M_WrittenWithoutClear ==
  \/ /\ current < Chunks
     /\ Goes("write", "write", current + 1) /\ Send("write", current + 1)
  \/ current = Chunks /\ Goes("write", "verify", 1) /\ Send("read", 1)

Written ==
  \/ /\ current < Chunks
     /\ Goes("write", "write", current + 1) /\ Send("write", current + 1)
  \/ current = Chunks /\ Goes("write", "clear", current) /\ Send("clear", 1)

Cleared == Goes("clear", "verify", 1) /\ Send("read", 1)

M_VerifiedByCount ==
  /\ host = "verify" /\ fifo # <<>> /\ Head(fifo) \in {"chunk", "wrong"} /\ fifo' = Tail(fifo)
  /\ host' = "tail" /\ UNCHANGED <<knocks, attempts, current, devVars, out, faults>>

Verified == Goes("verify", "tail", current) /\ UNCHANGED <<devVars, out, faults>>

TailRead ==
  \/ current < Chunks /\ Goes("tail", "verify", current + 1) /\ Send("read", current + 1)
  \/ current = Chunks /\ Goes("tail", "exec", 1) /\ Send("execute", 1)

Executed ==
  /\ Goes("exec", "look", 1) /\ UNCHANGED <<devVars, out, faults>>

-----------------------------------------------------------------------------

\* The device was just reset; the first look comes at once and may have been in vain.
Init ==
  /\ host = "look" /\ knocks = 0 /\ attempts \in {0, 1} /\ current = 1 /\ fifo = <<>>
  /\ dev = "off" /\ mem = Blank /\ ptr = 1 /\ out = <<>> /\ faults = 0

Device == Splash \/ Hello

Host ==
  \/ \E r \in Readings : LookInVain(r) \/ LookAtHello(r) \/ LookAtSplash(r)
  \/ KnockAgain \/ HangDetected \/ IncorrectResponse
  \/ KnockAnswered \/ Written \/ Cleared \/ Verified \/ TailRead \/ Executed

Next == Arrives \/ Device \/ Host

Spec == Init /\ [][Next]_vars

\* Both chips run, and what is sent arrives or is lost in the end.
FairSpec == Spec /\ WF_vars(Arrives) /\ WF_vars(Device) /\ WF_vars(Host)

-----------------------------------------------------------------------------
(* Properties. *)

Signals == {"splash", "hello", "n", "w", "c", "chunk", "wrong", "r", "x", "noise"}

TypeOK ==
  /\ host \in {"look", "knock", "write", "clear", "verify", "tail", "exec"}
  /\ knocks \in Nat /\ attempts \in Nat /\ current \in 1..Chunks
  /\ dev \in {"off", "rom", "boot", "running"} /\ mem \in Memory /\ ptr \in 1..(Chunks + 1)
  /\ fifo \in Seq(Signals) /\ out \in Seq(Signals) /\ faults \in Nat

\* The host has the device execute nothing but the image, whatever the line lost or damaged
\* and whatever was left in the FIFO by an attempt given up. What data taken for a command
\* start, if the w before them is lost, runs while the host waits for the answer to that w,
\* and the host never goes on from there.
RunsTheImage == dev = "running" => mem = Image \/ host = "write"

\* Over a line without faults the first attempt boots the device: it is never reset
\* again.
FirstTry == [][faults' = 0 /\ dev' = "off" => dev = "off"]_vars

\* Once the line has no more faults the device runs the image for good, the host looking on;
\* or the host waits for the end of a chunk that never comes, for that wait has no timeout.
Boots ==
  \/ <>[](dev = "running" /\ mem = Image /\ host = "look")
  \/ <>[](host = "tail" /\ fifo = <<>> /\ out = <<>>)

=============================================================================
