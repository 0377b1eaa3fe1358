--------------------------- MODULE UartBoot_proofs ---------------------------
(***************************************************************************)
(* The host has the device execute nothing but the image, for every size of  *)
(* the partition and any number of faults, knocks and attempts. The argument *)
(* follows the answers on their way: while the host awaits a chunk at most   *)
(* one is on the way, and if one is, the ROM has just compared the right     *)
(* piece of memory; a write whose data went astray is not answered, so that  *)
(* the host stays behind; answers left over from an attempt given up are     *)
(* gone before the next begins. Without faults host and device go in lock    *)
(* step, and the first attempt is the last.                                  *)
(***************************************************************************)
EXTENDS UartBoot, TLAPS

Holds(q, s) == \E i \in DOMAIN q : q[i] = s
Once(q, s) == \A i, j \in DOMAIN q : q[i] = s /\ q[j] = s => i = j

\* On the way: in the FIFO or sent and not arrived.
Absent(s) == ~Holds(fifo, s) /\ ~Holds(out, s)
Single(s) == Once(fifo, s) /\ Once(out, s) /\ (Holds(fifo, s) => ~Holds(out, s))

Same(first, last) == \A a \in first..last : mem[a] = a

\* What is true before the device runs, by what the host awaits.
Looking == host = "look" => ~Holds(out, "w") /\ ~Holds(out, "c") /\ ~Holds(out, "chunk")
Writing ==
  /\ host = "knock" => Absent("w") /\ Absent("c") /\ Absent("chunk")
  /\ host = "write" => Absent("chunk") /\ (Absent("w") \/ (Single("w") /\ Absent("c")))
Clearing == host = "clear" => Absent("chunk") /\ (Absent("c") \/ ptr = 1)
Verifying ==
  host = "verify" =>
    /\ Single("chunk") /\ Same(1, current - 1)
    /\ Absent("chunk") \/ (mem[current] = current /\ ptr = current + 1)
Ending == host = "tail" => Absent("chunk") /\ Same(1, current) /\ ptr = current + 1
NoneExecuted == ~Holds(out, "x") /\ (host # "look" => ~Holds(fifo, "x"))

Waiting == Looking /\ Writing /\ Clearing /\ Verifying /\ Ending /\ NoneExecuted

RunInv ==
  /\ RunsTheImage
  /\ dev # "running" => Waiting
  /\ dev = "running" /\ mem # Image => Absent("w")

-----------------------------------------------------------------------------
(* Sequences of signals. *)

\* Nothing is in the empty sequence.
LEMMA HoldsEmpty == ASSUME NEW s PROVE ~Holds(<<>>, s) /\ Once(<<>>, s)
  BY DEF Holds, Once

\* Appending adds the one signal, and doubles it only if it was there.
LEMMA HoldsAppend ==
  ASSUME NEW q \in Seq(Signals), NEW x \in Signals, NEW s
  PROVE  /\ Append(q, x) \in Seq(Signals)
         /\ Holds(Append(q, x), s) <=> (Holds(q, s) \/ x = s)
         /\ Once(q, s) /\ (x # s \/ ~Holds(q, s)) => Once(Append(q, x), s)
  <1>1. /\ Append(q, x) \in Seq(Signals)
        /\ DOMAIN Append(q, x) = 1..(Len(q) + 1) /\ DOMAIN q = 1..Len(q) /\ Len(q) \in Nat
        /\ \A i \in 1..Len(q) : Append(q, x)[i] = q[i]
        /\ Append(q, x)[Len(q) + 1] = x
    OBVIOUS
  <1>2. Holds(Append(q, x), s) <=> (Holds(q, s) \/ x = s)
    BY <1>1 DEF Holds
  <1>3. Once(q, s) /\ (x # s \/ ~Holds(q, s)) => Once(Append(q, x), s)
    BY <1>1 DEF Holds, Once
  <1> QED BY <1>1, <1>2, <1>3

\* The tail holds no more than the sequence, and not what its head held once.
LEMMA HoldsTail ==
  ASSUME NEW q \in Seq(Signals), q # <<>>, NEW s
  PROVE  /\ Tail(q) \in Seq(Signals) /\ Head(q) \in Signals
         /\ Holds(q, Head(q))
         /\ Holds(Tail(q), s) => Holds(q, s)
         /\ Once(q, s) => Once(Tail(q), s)
         /\ Once(q, s) /\ Head(q) = s => ~Holds(Tail(q), s)
  <1>1. /\ Tail(q) \in Seq(Signals) /\ Head(q) \in Signals /\ Len(q) \in Nat /\ Len(q) >= 1
        /\ DOMAIN Tail(q) = 1..(Len(q) - 1) /\ DOMAIN q = 1..Len(q)
        /\ \A i \in 1..(Len(q) - 1) : Tail(q)[i] = q[i + 1] /\ i + 1 \in 1..Len(q)
        /\ Head(q) = q[1] /\ 1 \in 1..Len(q)
    OBVIOUS
  <1>2. Holds(q, Head(q))
    BY <1>1 DEF Holds
  <1>3. Holds(Tail(q), s) => Holds(q, s)
    BY <1>1 DEF Holds
  <1>4. Once(q, s) => Once(Tail(q), s)
    <2> SUFFICES ASSUME Once(q, s), NEW i \in DOMAIN Tail(q), NEW j \in DOMAIN Tail(q),
                        Tail(q)[i] = s, Tail(q)[j] = s
                 PROVE  i = j
      BY DEF Once
    <2>1. q[i + 1] = s /\ q[j + 1] = s /\ i + 1 \in DOMAIN q /\ j + 1 \in DOMAIN q
      BY <1>1
    <2>2. i + 1 = j + 1
      BY <2>1 DEF Once
    <2> QED BY <1>1, <2>2
  <1>5. Once(q, s) /\ Head(q) = s => ~Holds(Tail(q), s)
    <2> SUFFICES ASSUME Once(q, s), Head(q) = s, NEW i \in DOMAIN Tail(q), Tail(q)[i] = s
                 PROVE  FALSE
      BY DEF Holds
    <2>1. q[i + 1] = s /\ q[1] = s /\ i + 1 \in DOMAIN q /\ 1 \in DOMAIN q
      BY <1>1
    <2>2. i + 1 = 1
      BY <2>1 DEF Once
    <2> QED BY <1>1, <2>2
  <1> QED BY <1>1, <1>2, <1>3, <1>4, <1>5

-----------------------------------------------------------------------------
(* Commands. *)

\* An answer of one signal adds it to what is on the way.
LEMMA AnswerOne ==
  ASSUME TypeOK, NEW x \in Signals, out' = Append(out, x)
  PROVE  out' \in Seq(Signals) /\ \A s : Holds(out', s) <=> (Holds(out, s) \/ x = s)
  <1>1. out \in Seq(Signals)
    BY DEF TypeOK
  <1>2. ASSUME NEW s PROVE Holds(Append(out, x), s) <=> (Holds(out, s) \/ x = s)
    BY <1>1, HoldsAppend
  <1>3. Append(out, x) \in Seq(Signals)
    BY <1>1, HoldsAppend
  <1> QED BY <1>2, <1>3

\* What an answer or several add to what is on the way.
LEMMA AnswersMany ==
  ASSUME NEW q \in Seq(Signals), NEW a \in Seq(Signals)
  PROVE  q \o a \in Seq(Signals) /\ \A s : Holds(q \o a, s) <=> (Holds(q, s) \/ Holds(a, s))
  <1>1. /\ q \o a \in Seq(Signals) /\ Len(q) \in Nat /\ Len(a) \in Nat
        /\ DOMAIN q = 1..Len(q) /\ DOMAIN a = 1..Len(a) /\ DOMAIN (q \o a) = 1..(Len(q) + Len(a))
        /\ \A i \in 1..Len(q) : (q \o a)[i] = q[i]
        /\ \A i \in 1..Len(a) : (q \o a)[Len(q) + i] = a[i]
        /\ \A i \in 1..(Len(q) + Len(a)) :
             i \in 1..Len(q) \/ (i - Len(q) \in 1..Len(a) /\ (q \o a)[i] = a[i - Len(q)])
    OBVIOUS
  <1>2. ASSUME NEW s PROVE Holds(q \o a, s) => Holds(q, s) \/ Holds(a, s)
    <2> SUFFICES ASSUME NEW i \in 1..(Len(q) + Len(a)), (q \o a)[i] = s
                 PROVE  Holds(q, s) \/ Holds(a, s)
      BY <1>1 DEF Holds
    <2> QED BY <1>1 DEF Holds
  <1>3. ASSUME NEW s, NEW i \in 1..Len(q), q[i] = s PROVE Holds(q \o a, s)
    <2>1. i \in 1..(Len(q) + Len(a)) /\ (q \o a)[i] = s
      BY <1>1, <1>3
    <2> QED BY <1>1, <2>1 DEF Holds
  <1>4. ASSUME NEW s, NEW i \in 1..Len(a), a[i] = s PROVE Holds(q \o a, s)
    <2>1. Len(q) + i \in 1..(Len(q) + Len(a)) /\ (q \o a)[Len(q) + i] = s
      BY <1>1, <1>4
    <2> QED BY <1>1, <2>1 DEF Holds
  <1>5. ASSUME NEW s, Holds(q, s) \/ Holds(a, s) PROVE Holds(q \o a, s)
    BY <1>1, <1>3, <1>4, <1>5 DEF Holds
  <1> QED BY <1>1, <1>2, <1>5

\* Data taken for commands: no w is answered, and an x means that the device runs.
LEMMA AstrayAnswers ==
  ASSUME TypeOK, Astray
  PROVE  /\ out' \in Seq(Signals) /\ dev = "boot" /\ dev' \in {"boot", "running"} /\ mem' = mem
         /\ ptr' \in 1..(Chunks + 1)
         /\ \A s : Holds(out', s) => Holds(out, s) \/ s \in {"n", "c", "wrong", "r", "x"}
         /\ dev' # "running" => (Holds(out', "x") => Holds(out, "x"))
  <1>1. PICK answers \in Heard :
          /\ out' = out \o answers
          /\ dev' = IF \E i \in DOMAIN answers : answers[i] = "x" THEN "running" ELSE "boot"
    BY DEF Astray
  <1>2. answers \in Seq({"n", "c", "wrong", "r", "x"})
    BY UartAssumption
  <1>3. answers \in Seq(Signals) /\ \A s : Holds(answers, s) => s \in {"n", "c", "wrong", "r", "x"}
    BY <1>2 DEF Signals, Holds
  <1>4. out' \in Seq(Signals) /\ \A s : Holds(out', s) <=> (Holds(out, s) \/ Holds(answers, s))
    BY <1>1, <1>3, AnswersMany DEF TypeOK
  <1>5. dev' = IF Holds(answers, "x") THEN "running" ELSE "boot"
    BY <1>1 DEF Holds
  <1> QED BY <1>3, <1>4, <1>5 DEF Astray

\* What a command may do whichever it is: types are kept, a device that runs stays as
\* it is, and one starts to run only on execute or on data taken for it.
LEMMA SendTypes ==
  ASSUME TypeOK, NEW command, NEW chunk \in 1..Chunks, Send(command, chunk)
  PROVE  /\ dev' \in {"off", "rom", "boot", "running"} /\ mem' \in Memory
         /\ ptr' \in 1..(Chunks + 1) /\ out' \in Seq(Signals) /\ faults' \in Nat
         /\ dev = "running" => dev' = "running" /\ mem' = mem
         /\ command \notin {"execute", "write"} /\ dev # "running" => dev' # "running"
  <1> USE UartAssumption
  <1>1. faults' \in Nat
    BY DEF Send, Fault, TypeOK
  <1>2. UNCHANGED <<dev, mem, ptr, out>> \/ Obey(command, chunk) 
        \/ (command = "write" /\ (Obey("write", Bad) \/ Astray))
    BY DEF Send, devVars
  <1>3. CASE UNCHANGED <<dev, mem, ptr, out>>
    BY <1>1, <1>3 DEF TypeOK
  <1>4. ASSUME NEW cmd, NEW value \in {Bad} \cup 1..Chunks, Obey(cmd, value), cmd = command
        PROVE  /\ dev' \in {"off", "rom", "boot", "running"} /\ mem' \in Memory
               /\ ptr' \in 1..(Chunks + 1) /\ out' \in Seq(Signals)
               /\ dev # "running"
               /\ command # "execute" => dev' # "running"
    <2>1. CASE cmd = "knock"
      <3>1. out' = Append(out, "n") /\ dev' = "boot" /\ mem' = mem /\ ptr' = ptr /\ dev # "running"
        BY <1>4, <2>1 DEF Obey
      <3>2. out' \in Seq(Signals)
        BY <3>1, AnswerOne DEF Signals
      <3> QED BY <3>1, <3>2 DEF TypeOK
    <2>2. CASE cmd = "write"
      <3>1. /\ out' = Append(out, "w") /\ dev' = dev /\ dev = "boot" /\ ptr \in 1..Chunks
            /\ mem' = [mem EXCEPT ![ptr] = value] /\ ptr' = ptr + 1
        BY <1>4, <2>2 DEF Obey
      <3>2. out' \in Seq(Signals)
        BY <3>1, AnswerOne DEF Signals
      <3>3. mem' \in Memory
        BY <3>1 DEF TypeOK, Memory
      <3> QED BY <3>1, <3>2, <3>3
    <2>3. CASE cmd = "clear"
      <3>1. out' = Append(out, "c") /\ dev' = dev /\ mem' = mem /\ ptr' = 1 /\ dev = "boot"
        BY <1>4, <2>3 DEF Obey
      <3>2. out' \in Seq(Signals)
        BY <3>1, AnswerOne DEF Signals
      <3> QED BY <3>1, <3>2 DEF TypeOK
    <2>4. CASE cmd = "read"
      <3> DEFINE x == IF mem[ptr] = value THEN "chunk" ELSE "wrong"
      <3>1. out' = Append(Append(out, x), "r") /\ dev' = dev /\ mem' = mem /\ ptr' = ptr + 1
            /\ dev = "boot" /\ ptr \in 1..Chunks
        BY <1>4, <2>4 DEF Obey
      <3>2. x \in Signals /\ "r" \in Signals /\ out \in Seq(Signals)
        BY DEF Signals, TypeOK
      <3> HIDE DEF x
      <3>3. Append(Append(out, x), "r") \in Seq(Signals)
        BY <3>2, HoldsAppend
      <3> QED BY <3>1, <3>3 DEF TypeOK
    <2>5. CASE cmd = "execute"
      <3>1. out' = Append(out, "x") /\ dev' = "running" /\ mem' = mem /\ ptr' = ptr /\ dev = "boot"
        BY <1>4, <2>5 DEF Obey
      <3>2. out' \in Seq(Signals)
        BY <3>1, AnswerOne DEF Signals
      <3> QED BY <1>4, <2>5, <3>1, <3>2 DEF TypeOK
    <2> QED BY <1>4, <2>1, <2>2, <2>3, <2>4, <2>5 DEF Obey
  <1>5. CASE Obey(command, chunk)
    BY <1>1, <1>4, <1>5
  <1>6. CASE command = "write" /\ Obey("write", Bad)
    BY <1>1, <1>4, <1>6
  <1>7. CASE command = "write" /\ Astray
    BY <1>1, <1>7, AstrayAnswers DEF TypeOK
  <1> QED BY <1>2, <1>3, <1>5, <1>6, <1>7

\* A knock or a clear is answered by its own letter at most, a clear also sets the pointer.
LEMMA SendLetters ==
  ASSUME TypeOK, NEW command \in {"knock", "clear"}, NEW chunk \in 1..Chunks,
         Send(command, chunk)
  PROVE  /\ \A s : Holds(out', s) => Holds(out, s) \/ s \in {"n", "c"}
         /\ command # "clear" => \A s : Holds(out', s) => Holds(out, s) \/ s = "n"
         /\ command = "clear" => (\A s : Holds(out', s) => Holds(out, s)) \/ ptr' = 1
  <1>1. CASE UNCHANGED out
    BY <1>1
  <1>2. CASE out' = Append(out, "n") /\ command = "knock"
    <2>1. \A s : Holds(out', s) <=> (Holds(out, s) \/ "n" = s)
      BY <1>2, AnswerOne DEF Signals
    <2> QED BY <1>2, <2>1
  <1>3. CASE out' = Append(out, "c") /\ command = "clear" /\ ptr' = 1
    <2>1. \A s : Holds(out', s) <=> (Holds(out, s) \/ "c" = s)
      BY <1>3, AnswerOne DEF Signals
    <2> QED BY <1>3, <2>1
  <1> QED BY <1>1, <1>2, <1>3 DEF Send, Obey, devVars

\* A read that is answered tells whether the piece the pointer was at is the one asked for.
LEMMA SendRead ==
  ASSUME TypeOK, NEW chunk \in 1..Chunks, Send("read", chunk),
         Absent("chunk"), fifo # <<>>, fifo' = Tail(fifo)
  PROVE  /\ mem' = mem /\ Single("chunk")'
         /\ ~Holds(fifo', "chunk")
         /\ Holds(out', "chunk") => mem[ptr] = chunk /\ ptr' = ptr + 1
         /\ Holds(out', "x") => Holds(out, "x")
  <1>1. fifo \in Seq(Signals) /\ out \in Seq(Signals)
    BY DEF TypeOK
  <1>2. ~Holds(fifo', "chunk")
    <2>1. ~Holds(fifo, "chunk")
      BY DEF Absent
    <2> QED BY <1>1, <2>1, HoldsTail
  <1>3. Once(fifo', "chunk")
    BY <1>2 DEF Holds, Once
  <1>4. CASE UNCHANGED <<mem, out>>
    <2>1. ~Holds(out', "chunk")
      BY <1>4 DEF Absent
    <2>2. Once(out', "chunk")
      BY <2>1 DEF Holds, Once
    <2> QED BY <1>2, <1>3, <1>4, <2>1, <2>2 DEF Single
  <1>5. CASE Obey("read", chunk)
    <2> DEFINE x == IF mem[ptr] = chunk THEN "chunk" ELSE "wrong"
               q == Append(out, x)
    <2>1. out' = Append(q, "r") /\ mem' = mem /\ ptr' = ptr + 1
      BY <1>5 DEF Obey
    <2>2. x \in Signals /\ "r" \in Signals /\ (x = "chunk" <=> mem[ptr] = chunk) /\ x # "x"
      BY DEF Signals
    <2> HIDE DEF x
    <2>3. ~Holds(out, "chunk")
      BY DEF Absent
    <2>4. Once(out, "chunk")
      BY <2>3 DEF Holds, Once
    <2>5. q \in Seq(Signals) /\ Once(q, "chunk") /\ (Holds(q, "chunk") <=> x = "chunk")
          /\ (Holds(q, "x") <=> Holds(out, "x"))
      BY <1>1, <2>2, <2>3, <2>4, HoldsAppend
    <2> HIDE DEF q
    <2>6. Once(out', "chunk") /\ (Holds(out', "chunk") <=> Holds(q, "chunk"))
          /\ (Holds(out', "x") <=> Holds(q, "x"))
      BY <2>1, <2>2, <2>5, HoldsAppend
    <2> QED BY <1>2, <1>3, <2>1, <2>2, <2>5, <2>6 DEF Single
  <1> QED BY <1>4, <1>5 DEF Send, devVars

-----------------------------------------------------------------------------
(* The invariant is kept. *)

\* What each step of the host is for, as facts about single signals.
LEMMA Awaits ==
  /\ Awaited["knock"] = "n" /\ Awaited["write"] = "w" /\ Awaited["clear"] = "c"
  /\ Awaited["verify"] = "chunk" /\ Awaited["tail"] = "r" /\ Awaited["exec"] = "x"
  BY DEF Awaited

\* Types are kept by every step.
LEMMA TypeStep ==
  ASSUME TypeOK, [Next]_vars
  PROVE  TypeOK'
  <1> USE UartAssumption
  <1>0. Blank \in Memory
    BY DEF Blank, Memory
  <1>1. CASE UNCHANGED vars
    BY <1>1 DEF vars, TypeOK
  <1>2. CASE Arrives
    <2>1. UNCHANGED <<host, knocks, attempts, current, dev, mem, ptr>> /\ out # <<>> /\ out' = Tail(out)
      BY <1>2 DEF Arrives, hostVars, devVars
    <2>2. Tail(out) \in Seq(Signals) /\ Head(out) \in Signals
      BY <2>1, HoldsTail DEF TypeOK
    <2>3. Append(fifo, Head(out)) \in Seq(Signals) /\ Append(fifo, "noise") \in Seq(Signals)
      BY <2>2, HoldsAppend DEF TypeOK, Signals
    <2>4. /\ fifo' \in {fifo, Append(fifo, Head(out)), Append(fifo, "noise")}
          /\ faults' \in {faults, faults + 1}
      BY <1>2 DEF Arrives, Fault
    <2>5. fifo \in Seq(Signals) /\ faults \in Nat
      BY DEF TypeOK
    <2>6. fifo' \in Seq(Signals)
      BY <2>3, <2>4, <2>5
    <2>7. faults' \in Nat
      BY <2>4, <2>5
    <2> QED BY <2>1, <2>2, <2>6, <2>7 DEF TypeOK
  <1>3. CASE Splash
    <2>1. <<"splash">> \in Seq(Signals)
      BY DEF Signals
    <2> QED BY <1>3, <2>1 DEF Splash, hostVars, TypeOK
  <1>4. CASE Hello
    <2>1. <<"hello">> \in Seq(Signals)
      BY DEF Signals
    <2> QED BY <1>4, <2>1 DEF Hello, hostVars, devVars, TypeOK
  <1>5. ASSUME reset_chip, faults' \in Nat, fifo' \in Seq(Signals) PROVE TypeOK'
    <2>1. <<>> \in Seq(Signals)
      OBVIOUS
    <2> QED BY <1>0, <1>5, <2>1 DEF reset_chip, TypeOK
  <1>6. ASSUME NEW r \in Readings, Look(r) PROVE fifo' \in Seq(Signals) /\ faults' \in Nat
    BY <1>6 DEF Look, Fault, TypeOK
  <1>7. ASSUME NEW r \in Readings, LookInVain(r) PROVE TypeOK'
    <2>1. fifo' \in Seq(Signals) /\ faults' \in Nat
      BY <1>6, <1>7 DEF LookInVain
    <2>2. CASE reset_chip
      BY <1>5, <2>1, <2>2
    <2>3. CASE attempts' = attempts + 1 /\ UNCHANGED <<host, knocks, current, devVars, out>>
      BY <2>1, <2>3 DEF devVars, TypeOK
    <2> QED BY <1>7, <2>2, <2>3 DEF LookInVain
  <1>8. ASSUME NEW r \in Readings, LookAtHello(r) PROVE TypeOK'
    <2>1. fifo' \in Seq(Signals) /\ faults' \in Nat
      BY <1>6, <1>8 DEF LookAtHello
    <2> QED BY <1>8, <2>1 DEF LookAtHello, devVars, TypeOK
  <1>9. ASSUME NEW command, NEW chunk \in 1..Chunks, Send(command, chunk),
               knocks' \in Nat, attempts' \in Nat, current' \in 1..Chunks, fifo' \in Seq(Signals),
               host' \in {"look", "knock", "write", "clear", "verify", "tail", "exec"}
        PROVE  TypeOK'
    BY <1>9, SendTypes DEF TypeOK
  <1>10. 1 \in 1..Chunks
    OBVIOUS
  <1>11. ASSUME NEW r \in Readings, LookAtSplash(r) PROVE TypeOK'
    <2>1. <<>> \in Seq(Signals)
      OBVIOUS
    <2> QED BY <1>9, <1>10, <1>11, <2>1 DEF LookAtSplash, TypeOK
  <1>12. CASE KnockAgain
    <2>1. CASE Send("knock", 1)
      BY <1>9, <1>10, <1>12, <2>1 DEF KnockAgain, TypeOK
    <2>2. CASE Fault /\ Obey("knock", 1)
      <3>1. out' = Append(out, "n") /\ dev' = "boot" /\ UNCHANGED <<mem, ptr>>
        BY <2>2 DEF Obey
      <3>2. out' \in Seq(Signals)
        BY <3>1, AnswerOne DEF Signals
      <3> QED BY <1>12, <2>2, <3>1, <3>2 DEF KnockAgain, Fault, TypeOK
    <2> QED BY <1>12, <2>1, <2>2 DEF KnockAgain
  <1>13. CASE HangDetected
    BY <1>5, <1>13 DEF HangDetected, Fault, TypeOK
  <1>14. CASE IncorrectResponse
    <2>1. fifo # <<>> /\ (fifo' = Tail(fifo) \/ fifo' = fifo) /\ reset_chip /\ faults' = faults
      BY <1>14 DEF IncorrectResponse
    <2>2. fifo' \in Seq(Signals)
      BY <2>1, HoldsTail DEF TypeOK
    <2> QED BY <1>5, <2>1, <2>2 DEF TypeOK
  <1>15. ASSUME NEW from, NEW to, NEW chunk, Goes(from, to, chunk)
         PROVE  /\ fifo' \in Seq(Signals) /\ knocks' \in Nat /\ attempts' \in Nat
                /\ host' = to /\ current' = chunk
    <2>1. fifo # <<>> /\ fifo' = Tail(fifo) /\ UNCHANGED <<knocks, attempts>>
          /\ host' = to /\ current' = chunk
      BY <1>15 DEF Goes
    <2>2. fifo' \in Seq(Signals)
      BY <2>1, HoldsTail DEF TypeOK
    <2> QED BY <2>1, <2>2 DEF TypeOK
  <1>16. CASE KnockAnswered
    BY <1>9, <1>10, <1>15, <1>16 DEF KnockAnswered
  <1>17. CASE Written
    <2>1. CASE current < Chunks /\ Goes("write", "write", current + 1) /\ Send("write", current + 1)
      <3>1. current + 1 \in 1..Chunks
        BY <2>1 DEF TypeOK
      <3> QED BY <1>9, <1>15, <2>1, <3>1
    <2>2. CASE Goes("write", "clear", current) /\ Send("clear", 1)
      <3>1. current \in 1..Chunks
        BY DEF TypeOK
      <3> QED BY <1>9, <1>10, <1>15, <2>2, <3>1
    <2> QED BY <1>17, <2>1, <2>2 DEF Written
  <1>18. CASE Cleared
    BY <1>9, <1>10, <1>15, <1>18 DEF Cleared
  <1>19. CASE Verified
    <2>1. Goes("verify", "tail", current) /\ UNCHANGED <<dev, mem, ptr, out, faults>>
      BY <1>19 DEF Verified, devVars
    <2>2. fifo' \in Seq(Signals) /\ knocks' \in Nat /\ attempts' \in Nat /\ host' = "tail" /\ current' = current
      BY <1>15, <2>1
    <2> QED BY <2>1, <2>2 DEF TypeOK
  <1>20. CASE TailRead
    <2>1. CASE current < Chunks /\ Goes("tail", "verify", current + 1) /\ Send("read", current + 1)
      <3>1. current + 1 \in 1..Chunks
        BY <2>1 DEF TypeOK
      <3> QED BY <1>9, <1>15, <2>1, <3>1
    <2>2. CASE Goes("tail", "exec", 1) /\ Send("execute", 1)
      BY <1>9, <1>10, <1>15, <2>2
    <2> QED BY <1>20, <2>1, <2>2 DEF TailRead
  <1>21. CASE Executed
    <2>1. Goes("exec", "look", 1) /\ UNCHANGED <<dev, mem, ptr, out, faults>>
      BY <1>21 DEF Executed, devVars
    <2>2. fifo' \in Seq(Signals) /\ knocks' \in Nat /\ attempts' \in Nat /\ host' = "look" /\ current' = 1
      BY <1>15, <2>1
    <2> QED BY <1>10, <2>1, <2>2 DEF TypeOK
  <1> QED
    BY <1>1, <1>2, <1>3, <1>4, <1>7, <1>8, <1>11, <1>12, <1>13, <1>14, <1>16, <1>17, <1>18,
       <1>19, <1>20, <1>21 DEF Next, Device, Host

\* While the host does not wait for the answer to a write, what runs is the image, and goes on.
LEMMA Outside ==
  ASSUME RunInv, host # "write",
         dev = "running" => dev' = "running" /\ mem' = mem,
         dev # "running" /\ dev' = "running" => mem' = Image,
         dev' # "running" => Waiting'
  PROVE  RunInv'
  <1>1. dev' = "running" => mem' = Image
    BY DEF RunInv, RunsTheImage
  <1> QED BY <1>1 DEF RunInv, RunsTheImage, Image

\* After a reset nothing is on the way but what lies in the FIFO.
LEMMA ResetKeeps ==
  ASSUME reset_chip
  PROVE  RunInv'
  <1>1. dev' = "off" /\ host' = "look" /\ out' = <<>>
    BY DEF reset_chip
  <1>2. \A s : ~Holds(out', s)
    BY <1>1, HoldsEmpty
  <1>3. Waiting'
    BY <1>1, <1>2
    DEF Waiting, Looking, Writing, Clearing, Verifying, Ending, NoneExecuted
  <1> QED BY <1>1, <1>3 DEF RunInv, RunsTheImage

\* Moving from the line to the FIFO, or getting lost, brings no signal but noise.
LEMMA ArrivesKeeps ==
  ASSUME TypeOK, RunInv, Arrives
  PROVE  RunInv'
  <1>1. UNCHANGED <<host, current, dev, mem, ptr>> /\ out # <<>> /\ out' = Tail(out)
    BY DEF Arrives, hostVars, devVars
  <1>2. fifo' \in {fifo, Append(fifo, Head(out)), Append(fifo, "noise")}
    BY DEF Arrives
  <1>3. fifo \in Seq(Signals) /\ out \in Seq(Signals) /\ Head(out) \in Signals /\ Holds(out, Head(out))
        /\ "noise" \in Signals
    BY <1>1, HoldsTail DEF TypeOK, Signals
  <1>4. ASSUME NEW s, s # "noise"
        PROVE  /\ Holds(out', s) => Holds(out, s)
               /\ Holds(fifo', s) => Holds(fifo, s) \/ s = Head(out)
               /\ Absent(s) => Absent(s)'
               /\ Single(s) => Single(s)'
    <2>1. /\ Holds(out', s) => Holds(out, s)
          /\ Once(out, s) => Once(out', s)
          /\ Once(out, s) /\ Head(out) = s => ~Holds(out', s)
      BY <1>1, <1>3, HoldsTail
    <2>2. CASE fifo' = fifo
      BY <1>3, <2>1, <2>2 DEF Absent, Single
    <2>3. CASE fifo' = Append(fifo, Head(out))
      <3>1. /\ Holds(fifo', s) <=> (Holds(fifo, s) \/ Head(out) = s)
            /\ Once(fifo, s) /\ (Head(out) # s \/ ~Holds(fifo, s)) => Once(fifo', s)
        BY <1>3, <2>3, HoldsAppend
      <3> QED BY <1>3, <2>1, <3>1 DEF Absent, Single
    <2>4. CASE fifo' = Append(fifo, "noise")
      <3>1. /\ Holds(fifo', s) <=> Holds(fifo, s)
            /\ Once(fifo, s) => Once(fifo', s)
        BY <1>3, <1>4, <2>4, HoldsAppend
      <3> QED BY <1>3, <2>1, <3>1 DEF Absent, Single
    <2> QED BY <1>2, <2>2, <2>3, <2>4
  <1>5. ASSUME dev # "running" PROVE Waiting'
    <2>1. Waiting
      BY <1>5 DEF RunInv
    <2>2. Looking'
      BY <1>1, <1>4, <2>1 DEF Waiting, Looking
    <2>3. Writing'
      BY <1>1, <1>4, <2>1 DEF Waiting, Writing
    <2>4. Clearing'
      BY <1>1, <1>4, <2>1 DEF Waiting, Clearing
    <2>5. Verifying'
      BY <1>1, <1>4, <2>1 DEF Waiting, Verifying, Same
    <2>6. Ending'
      BY <1>1, <1>4, <2>1 DEF Waiting, Ending, Same
    <2>7. NoneExecuted'
      BY <1>1, <1>3, <1>4, <2>1 DEF Waiting, NoneExecuted
    <2> QED BY <2>2, <2>3, <2>4, <2>5, <2>6, <2>7 DEF Waiting
  <1>6. Absent("w") => Absent("w")'
    BY <1>4
  <1> QED BY <1>1, <1>5, <1>6 DEF RunInv, RunsTheImage, Image

\* A first knock, into a FIFO just emptied.
LEMMA SplashSeenKeeps ==
  ASSUME TypeOK, RunInv, NEW r \in Readings, LookAtSplash(r)
  PROVE  RunInv'
  <1> USE UartAssumption
  <1>1. host = "look" /\ host' = "knock" /\ fifo' = <<>> /\ Send("knock", 1) /\ 1 \in 1..Chunks
    BY DEF LookAtSplash
  <1>2. /\ dev = "running" => dev' = "running" /\ mem' = mem
        /\ dev # "running" => dev' # "running"
    BY <1>1, SendTypes
  <1>3. \A s : Holds(out', s) => Holds(out, s) \/ s = "n"
    BY <1>1, SendLetters
  <1>4. \A s : ~Holds(fifo', s)
    BY <1>1, HoldsEmpty
  <1>5. ASSUME dev # "running" PROVE Waiting'
    <2>1. ~Holds(out, "w") /\ ~Holds(out, "c") /\ ~Holds(out, "chunk") /\ ~Holds(out, "x")
      BY <1>1, <1>5 DEF RunInv, Waiting, Looking, NoneExecuted
    <2>2. ~Holds(out', "w") /\ ~Holds(out', "c") /\ ~Holds(out', "chunk") /\ ~Holds(out', "x")
      BY <1>3, <2>1
    <2> QED BY <1>1, <1>4, <2>2
        DEF Waiting, Looking, Writing, Clearing, Verifying, Ending, NoneExecuted, Absent
  <1> QED BY <1>1, <1>2, <1>5, Outside

\* A knock is repeated.
LEMMA KnockKeeps ==
  ASSUME TypeOK, RunInv, KnockAgain
  PROVE  RunInv'
  <1> USE UartAssumption
  <1>1. host = "knock" /\ host' = "knock" /\ fifo' = fifo /\ 1 \in 1..Chunks
        /\ (Send("knock", 1) \/ Obey("knock", 1))
    BY DEF KnockAgain
  <1>2. /\ dev = "running" => dev' = "running" /\ mem' = mem
        /\ dev # "running" => dev' # "running"
        /\ \A s : Holds(out', s) => Holds(out, s) \/ s = "n"
    <2>1. CASE Send("knock", 1)
      BY <1>1, <2>1, SendTypes, SendLetters
    <2>2. CASE Obey("knock", 1)
      <3>1. out' = Append(out, "n") /\ dev' = "boot" /\ dev \in {"rom", "boot"}
        BY <2>2 DEF Obey
      <3>2. \A s : Holds(out', s) <=> (Holds(out, s) \/ "n" = s)
        BY <3>1, AnswerOne DEF Signals
      <3> QED BY <3>1, <3>2
    <2> QED BY <1>1, <2>1, <2>2
  <1>3. ASSUME dev # "running" PROVE Waiting'
    <2>1. Absent("w") /\ Absent("c") /\ Absent("chunk") /\ Absent("x")
      BY <1>1, <1>3 DEF RunInv, Waiting, Writing, NoneExecuted, Absent
    <2>2. Absent("w")' /\ Absent("c")' /\ Absent("chunk")' /\ Absent("x")'
      BY <1>1, <1>2, <2>1 DEF Absent
    <2> QED BY <1>1, <2>2
        DEF Waiting, Looking, Writing, Clearing, Verifying, Ending, NoneExecuted, Absent
  <1> QED BY <1>1, <1>2, <1>3, Outside

\* The host reads what it waited for: that signal was in the FIFO, and no other comes.
LEMMA GoesReads ==
  ASSUME TypeOK, NEW from, NEW to, NEW chunk, Goes(from, to, chunk)
  PROVE  /\ host = from /\ host' = to /\ current' = chunk /\ fifo # <<>> /\ fifo' = Tail(fifo)
         /\ Holds(fifo, Awaited[from])
         /\ \A s : Holds(fifo', s) => Holds(fifo, s)
         /\ \A s : Once(fifo, s) /\ Awaited[from] = s => ~Holds(fifo', s)
  <1>1. host = from /\ host' = to /\ current' = chunk /\ fifo # <<>> /\ fifo' = Tail(fifo)
        /\ Head(fifo) = Awaited[from] /\ fifo \in Seq(Signals)
    BY DEF Goes, TypeOK
  <1>2. Holds(fifo, Awaited[from])
    BY <1>1, HoldsTail
  <1>3. ASSUME NEW s
        PROVE  (Holds(fifo', s) => Holds(fifo, s))
               /\ (Once(fifo, s) /\ Awaited[from] = s => ~Holds(fifo', s))
    BY <1>1, HoldsTail
  <1> QED BY <1>1, <1>2, <1>3

\* A write is sent with no letter on the way that could be taken for its answer: it is
\* answered by one w, or, if its data went astray, by none.
LEMMA WriteKeeps ==
  ASSUME TypeOK, RunInv, NEW chunk \in 1..Chunks, Send("write", chunk), host' = "write",
         \A s : Holds(fifo', s) => Holds(fifo, s),
         dev = "running" => mem = Image,
         dev # "running" => /\ Absent("c") /\ Absent("chunk") /\ Absent("x")
                            /\ ~Holds(fifo', "w") /\ ~Holds(out, "w")
  PROVE  RunInv'
  <1> USE UartAssumption
  <1>1. CASE dev = "running"
    <2>1. dev' = "running" /\ mem' = mem
      BY <1>1, SendTypes
    <2> QED BY <1>1, <2>1 DEF RunInv, RunsTheImage, Image
  <1>2. CASE dev # "running" /\ Astray
    <2>1. /\ \A s : Holds(out', s) => Holds(out, s) \/ s \in {"n", "c", "wrong", "r", "x"}
          /\ dev' # "running" => (Holds(out', "x") => Holds(out, "x"))
      BY <1>2, AstrayAnswers
    <2>2. Absent("w")' /\ Absent("chunk")'
      BY <1>2, <2>1 DEF Absent
    <2>3. dev' # "running" => NoneExecuted'
      BY <1>2, <2>1 DEF NoneExecuted, Absent
    <2> QED BY <2>2, <2>3
        DEF RunInv, RunsTheImage, Waiting, Looking, Writing, Clearing, Verifying, Ending
  <1>3. CASE dev # "running" /\ UNCHANGED <<dev, out>>
    <2>1. Absent("w")' /\ Absent("chunk")' /\ Absent("x")'
      BY <1>3 DEF Absent
    <2> QED BY <1>3, <2>1
        DEF RunInv, RunsTheImage, Waiting, Looking, Writing, Clearing, Verifying, Ending,
            NoneExecuted, Absent
  <1>4. CASE dev # "running" /\ dev' = dev /\ out' = Append(out, "w")
    <2>1. \A s : Holds(out', s) <=> (Holds(out, s) \/ "w" = s)
      BY <1>4, AnswerOne DEF Signals
    <2>2. Absent("c")' /\ Absent("chunk")' /\ Absent("x")'
      BY <1>4, <2>1 DEF Absent
    <2>3. Once(out', "w")
      <3>1. Once(out, "w")
        BY <1>4 DEF Holds, Once
      <3>2. out \in Seq(Signals) /\ "w" \in Signals
        BY DEF TypeOK, Signals
      <3> QED BY <1>4, <3>1, <3>2, HoldsAppend
    <2>4. Once(fifo', "w")
      BY <1>4 DEF Holds, Once
    <2>5. Single("w")'
      BY <1>4, <2>3, <2>4 DEF Single
    <2> QED BY <1>4, <2>2, <2>5
        DEF RunInv, RunsTheImage, Waiting, Looking, Writing, Clearing, Verifying, Ending,
            NoneExecuted, Absent
  <1> QED BY <1>1, <1>2, <1>3, <1>4 DEF Send, Obey, devVars

\* The first write follows the knock; no w, no c and no chunk can be on the way.
LEMMA KnockAnsweredKeeps ==
  ASSUME TypeOK, RunInv, KnockAnswered
  PROVE  RunInv'
  <1> USE UartAssumption
  <1>1. Goes("knock", "write", 1) /\ Send("write", 1) /\ 1 \in 1..Chunks
    BY DEF KnockAnswered
  <1>2. host = "knock" /\ host' = "write" /\ (\A s : Holds(fifo', s) => Holds(fifo, s))
    BY <1>1, GoesReads
  <1>3. dev = "running" => mem = Image
    BY <1>2 DEF RunInv, RunsTheImage
  <1>4. dev # "running" => Absent("w") /\ Absent("c") /\ Absent("chunk") /\ Absent("x")
    BY <1>2 DEF RunInv, Waiting, Writing, NoneExecuted, Absent
  <1>5. dev # "running" => ~Holds(fifo', "w") /\ ~Holds(out, "w")
    BY <1>2, <1>4 DEF Absent
  <1> QED BY <1>1, <1>2, <1>3, <1>4, <1>5, WriteKeeps

\* The next write, or the clear after the last: only now may a c be taken for an answer, and
\* then the pointer is at the start. The w read was the only one.
LEMMA WrittenKeeps ==
  ASSUME TypeOK, RunInv, Written
  PROVE  RunInv'
  <1> USE UartAssumption
  <1>1. host = "write" /\ Holds(fifo, "w")
    BY GoesReads, Awaits DEF Written
  <1>2. dev = "running" => mem = Image
    BY <1>1 DEF RunInv, Absent
  <1>3. dev # "running" => Absent("c") /\ Absent("chunk") /\ Absent("x") /\ Single("w")
    BY <1>1 DEF RunInv, Waiting, Writing, NoneExecuted, Absent
  <1>4. CASE current < Chunks /\ Goes("write", "write", current + 1) /\ Send("write", current + 1)
    <2>1. current + 1 \in 1..Chunks
      BY <1>4 DEF TypeOK
    <2>2. /\ host' = "write" /\ \A s : Holds(fifo', s) => Holds(fifo, s)
          /\ Once(fifo, "w") => ~Holds(fifo', "w")
      BY <1>4, GoesReads, Awaits
    <2>3. dev # "running" => ~Holds(fifo', "w") /\ ~Holds(out, "w")
      BY <1>1, <1>3, <2>2 DEF Single
    <2> QED BY <1>2, <1>3, <1>4, <2>1, <2>2, <2>3, WriteKeeps
  <1>5. CASE Goes("write", "clear", current) /\ Send("clear", 1)
    <2>1. host' = "clear" /\ (\A s : Holds(fifo', s) => Holds(fifo, s)) /\ 1 \in 1..Chunks
      BY <1>5, GoesReads
    <2>2. /\ dev = "running" => dev' = "running" /\ mem' = mem
          /\ dev # "running" => dev' # "running"
      BY <1>5, <2>1, SendTypes
    <2>3. /\ \A s : Holds(out', s) => Holds(out, s) \/ s \in {"n", "c"}
          /\ (\A s : Holds(out', s) => Holds(out, s)) \/ ptr' = 1
      BY <1>5, <2>1, SendLetters
    <2>4. ASSUME dev # "running" PROVE Waiting'
      <3>1. Absent("chunk")' /\ Absent("x")'
        BY <1>3, <2>1, <2>3, <2>4 DEF Absent
      <3>2. Absent("c")' \/ ptr' = 1
        BY <1>3, <2>1, <2>3, <2>4 DEF Absent
      <3> QED BY <2>1, <3>1, <3>2
          DEF Waiting, Looking, Writing, Clearing, Verifying, Ending, NoneExecuted, Absent
    <2> QED BY <1>2, <2>2, <2>4 DEF RunInv, RunsTheImage, Image
  <1> QED BY <1>4, <1>5 DEF Written

\* A read is asked for with the pointer where it should be and the chunks before verified:
\* what comes back tells of the chunk the host is at.
LEMMA ReadKeeps ==
  ASSUME TypeOK, RunInv, NEW from \in {"clear", "tail"}, NEW n \in 1..Chunks,
         Goes(from, "verify", n), Send("read", n),
         dev # "running" => Absent("chunk") /\ ptr = n /\ Same(1, n - 1)
  PROVE  RunInv'
  <1> USE UartAssumption
  <1>1. /\ host = from /\ host' = "verify" /\ current' = n
        /\ fifo # <<>> /\ fifo' = Tail(fifo) /\ (\A s : Holds(fifo', s) => Holds(fifo, s))
    BY GoesReads
  <1>2. /\ dev = "running" => dev' = "running" /\ mem' = mem
        /\ dev # "running" => dev' # "running"
    BY SendTypes
  <1>3. ASSUME dev # "running" PROVE Waiting'
    <2>1. /\ mem' = mem /\ Single("chunk")'
          /\ ~Holds(fifo', "chunk")
          /\ Holds(out', "chunk") => mem[ptr] = n /\ ptr' = ptr + 1
          /\ Holds(out', "x") => Holds(out, "x")
      BY <1>1, <1>3, SendRead
    <2>2. Same(1, n - 1)'
      BY <1>3, <2>1 DEF Same
    <2>3. Absent("chunk")' \/ (mem'[n] = n /\ ptr' = n + 1)
      BY <1>3, <2>1 DEF Absent
    <2>4. Verifying'
      BY <1>1, <2>1, <2>2, <2>3 DEF Verifying, Same, Single
    <2>5. NoneExecuted'
      BY <1>1, <1>3, <2>1 DEF RunInv, Waiting, NoneExecuted
    <2> QED BY <1>1, <2>4, <2>5 DEF Waiting, Looking, Writing, Clearing, Ending
  <1> QED BY <1>1, <1>2, <1>3, Outside

\* The clear is answered: the pointer is at the start.
LEMMA ClearedKeeps ==
  ASSUME TypeOK, RunInv, Cleared
  PROVE  RunInv'
  <1> USE UartAssumption
  <1>1. Goes("clear", "verify", 1) /\ Send("read", 1) /\ 1 \in 1..Chunks
    BY DEF Cleared
  <1>2. host = "clear" /\ Holds(fifo, "c")
    BY <1>1, GoesReads, Awaits
  <1>3. ASSUME dev # "running" PROVE Absent("chunk") /\ ptr = 1 /\ Same(1, 1 - 1)
    BY <1>2, <1>3 DEF RunInv, Waiting, Clearing, Absent, Same
  <1> QED BY <1>1, <1>3, ReadKeeps

\* A chunk is read and is right: it was the only one on the way.
LEMMA VerifiedKeeps ==
  ASSUME TypeOK, RunInv, Verified
  PROVE  RunInv'
  <1>1. Goes("verify", "tail", current) /\ UNCHANGED <<dev, mem, ptr, out>>
    BY DEF Verified, devVars
  <1>2. /\ host = "verify" /\ host' = "tail" /\ current' = current /\ Holds(fifo, "chunk")
        /\ \A s : Holds(fifo', s) => Holds(fifo, s)
        /\ Once(fifo, "chunk") => ~Holds(fifo', "chunk")
    BY <1>1, GoesReads, Awaits
  <1>3. ASSUME dev # "running" PROVE Waiting'
    <2>1. /\ Single("chunk") /\ Same(1, current - 1)
          /\ mem[current] = current /\ ptr = current + 1
      BY <1>2, <1>3 DEF RunInv, Waiting, Verifying, Absent
    <2>2. Absent("chunk")'
      BY <1>1, <1>2, <2>1 DEF Single, Absent
    <2>3. Same(1, current)'
      BY <1>1, <1>2, <2>1 DEF Same, TypeOK
    <2>4. Ending'
      BY <1>1, <1>2, <2>1, <2>2, <2>3 DEF Ending, Same
    <2>5. NoneExecuted'
      BY <1>1, <1>2, <1>3 DEF RunInv, Waiting, NoneExecuted
    <2> QED BY <1>2, <2>4, <2>5 DEF Waiting, Looking, Writing, Clearing, Verifying
  <1> QED BY <1>1, <1>2, <1>3, Outside

\* The end of a chunk: the next is asked for, or the whole image has been verified and may run.
LEMMA TailReadKeeps ==
  ASSUME TypeOK, RunInv, TailRead
  PROVE  RunInv'
  <1> USE UartAssumption
  <1>1. host = "tail"
    BY DEF TailRead, Goes
  <1>2. ASSUME dev # "running" PROVE Absent("chunk") /\ Same(1, current) /\ ptr = current + 1
    BY <1>1, <1>2 DEF RunInv, Waiting, Ending
  <1>3. CASE current < Chunks /\ Goes("tail", "verify", current + 1) /\ Send("read", current + 1)
    <2>1. PICK n : n = current + 1
      OBVIOUS
    <2>2. n \in 1..Chunks /\ n - 1 = current
      BY <1>3, <2>1 DEF TypeOK
    <2>3. dev # "running" => Absent("chunk") /\ ptr = n /\ Same(1, n - 1)
      BY <1>2, <2>1, <2>2
    <2>4. Goes("tail", "verify", n) /\ Send("read", n)
      BY <1>3, <2>1
    <2> QED BY <2>2, <2>3, <2>4, ReadKeeps
  <1>4. CASE current = Chunks /\ Goes("tail", "exec", 1) /\ Send("execute", 1)
    <2>1. host' = "exec" /\ (\A s : Holds(fifo', s) => Holds(fifo, s)) /\ 1 \in 1..Chunks
      BY <1>4, GoesReads
    <2>2. /\ dev = "running" => dev' = "running" /\ mem' = mem
          /\ mem' \in Memory
      BY <1>4, <2>1, SendTypes
    <2>3. ASSUME dev # "running" PROVE mem = Image
      <3>1. \A a \in 1..Chunks : mem[a] = a
        BY <1>2, <1>4, <2>3 DEF Same
      <3> QED BY <3>1 DEF TypeOK, Memory, Image
    <2>4. mem' = mem /\ (dev' = "running" \/ (dev' = dev /\ UNCHANGED out))
      BY <1>4 DEF Send, Obey, devVars
    <2>5. ASSUME dev' # "running" PROVE Waiting'
      <3>1. dev # "running" /\ UNCHANGED out
        BY <2>2, <2>4, <2>5
      <3>2. NoneExecuted'
        BY <1>1, <2>1, <3>1 DEF RunInv, Waiting, NoneExecuted
      <3> QED BY <2>1, <3>2 DEF Waiting, Looking, Writing, Clearing, Verifying, Ending
    <2> QED BY <1>1, <2>2, <2>3, <2>4, <2>5, Outside
  <1> QED BY <1>3, <1>4 DEF TailRead

\* The host hears that the device runs only if it does.
LEMMA ExecutedKeeps ==
  ASSUME TypeOK, RunInv, Executed
  PROVE  RunInv'
  <1>1. Goes("exec", "look", 1) /\ UNCHANGED <<dev, mem, ptr, out>>
    BY DEF Executed, devVars
  <1>2. host = "exec" /\ Holds(fifo, "x")
    BY <1>1, GoesReads, Awaits
  <1>3. dev = "running"
    BY <1>2 DEF RunInv, Waiting, NoneExecuted
  <1> QED BY <1>1, <1>2, <1>3, Outside

-----------------------------------------------------------------------------

\* Looking without a splash changes nothing the invariant is about, or resets.
LEMMA LookKeeps ==
  ASSUME TypeOK, RunInv, NEW r \in Readings, LookInVain(r) \/ LookAtHello(r)
  PROVE  RunInv'
  <1>1. CASE reset_chip
    BY <1>1, ResetKeeps
  <1>2. CASE UNCHANGED <<host, current, dev, mem, ptr, out>>
    <2>1. host = "look" /\ fifo' = <<>>
      BY DEF LookInVain, LookAtHello, Look
    <2>2. ASSUME dev # "running" PROVE Waiting'
      BY <1>2, <2>1, <2>2
         DEF RunInv, Waiting, Looking, Writing, Clearing, Verifying, Ending, NoneExecuted
    <2> QED BY <1>2, <2>1, <2>2, Outside
  <1> QED BY <1>1, <1>2 DEF LookInVain, LookAtHello, devVars

\* What the device says on its own is neither answer nor chunk.
LEMMA DeviceKeeps ==
  ASSUME TypeOK, RunInv, Device
  PROVE  RunInv'
  <1>1. CASE Splash
    <2>1. dev = "off" /\ dev' = "rom" /\ out' = <<"splash">> /\ UNCHANGED <<host, current, fifo, mem, ptr>>
      BY <1>1 DEF Splash, hostVars
    <2>2. \A s : Holds(out', s) => s = "splash"
      BY <2>1 DEF Holds
    <2>3. Once(out', "chunk") /\ Once(out', "w")
      BY <2>2 DEF Holds, Once
    <2>4. Waiting
      BY <2>1 DEF RunInv
    <2>5. (Absent("c") => Absent("c")') /\ (Absent("w") => Absent("w")')
          /\ (Single("w") => Single("w")')
      BY <2>1, <2>2, <2>3 DEF Absent, Single
    <2>6. (Absent("chunk") => Absent("chunk")') /\ (Single("chunk") => Single("chunk")')
      BY <2>1, <2>2, <2>3 DEF Absent, Single
    <2>7. Looking' /\ Writing' /\ Clearing'
      BY <2>1, <2>2, <2>4, <2>5, <2>6 DEF Waiting, Looking, Writing, Clearing
    <2>8. Verifying' /\ Ending'
      BY <2>1, <2>4, <2>6 DEF Waiting, Verifying, Ending, Same
    <2>9. NoneExecuted'
      BY <2>1, <2>2, <2>4 DEF Waiting, NoneExecuted
    <2> QED BY <2>1, <2>7, <2>8, <2>9 DEF Waiting, RunInv, RunsTheImage
  <1>2. CASE Hello
    BY <1>2 DEF Hello, devVars, RunInv, RunsTheImage
  <1> QED BY <1>1, <1>2 DEF Device

\* The host has nothing but the image executed (uart_boot.c compares every byte before it sends
\* x), for every size of the partition and any number of faults; what data taken for an x
\* start, it never goes on from.
THEOREM OnlyTheImage == Spec => []RunsTheImage
  <1>1. Init => TypeOK /\ RunInv
    <2> SUFFICES ASSUME Init PROVE TypeOK /\ RunInv
      OBVIOUS
    <2>1. <<>> \in Seq(Signals) /\ Blank \in Memory
      BY DEF Blank, Memory
    <2>2. TypeOK
      BY <2>1, UartAssumption DEF Init, TypeOK
    <2>3. \A s : ~Holds(out, s)
      BY HoldsEmpty DEF Init
    <2>4. RunInv
      BY <2>3 DEF Init, RunInv, RunsTheImage, Waiting, Looking, Writing, Clearing, Verifying,
                  Ending, NoneExecuted
    <2> QED BY <2>2, <2>4
  <1>2. TypeOK /\ RunInv /\ [Next]_vars => TypeOK' /\ RunInv'
    <2> SUFFICES ASSUME TypeOK, RunInv, [Next]_vars PROVE TypeOK' /\ RunInv'
      OBVIOUS
    <2>1. TypeOK'
      BY TypeStep
    <2> SUFFICES RunInv'
      BY <2>1
    <2>2. CASE UNCHANGED vars
      BY <2>2
         DEF vars, RunInv, RunsTheImage, Waiting, Looking, Writing, Clearing, Verifying, Ending,
             NoneExecuted, Absent, Single, Same
    <2>3. CASE HangDetected \/ IncorrectResponse
      BY <2>3, ResetKeeps DEF HangDetected, IncorrectResponse
    <2>4. CASE Arrives
      BY <2>4, ArrivesKeeps
    <2>5. CASE Device
      BY <2>5, DeviceKeeps
    <2>6. CASE \E r \in Readings : LookInVain(r) \/ LookAtHello(r) \/ LookAtSplash(r)
      BY <2>6, LookKeeps, SplashSeenKeeps
    <2>7. CASE KnockAgain \/ KnockAnswered \/ Written
      BY <2>7, KnockKeeps, KnockAnsweredKeeps, WrittenKeeps
    <2>8. CASE Cleared \/ Verified \/ TailRead \/ Executed
      BY <2>8, ClearedKeeps, VerifiedKeeps, TailReadKeeps, ExecutedKeeps
    <2> QED BY <2>2, <2>3, <2>4, <2>5, <2>6, <2>7, <2>8 DEF Next, Host
  <1>3. RunInv => RunsTheImage
    BY DEF RunInv
  <1> QED BY <1>1, <1>2, <1>3, PTL DEF Spec

-----------------------------------------------------------------------------
(* A line without faults. *)

\* What is on the way, in the FIFO or behind it.
Way0 == fifo = <<>> /\ out = <<>>
Way1(a) == \/ fifo = <<a>> /\ out = <<>>
           \/ fifo = <<>> /\ out = <<a>>
Way2(a, b) == \/ fifo = <<a, b>> /\ out = <<>>
              \/ fifo = <<a>> /\ out = <<b>>
              \/ fifo = <<>> /\ out = <<a, b>>

\* The attempt from the reset to the image running, by what is on the way at each wait.
Down == host = "look" /\ dev = "off" /\ ptr = 1 /\ Way0
Up == host = "look" /\ dev = "rom" /\ ptr = 1 /\ Way1("splash")
Knocked == host = "knock" /\ dev = "boot" /\ ptr = 1 /\ Way1("n")
Writes == host = "write" /\ dev = "boot" /\ ptr = current + 1 /\ Same(1, current) /\ Way1("w")
Clears == host = "clear" /\ dev = "boot" /\ ptr = 1 /\ Same(1, Chunks) /\ Way1("c")
Reads ==
  host = "verify" /\ dev = "boot" /\ ptr = current + 1 /\ Same(1, Chunks) /\ Way2("chunk", "r")
ReadsOn == host = "tail" /\ dev = "boot" /\ ptr = current + 1 /\ Same(1, Chunks) /\ Way1("r")
Starts == host = "exec" /\ dev = "running" /\ (Way1("x") \/ Way2("x", "hello"))
Watches == host = "look" /\ dev = "running" /\ (Way0 \/ Way1("hello"))

Stage ==
  Down \/ Up \/ Knocked \/ Writes \/ Clears \/ Reads \/ ReadsOn \/ Starts \/ Watches

\* Without a fault nothing is lost: each answer is on its way, and the host waits for it.
InLockStep == faults = 0 => Stage

LEMMA Short ==
  ASSUME NEW a, NEW b
  PROVE  /\ <<a>> # <<>> /\ <<a, b>> # <<>>
         /\ Head(<<a>>) = a /\ Tail(<<a>>) = <<>> /\ Head(<<a, b>>) = a /\ Tail(<<a, b>>) = <<b>>
         /\ Append(<<>>, a) = <<a>> /\ Append(<<a>>, b) = <<a, b>>
  <1> DEFINE S == {a, b}
  <1>1. <<>> \in Seq(S) /\ <<a>> \in Seq(S) /\ <<a, b>> \in Seq(S) /\ <<b>> \in Seq(S)
    OBVIOUS
  <1>2. /\ Len(<<>>) = 0 /\ Len(<<a>>) = 1 /\ Len(<<a, b>>) = 2 /\ <<a>>[1] = a /\ <<b>>[1] = b
        /\ Len(<<b>>) = 1 /\ <<a, b>>[1] = a /\ <<a, b>>[2] = b
    OBVIOUS
  <1>3. <<a>> # <<>> /\ <<a, b>> # <<>> /\ Head(<<a>>) = a /\ Head(<<a, b>>) = a
    OBVIOUS
  <1>4. Tail(<<a>>) = <<>>
    OBVIOUS
  <1>5. Tail(<<a, b>>) = <<b>>
    OBVIOUS
  <1>6. Append(<<>>, a) = <<a>>
    OBVIOUS
  <1>7. Append(<<a>>, b) = <<a, b>>
    <2> DEFINE q == Append(<<a>>, b)
               r == <<a, b>>
    <2>1. q \in Seq(S) /\ Len(q) = 2 /\ q[1] = a /\ q[2] = b
      BY <1>1, <1>2
    <2>2. r \in Seq(S) /\ Len(r) = 2 /\ r[1] = a /\ r[2] = b
      BY <1>1, <1>2
    <2> HIDE DEF q, r
    <2>3. \A j \in 1..2 : j = 1 \/ j = 2
      OBVIOUS
    <2>4. \A j \in 1..2 : q[j] = r[j]
      BY <2>1, <2>2, <2>3
    <2>5. q = r
      BY <2>1, <2>2, <2>4
    <2> QED BY <2>5 DEF q, r
  <1> QED BY <1>3, <1>4, <1>5, <1>6, <1>7

\* A step after which there was no fault is no fault.
LEMMA NoFaultYet ==
  ASSUME TypeOK, [Next]_vars, faults' = 0
  PROVE  faults = 0 /\ ~Fault
  <1>1. faults \in Nat
    BY DEF TypeOK
  <1>2. faults' = faults \/ Fault
    BY DEF Next, Device, Host, Arrives, Splash, Hello, LookInVain, LookAtHello, LookAtSplash, Look,
           KnockAgain, HangDetected, IncorrectResponse, KnockAnswered, Written, Cleared, Verified,
           TailRead, Executed, Send, vars
  <1> QED BY <1>1, <1>2 DEF Fault

\* A command the ROM can obey is obeyed.
LEMMA SendObeyed ==
  ASSUME NEW command, NEW chunk, Send(command, chunk), ~Fault, ~Deaf(command)
  PROVE  Obey(command, chunk)
  BY DEF Send

\* The greetings are no strays, so that a reading is all there is.
LEMMA PlainReadings ==
  ASSUME Way0 \/ Way1("splash") \/ Way1("hello")
  PROVE  /\ ~Strays
         /\ \A reading \in Readings :
              reading = {fifo[i] : i \in DOMAIN fifo} \cap {"splash", "hello"}
  <1>1. fifo = <<>> \/ fifo = <<"splash">> \/ fifo = <<"hello">>
    BY DEF Way0, Way1
  <1>2. \A i \in DOMAIN fifo : fifo[i] \in {"splash", "hello"}
    BY <1>1
  <1>3. ~Strays
    BY <1>2 DEF Strays
  <1> QED BY <1>3 DEF Readings

LEMMA ArrivesInStep ==
  ASSUME TypeOK, Stage, Arrives, ~Fault
  PROVE  Stage' /\ dev' = dev
  <1>1. host = "look" => ~Strays
    BY PlainReadings DEF Stage, Down, Up, Knocked, Writes, Clears, Reads, ReadsOn, Starts, Watches
  <1>2. /\ out # <<>> /\ out' = Tail(out) /\ fifo' = Append(fifo, Head(out))
        /\ UNCHANGED <<host, current, dev, mem, ptr>>
    BY <1>1 DEF Arrives, hostVars, devVars
  <1>3. ~Way0
    BY <1>2 DEF Way0
  <1>4. ASSUME NEW a, Way1(a) PROVE Way1(a)'
    BY <1>2, <1>4, Short DEF Way1
  <1>5. ASSUME NEW a, NEW b, Way2(a, b) PROVE Way2(a, b)'
    <2>1. CASE fifo = <<a>> /\ out = <<b>>
      BY <1>2, <2>1, Short DEF Way2
    <2>2. CASE fifo = <<>> /\ out = <<a, b>>
      BY <1>2, <2>2, Short DEF Way2
    <2> QED BY <1>2, <1>5, <2>1, <2>2 DEF Way2
  <1>6. /\ Way1("splash") => Way1("splash")'
        /\ Way1("hello") => Way1("hello")'
        /\ Way1("n") => Way1("n")'
        /\ Way1("w") => Way1("w")'
        /\ Way1("c") => Way1("c")'
        /\ Way1("r") => Way1("r")'
        /\ Way1("x") => Way1("x")'
        /\ Way2("chunk", "r") => Way2("chunk", "r")'
        /\ Way2("x", "hello") => Way2("x", "hello")'
    BY <1>4, <1>5
  <1> QED BY <1>2, <1>3, <1>6
          DEF Stage, Down, Up, Knocked, Writes, Clears, Reads, ReadsOn, Starts, Watches, Same

LEMMA DeviceInStep ==
  ASSUME TypeOK, Stage, Device
  PROVE  Stage' /\ (dev' = "off" => dev = "off")
  <1>1. CASE Splash
    <2>1. Down
      BY <1>1 DEF Splash, Stage, Up, Knocked, Writes, Clears, Reads, ReadsOn, Starts, Watches
    <2>2. Up'
      BY <1>1, <2>1 DEF Splash, Down, Way0, Up, Way1, hostVars
    <2> QED BY <1>1, <2>2 DEF Stage, Splash
  <1>2. CASE Hello
    <2>1. /\ dev = "running" /\ out = <<>> /\ out' = <<"hello">>
          /\ UNCHANGED <<host, fifo, dev>>
          /\ fifo # <<"hello">> /\ fifo # <<"x", "hello">>
      <3>1. \A i \in DOMAIN fifo : fifo[i] # "hello"
        BY <1>2 DEF Hello
      <3>2. fifo # <<"hello">>
        <4> SUFFICES ASSUME fifo = <<"hello">> PROVE FALSE
          OBVIOUS
        <4>1. 1 \in DOMAIN fifo /\ fifo[1] = "hello"
          OBVIOUS
        <4> QED BY <3>1, <4>1
      <3>3. fifo # <<"x", "hello">>
        <4> SUFFICES ASSUME fifo = <<"x", "hello">> PROVE FALSE
          OBVIOUS
        <4>1. 2 \in DOMAIN fifo /\ fifo[2] = "hello"
          OBVIOUS
        <4> QED BY <3>1, <4>1
      <3> QED BY <1>2, <3>2, <3>3 DEF Hello, hostVars, devVars
    <2>2. Starts \/ Watches
      BY <2>1 DEF Stage, Down, Up, Knocked, Writes, Clears, Reads, ReadsOn
    <2>3. CASE Starts
      <3>1. fifo = <<"x">>
        BY <2>1, <2>3, Short DEF Starts, Way1, Way2
      <3> QED BY <2>1, <2>3, <3>1 DEF Stage, Starts, Way2
    <2>4. CASE Watches
      <3>1. fifo = <<>>
        BY <2>1, <2>4, Short DEF Watches, Way0, Way1
      <3> QED BY <2>1, <2>4, <3>1 DEF Stage, Watches, Way1
    <2> QED BY <2>2, <2>3, <2>4
  <1> QED BY <1>1, <1>2 DEF Device

LEMMA LookInStep ==
  ASSUME TypeOK, Stage, ~Fault, NEW reading \in Readings,
         LookInVain(reading) \/ LookAtHello(reading) \/ LookAtSplash(reading)
  PROVE  Stage' /\ (dev' = "off" => dev = "off")
  <1>1. host = "look" /\ fifo' = <<>>
    BY DEF LookInVain, LookAtHello, LookAtSplash, Look
  <1>2. Down \/ Up \/ Watches
    BY <1>1 DEF Stage, Knocked, Writes, Clears, Reads, ReadsOn, Starts
  <1>3. Way0 \/ Way1("splash") \/ Way1("hello")
    BY <1>2 DEF Down, Up, Watches
  <1>4. reading = {fifo[i] : i \in DOMAIN fifo} \cap {"splash", "hello"}
    BY <1>3, PlainReadings
  <1>5. /\ fifo = <<>> => reading = {}
        /\ fifo = <<"splash">> => reading = {"splash"}
        /\ fifo = <<"hello">> => reading = {"hello"}
    <2>1. fifo = <<>> => reading = {}
      BY <1>4
    <2>2. ASSUME NEW a \in {"splash", "hello"}, fifo = <<a>> PROVE reading = {a}
      <3>1. DOMAIN fifo = {1} /\ fifo[1] = a
        BY <2>2
      <3> QED BY <1>4, <3>1
    <2> QED BY <2>1, <2>2
  <1>6. CASE LookInVain(reading) \/ LookAtHello(reading)
    <2>1. /\ out = <<>> /\ dev # "off" /\ (dev = "running" => fifo # <<>>)
          /\ reading = {} \/ reading = {"hello"}
      BY <1>6 DEF LookInVain, LookAtHello, Look
    <2>2. Watches /\ fifo = <<"hello">>
      BY <1>2, <1>5, <2>1 DEF Down, Up, Watches, Way0, Way1
    <2>3. LookAtHello(reading)
      BY <1>5, <1>6, <2>2 DEF LookInVain
    <2>4. UNCHANGED <<host, dev, out>>
      BY <2>3 DEF LookAtHello, devVars
    <2> QED BY <1>1, <2>1, <2>2, <2>4 DEF Stage, Watches, Way0
  <1>7. CASE LookAtSplash(reading)
    <2>1. "splash" \in reading /\ host' = "knock" /\ Send("knock", 1)
      BY <1>7 DEF LookAtSplash
    <2>2. Up /\ fifo = <<"splash">> /\ out = <<>>
      BY <1>2, <1>5, <2>1, Short DEF Down, Up, Watches, Way0, Way1
    <2>3. Obey("knock", 1)
      BY <2>1, <2>2, SendObeyed DEF Up, Deaf
    <2>4. dev' = "boot" /\ ptr' = ptr /\ out' = <<"n">>
      BY <2>2, <2>3, Short DEF Obey
    <2> QED BY <1>1, <2>1, <2>2, <2>4 DEF Stage, Up, Knocked, Way1
  <1> QED BY <1>6, <1>7

\* The host never gives up: an answer it has not got is still on its way, and each is the
\* one it waits for.
LEMMA NoTimeout ==
  ASSUME TypeOK, Stage, ~Fault
  PROVE  ~KnockAgain /\ ~HangDetected /\ ~IncorrectResponse
  <1>1. host # "look" => (fifo = <<>> => out # <<>>) /\ (fifo # <<>> => Head(fifo) = Awaited[host])
    <2> SUFFICES ASSUME host # "look"
                 PROVE  (fifo = <<>> => out # <<>>) /\ (fifo # <<>> => Head(fifo) = Awaited[host])
      OBVIOUS
    <2>1. ASSUME NEW a, NEW b, Way1(a) \/ Way2(a, b)
          PROVE  (fifo = <<>> => out # <<>>) /\ (fifo # <<>> => Head(fifo) = a)
      BY <2>1, Short DEF Way1, Way2
    <2>2. CASE Knocked
      BY <2>1, <2>2 DEF Knocked, Awaited
    <2>3. CASE Writes
      BY <2>1, <2>3 DEF Writes, Awaited
    <2>4. CASE Clears
      BY <2>1, <2>4 DEF Clears, Awaited
    <2>5. CASE Reads
      BY <2>1, <2>5 DEF Reads, Awaited
    <2>6. CASE ReadsOn
      BY <2>1, <2>6 DEF ReadsOn, Awaited
    <2>7. CASE Starts
      BY <2>1, <2>7 DEF Starts, Awaited
    <2> QED BY <2>2, <2>3, <2>4, <2>5, <2>6, <2>7 DEF Stage, Down, Up, Watches
  <1>2. "look" \notin DOMAIN Awaited
    BY DEF Awaited
  <1> QED BY <1>1, <1>2 DEF KnockAgain, HangDetected, IncorrectResponse

\* What was read leaves what is behind it.
LEMMA WayAfter ==
  ASSUME NEW a, fifo # <<>>, fifo' = Tail(fifo)
  PROVE  /\ Way1(a) => fifo' = <<>> /\ out = <<>>
         /\ \A b : Way2(a, b) => (fifo' = <<b>> /\ out = <<>>) \/ (fifo' = <<>> /\ out = <<b>>)
  <1>1. Way1(a) => fifo' = <<>> /\ out = <<>>
    BY Short DEF Way1
  <1>2. ASSUME NEW b, Way2(a, b)
        PROVE  (fifo' = <<b>> /\ out = <<>>) \/ (fifo' = <<>> /\ out = <<b>>)
    <2>1. CASE fifo = <<a, b>> /\ out = <<>>
      <3>1. Tail(<<a, b>>) = <<b>>
        BY Short
      <3> QED BY <2>1, <3>1
    <2>2. CASE fifo = <<a>> /\ out = <<b>>
      <3>1. Tail(<<a>>) = <<>>
        BY Short
      <3> QED BY <2>2, <3>1
    <2> QED BY <1>2, <2>1, <2>2 DEF Way2
  <1> QED BY <1>1, <1>2

LEMMA AnswerInStep ==
  ASSUME TypeOK, Stage, ~Fault,
         KnockAnswered \/ Written \/ Cleared \/ Verified \/ TailRead \/ Executed
  PROVE  Stage' /\ (dev' = "off" => dev = "off")
  <1> USE UartAssumption
  <1>0. /\ fifo # <<>> /\ fifo' = Tail(fifo) /\ current \in 1..Chunks /\ ptr \in 1..(Chunks + 1)
        /\ mem \in Memory
    BY DEF KnockAnswered, Written, Cleared, Verified, TailRead, Executed, Goes, TypeOK
  <1>1. ASSUME NEW c \in 1..Chunks, ptr = c, Same(1, c - 1), dev = "boot", Send("write", c),
               out = <<>>, fifo' = <<>>, host' = "write", current' = c
        PROVE  Stage' /\ dev' # "off"
    <2>1. Obey("write", c)
      BY <1>1, SendObeyed DEF Deaf
    <2>2. mem' = [mem EXCEPT ![c] = c] /\ ptr' = c + 1 /\ out' = <<"w">> /\ dev' = dev
      BY <1>1, <2>1, Short DEF Obey
    <2>3. Same(1, c)'
      BY <1>0, <1>1, <2>2 DEF Same, Memory
    <2>4. Same(1, current)'
      BY <1>1, <2>3 DEF Same
    <2> QED BY <1>1, <2>2, <2>4 DEF Stage, Writes, Way1
  <1>2. ASSUME NEW c \in 1..Chunks, ptr = c, Same(1, Chunks), dev = "boot", Send("read", c),
               out = <<>>, fifo' = <<>>, host' = "verify", current' = c
        PROVE  Stage' /\ dev' # "off"
    <2>1. Obey("read", c)
      BY <1>2, SendObeyed DEF Deaf
    <2>2. mem[c] = c
      BY <1>2 DEF Same
    <2>3. mem' = mem /\ ptr' = c + 1 /\ out' = <<"chunk", "r">> /\ dev' = dev
      BY <1>2, <2>1, <2>2, Short DEF Obey
    <2> QED BY <1>2, <2>3 DEF Stage, Reads, Way2, Same
  <1>3. CASE KnockAnswered
    <2>1. Knocked /\ host' = "write" /\ current' = 1 /\ Send("write", 1)
      BY <1>3 DEF KnockAnswered, Goes, Stage, Down, Up, Writes, Clears, Reads, ReadsOn, Starts, Watches
    <2>2. fifo' = <<>> /\ out = <<>>
      BY <1>0, <2>1, WayAfter DEF Knocked
    <2>3. Same(1, 1 - 1)
      BY DEF Same
    <2> QED BY <1>1, <2>1, <2>2, <2>3 DEF Knocked
  <1>4. CASE Written
    <2>1. Writes
      BY <1>4 DEF Written, Goes, Stage, Down, Up, Knocked, Clears, Reads, ReadsOn, Starts, Watches
    <2>2. fifo' = <<>> /\ out = <<>>
      BY <1>0, <2>1, WayAfter DEF Writes
    <2>3. CASE current < Chunks /\ Goes("write", "write", current + 1) /\ Send("write", current + 1)
      <3> DEFINE c == current + 1
      <3>1. c \in 1..Chunks /\ c - 1 = current
        BY <1>0, <2>3
      <3>2. ptr = c /\ Same(1, c - 1) /\ dev = "boot" /\ Send("write", c) /\ host' = "write" /\ current' = c
        BY <2>1, <2>3, <3>1 DEF Writes, Goes
      <3> HIDE DEF c
      <3> QED BY <1>1, <2>2, <3>1, <3>2
    <2>4. CASE current = Chunks /\ Goes("write", "clear", current) /\ Send("clear", 1)
      <3>1. Obey("clear", 1)
        BY <2>1, <2>4, SendObeyed DEF Deaf, Writes
      <3>2. ptr' = 1 /\ out' = <<"c">> /\ dev' = dev /\ mem' = mem /\ host' = "clear"
        BY <2>2, <2>4, <3>1, Short DEF Obey, Goes
      <3> QED BY <2>1, <2>2, <2>4, <3>2 DEF Stage, Writes, Clears, Way1, Same
    <2> QED BY <1>4, <2>3, <2>4 DEF Written
  <1>5. CASE Cleared
    <2>1. Clears /\ host' = "verify" /\ current' = 1 /\ Send("read", 1)
      BY <1>5 DEF Cleared, Goes, Stage, Down, Up, Knocked, Writes, Reads, ReadsOn, Starts, Watches
    <2>2. fifo' = <<>> /\ out = <<>>
      BY <1>0, <2>1, WayAfter DEF Clears
    <2> QED BY <1>2, <2>1, <2>2 DEF Clears
  <1>6. CASE Verified
    <2>1. Reads /\ host' = "tail" /\ UNCHANGED <<current, dev, mem, ptr, out>>
      BY <1>6 DEF Verified, Goes, devVars, Stage, Down, Up, Knocked, Writes, Clears, ReadsOn, Starts, Watches
    <2>2. Way1("r")'
      BY <1>0, <2>1, WayAfter DEF Reads, Way1
    <2> QED BY <2>1, <2>2 DEF Stage, Reads, ReadsOn, Same
  <1>7. CASE TailRead
    <2>1. ReadsOn
      BY <1>7 DEF TailRead, Goes, Stage, Down, Up, Knocked, Writes, Clears, Reads, Starts, Watches
    <2>2. fifo' = <<>> /\ out = <<>>
      BY <1>0, <2>1, WayAfter DEF ReadsOn
    <2>3. CASE current < Chunks /\ Goes("tail", "verify", current + 1) /\ Send("read", current + 1)
      <3> DEFINE c == current + 1
      <3>1. c \in 1..Chunks
        BY <1>0, <2>3
      <3>2. ptr = c /\ Same(1, Chunks) /\ dev = "boot" /\ Send("read", c) /\ host' = "verify" /\ current' = c
        BY <2>1, <2>3 DEF ReadsOn, Goes
      <3> HIDE DEF c
      <3> QED BY <1>2, <2>2, <3>1, <3>2
    <2>4. CASE current = Chunks /\ Goes("tail", "exec", 1) /\ Send("execute", 1)
      <3>1. Obey("execute", 1)
        BY <2>1, <2>4, SendObeyed DEF Deaf, ReadsOn
      <3>2. out' = <<"x">> /\ dev' = "running" /\ host' = "exec"
        BY <2>2, <2>4, <3>1, Short DEF Obey, Goes
      <3> QED BY <2>2, <3>2 DEF Stage, Starts, Way1
    <2> QED BY <1>7, <2>3, <2>4 DEF TailRead
  <1>8. CASE Executed
    <2>1. Starts /\ host' = "look" /\ UNCHANGED <<dev, out>>
      BY <1>8 DEF Executed, Goes, devVars, Stage, Down, Up, Knocked, Writes, Clears, Reads, ReadsOn, Watches
    <2>2. Way0' \/ Way1("hello")'
      BY <1>0, <2>1, WayAfter DEF Starts, Way0, Way1
    <2> QED BY <2>1, <2>2 DEF Stage, Starts, Watches
  <1> QED BY <1>3, <1>4, <1>5, <1>6, <1>7, <1>8

LEMMA LockStep ==
  ASSUME TypeOK, InLockStep, [Next]_vars
  PROVE  InLockStep' /\ (faults' = 0 /\ dev' = "off" => dev = "off")
  <1> SUFFICES ASSUME faults' = 0 PROVE Stage' /\ (dev' = "off" => dev = "off")
    BY DEF InLockStep
  <1>1. Stage /\ ~Fault
    BY NoFaultYet DEF InLockStep
  <1>2. CASE UNCHANGED vars
    BY <1>1, <1>2 DEF vars, Stage, Down, Up, Knocked, Writes, Clears, Reads, ReadsOn, Starts, Watches,
                      Way0, Way1, Way2, Same
  <1>3. CASE Arrives
    BY <1>1, <1>3, ArrivesInStep
  <1>4. CASE Device
    BY <1>1, <1>4, DeviceInStep
  <1>5. CASE \E r \in Readings : LookInVain(r) \/ LookAtHello(r) \/ LookAtSplash(r)
    BY <1>1, <1>5, LookInStep
  <1>6. CASE KnockAgain \/ HangDetected \/ IncorrectResponse
    BY <1>1, <1>6, NoTimeout
  <1>7. CASE KnockAnswered \/ Written \/ Cleared \/ Verified \/ TailRead \/ Executed
    BY <1>1, <1>7, AnswerInStep
  <1> QED BY <1>2, <1>3, <1>4, <1>5, <1>6, <1>7 DEF Next, Host

\* Over a line without faults the host never resets the device it has begun with (none of the
\* timeouts and comparisons of uart_boot.c gives up), for every size of the partition; an
\* answer delayed past a timeout is a fault.
THEOREM NeverReset == Spec => FirstTry
  <1>1. Init => TypeOK /\ InLockStep
    <2>1. Init => TypeOK
      <3>1. <<>> \in Seq(Signals) /\ Blank \in Memory
        BY DEF Blank, Memory
      <3> QED BY <3>1, UartAssumption DEF Init, TypeOK
    <2>2. Init => InLockStep
      BY DEF Init, InLockStep, Stage, Down, Way0
    <2> QED BY <2>1, <2>2
  <1>2. TypeOK /\ InLockStep /\ [Next]_vars => TypeOK' /\ InLockStep'
    BY TypeStep, LockStep
  <1>3. TypeOK /\ InLockStep /\ [Next]_vars => [faults' = 0 /\ dev' = "off" => dev = "off"]_vars
    BY LockStep
  <1> QED BY <1>1, <1>2, <1>3, PTL DEF Spec, FirstTry

=============================================================================
