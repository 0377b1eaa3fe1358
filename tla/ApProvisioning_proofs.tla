------------------------ MODULE ApProvisioning_proofs ------------------------
(***************************************************************************)
(* The sector of saved networks through any number of requests, boots and    *)
(* power cuts, for any sets of networks and connections: no network is       *)
(* listed twice, the page shows what is saved, and the sector implements the *)
(* book. The three rest on one invariant: who waits for the flash, what is   *)
(* left to do to it, and what RAM holds meanwhile.                           *)
(***************************************************************************)
EXTENDS ApProvisioning, TLAPS

JobLists == {<<>>, <<"erase">>, <<"program">>, <<"erase", "program">>,
             <<"erase", "erase", "program">>}

TypeOK ==
  /\ flash \in Lists \cup {Erased, Garbled} /\ target \in Lists /\ list \in Lists
  /\ jobs \in JobLists
  /\ handler \in {"none", "connect", "clear"}
  /\ post_credentials_ok => creds \in Creds

\* Every list is one that may be saved.
Tidy == NoTwins(list) /\ NoTwins(target) /\ (flash \in Lists => NoTwins(flash))

\* Before and while the sector is read nobody asks for anything.
Reading == main \in {"key", "read", "lost"}
ServedLate == httpd => ~Reading

\* Who waits for the flash, and what is true when the wait ends.
Waiting ==
  /\ handler = "none" /\ jobs # <<>> => main = "read"
  /\ handler # "none" /\ jobs = <<>> => flash \in Lists
  /\ jobs = <<"erase">> => target = <<>> /\ handler = "none"

\* RAM holds what is saved whenever nobody waits for the flash.
InStep == ~Reading /\ Calm => flash \in Lists /\ list = flash

\* An update under way knows what it replaces.
Replacing ==
  /\ jobs = <<>> => before = Settled
  /\ jobs # <<>> => before # Settled /\ (flash = Erased \/ ReadBack = before)

ApInv == TypeOK /\ Tidy /\ ServedLate /\ Waiting /\ InStep /\ Replacing

-----------------------------------------------------------------------------
(* Lists. *)

\* What a list of flash operations becomes.
LEMMA JobSteps ==
  /\ Head(<<"erase">>) = "erase" /\ Tail(<<"erase">>) = <<>>
  /\ Head(<<"program">>) = "program" /\ Tail(<<"program">>) = <<>>
  /\ Head(<<"erase", "program">>) = "erase" /\ Tail(<<"erase", "program">>) = <<"program">>
  /\ Head(<<"erase", "erase", "program">>) = "erase"
  /\ Tail(<<"erase", "erase", "program">>) = <<"erase", "program">>
  /\ <<"erase">> # <<>> /\ <<"program">> # <<>> /\ <<"erase", "program">> # <<>>
  /\ <<"erase", "erase", "program">> # <<>>
  /\ <<"erase", "program">> # <<"erase">> /\ <<"program">> # <<"erase">>
  /\ <<"erase", "erase", "program">> # <<"erase">>
  OBVIOUS

\* The empty list may be saved.
LEMMA EmptyTidy == <<>> \in Lists /\ NoTwins(<<>>)
  BY ApAssumption DEF Lists, NoTwins

\* Putting a network into a list that may be saved gives one that may be saved.
LEMMA PutTidy ==
  ASSUME NEW l \in Lists, NEW c \in Creds, NoTwins(l)
  PROVE  Put(l, c) \in Lists /\ NoTwins(Put(l, c))
  <1> USE ApAssumption
  <1>1. Len(l) \in Nat /\ DOMAIN l = 1..Len(l) /\ Len(l) <= MAX_CREDENTIALS /\ l \in Seq(Creds)
    BY DEF Lists, NoTwins
  <1>2. CASE Known(l, c)
    <2> DEFINE First(i) == l[i].ssid = c.ssid /\ \A j \in 1..(i - 1) : l[j].ssid # c.ssid
               p == [i \in DOMAIN l |-> IF First(i) THEN c ELSE l[i]]
    <2>1. Put(l, c) = p
      BY <1>2 DEF Put
    <2>2. \A i \in 1..Len(l) : p[i] \in Creds /\ p[i].ssid = l[i].ssid
      BY <1>1
    <2>3. p \in [1..Len(l) -> Creds]
      BY <1>1, <2>2
    <2> HIDE DEF p
    <2>4. p \in Seq(Creds) /\ Len(p) = Len(l) /\ DOMAIN p = 1..Len(l)
      BY <1>1, <2>3
    <2>5. NoTwins(p)
      BY <1>1, <2>2, <2>4 DEF NoTwins
    <2> QED BY <2>1, <2>4, <2>5 DEF Lists
  <1>3. CASE ~Known(l, c) /\ Len(l) < MAX_CREDENTIALS
    <2>1. Put(l, c) = Append(l, c)
      BY <1>3 DEF Put
    <2>2. /\ Append(l, c) \in Seq(Creds) /\ Len(Append(l, c)) = Len(l) + 1
          /\ DOMAIN Append(l, c) = 1..(Len(l) + 1)
          /\ \A i \in 1..Len(l) : Append(l, c)[i] = l[i]
          /\ Append(l, c)[Len(l) + 1] = c
      BY <1>1
    <2>3. \A i \in 1..Len(l) : l[i].ssid # c.ssid
      BY <1>1, <1>3 DEF Known
    <2>4. NoTwins(Append(l, c))
      BY <1>1, <1>3, <2>2, <2>3 DEF NoTwins
    <2> QED BY <2>1, <2>2, <2>4 DEF Lists
  <1>4. CASE ~Known(l, c) /\ ~(Len(l) < MAX_CREDENTIALS)
    BY <1>4 DEF Put
  <1> QED BY <1>2, <1>3, <1>4

\* So does what is written for it.
LEMMA SavedTidy ==
  ASSUME NEW l \in Lists, NEW c \in Creds, NoTwins(l)
  PROVE  Saved(l, c) \in Lists /\ NoTwins(Saved(l, c))
  BY PutTidy, EmptyTidy DEF Saved

\* What is read from a list is that list.
LEMMA ReadBackList ==
  ASSUME flash \in Lists
  PROVE  ReadBack = flash
  BY ApAssumption DEF ReadBack

\* Saving, as the program and as the book describe it.
LEMMA SameSaved == \A l, c : Book!Saved(l, c) = Saved(l, c)
  BY DEF Book!Saved, Book!Put, Book!Known, Saved, Put, Known

-----------------------------------------------------------------------------
(* The kinds of steps. *)

\* A call that will write the flash begins: it is an update of the book.
LEMMA UpdateKeeps ==
  ASSUME ApInv, Calm, NEW ops \in JobLists, ops # <<>>, NEW new \in Lists, NoTwins(new),
         StartFlash(ops, new), list' \in Lists, NoTwins(list'),
         handler' \in {"none", "connect", "clear"},
         post_credentials_ok' => creds' \in Creds, ServedLate',
         handler' = "none" => main' = "read",
         ops = <<"erase">> => new = <<>> /\ handler' = "none"
  PROVE  ApInv' /\ Book!Update(new)
  <1> USE ApAssumption
  <1>1. jobs' = ops /\ target' = new /\ before' = ReadBack /\ flash' = flash /\ jobs = <<>>
    BY DEF StartFlash, Calm
  <1>2. TypeOK' /\ Tidy'
    BY <1>1 DEF ApInv, TypeOK, Tidy
  <1>3. Waiting' /\ InStep'
    BY <1>1 DEF Waiting, InStep, Calm
  <1>4. ReadBack \in Lists \cup {Garbled} /\ ReadBack' = ReadBack
    BY <1>1, EmptyTidy DEF ApInv, TypeOK, ReadBack
  <1>5. Replacing'
    BY <1>1, <1>4 DEF Replacing
  <1>6. before = Settled
    BY <1>1 DEF ApInv, Replacing
  <1>7. Book!Update(new)
    BY <1>1, <1>6 DEF Book!Update
  <1> QED BY <1>2, <1>3, <1>5, <1>7 DEF ApInv

\* A step that leaves the flash, the list and who waits for them alone.
LEMMA OtherKeeps ==
  ASSUME ApInv, UNCHANGED <<flashVars, list, handler>>,
         post_credentials_ok' => creds' \in Creds, ServedLate',
         jobs = <<>> \/ main' = main, ~Reading' => ~Reading
  PROVE  ApInv' /\ UNCHANGED <<IF jobs # <<>> THEN target ELSE ReadBack, before>>
  <1>1. UNCHANGED <<flash, jobs, target, before, list, handler>>
    BY DEF flashVars
  <1>2. TypeOK' /\ Tidy'
    BY <1>1 DEF ApInv, TypeOK, Tidy
  <1>3. ReadBack' = ReadBack
    BY <1>1 DEF ReadBack
  <1>4. Waiting' /\ InStep' /\ Replacing'
    BY <1>1, <1>3 DEF ApInv, Waiting, InStep, Replacing, Calm, Reading
  <1> QED BY <1>1, <1>2, <1>3, <1>4 DEF ApInv

\* A flash operation: the last of a call settles the update.
LEMMA FlashKeeps ==
  ASSUME ApInv, Flash
  PROVE  ApInv' /\ [Book!Next]_<<IF jobs # <<>> THEN target ELSE ReadBack, before>>
  <1> USE ApAssumption
  <1>1. /\ jobs # <<>> /\ jobs' = Tail(jobs)
        /\ UNCHANGED <<list, handler, main, httpd, creds, post_credentials_ok>>
    BY DEF Flash, call_flash_range_erase, call_flash_range_program, formVars, mainVars, radioVars
  <1>2. ServedLate' /\ (post_credentials_ok' => creds' \in Creds)
    BY <1>1 DEF ApInv, TypeOK, ServedLate, Reading
  <1>3. ASSUME jobs \in {<<"erase">>, <<"erase", "program">>, <<"erase", "erase", "program">>}
        PROVE  /\ flash' = Erased /\ target' = target
               /\ before' = IF jobs' = <<>> THEN Settled ELSE before
    BY <1>1, <1>3, JobSteps DEF Flash, call_flash_range_erase, call_flash_range_program
  <1>4. before # Settled
    BY <1>1 DEF ApInv, Replacing
  <1>5. CASE jobs = <<"erase">>
    <2>1. /\ jobs' = <<>> /\ flash' = Erased /\ target' = <<>> /\ before' = Settled /\ main = "read"
          /\ target = <<>> /\ handler = "none"
      BY <1>1, <1>3, <1>5, JobSteps DEF ApInv, Waiting
    <2>2. TypeOK' /\ Tidy'
      BY <1>1, <1>2, <2>1, EmptyTidy DEF ApInv, TypeOK, Tidy, JobLists
    <2>3. Waiting' /\ InStep' /\ Replacing'
      BY <1>1, <2>1, JobSteps DEF Waiting, InStep, Replacing, Reading
    <2>4. Book!Settle
      BY <1>1, <1>4, <2>1 DEF Book!Settle, ReadBack
    <2> QED BY <1>2, <2>2, <2>3, <2>4 DEF ApInv, Book!Next
  <1>6. CASE jobs \in {<<"erase", "program">>, <<"erase", "erase", "program">>}
    <2>1. /\ jobs' \in {<<"program">>, <<"erase", "program">>} /\ jobs' # <<>> /\ jobs' # <<"erase">>
          /\ flash' = Erased /\ target' = target /\ before' = before
      BY <1>1, <1>3, <1>6, JobSteps
    <2>2. TypeOK' /\ Tidy'
      BY <1>1, <1>2, <2>1 DEF ApInv, TypeOK, Tidy, JobLists
    <2>3. Waiting' /\ InStep' /\ Replacing'
      BY <1>1, <1>4, <2>1 DEF ApInv, Waiting, InStep, Replacing, Reading, Calm
    <2> QED BY <1>1, <1>2, <2>1, <2>2, <2>3 DEF ApInv
  <1>7. CASE jobs = <<"program">>
    <2>1. jobs' = <<>> /\ flash' = target /\ target' = <<>> /\ before' = Settled
      BY <1>1, <1>7, JobSteps DEF Flash, call_flash_range_erase, call_flash_range_program
    <2>2. TypeOK' /\ Tidy'
      BY <1>1, <1>2, <2>1, EmptyTidy DEF ApInv, TypeOK, Tidy, JobLists
    <2>3. Waiting' /\ InStep' /\ Replacing'
      BY <1>1, <2>1, JobSteps DEF ApInv, TypeOK, Waiting, InStep, Replacing, Reading, Calm
    <2>4. Book!Settle
      BY <1>1, <1>4, <2>1 DEF ApInv, TypeOK, Book!Settle, ReadBack
    <2> QED BY <1>2, <2>2, <2>3, <2>4 DEF ApInv, Book!Next
  <1> QED BY <1>1, <1>5, <1>6, <1>7 DEF ApInv, TypeOK, JobLists

\* The handler reads back what it has written.
LEMMA ReturnKeeps ==
  ASSUME ApInv, HandlerReturns
  PROVE  ApInv' /\ UNCHANGED <<IF jobs # <<>> THEN target ELSE ReadBack, before>>
  <1>1. /\ handler # "none" /\ jobs = <<>> /\ list' = ReadBack /\ handler' = "none"
        /\ UNCHANGED <<flash, jobs, target, before, creds, post_credentials_ok, main, httpd>>
    BY DEF HandlerReturns, flashVars, mainVars, radioVars
  <1>2. flash \in Lists
    BY <1>1 DEF ApInv, Waiting
  <1>3. ReadBack = flash /\ ReadBack' = ReadBack
    BY <1>1, <1>2, ReadBackList DEF ReadBack
  <1>4. TypeOK' /\ Tidy' /\ ServedLate'
    BY <1>1, <1>2, <1>3 DEF ApInv, TypeOK, Tidy, ServedLate, Reading
  <1>5. Waiting' /\ InStep' /\ Replacing'
    BY <1>1, <1>2, <1>3, JobSteps DEF ApInv, Waiting, InStep, Replacing
  <1> QED BY <1>1, <1>3, <1>4, <1>5 DEF ApInv

\* Power fails: what is found next is the old book, nothing, or garbled.
LEMMA PowerCutKeeps ==
  ASSUME ApInv, PowerCut
  PROVE  ApInv' /\ [Book!Next]_<<IF jobs # <<>> THEN target ELSE ReadBack, before>>
  <1> USE ApAssumption
  <1>1. /\ flash' \in IF jobs = <<>> THEN {flash} ELSE {flash, Garbled}
        /\ jobs' = <<>> /\ target' = <<>> /\ before' = Settled /\ list' = <<>>
        /\ post_credentials_ok' = FALSE /\ handler' = "none" /\ main' = "key" /\ httpd' = FALSE
    BY DEF PowerCut
  <1>2. TypeOK' /\ Tidy' /\ ServedLate'
    BY <1>1, EmptyTidy DEF ApInv, TypeOK, Tidy, ServedLate, JobLists
  <1>3. Waiting' /\ InStep' /\ Replacing'
    BY <1>1, JobSteps DEF Waiting, InStep, Replacing, Reading
  <1>4. CASE jobs = <<>>
    <2>1. before' = before /\ ReadBack' = ReadBack
      BY <1>1, <1>4 DEF ApInv, Replacing, ReadBack
    <2> QED BY <1>1, <1>2, <1>3, <1>4, <2>1 DEF ApInv
  <1>5. CASE jobs # <<>>
    <2>1. before # Settled /\ ReadBack' \in {before, <<>>, Garbled}
      BY <1>1, <1>5 DEF ApInv, Replacing, ReadBack
    <2>2. Book!PowerCut
      BY <1>1, <1>5, <2>1 DEF Book!PowerCut
    <2> QED BY <1>2, <1>3, <2>2 DEF ApInv, Book!Next
  <1> QED BY <1>4, <1>5

-----------------------------------------------------------------------------
(* The actions. *)

\* When a handler may be called, RAM holds what is saved.
LEMMA ServingInStep ==
  ASSUME ApInv, Serving
  PROVE  Calm /\ ~Reading /\ flash \in Lists /\ list = flash /\ ReadBack = list /\ jobs = <<>>
  <1>1. Calm /\ httpd /\ jobs = <<>>
    BY DEF Serving, Calm
  <1>2. ~Reading
    BY <1>1 DEF ApInv, ServedLate
  <1>3. flash \in Lists /\ list = flash
    BY <1>1, <1>2 DEF ApInv, InStep
  <1> QED BY <1>1, <1>2, <1>3, ReadBackList

\* A network submitted or chosen from the list is saved in the book.
LEMMA AttemptKeeps ==
  ASSUME ApInv, Serving, NEW new \in Creds, attempt_wifi_connection(new), creds' = new,
         UNCHANGED <<main, httpd>>
  PROVE  ApInv' /\ Book!Save
  <1>1. Calm /\ ~Reading /\ flash \in Lists /\ list = flash /\ ReadBack = list /\ jobs = <<>>
    BY ServingInStep
  <1>2. list \in Lists /\ NoTwins(list)
    BY DEF ApInv, TypeOK, Tidy
  <1>3. Saved(list, new) \in Lists /\ NoTwins(Saved(list, new))
    BY <1>2, SavedTidy
  <1>4. list' \in Lists /\ NoTwins(list')
    BY <1>2, PutTidy DEF attempt_wifi_connection
  <1>5. StartFlash(<<"erase", "program">>, Saved(list, new)) /\ handler' = "connect"
    BY DEF attempt_wifi_connection, SaveJobs
  <1>6. ServedLate'
    BY DEF ApInv, ServedLate, Reading
  <1>7. <<"erase", "program">> \in JobLists
    BY DEF JobLists
  <1>8. ApInv' /\ Book!Update(Saved(list, new))
    BY <1>1, <1>3, <1>4, <1>5, <1>6, <1>7, JobSteps, UpdateKeeps
  <1>9. Book!Update(Book!Saved(ReadBack, new))
    BY <1>1, <1>8, SameSaved
  <1>10. ReadBack # Garbled
    BY <1>1, ApAssumption
  <1>11. Book!Save
    BY <1>1, <1>9, <1>10 DEF Book!Save
  <1> QED BY <1>8, <1>11

\* The callbacks of httpd.
LEMMA FormKeeps ==
  ASSUME ApInv, Form
  PROVE  ApInv' /\ [Book!Next]_<<IF jobs # <<>> THEN target ELSE ReadBack, before>>
  <1> USE ApAssumption
  <1> DEFINE Same == UNCHANGED <<IF jobs # <<>> THEN target ELSE ReadBack, before>>
  <1>1. ASSUME NEW c \in Conns, httpd_post_begin(c) PROVE ApInv' /\ Same
    <2>1. UNCHANGED <<flashVars, list, handler, main, httpd>> /\ ~post_credentials_ok'
      BY <1>1 DEF httpd_post_begin, mainVars, radioVars
    <2>2. ServedLate' /\ (~Reading' => ~Reading)
      BY <2>1 DEF ApInv, ServedLate, Reading
    <2> QED BY <2>1, <2>2, OtherKeeps
  <1>2. ASSUME NEW c \in Conns, NEW new \in Creds, httpd_post_receive_data(c, new)
        PROVE  ApInv' /\ Same
    <2>1. UNCHANGED <<flashVars, list, handler, main, httpd>> /\ creds' \in Creds
      BY <1>2 DEF httpd_post_receive_data, mainVars, radioVars
    <2>2. ServedLate' /\ (~Reading' => ~Reading)
      BY <2>1 DEF ApInv, ServedLate, Reading
    <2> QED BY <2>1, <2>2, OtherKeeps
  <1>3. ASSUME NEW c \in Conns, httpd_post_finished(c) PROVE ApInv' /\ (Same \/ Book!Next)
    <2>1. UNCHANGED <<creds, post_credentials_ok, main, httpd>> /\ Serving
      BY <1>3 DEF httpd_post_finished, mainVars, radioVars
    <2>2. CASE post_credentials_ok /\ attempt_wifi_connection(creds)
      <3>1. creds \in Creds
        BY <2>2 DEF ApInv, TypeOK
      <3>2. ApInv' /\ Book!Save
        BY <2>1, <2>2, <3>1, AttemptKeeps
      <3> QED BY <3>2 DEF Book!Next
    <2>3. CASE UNCHANGED <<flashVars, list, handler>>
      <3>1. ServedLate' /\ (~Reading' => ~Reading) /\ (post_credentials_ok' => creds' \in Creds)
        BY <2>1 DEF ApInv, TypeOK, ServedLate, Reading
      <3> QED BY <2>1, <2>3, <3>1, OtherKeeps
    <2> QED BY <1>3, <2>2, <2>3 DEF httpd_post_finished
  <1>4. ASSUME NEW i, connect_from_saved_cgi_handler(i) PROVE ApInv' /\ Book!Next
    <2>1. /\ Serving /\ i \in DOMAIN list /\ creds' = list[i] /\ attempt_wifi_connection(list[i])
          /\ UNCHANGED <<main, httpd>>
      BY <1>4 DEF connect_from_saved_cgi_handler, mainVars, radioVars
    <2>2. list[i] \in Creds
      BY <2>1 DEF ApInv, TypeOK, Lists
    <2>3. ApInv' /\ Book!Save
      BY <2>1, <2>2, AttemptKeeps
    <2> QED BY <2>3 DEF Book!Next
  <1>5. CASE clear_cgi_handler
    <2>1. /\ Serving /\ StartFlash(<<"erase", "erase", "program">>, <<>>) /\ handler' = "clear"
          /\ UNCHANGED <<list, creds, post_credentials_ok, main, httpd>>
      BY <1>5 DEF clear_cgi_handler, formVars, mainVars, radioVars
    <2>2. Calm /\ <<"erase", "erase", "program">> \in JobLists
      BY <2>1, ServingInStep DEF JobLists
    <2>3. /\ list' \in Lists /\ NoTwins(list') /\ ServedLate'
          /\ post_credentials_ok' => creds' \in Creds
      BY <2>1 DEF ApInv, TypeOK, Tidy, ServedLate, Reading
    <2>4. ApInv' /\ Book!Update(<<>>)
      BY <2>1, <2>2, <2>3, EmptyTidy, JobSteps, UpdateKeeps
    <2> QED BY <2>4 DEF Book!Next, Book!Clear
  <1> HIDE DEF Same
  <1>6. CASE \E c \in Conns : httpd_post_begin(c) \/ httpd_post_finished(c)
    <2>1. PICK c \in Conns : httpd_post_begin(c) \/ httpd_post_finished(c)
      BY <1>6
    <2>2. ApInv' /\ (Same \/ Book!Next)
      BY <2>1, <1>1, <1>3
    <2> QED BY <2>2 DEF Same
  <1>7. CASE \E c \in Conns, new \in Creds : httpd_post_receive_data(c, new)
    <2>1. PICK c \in Conns, new \in Creds : httpd_post_receive_data(c, new)
      BY <1>7
    <2>2. ApInv' /\ Same
      BY <2>1, <1>2
    <2> QED BY <2>2 DEF Same
  <1>8. CASE \E i \in 1..MAX_CREDENTIALS : connect_from_saved_cgi_handler(i)
    <2>1. PICK i \in 1..MAX_CREDENTIALS : connect_from_saved_cgi_handler(i)
      BY <1>8
    <2> QED BY <2>1, <1>4
  <1> QED BY <1>5, <1>6, <1>7, <1>8 DEF Form

\* main up to the loop: only the wipe and the first list of an empty sector write.
LEMMA BootKeeps ==
  ASSUME ApInv, Boot
  PROVE  ApInv' /\ [Book!Next]_<<IF jobs # <<>> THEN target ELSE ReadBack, before>>
  <1> USE ApAssumption
  <1>0. Calm /\ jobs = <<>> /\ UNCHANGED <<creds, post_credentials_ok, httpd, handler>>
        /\ (post_credentials_ok' => creds' \in Creds)
    BY DEF Boot, KeyWipe, KeySkip, ReadList, ReadErased, ReadGarbled, TrySaved, TrySavedJoined,
           TrySavedFailed, formVars, radioVars, Calm, ApInv, TypeOK
  <1>1. CASE KeyWipe
    <2>1. main = "key" /\ main' = "read" /\ StartFlash(<<"erase">>, <<>>) /\ list' = list
      BY <1>1 DEF KeyWipe
    <2>2. list' \in Lists /\ NoTwins(list') /\ ServedLate' /\ <<"erase">> \in JobLists
          /\ handler' = "none"
      BY <1>0, <2>1 DEF ApInv, TypeOK, Tidy, ServedLate, Reading, JobLists, Calm
    <2>3. ApInv' /\ Book!Update(<<>>)
      BY <1>0, <2>1, <2>2, EmptyTidy, JobSteps, UpdateKeeps
    <2> QED BY <2>3 DEF Book!Next, Book!Clear
  <1>2. CASE ReadErased
    <2>1. main = "read" /\ main' = "read" /\ StartFlash(<<"erase", "program">>, <<>>) /\ list' = list
      BY <1>2 DEF ReadErased, SaveJobs, mainVars
    <2>2. list' \in Lists /\ NoTwins(list') /\ ServedLate' /\ <<"erase", "program">> \in JobLists
          /\ handler' = "none"
      BY <1>0, <2>1 DEF ApInv, TypeOK, Tidy, ServedLate, Reading, JobLists, Calm
    <2>3. ApInv' /\ Book!Update(<<>>)
      BY <1>0, <2>1, <2>2, EmptyTidy, JobSteps, UpdateKeeps
    <2> QED BY <2>3 DEF Book!Next, Book!Clear
  <1>3. CASE ReadList
    <2>1. /\ main = "read" /\ main' \in {"portal", "try"} /\ list' = flash
          /\ flash \notin {Erased, Garbled}
          /\ UNCHANGED <<flash, jobs, target, before>>
      BY <1>3 DEF ReadList, flashVars
    <2>2. flash \in Lists /\ ReadBack' = ReadBack
      BY <2>1 DEF ApInv, TypeOK, ReadBack
    <2>3. ~httpd
      BY <2>1 DEF ApInv, ServedLate, Reading
    <2>4. TypeOK' /\ Tidy' /\ ServedLate'
      BY <1>0, <2>1, <2>2, <2>3 DEF ApInv, TypeOK, Tidy, ServedLate
    <2>5. Waiting' /\ InStep' /\ Replacing'
      BY <1>0, <2>1, <2>2, JobSteps DEF ApInv, Waiting, InStep, Replacing
    <2> QED BY <2>1, <2>2, <2>4, <2>5 DEF ApInv
  <1>4. CASE (\E s \in BOOLEAN : KeySkip(s)) \/ ReadGarbled
    <2>1. /\ UNCHANGED <<flashVars, list, handler>>
          /\ main \in {"key", "read"} /\ main' \in {"read", "lost"}
      BY <1>4 DEF KeySkip, ReadGarbled
    <2>2. ServedLate' /\ (~Reading' => ~Reading)
      BY <1>0, <2>1 DEF ApInv, ServedLate, Reading
    <2> QED BY <1>0, <2>1, <2>2, OtherKeeps
  <1>5. CASE TrySaved \/ TrySavedJoined \/ TrySavedFailed
    <2>1. /\ UNCHANGED <<flashVars, list, handler>>
          /\ main \in {"try", "trying"} /\ main' \in {"trying", "online", "try", "portal"}
      BY <1>5 DEF TrySaved, TrySavedJoined, TrySavedFailed
    <2>2. ServedLate' /\ (~Reading' => ~Reading)
      BY <2>1 DEF ServedLate, Reading
    <2> QED BY <1>0, <2>1, <2>2, OtherKeeps
  <1> QED BY <1>1, <1>2, <1>3, <1>4, <1>5 DEF Boot

\* main's loop and the driver write nothing.
LEMMA LoopKeeps ==
  ASSUME ApInv, Loop \/ JoinAgain \/ Leave
  PROVE  ApInv' /\ UNCHANGED <<IF jobs # <<>> THEN target ELSE ReadBack, before>>
  <1>1. /\ UNCHANGED <<flashVars, list, handler, creds, post_credentials_ok>> /\ Calm
        /\ main \in {"portal", "taken", "joining", "leaving", "online"}
        /\ main' \in {"portal", "taken", "joining", "leaving", "online", "stopped"}
    BY DEF Loop, StartServices, TakeRequest, StartJoin, JoinAgain, JoinFailed, Joined, StopServices,
           Leave, formVars, mainVars
  <1>2. ServedLate' /\ (~Reading' => ~Reading) /\ (post_credentials_ok' => creds' \in Creds)
        /\ jobs = <<>>
    BY <1>1 DEF ApInv, TypeOK, ServedLate, Reading, Calm
  <1> QED BY <1>1, <1>2, OtherKeeps

-----------------------------------------------------------------------------
(* The theorems. *)

LEMMA InitKeeps == Init => ApInv /\ Book!Init
  <1> SUFFICES ASSUME Init PROVE ApInv /\ Book!Init
    OBVIOUS
  <1> USE ApAssumption
  <1>1. TypeOK /\ Tidy
    BY EmptyTidy DEF Init, TypeOK, Tidy, JobLists
  <1>2. ServedLate /\ Waiting /\ InStep /\ Replacing
    BY JobSteps DEF Init, ServedLate, Waiting, InStep, Replacing, Reading
  <1>3. Book!Init
    BY DEF Init, Book!Init, ReadBack
  <1> QED BY <1>1, <1>2, <1>3 DEF ApInv

LEMMA StepKeeps ==
  ASSUME ApInv, [Next]_vars
  PROVE  ApInv' /\ [Book!Next]_<<IF jobs # <<>> THEN target ELSE ReadBack, before>>
  <1>1. CASE UNCHANGED vars
    <2>1. UNCHANGED <<flashVars, list, handler, main, httpd, creds, post_credentials_ok>>
      BY <1>1 DEF vars, flashVars
    <2>2. ServedLate' /\ (~Reading' => ~Reading) /\ (post_credentials_ok' => creds' \in Creds)
      BY <2>1 DEF ApInv, TypeOK, ServedLate, Reading
    <2> QED BY <2>1, <2>2, OtherKeeps
  <1>2. CASE Flash
    BY <1>2, FlashKeeps
  <1>3. CASE HandlerReturns
    BY <1>3, ReturnKeeps
  <1>4. CASE Form
    BY <1>4, FormKeeps
  <1>5. CASE Boot
    BY <1>5, BootKeeps
  <1>6. CASE Loop \/ JoinAgain \/ Leave
    BY <1>6, LoopKeeps
  <1>7. CASE PowerCut
    BY <1>7, PowerCutKeeps
  <1> QED BY <1>1, <1>2, <1>3, <1>4, <1>5, <1>6, <1>7 DEF Next

\* save_credentials never lists a network twice or more networks than there is room for,
\* in RAM or in flash, whatever handlers, boots and power cuts interleave.
THEOREM NoNetworkTwice == Spec => []OneEntryPerNetwork
  <1>1. ApInv /\ [Next]_vars => ApInv'
    BY StepKeeps
  <1>2. ApInv => OneEntryPerNetwork
    BY DEF ApInv, TypeOK, Tidy, OneEntryPerNetwork
  <1> QED BY <1>1, <1>2, InitKeeps, PTL DEF Spec

\* Whenever a handler of the web server may be called, the list in RAM that the page is made
\* of is the one in flash.
THEOREM PageShowsSaved == Spec => []PageIsTrue
  <1>1. ApInv /\ [Next]_vars => ApInv'
    BY StepKeeps
  <1>2. ApInv => PageIsTrue
    BY ServingInStep DEF PageIsTrue
  <1> QED BY <1>1, <1>2, InitKeeps, PTL DEF Spec

\* The sector implements the book: it changes by one saved network or by giving up all,
\* and only a power cut within an update can lose it.
THEOREM SectorIsABook == Spec => KeepsBook
  <1>1. ApInv /\ [Next]_vars
          => ApInv' /\ [Book!Next]_<<IF jobs # <<>> THEN target ELSE ReadBack, before>>
    BY StepKeeps
  <1> QED BY <1>1, InitKeeps, PTL DEF Spec, KeepsBook, Book!Spec

=============================================================================
