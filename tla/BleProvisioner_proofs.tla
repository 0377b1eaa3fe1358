------------------------ MODULE BleProvisioner_proofs ------------------------
(***************************************************************************)
(* What is saved is what joined, if the client let it be, for any sets of    *)
(* networks and any number of power cuts. The argument follows the pair from *)
(* the globals to the driver, to the page in RAM and to the flash: as long   *)
(* as nothing was written since the driver last read it, every copy made so  *)
(* far agrees.                                                             *)
(***************************************************************************)
EXTENDS BleProvisioner, TLAPS

\* CONNECTED is reported only on the way from a join to the end.
ConnectedLate == prov_status = "CONNECTED" => main \in {"copy", "save", "saving", "online"}

\* The driver was given what the globals hold, and that is what joined.
DriverHasPair == main \in {"joining", "copy", "save", "saving"} /\ quiet => trying = Pair
JoinedIsTried ==
  main \in {"copy", "save", "saving"} /\ prov_status = "CONNECTED" => joined = trying

\* The page in RAM takes over the globals half by half, the flash takes over the page.
PageFollows ==
  /\ main = "save" /\ quiet => page.ssid = ssid
  /\ main = "saving" /\ quiet => page = Pair
FlashFollows ==
  /\ main = "saving" => /\ jobs \in {<<"erase", "program">>, <<"program">>, <<>>}
                        /\ jobs = <<>> => flash = page
  /\ main = "online" /\ prov_status = "CONNECTED" => jobs = <<>>

\* Between the two halves of reading the page there is a pair in it.
ReadingPage == main = "reading" => jobs = <<>> /\ flash \in Pairs

Copied ==
  ConnectedLate /\ DriverHasPair /\ JoinedIsTried /\ PageFollows /\ FlashFollows /\ ReadingPage

SavedInv == TypeOK /\ Copied /\ SavedIfQuiet

-----------------------------------------------------------------------------

\* What a list of flash operations becomes.
LEMMA JobLists ==
  /\ Head(<<"erase", "program">>) = "erase" /\ Tail(<<"erase", "program">>) = <<"program">>
  /\ Head(<<"program">>) = "program" /\ Tail(<<"program">>) = <<>>
  /\ Head(<<"erase">>) = "erase" /\ Tail(<<"erase">>) = <<>>
  /\ <<"erase", "program">> # <<>> /\ <<"program">> # <<>> /\ <<"erase">> # <<>>
  OBVIOUS

LEMMA InitSaved == Init => SavedInv
  BY DEF Init, SavedInv, TypeOK, Pairs, NoCreds, Copied, ConnectedLate, DriverHasPair, JoinedIsTried,
         PageFollows, FlashFollows, ReadingPage, SavedIfQuiet

\* A program that begins anew, or no more goes on, has the types and saves nothing.
LEMMA AnewKeeps ==
  ASSUME TypeOK, NEW there \in {"key", "panicked", "lost"}, Anew(there),
         flash' \in Pairs \cup {Erased, Garbled}
  PROVE  TypeOK' /\ Copied' /\ SavedIfQuiet'
  <1>1. NoCreds \in Pairs
    BY DEF NoCreds, Pairs
  <1>2. main' = there /\ prov_status' = "IDLE"
    BY DEF Anew
  <1>3. TypeOK'
    BY <1>1 DEF Anew, TypeOK
  <1> QED BY <1>2, <1>3 DEF Copied, ConnectedLate, DriverHasPair, JoinedIsTried, PageFollows,
                            FlashFollows, ReadingPage, SavedIfQuiet

\* Types are kept by every step.
LEMMA TypeStep ==
  ASSUME TypeOK, Copied, [Next]_vars
  PROVE  TypeOK'
  <1> USE BleAssumption
  <1>1. NoCreds \in Pairs /\ Pair \in Pairs
    BY DEF NoCreds, Pair, Pairs, TypeOK
  <1>2. CASE UNCHANGED vars
    BY <1>2 DEF vars, TypeOK
  <1>3. CASE Flash
    <2>1. CASE FlashFails
      <3>1. CASE Anew("panicked")
        BY <2>1, <3>1, AnewKeeps DEF FlashFails, TypeOK
      <3>2. CASE ~ Anew("panicked")
        BY <2>1, <3>2 DEF FlashFails, credVars, joinVars, TypeOK
      <3> QED BY <3>1, <3>2
    <2>2. CASE call_flash_range_erase \/ call_flash_range_program
      <3>1. flash' \in Pairs \cup {Erased, Garbled} /\ jobs' = Tail(jobs) /\ jobs # <<>>
            /\ UNCHANGED <<page, ssid, password, main, trying, joined>>
        BY <2>2 DEF call_flash_range_erase, call_flash_range_program, credVars, joinVars, TypeOK
      <3>2. jobs' \in {<<>>, <<"erase">>, <<"program">>, <<"erase", "program">>}
        BY <3>1, JobLists DEF TypeOK
      <3> QED BY <3>1, <3>2 DEF TypeOK
    <2> QED BY <1>3, <2>1, <2>2 DEF Flash
  <1>4. CASE ConnectionComplete \/ DisconnectionComplete \/ CanSendNow
             \/ \E enable \in BOOLEAN : WriteConfiguration(enable)
    BY <1>4 DEF ConnectionComplete, DisconnectionComplete, CanSendNow, WriteConfiguration,
                flashVars, credVars, joinVars, TypeOK
  <1>5. CASE \E s \in Ssids \cup {Blank}, p \in Passwords \cup {Blank} : WriteCredentials(s, p)
    BY <1>5 DEF WriteCredentials, flashVars, TypeOK
  <1>11. CASE WriteTooLong
    BY <1>11, AnewKeeps DEF WriteTooLong, TypeOK
  <1>6. CASE Boot
    <2>1. CASE \E wipe \in BOOLEAN : Key(wipe)
      BY <2>1 DEF Key, credVars, joinVars, TypeOK
    <2>2. CASE ReadErased
      BY <1>1, <2>2 DEF ReadErased, credVars, joinVars, TypeOK
    <2>3. CASE ReadSsid
      BY <2>3 DEF ReadSsid, flashVars, joinVars, Pairs, TypeOK
    <2>4. CASE ReadPassword
      <3>1. flash' = flash /\ password' = flash.password /\ flash \in Pairs
        BY <2>4 DEF ReadPassword, flashVars, SavedInv, Copied, ReadingPage, TypeOK
      <3> QED BY <2>4, <3>1 DEF ReadPassword, flashVars, joinVars, Pairs, TypeOK
    <2>5. CASE ReadGarbled
      BY <2>5, AnewKeeps DEF ReadGarbled, TypeOK
    <2>6. CASE Start \/ CheckSaved
      BY <2>6 DEF Start, CheckSaved, flashVars, credVars, joinVars, TypeOK
    <2>7. CASE FirstJoin
      BY <1>1, <2>7 DEF FirstJoin, Join, flashVars, credVars, TypeOK
    <2> QED BY <1>6, <2>1, <2>2, <2>3, <2>4, <2>5, <2>6, <2>7 DEF Boot
  <1>7. CASE Joins
    <2>1. CASE FirstJoinFails \/ JoinBadAuth
      BY <1>1, <2>1 DEF FirstJoinFails, JoinBadAuth, NotJoining, flashVars, credVars, TypeOK
    <2>2. CASE StartJoin
      BY <1>1, <2>2 DEF StartJoin, Join, flashVars, credVars, TypeOK
    <2>3. CASE FirstJoinSucceeds \/ Connecting \/ JoinFails \/ JoinSucceeds
      BY <2>3 DEF FirstJoinSucceeds, Connecting, JoinFails, JoinSucceeds, flashVars, credVars,
                  joinVars, TypeOK
    <2>4. CASE CopySsid
      BY <2>4 DEF CopySsid, credVars, joinVars, Pairs, TypeOK
    <2>5. CASE CopyPassword
      BY <2>5 DEF CopyPassword, credVars, joinVars, Pairs, TypeOK
    <2>6. CASE Saved \/ GiveUp
      BY <2>6 DEF Saved, GiveUp, flashVars, credVars, joinVars, TypeOK
    <2> QED BY <1>7, <2>1, <2>2, <2>3, <2>4, <2>5, <2>6 DEF Joins
  <1>8. CASE JoinAgain
    BY <1>1, <1>8 DEF JoinAgain, flashVars, credVars, TypeOK
  <1>9. CASE TimePasses
    BY <1>9 DEF TimePasses, flashVars, credVars, joinVars, TypeOK
  <1>10. CASE PowerCut
    <2>1. flash' \in Pairs \cup {Erased, Garbled} /\ Anew("key")
      BY <1>10 DEF PowerCut, TypeOK
    <2> QED BY <2>1, AnewKeeps
  <1> QED BY <1>2, <1>3, <1>4, <1>5, <1>6, <1>7, <1>8, <1>9, <1>10, <1>11 DEF Next, Client

-----------------------------------------------------------------------------
(* The copies agree after every step. *)

\* The flash takes over the page at the last operation of a saving.
LEMMA FlashKeeps ==
  ASSUME SavedInv, call_flash_range_erase \/ call_flash_range_program
  PROVE  Copied' /\ SavedIfQuiet'
  <1>1. UNCHANGED <<page, ssid, password, prov_status, main, trying, joined, quiet>>
        /\ jobs # <<>> /\ jobs' = Tail(jobs)
    BY DEF call_flash_range_erase, call_flash_range_program, credVars, attVars, joinVars
  <1>2. ConnectedLate' /\ DriverHasPair' /\ JoinedIsTried' /\ PageFollows' /\ ReadingPage'
    BY <1>1 DEF SavedInv, Copied, ConnectedLate, DriverHasPair, JoinedIsTried, PageFollows,
                ReadingPage, Pair
  <1>3. CASE main = "saving"
    <2>1. CASE jobs = <<"erase", "program">>
      <3>1. jobs' = <<"program">>
        BY <1>1, <2>1, JobLists
      <3> QED BY <1>1, <1>2, <1>3, <3>1, JobLists DEF Copied, FlashFollows, SavedIfQuiet
    <2>2. CASE jobs = <<"program">>
      <3>1. jobs' = <<>> /\ flash' = page
        BY <1>1, <2>2, JobLists DEF call_flash_range_erase, call_flash_range_program
      <3> QED BY <1>1, <1>2, <1>3, <3>1 DEF Copied, FlashFollows, SavedIfQuiet
    <2> QED BY <1>1, <1>3, <2>1, <2>2 DEF SavedInv, Copied, FlashFollows
  <1>4. CASE main # "saving"
    <2>1. ~(main = "online" /\ prov_status = "CONNECTED")
      BY <1>1 DEF SavedInv, Copied, FlashFollows
    <2> QED BY <1>1, <1>2, <1>4, <2>1 DEF Copied, FlashFollows, SavedIfQuiet
  <1> QED BY <1>3, <1>4

\* The client may break the chain only by writing, and then the pair is not quiet.
LEMMA ClientKeeps ==
  ASSUME SavedInv, (Client /\ ~ WriteTooLong) \/ CanSendNow
  PROVE  Copied' /\ SavedIfQuiet'
  <1>1. CASE ConnectionComplete \/ DisconnectionComplete \/ CanSendNow
             \/ \E enable \in BOOLEAN : WriteConfiguration(enable)
    <2>1. UNCHANGED <<flash, jobs, page, ssid, password, prov_status, main, trying, joined, quiet>>
      BY <1>1 DEF ConnectionComplete, DisconnectionComplete, CanSendNow, WriteConfiguration,
                  flashVars, credVars, joinVars
    <2> QED BY <2>1 DEF SavedInv, Copied, ConnectedLate, DriverHasPair, JoinedIsTried, PageFollows,
                        FlashFollows, ReadingPage, SavedIfQuiet, Pair
  <1>2. CASE \E s \in Ssids \cup {Blank}, p \in Passwords \cup {Blank} : WriteCredentials(s, p)
    <2>1. /\ quiet' = FALSE /\ UNCHANGED <<flash, jobs, page, main, trying, joined>>
          /\ main # "online"
          /\ prov_status' = "CONNECTED" => prov_status = "CONNECTED"
      BY <1>2 DEF WriteCredentials, set_prov_status, flashVars, attVars, BluetoothOn
    <2> QED BY <2>1 DEF SavedInv, Copied, ConnectedLate, DriverHasPair, JoinedIsTried, PageFollows,
                        FlashFollows, ReadingPage, SavedIfQuiet
  <1> QED BY <1>1, <1>2 DEF Client

\* Nothing has joined before the loop.
LEMMA BootKeeps ==
  ASSUME SavedInv, Boot, ~ ReadGarbled
  PROVE  Copied' /\ SavedIfQuiet'
  <1>1. /\ main \in {"key", "start", "read", "reading", "check", "first_call"}
        /\ main' \in {"start", "read", "reading", "check", "first_call", "first", "loop"}
        /\ prov_status' = prov_status
    BY DEF Boot, Key, Start, ReadErased, ReadSsid, ReadPassword, CheckSaved, FirstJoin, attVars
  <1>2. prov_status # "CONNECTED"
    BY <1>1 DEF SavedInv, Copied, ConnectedLate
  <1>3. main' = "reading" => ReadSsid
    BY <1>1 DEF Boot, Key, Start, ReadErased, ReadPassword, CheckSaved, FirstJoin
  <1>4. ReadSsid => jobs' = <<>> /\ flash' \in Pairs
    BY DEF ReadSsid, flashVars, SavedInv, TypeOK
  <1> QED BY <1>1, <1>2, <1>3, <1>4 DEF Copied, ConnectedLate, DriverHasPair, JoinedIsTried, PageFollows,
                            FlashFollows, ReadingPage, SavedIfQuiet

\* From the join to the flash each step takes over what the one before left.
LEMMA JoinsKeep ==
  ASSUME SavedInv, Joins
  PROVE  Copied' /\ SavedIfQuiet'
  <1>1. CASE FirstJoinFails \/ FirstJoinSucceeds \/ GiveUp
    <2>1. main \in {"first", "loop"} /\ main' \in {"loop", "online", "failed"}
          /\ prov_status' = prov_status
      BY <1>1 DEF FirstJoinFails, FirstJoinSucceeds, GiveUp, attVars
    <2>2. prov_status # "CONNECTED"
      BY <2>1 DEF SavedInv, Copied, ConnectedLate
    <2> QED BY <2>1, <2>2 DEF Copied, ConnectedLate, DriverHasPair, JoinedIsTried, PageFollows,
                              FlashFollows, ReadingPage, SavedIfQuiet
  <1>8. CASE Connecting
    <2>1. main' = "call" /\ prov_status' = "CONNECTING"
      BY <1>8 DEF Connecting, set_prov_status
    <2> QED BY <2>1 DEF Copied, ConnectedLate, DriverHasPair, JoinedIsTried, PageFollows,
                        FlashFollows, ReadingPage, SavedIfQuiet
  <1>2. CASE StartJoin
    <2>1. main = "call" /\ main' = "joining" /\ prov_status' = prov_status /\ trying' = Pair
          /\ UNCHANGED <<ssid, password>>
      BY <1>2 DEF StartJoin, Join, attVars, credVars
    <2>2. prov_status # "CONNECTED"
      BY <2>1 DEF SavedInv, Copied, ConnectedLate
    <2> QED BY <2>1, <2>2 DEF Copied, ConnectedLate, DriverHasPair, JoinedIsTried, PageFollows,
                        FlashFollows, ReadingPage, SavedIfQuiet, Pair
  <1>3. CASE JoinFails \/ JoinBadAuth
    <2>1. main' \in {"failed", "loop"} /\ prov_status' \in {"FAILED", "FAILED_AUTH"}
      BY <1>3 DEF JoinFails, JoinBadAuth, set_prov_status
    <2> QED BY <2>1 DEF Copied, ConnectedLate, DriverHasPair, JoinedIsTried, PageFollows,
                        FlashFollows, ReadingPage, SavedIfQuiet
  <1>4. CASE JoinSucceeds
    <2>1. main = "joining" /\ main' = "copy" /\ joined' = trying
          /\ UNCHANGED <<ssid, password, trying, quiet>>
      BY <1>4 DEF JoinSucceeds, credVars
    <2> QED BY <2>1 DEF SavedInv, Copied, ConnectedLate, DriverHasPair, JoinedIsTried, PageFollows,
                        FlashFollows, ReadingPage, SavedIfQuiet, Pair
  <1>5. CASE CopySsid
    <2>1. main = "copy" /\ main' = "save" /\ page' = [page EXCEPT !.ssid = ssid]
          /\ UNCHANGED <<ssid, password, prov_status, trying, joined, quiet>>
      BY <1>5 DEF CopySsid, credVars, attVars, joinVars
    <2>2. page'.ssid = ssid
      BY <2>1 DEF SavedInv, TypeOK, Pairs
    <2> QED BY <2>1, <2>2 DEF SavedInv, Copied, ConnectedLate, DriverHasPair, JoinedIsTried,
                              PageFollows, FlashFollows, ReadingPage, SavedIfQuiet, Pair
  <1>6. CASE CopyPassword
    <2>1. main = "save" /\ main' = "saving" /\ page' = [page EXCEPT !.password = password]
          /\ jobs' = <<"erase", "program">>
          /\ UNCHANGED <<ssid, password, prov_status, trying, joined, quiet>>
      BY <1>6 DEF CopyPassword, credVars, attVars, joinVars
    <2>2. quiet => page' = Pair
      BY <2>1 DEF SavedInv, TypeOK, Pairs, Copied, PageFollows, Pair
    <2> QED BY <2>1, <2>2, JobLists DEF SavedInv, Copied, ConnectedLate, DriverHasPair,
                              JoinedIsTried, PageFollows, FlashFollows, ReadingPage, SavedIfQuiet, Pair
  <1>7. CASE Saved
    <2>1. main = "saving" /\ main' = "online" /\ jobs = <<>>
          /\ UNCHANGED <<flash, jobs, page, ssid, password, prov_status, trying, joined, quiet>>
      BY <1>7 DEF Saved, flashVars, credVars, attVars, joinVars
    <2>2. flash = page
      BY <2>1 DEF SavedInv, Copied, FlashFollows
    <2>3. prov_status = "CONNECTED" /\ quiet => flash = joined
      BY <2>1, <2>2 DEF SavedInv, Copied, DriverHasPair, JoinedIsTried, PageFollows
    <2> QED BY <2>1, <2>3 DEF Copied, ConnectedLate, DriverHasPair, JoinedIsTried, PageFollows,
                              FlashFollows, ReadingPage, SavedIfQuiet
  <1> QED BY <1>1, <1>2, <1>3, <1>4, <1>5, <1>6, <1>7, <1>8 DEF Joins

\* If the client writes nothing more once the driver has read the pair, what joined is
\* what start_ble_wifi_provisioning leaves in flash, for any networks and power cuts.
THEOREM WhatJoinedIsSaved == Spec => []SavedIfQuiet
  <1>1. SavedInv /\ [Next]_vars => SavedInv'
    <2> SUFFICES ASSUME SavedInv, [Next]_vars PROVE SavedInv'
      OBVIOUS
    <2>1. TypeOK'
      BY TypeStep DEF SavedInv
    <2> SUFFICES Copied' /\ SavedIfQuiet'
      BY <2>1 DEF SavedInv
    <2>2. CASE UNCHANGED vars
      BY <2>2 DEF vars, SavedInv, Copied, ConnectedLate, DriverHasPair, JoinedIsTried, PageFollows,
                  FlashFollows, ReadingPage, SavedIfQuiet, Pair
    <2>3. CASE Flash
      <3>1. CASE FlashFails
        <4>1. CASE main = "start"
          <5>1. main' \in {"start", "panicked"} /\ prov_status' \in {prov_status, "IDLE"}
            BY <3>1, <4>1 DEF FlashFails, attVars, Anew
          <5> QED BY <4>1, <5>1 DEF SavedInv, Copied, ConnectedLate, DriverHasPair, JoinedIsTried,
                                    PageFollows, FlashFollows, ReadingPage, SavedIfQuiet
        <4>2. CASE main # "start"
          BY <3>1, <4>2, AnewKeeps DEF FlashFails, SavedInv, TypeOK
        <4> QED BY <4>1, <4>2
      <3> QED BY <2>3, <3>1, FlashKeeps DEF Flash
    <2>4. CASE Client \/ CanSendNow
      <3>1. CASE WriteTooLong
        BY <3>1, AnewKeeps DEF WriteTooLong, SavedInv, TypeOK
      <3> QED BY <2>4, <3>1, ClientKeeps
    <2>5. CASE Boot
      <3>1. CASE ReadGarbled
        BY <3>1, AnewKeeps DEF ReadGarbled, SavedInv, TypeOK
      <3> QED BY <2>5, <3>1, BootKeeps
    <2>6. CASE Joins
      BY <2>6, JoinsKeep
    <2>7. CASE JoinAgain
      <3>1. main \in {"first", "joining"} /\ trying' = Pair
            /\ UNCHANGED <<flash, jobs, page, ssid, password, prov_status, main, joined>>
        BY <2>7 DEF JoinAgain, flashVars, credVars, attVars
      <3> QED BY <3>1 DEF SavedInv, Copied, ConnectedLate, DriverHasPair, JoinedIsTried,
                          PageFollows, FlashFollows, ReadingPage, SavedIfQuiet, Pair
    <2>8. CASE TimePasses
      <3>1. UNCHANGED <<flash, jobs, page, ssid, password, prov_status, main, trying, joined, quiet>>
        BY <2>8 DEF TimePasses, flashVars, credVars, attVars, joinVars
      <3> QED BY <3>1 DEF SavedInv, Copied, ConnectedLate, DriverHasPair, JoinedIsTried,
                          PageFollows, FlashFollows, ReadingPage, SavedIfQuiet, Pair
    <2>9. CASE PowerCut
      <3>1. flash' \in Pairs \cup {Erased, Garbled} /\ Anew("key")
        BY <2>9 DEF PowerCut, SavedInv, TypeOK
      <3> QED BY <3>1, AnewKeeps DEF SavedInv
    <2> QED BY <2>2, <2>3, <2>4, <2>5, <2>6, <2>7, <2>8, <2>9 DEF Next
  <1>2. SavedInv => SavedIfQuiet
    BY DEF SavedInv
  <1> QED BY <1>1, <1>2, InitSaved, PTL DEF Spec

=============================================================================
