---------------------------- MODULE Credentials -----------------------------
(***************************************************************************)
(* The list of saved networks of AP_provisioning.c, and what saving does to  *)
(* it. Shared by the program and by the book it is to keep.                  *)
(***************************************************************************)
EXTENDS Naturals, Sequences

CONSTANTS
  Creds,             \* what may be submitted or saved: fields ssid and password
  Blank,             \* the empty ssid
  MAX_CREDENTIALS

Lists == Seq(Creds)

Known(list, c) == \E i \in DOMAIN list : list[i].ssid = c.ssid

M_PutAppends(list, c) ==
  IF Len(list) < MAX_CREDENTIALS THEN Append(list, c) ELSE list

\* The first entry with this ssid gets the new password; a network not known yet is
\* appended while there is room, and otherwise silently not kept.
Put(list, c) ==
  IF Known(list, c)
  THEN [i \in DOMAIN list |->
          IF list[i].ssid = c.ssid /\ \A j \in 1..(i - 1) : list[j].ssid # c.ssid
          THEN c ELSE list[i]]
  ELSE IF Len(list) < MAX_CREDENTIALS THEN Append(list, c) ELSE list

\* What save_credentials writes: a blank ssid stands for the empty store.
Saved(list, c) == IF c.ssid = Blank THEN <<>> ELSE Put(list, c)

\* No network is listed twice, and none beyond the room there is.
NoTwins(list) ==
  /\ Len(list) <= MAX_CREDENTIALS
  /\ \A i, j \in DOMAIN list : list[i].ssid = list[j].ssid => i = j

=============================================================================
