--------------------------- MODULE CredentialBook ---------------------------
(***************************************************************************)
(* What the flash sector of the access point provisioning example promises  *)
(* across power cuts: a list of networks, changed by one update at a time.   *)
(* An update is atomic unless the power fails in it; then the list found at  *)
(* the next boot is the new one, the old one, empty, or no list at all.      *)
(***************************************************************************)
EXTENDS Credentials

CONSTANTS
  Garbled,           \* a sector that holds no list
  Settled            \* no update is under way

VARIABLES
  book,              \* what the next boot will find
  before             \* the book before the update under way

Init == book \in {<<>>, Garbled} /\ before = Settled

Update(list) == before = Settled /\ before' = book /\ book' = list

\* A network is saved in a book that can be read.
Save == book # Garbled /\ \E c \in Creds : Update(Saved(book, c))

\* All networks are given up: on request, or because there is no book yet.
Clear == Update(<<>>)

Settle == before # Settled /\ before' = Settled /\ UNCHANGED book

PowerCut == /\ before # Settled /\ before' = Settled
            /\ book' \in {book, before, <<>>, Garbled}

Next == Save \/ Clear \/ Settle \/ PowerCut

Spec == Init /\ [][Next]_<<book, before>>

=============================================================================
