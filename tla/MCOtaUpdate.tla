----------------------------- MODULE MCOtaUpdate -----------------------------
(* OtaUpdate on a small instance. *)
EXTENDS OtaUpdate

\* Three blocks with a gap after the first: of the two sectors of two cells the
\* second is reached in the middle of a chunk, the last block needs no erase, and
\* the last chunk of two is padded.
GappedAddrOf == [n \in 0..2 |-> IF n = 0 THEN 0 ELSE n + 1]

\* Every image is built for one family.
OneFamily == [img \in Images |-> 1]

\* Nothing fails; everything but the flash may; the flash and the power may; scripts
\* overlap, with timeouts and power cuts.
FourWorlds ==
  {[overlap |-> FALSE, faults |-> {}],
   [overlap |-> FALSE, faults |-> {"timeout", "reset", "memory", "power", "wifi"}],
   [overlap |-> FALSE, faults |-> {"power", "flash"}],
   [overlap |-> TRUE, faults |-> {"timeout", "power"}]}
====
