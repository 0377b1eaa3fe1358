---- MODULE MCDhcpServer ----
(* DhcpServer on small instances: see the .cfg files for the bounds. *)
EXTENDS DhcpServer, TLC

Symmetry == Permutations(Stations)
====
