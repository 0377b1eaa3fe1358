------------------------------ MODULE MCTcpEcho ------------------------------
(* TcpEcho on a small instance: nothing may go wrong, or everything may. *)
EXTENDS TcpEcho

NoneOrAll == {{}, {"timeout", "reset", "memory"}}
====
