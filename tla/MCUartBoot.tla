----------------------------- MODULE MCUartBoot -----------------------------
(* UartBoot with an image of three chunks. *)
EXTENDS UartBoot

\* Each command that data may be taken for, alone; and one behind another.
SomeHeard == {<<"n">>, <<"c">>, <<"wrong", "r">>, <<"x">>, <<"n", "x">>}

=============================================================================
