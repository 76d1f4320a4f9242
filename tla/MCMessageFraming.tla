-------------------------- MODULE MCMessageFraming --------------------------
(* A small instance of MessageFraming for TLC. *)
EXTENDS MessageFraming

\* An object without members, with a number, and with the header object of every
\* message in message.c.
Objects == {<<"{", "}">>, <<"{", "x", "}">>, <<"{", "x", "{", "}", "}">>}
Texts == {<<"x", "x">>}
=============================================================================
