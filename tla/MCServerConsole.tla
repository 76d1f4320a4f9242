--------------------------- MODULE MCServerConsole ---------------------------
(* A small instance of ServerConsole for TLC. *)
EXTENDS ServerConsole
=============================================================================
