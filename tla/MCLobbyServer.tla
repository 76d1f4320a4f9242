---------------------------- MODULE MCLobbyServer ----------------------------
(* A small instance of LobbyServer for TLC. *)
EXTENDS LobbyServer, TLC

\* Connections, lobbies and ids are interchangeable: no definition orders them.
Symmetry == Permutations(Client) \cup Permutations(Lobby) \cup Permutations(Id)
=============================================================================
