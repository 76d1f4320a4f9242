---------------------------- MODULE MCLobbySystem ----------------------------
(* Small instances of LobbySystem for TLC. *)
EXTENDS LobbySystem, TLC

\* The menu's buttons: search, create and join, always with the same lobby.
Buttons == [type : {"LOBBY_CREATE_REQUEST", "LOBBY_JOIN_REQUEST"}, lobby : Lobby]
             \cup [type : {"LOBBY_LIST_REQUEST"}]

\* Processes, connections and ids are interchangeable: no definition orders them.
Symmetry == Permutations(Process) \cup Permutations(Client) \cup Permutations(Id)

\* What tells states apart. The contents of a menu or a stream that no property
\* speaks about any more, because its process lost touch, only matter by their
\* lengths and by the bound on others_in_lobby; `told` matters to no action.
Followed == {conn[p] : p \in steady}
Seen == <<running, sessions, id, group, writable, scene, conn, dialed, up, steady,
          [c \in Client |-> IF c \in Followed THEN <<queue[c], down[c]>>
                                             ELSE <<Len(queue[c]), Len(down[c])>>],
          [p \in Process |-> IF p \in steady THEN <<lobby[p], others[p], ids[p]>>
                                             ELSE others[p] <= MaxOthers],
          listed \cap Followed, founder \cap Followed>>
=============================================================================
