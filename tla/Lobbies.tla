------------------------------ MODULE Lobbies ------------------------------
(***************************************************************************)
(* What the lobby service of the game server promises, without sessions,   *)
(* identifiers, queues or messages: a client is in at most one lobby, a    *)
(* lobby is opened by the client that creates it, is entered only while it *)
(* is open, and is open for exactly as long as somebody is in it.          *)
(***************************************************************************)
CONSTANTS Client,   \* the connections a server can hold
          Lobby,    \* the lobby numbers a client can ask for
          NoLobby   \* the number 0: "in no lobby"

VARIABLES member,   \* member[c]: the lobby that c is in, or NoLobby
          open      \* the lobbies that exist

vars == <<member, open>>

TypeOK == /\ member \in [Client -> Lobby \cup {NoLobby}]
          /\ open \in SUBSET Lobby

Init == /\ member = [c \in Client |-> NoLobby]
        /\ open = {}

\* The lobbies that stay open when everybody moves to the place `m` gives them.
Populated(m) == {m[c] : c \in Client} \ {NoLobby}

\* A client that is in no lobby opens one that does not exist.
Create(c, l) ==
    /\ member[c] = NoLobby
    /\ l \notin open
    /\ member' = [member EXCEPT ![c] = l]
    /\ open' = open \cup {l}

\* A client enters an open lobby. It may come straight out of another one,
\* which closes if it was the last client there.
Enter(c, l) ==
    /\ l \in open
    /\ member[c] # l
    /\ member' = [member EXCEPT ![c] = l]
    /\ open' = IF \E d \in Client \ {c} : member[d] = member[c]
               THEN open ELSE open \ {member[c]}

\* A client leaves, or its connection ends; the last one out closes the lobby.
Leave(c) ==
    /\ member[c] # NoLobby
    /\ member' = [member EXCEPT ![c] = NoLobby]
    /\ open' = IF \E d \in Client \ {c} : member[d] = member[c]
               THEN open ELSE open \ {member[c]}

\* The server process ends, and no lobby survives it.
Collapse == /\ member' = [c \in Client |-> NoLobby]
            /\ open' = {}

Next == \/ \E c \in Client, l \in Lobby : Create(c, l) \/ Enter(c, l)
        \/ \E c \in Client : Leave(c)
        \/ Collapse

Spec == Init /\ [][Next]_vars

----------------------------------------------------------------------------
\* A lobby is open exactly while somebody is in it.
OpenMeansPopulated == open = Populated(member)
=============================================================================
