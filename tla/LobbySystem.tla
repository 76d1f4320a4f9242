----------------------------- MODULE LobbySystem -----------------------------
(***************************************************************************)
(* The lobby server together with the game clients that talk to it: the    *)
(* network part of engine.c and the multiplayer state of scenes/menu.c, on *)
(* both ends of TCP connections.                                           *)
(*                                                                         *)
(* A game process p opens at most one connection at a time (conn[p]). It   *)
(* outlives its owner: after the process hangs up, the server still holds  *)
(* the session, and still handles what was sent before, until it notices.  *)
(* The server may read several requests in one event, and then handles the *)
(* first and drops the rest. The game reads messages one by one here, a    *)
(* finer grain than the recv() that may hold several.                      *)
(***************************************************************************)
EXTENDS LobbyServer, Integers, FiniteSetsExt

CONSTANTS Process,     \* the game processes
          NoConn,      \* gameserver_tcp == NULL
          MenuRequest, \* the requests that the menu's buttons send
          MaxOnTheWay, \* bound: no button is pressed while more is on the way
          MaxOthers    \* bound: nor while some others_in_lobby is above this

ASSUME SystemAssumption == /\ NoConn \notin Client
                           /\ MenuRequest \subseteq Request
                           /\ MaxOnTheWay \in Nat
                           /\ MaxOthers \in Nat

\* The menu has no button to leave a lobby, which would be a request to join lobby 0.
ASSUME MenuAssumption ==
    \A r \in MenuRequest : r.type = "LOBBY_JOIN_REQUEST" => r.lobby # NoLobby

VARIABLES scene,    \* "menu", or "game" for any scene without on_message
          conn,     \* engine->gameserver_tcp
          dialed,   \* connections that are open and not yet given to on_connect
          up,       \* requests on the way to the server, per connection
          down,     \* messages on the way to the game, per connection
          lobby,    \* id_of_current_lobby, per process
          others,   \* others_in_lobby
          ids,      \* ids_of_lobbies, as a set: the menu pushes no id twice
          steady,   \* history: processes that have not hung up, or left the menu
                    \* while connected, since the menu was loaded
          listed,   \* history: connections whose list request was answered
          founder   \* history: connections that created the lobby they are in

net    == <<conn, dialed, up, down>>
view   == <<lobby, others, ids>>
asked  == <<listed, founder>>
sysVars == <<vars, scene, net, view, steady, asked>>

----------------------------------------------------------------------------
Owned(c) == \E p \in Process : conn[p] = c

\* The server's end of the connection is up.
Live(c) == c \in dialed \cup Registered

\* No process and no server holds anything of the connection.
Free(c) == ~Owned(c) /\ ~Live(c)

OnTheWay(c) == Len(up[c]) + Len(queue[c]) + Len(down[c])

\* Buttons are pressed within the bounds MaxOnTheWay and MaxOthers only.
Bounded == /\ MapThenSumSet(OnTheWay, Client) <= MaxOnTheWay
           /\ \A p \in Process : others[p] <= MaxOthers

SysInit == /\ Init
           /\ scene = [p \in Process |-> "menu"]
           /\ conn = [p \in Process |-> NoConn]
           /\ dialed = {}
           /\ up = [c \in Client |-> <<>>]
           /\ down = [c \in Client |-> <<>>]
           /\ lobby = [p \in Process |-> NoLobby]
           /\ others = [p \in Process |-> 0]
           /\ ids = [p \in Process |-> {}]
           /\ steady = Process
           /\ listed = {}
           /\ founder = {}

----------------------------------------------------------------------------
(* The game. *)

\* menu.c, load(): the multiplayer state is reset, also under a live connection.
LoadMenu(p) == /\ scene' = [scene EXCEPT ![p] = "menu"]
               /\ lobby' = [lobby EXCEPT ![p] = NoLobby]
               /\ others' = [others EXCEPT ![p] = 0]
               /\ ids' = [ids EXCEPT ![p] = {}]

\* engine_gameserver_disconnect(): the socket closes; the menu only logs it, and
\* keeps its multiplayer state. What nobody reads any more is gone.
HangUp(p) == /\ conn' = [conn EXCEPT ![p] = NoConn]
             /\ down' = [c \in Client |-> IF c = conn[p] THEN <<>> ELSE down[c]]

\* on_begin_search_friends() without a connection: engine_gameserver_connect().
Connect(p, c) ==
    /\ scene[p] = "menu"
    /\ conn[p] = NoConn
    /\ running
    /\ Free(c)
    /\ Bounded
    /\ conn' = [conn EXCEPT ![p] = c]
    /\ dialed' = dialed \cup {c}
    /\ UNCHANGED <<vars, scene, up, down, view, steady, asked>>

\* engine_gameserver_send() of a button's request. What is sent to a connection
\* that the server has closed goes nowhere.
SendRequest(p, r) ==
    LET c == conn[p]
    IN  /\ scene[p] = "menu"
        /\ c # NoConn
        /\ Bounded
        /\ up' = IF Live(c) THEN [up EXCEPT ![c] = Append(@, r)] ELSE up
        /\ UNCHANGED <<vars, scene, conn, dialed, down, view, steady, asked>>

\* engine_gameserver_send() when the socket takes less than the whole request.
SendFails(p) ==
    /\ scene[p] = "menu"
    /\ conn[p] # NoConn
    /\ HangUp(p)
    /\ steady' = steady \ {p}
    /\ UNCHANGED <<vars, scene, dialed, up, view, asked>>

\* Mutant of Show: a lobby that is created is taken for the one to be in, although
\* everybody is sent the same response as its creator.
ShowCreated(p, m) ==
    /\ lobby' = IF OwnJoin(m) \/ (m.type = "LOBBY_CREATE_RESPONSE" /\ m.error = NoError)
                THEN [lobby EXCEPT ![p] = m.lobby] ELSE lobby
    /\ UNCHANGED <<others, ids>>

\* menu.c, on_message()
Show(p, m) ==
    /\ lobby' = IF OwnJoin(m) THEN [lobby EXCEPT ![p] = m.lobby] ELSE lobby
    /\ others' = IF m.type = "LOBBY_JOIN_RESPONSE" /\ m.error = NoError /\ m.other
                 THEN [others EXCEPT ![p] = IF m.lobby # NoLobby THEN @ + 1 ELSE @ - 1]
                 ELSE others
    /\ ids' = CASE m.type = "LOBBY_CREATE_RESPONSE" /\ m.error = NoError
                       -> [ids EXCEPT ![p] = @ \cup {m.lobby}]
                [] m.type = "LOBBY_LIST_RESPONSE" -> [ids EXCEPT ![p] = m.lobbies]
                [] OTHER -> ids

\* engine_gameserver_receive() and propagate_received_message(): the next message
\* goes to the current scene, and is lost on one without on_message.
Receive(p) ==
    LET c == conn[p]
    IN  /\ c # NoConn
        /\ down[c] # <<>>
        /\ down' = [down EXCEPT ![c] = Tail(@)]
        /\ IF scene[p] = "menu" THEN Show(p, Head(down[c])) ELSE UNCHANGED view
        /\ UNCHANGED <<vars, scene, conn, dialed, up, steady, asked>>

\* Mutant of NoticeClose: recv() that yields nothing is taken for nothing to read, yet.
NoticeCloseIgnored(p) ==
    /\ conn[p] # NoConn
    /\ ~Live(conn[p])
    /\ down[conn[p]] = <<>>
    /\ UNCHANGED sysVars

\* engine_gameserver_receive() at the end of the stream, whatever the scene.
NoticeClose(p) ==
    /\ conn[p] # NoConn
    /\ ~Live(conn[p])
    /\ down[conn[p]] = <<>>
    /\ HangUp(p)
    /\ steady' = steady \ {p}
    /\ UNCHANGED <<vars, scene, dialed, up, view, asked>>

\* menu.c, update() with g_next_scene; the connection stays.
LeaveMenu(p) ==
    /\ scene[p] = "menu"
    /\ scene' = [scene EXCEPT ![p] = "game"]
    /\ steady' = IF conn[p] = NoConn THEN steady ELSE steady \ {p}
    /\ UNCHANGED <<vars, net, view, asked>>

\* Back to the menu (engine.c, USR_EVENT_GOBACK; battle.c, ENGINE_EVENT_CLOSE_SCENE).
ReturnToMenu(p) ==
    /\ scene[p] = "game"
    /\ LoadMenu(p)
    /\ steady' = IF conn[p] = NoConn THEN steady \cup {p} ELSE steady
    /\ UNCHANGED <<vars, net, asked>>

\* engine_destroy(), or the end of the process, and a new one.
Relaunch(p) ==
    /\ HangUp(p)
    /\ LoadMenu(p)
    /\ steady' = steady \cup {p}
    /\ UNCHANGED <<vars, dialed, up, asked>>

----------------------------------------------------------------------------
(* The server, with its ends of the connections. *)

\* LWS_CALLBACK_RAW_ADOPT
Adopt(c, i) ==
    /\ c \in dialed
    /\ OnConnect(c, i)
    /\ dialed' = dialed \ {c}
    /\ UNCHANGED <<scene, conn, up, down, view, steady, asked>>

\* LWS_CALLBACK_RAW_RX with a chunk of k requests, of which the first is parsed.
ReadChunk(c, k) ==
    /\ OnMessage(c, up[c][1])
    /\ up' = [up EXCEPT ![c] = SubSeq(@, k + 1, Len(@))]
    /\ listed' = IF up[c][1].type = "LOBBY_LIST_REQUEST" THEN listed \cup {c} ELSE listed
    /\ founder' = IF group'[c] = group[c] THEN founder
                  ELSE IF up[c][1].type = "LOBBY_CREATE_REQUEST"
                       THEN founder \cup {c} ELSE founder \ {c}
    /\ UNCHANGED <<scene, conn, dialed, down, view, steady>>

\* LWS_CALLBACK_RAW_WRITEABLE
Write(c) ==
    /\ OnWritable(c)
    /\ down' = IF Owned(c) THEN [down EXCEPT ![c] = @ \o queue[c]] ELSE down
    /\ UNCHANGED <<scene, conn, dialed, up, view, steady, asked>>

\* LWS_CALLBACK_RAW_CLOSE: the game hung up, or the connection failed.
Close(c) ==
    /\ OnDisconnect(c)
    /\ up' = [up EXCEPT ![c] = <<>>]
    /\ listed' = listed \ {c}
    /\ founder' = founder \ {c}
    /\ UNCHANGED <<scene, conn, dialed, down, view, steady>>

\* A connection that its owner gave up before the server came to adopt it.
Forget(c) ==
    /\ c \in dialed
    /\ ~Owned(c)
    /\ dialed' = dialed \ {c}
    /\ up' = [up EXCEPT ![c] = <<>>]
    /\ UNCHANGED <<vars, scene, conn, down, view, steady, asked>>

\* A failed assertion ends the server process: every connection is cut, and what
\* was on the way to a game may be lost with it.
Crash ==
    /\ \E c \in Client : \/ c \in dialed /\ \E i \in Id : OnConnectCollision(c, i)
                         \/ up[c] # <<>> /\ OnMessageTail(c)
    /\ dialed' = {}
    /\ up' = [c \in Client |-> <<>>]
    /\ \E kept \in SUBSET Client :
          down' = [c \in Client |-> IF c \in kept THEN down[c] ELSE <<>>]
    /\ listed' = {}
    /\ founder' = {}
    /\ UNCHANGED <<scene, conn, view, steady>>

SysRestart == Restart /\ UNCHANGED <<scene, net, view, steady, asked>>

SysNext ==
    \/ \E p \in Process : \/ \E c \in Client : Connect(p, c)
                          \/ \E r \in MenuRequest : SendRequest(p, r)
                          \/ SendFails(p) \/ Receive(p) \/ NoticeClose(p)
                          \/ LeaveMenu(p) \/ ReturnToMenu(p) \/ Relaunch(p)
    \/ \E c \in Client : \/ \E i \in Id : Adopt(c, i)
                         \/ \E k \in DOMAIN up[c] : ReadChunk(c, k)
                         \/ Write(c) \/ Close(c) \/ Forget(c)
    \/ Crash
    \/ SysRestart

SysSpec == SysInit /\ [][SysNext]_sysVars

\* lws_service() polls for writable sockets; engine_update() polls the connection
\* once per frame. Nobody has to press a button, and no connection has to last.
SysFairness == /\ \A c \in Client : WF_sysVars(Write(c))
               /\ \A p \in Process : WF_sysVars(Receive(p) \/ NoticeClose(p))

FairSysSpec == SysSpec /\ SysFairness

----------------------------------------------------------------------------
(* Properties. *)

SysTypeOK ==
    /\ TypeOK
    /\ scene \in [Process -> {"menu", "game"}]
    /\ conn \in [Process -> Client \cup {NoConn}]
    /\ dialed \in SUBSET Client
    /\ up \in [Client -> Seq(MenuRequest)]
    /\ down \in [Client -> Seq(Message)]
    /\ lobby \in [Process -> LobbyId]
    /\ others \in [Process -> Int]
    /\ ids \in [Process -> SUBSET Lobby]
    /\ steady \in SUBSET Process
    /\ listed \in SUBSET Client
    /\ founder \in SUBSET Client

\* Everything the server has said to p and p has not read yet, oldest first.
Pending(p) == down[conn[p]] \o queue[conn[p]]

\* A process whose session is registered and whose view was never cut off.
InTouch(p) == p \in steady /\ conn[p] \in Registered

\* Reading everything on the way, the menu ends with the lobby the server has
\* the session in. (Not so for a menu that was left, or whose connection broke:
\* load() forgets the lobby of a live session, disconnecting keeps that of a
\* dead one.)
ViewFollows ==
    \A p \in Process : InTouch(p) => Knows(lobby[p], Pending(p), group[conn[p]])

\* After it reads s, a menu that knows the lobbies `known` knows lobby l.
KnowsOf(known, s, l) ==
    \/ l \in known /\ \A i \in DOMAIN s : s[i].type = "LOBBY_LIST_RESPONSE" => l \in s[i].lobbies
    \/ \E i \in DOMAIN s :
          /\ \/ s[i].type = "LOBBY_LIST_RESPONSE" /\ l \in s[i].lobbies
             \/ s[i].type = "LOBBY_CREATE_RESPONSE" /\ s[i].error = NoError /\ s[i].lobby = l
          /\ \A j \in DOMAIN s :
                j > i /\ s[j].type = "LOBBY_LIST_RESPONSE" => l \in s[j].lobbies

\* A menu that asked for the lobbies once knows all there are: the answer and the
\* broadcasts of later creations do not overtake each other. (It may also know
\* lobbies that are gone, since nobody is told when one closes.)
ListStaysComplete ==
    \A p \in Process : (InTouch(p) /\ conn[p] \in listed) =>
        \A d \in Registered : group[d] # NoLobby => KnowsOf(ids[p], Pending(p), group[d])

\* The others that will be counted once s is read: arrivals less departures.
Counted(s) ==
    LET Notices(arrived) == {i \in DOMAIN s : /\ s[i].type = "LOBBY_JOIN_RESPONSE"
                                              /\ s[i].other
                                              /\ (s[i].lobby # NoLobby) = arrived}
    IN  Cardinality(Notices(TRUE)) - Cardinality(Notices(FALSE))

\* Whoever created the lobby counts at least everybody else in it. (It may count
\* more: a member whose connection ends is not announced.)
FounderMissesNobody ==
    \A p \in Process : (InTouch(p) /\ conn[p] \in founder) =>
        LET c == conn[p]
        IN  others[p] + Counted(Pending(p))
              >= Cardinality({d \in Registered \ {c} : group[d] = group[c]})

\* A membership the server grants reaches the screen, unless the process loses
\* touch or moves on first.
MembershipShown ==
    \A p \in Process, l \in Lobby :
        (InTouch(p) /\ group[conn[p]] = l)
            ~> (~InTouch(p) \/ lobby[p] = l \/ group[conn[p]] # l)

\* A game whose connection the server has cut, by a crash with messages on the way or by a
\* restart before it was adopted, reads what came through, whatever its scene, and then
\* gives the connection up, so that the menu can connect again.
CutIsNoticed ==
    \A p \in Process, c \in Client : (conn[p] = c /\ ~Live(c)) ~> conn[p] # c
=============================================================================
