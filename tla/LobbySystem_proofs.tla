-------------------------- MODULE LobbySystem_proofs --------------------------
(***************************************************************************)
(* Proofs about LobbySystem, for any number of game processes,             *)
(* connections, lobbies and ids.                                           *)
(*                                                                         *)
(* The composition is a LobbyServer at every step: what the server does    *)
(* with its ends of the connections is a step of LobbyServer, and what the *)
(* games do is none. So its invariant IInv is carried over, and the        *)
(* invariants here relate the games' half to it.                           *)
(***************************************************************************)
EXTENDS LobbySystem, LobbyServer_proofs, SequenceTheorems, FiniteSetTheorems

----------------------------------------------------------------------------
(* The server within the system. *)

\* What the games say is a request: no chunk is a message of another type.
Carried == up \in [Client -> Seq(MenuRequest)]

LEMMA FirstRequest ==
    ASSUME Carried, NEW c \in Client, NEW k \in DOMAIN up[c]
    PROVE  up[c][1] \in MenuRequest /\ up[c][1] \in Request
BY SystemAssumption DEF SystemAssumption, Carried

\* Which steps are the server's.
LEMMA StepOfServer ==
    ASSUME Carried, [SysNext]_sysVars
    PROVE  [Next]_vars
<1>1. CASE \E p \in Process : \/ \E c \in Client : Connect(p, c)
                              \/ \E r \in MenuRequest : SendRequest(p, r)
                              \/ SendFails(p) \/ Receive(p) \/ NoticeClose(p)
                              \/ LeaveMenu(p) \/ ReturnToMenu(p) \/ Relaunch(p)
    BY <1>1 DEF Connect, SendRequest, SendFails, Receive, NoticeClose, LeaveMenu, ReturnToMenu, Relaunch
<1>2. ASSUME NEW c \in Client, NEW i \in Id, Adopt(c, i) PROVE Next
    BY <1>2 DEF Adopt, Next
<1>3. ASSUME NEW c \in Client, NEW k \in DOMAIN up[c], ReadChunk(c, k) PROVE Next
    BY <1>3, FirstRequest DEF ReadChunk, Next
<1>4. ASSUME NEW c \in Client, Write(c) \/ Close(c) \/ Forget(c) PROVE [Next]_vars
    BY <1>4 DEF Write, Close, Forget, Next
<1>5. CASE Crash
    BY <1>5 DEF Crash, Next
<1>6. CASE SysRestart
    BY <1>6 DEF SysRestart, Next
<1>7. CASE UNCHANGED sysVars
    BY <1>7 DEF sysVars
<1> QED
    BY <1>1, <1>2, <1>3, <1>4, <1>5, <1>6, <1>7 DEF SysNext

\* Nobody is registered who has not been, but the connection that is adopted.
LEMMA RegisteredStep ==
    ASSUME IInv, [Next]_vars
    PROVE  \/ Registered' \subseteq Registered
           \/ \E c \in Client, i \in Id : OnConnect(c, i) /\ Registered' = Registered \cup {c}
<1>1. ASSUME NEW c \in Client, NEW i \in Id, OnConnect(c, i) PROVE Registered' = Registered \cup {c}
    BY <1>1, ConnectRegisters DEF IInv
<1>2. ASSUME NEW c \in Client, OnDisconnect(c) PROVE Registered' \subseteq Registered
    BY <1>2, DisconnectRegisters DEF IInv
<1>3. ASSUME Abort PROVE Registered' \subseteq Registered
    BY <1>3, NoneRegistered DEF Abort
<1>4. ASSUME UNCHANGED sessions PROVE Registered' \subseteq Registered
    BY <1>4 DEF Registered
<1> QED
    BY <1>1, <1>2, <1>3, <1>4
    DEF Next, OnConnectCollision, OnMessage, OnMessageTail, OnWritable, Restart, vars

----------------------------------------------------------------------------
(* What a request of the menu does. It creates a lobby, joins one, lists them, or is
   refused; it never leaves one. *)

Refused(c, out) ==
    /\ group' = group
    /\ \E m \in Message : /\ m.type \in {"LOBBY_CREATE_RESPONSE", "LOBBY_JOIN_RESPONSE"}
                          /\ m.error # NoError
                          /\ m.type = "LOBBY_JOIN_RESPONSE" => ~m.other
                          /\ out[c] = <<m>>
    /\ \A d \in Client \ {c} : out[d] = <<>>

Listing(c, out) ==
    /\ group' = group
    /\ out[c] = <<ListResponse(ListedLobbies)>>
    /\ \A d \in Client \ {c} : out[d] = <<>>

Creating(c, l, out) ==
    /\ \A d \in Registered : group[d] # l
    /\ group' = [group EXCEPT ![c] = l]
    /\ out[c] = <<CreateResponse(l, NoError), JoinResponse(l, NoError, FALSE)>>
    /\ \A d \in Client \ {c} :
          out[d] = IF d \in Registered THEN <<CreateResponse(l, NoError)>> ELSE <<>>

Joining(c, l, out) ==
    /\ \E d \in Registered : group[d] = l
    /\ l # group[c]
    /\ group' = [group EXCEPT ![c] = l]
    /\ out[c] = <<JoinResponse(l, NoError, FALSE)>>
    /\ \A d \in Client \ {c} :
          out[d] = IF d \in Registered /\ group[d] = l THEN <<JoinResponse(l, NoError, TRUE)>>
                                                       ELSE <<>>

LEMMA MenuStep ==
    ASSUME IInv, NEW c \in Client, NEW r \in MenuRequest, OnMessage(c, r)
    PROVE  \E out \in [Client -> Seq(Message)] :
             /\ queue' = [d \in Client |-> queue[d] \o out[d]]
             /\ \/ r.type # "LOBBY_LIST_REQUEST" /\ Refused(c, out)
                \/ r.type = "LOBBY_LIST_REQUEST" /\ Listing(c, out)
                \/ \E l \in Lobby : \/ r.type = "LOBBY_CREATE_REQUEST" /\ Creating(c, l, out)
                                    \/ r.type = "LOBBY_JOIN_REQUEST" /\ Joining(c, l, out)
<1>1. c \in Registered /\ Dispatch(c, r) /\ TypeOK /\ RegistryExact /\ r \in Request
    BY SystemAssumption DEF OnMessage, IInv, SystemAssumption
<1>2. ASSUME NEW l \in LobbyId PROVE Exists(l) <=> \E d \in Registered : group[d] = l
    BY DEF Exists, Registered
<1>3. \A d \in Registered : d # c => id[d] # id[c]
    BY <1>1, OthersById
<1>4. <<>> \in Seq(Message) /\ \A m \in Message : <<m>> \in Seq(Message)
    OBVIOUS
<1>6. \A m, n \in Message : <<m, n>> \in Seq(Message)
    OBVIOUS
<1>5. ASSUME NEW m \in Message, m.type \in {"LOBBY_CREATE_RESPONSE", "LOBBY_JOIN_RESPONSE"},
             m.error # NoError, m.type = "LOBBY_JOIN_RESPONSE" => ~m.other,
             Send(Answer(c, <<m>>, {}, <<>>)), UNCHANGED group
      PROVE  \E out \in [Client -> Seq(Message)] :
               queue' = [d \in Client |-> queue[d] \o out[d]] /\ Refused(c, out)
    <2> DEFINE out == Answer(c, <<m>>, {}, <<>>)
    <2>1. out \in [Client -> Seq(Message)] /\ out[c] = <<m>> /\ \A d \in Client \ {c} : out[d] = <<>>
        <3>1. <<m>> \in Seq(Message)
            BY <1>4
        <3> QED
            BY <1>4, <3>1, AnswerType DEF Answer
    <2>2. queue' = [d \in Client |-> queue[d] \o out[d]]
        BY <1>5 DEF Send
    <2> HIDE DEF out
    <2>3. Refused(c, out)
        BY <1>5, <2>1 DEF Refused
    <2> QED
        BY <2>1, <2>2, <2>3
<1>7. ASSUME NEW l, NEW e \in Error
      PROVE  /\ CreateResponse(l, e).type = "LOBBY_CREATE_RESPONSE" /\ CreateResponse(l, e).error # NoError
             /\ JoinResponse(l, e, FALSE).type = "LOBBY_JOIN_RESPONSE"
             /\ JoinResponse(l, e, FALSE).error # NoError /\ ~JoinResponse(l, e, FALSE).other
    BY DEF CreateResponse, JoinResponse, Error, NoError
<1>8. CASE r.type = "LOBBY_CREATE_REQUEST"
    <2>1. r.lobby \in LobbyId
        BY <1>1, <1>8 DEF Request
    <2> DEFINE l == r.lobby
    <2>2. CASE CreateRefused(c, l)
        <3>1. PICK e \in Error : /\ Send(Answer(c, <<CreateResponse(l, e)>>, {}, <<>>))
                                 /\ UNCHANGED group
            BY <2>2 DEF CreateRefused, Error
        <3>2. CreateResponse(l, e) \in Message
            BY <2>1, MessageTypes
        <3> QED
            BY <1>5, <1>7, <1>8, <3>1, <3>2
    <2>3. CASE CreateGranted(c, l)
        <3>1. l \in Lobby
            BY <1>1, <1>2, <2>1, <2>3 DEF CreateGranted, LobbyId
        <3>2. CreateResponse(l, NoError) \in Message /\ JoinResponse(l, NoError, FALSE) \in Message
            BY <2>1, MessageTypes
        <3>3. <<CreateResponse(l, NoError), JoinResponse(l, NoError, FALSE)>> \in Seq(Message)
            BY <1>6, <3>2
        <3> DEFINE out == Answer(c, <<CreateResponse(l, NoError), JoinResponse(l, NoError, FALSE)>>,
                                 EverybodyExclude(c), <<CreateResponse(l, NoError)>>)
        <3>4. /\ out \in [Client -> Seq(Message)]
              /\ out[c] = <<CreateResponse(l, NoError), JoinResponse(l, NoError, FALSE)>>
              /\ \A d \in Client \ {c} :
                   out[d] = IF d \in EverybodyExclude(c) THEN <<CreateResponse(l, NoError)>> ELSE <<>>
            <4>1. <<CreateResponse(l, NoError)>> \in Seq(Message)
                BY <1>4, <3>2
            <4>2. out \in [Client -> Seq(Message)]
                BY <3>3, <4>1, AnswerType
            <4>3. /\ out[c] = <<CreateResponse(l, NoError), JoinResponse(l, NoError, FALSE)>>
                  /\ \A d \in Client \ {c} :
                       out[d] = IF d \in EverybodyExclude(c) THEN <<CreateResponse(l, NoError)>> ELSE <<>>
                BY DEF Answer
            <4> QED
                BY <4>2, <4>3, Zenon
        <3>5. queue' = [d \in Client |-> queue[d] \o out[d]] /\ group' = [group EXCEPT ![c] = l] /\ ~Exists(l)
            BY <2>3 DEF CreateGranted, Send
        <3> HIDE DEF out
        <3>6. Creating(c, l, out)
            BY <1>2, <1>3, <2>1, <3>4, <3>5 DEF Creating, EverybodyExclude
        <3> QED
            BY <1>8, <3>1, <3>4, <3>5, <3>6
    <2> QED
        BY <1>1, <1>8, <2>2, <2>3 DEF Dispatch
<1>9. CASE r.type = "LOBBY_JOIN_REQUEST"
    <2>1. r.lobby \in Lobby
        BY <1>1, <1>9, MenuAssumption DEF Request, LobbyId, MenuAssumption
    <2> DEFINE l == r.lobby
    <2>2. CASE JoinRefused(c, l)
        <3>1. PICK e \in Error : /\ Send(Answer(c, <<JoinResponse(l, e, FALSE)>>, {}, <<>>))
                                 /\ UNCHANGED group
            BY <2>2 DEF JoinRefused, Error
        <3>2. JoinResponse(l, e, FALSE) \in Message
            BY <2>1, MessageTypes DEF LobbyId
        <3> QED
            BY <1>5, <1>7, <1>9, <3>1, <3>2
    <2>3. CASE JoinGranted(c, l)
        <3>1. JoinResponse(l, NoError, FALSE) \in Message /\ JoinResponse(l, NoError, TRUE) \in Message
            BY <2>1, MessageTypes DEF LobbyId
        <3> DEFINE out == Answer(c, <<JoinResponse(l, NoError, FALSE)>>,
                                 GroupExclude(c, group'), <<JoinResponse(l, NoError, TRUE)>>)
        <3>2. /\ out \in [Client -> Seq(Message)]
              /\ out[c] = <<JoinResponse(l, NoError, FALSE)>>
              /\ \A d \in Client \ {c} :
                   out[d] = IF d \in GroupExclude(c, group') THEN <<JoinResponse(l, NoError, TRUE)>>
                            ELSE <<>>
            <4>1. <<JoinResponse(l, NoError, FALSE)>> \in Seq(Message)
                  /\ <<JoinResponse(l, NoError, TRUE)>> \in Seq(Message)
                BY <1>4, <3>1
            <4>2. out \in [Client -> Seq(Message)]
                BY <4>1, AnswerType
            <4>3. /\ out[c] = <<JoinResponse(l, NoError, FALSE)>>
                  /\ \A d \in Client \ {c} :
                       out[d] = IF d \in GroupExclude(c, group') THEN <<JoinResponse(l, NoError, TRUE)>>
                                ELSE <<>>
                BY DEF Answer
            <4> QED
                BY <4>2, <4>3, Zenon
        <3>3. /\ queue' = [d \in Client |-> queue[d] \o out[d]]
              /\ group' = [group EXCEPT ![c] = l] /\ group'[c] = l
            BY <1>1, <2>3 DEF JoinGranted, Send, TypeOK
        <3> HIDE DEF out
        <3>4. \A d \in Client \ {c} : d \in GroupExclude(c, group') <=> d \in Registered /\ group[d] = l
            BY <1>1, <1>3, <3>3 DEF GroupExclude, TypeOK
        <3>5. Exists(l) /\ l # group[c] /\ l \in LobbyId
            BY <2>1, <2>3 DEF JoinGranted, LobbyId
        <3>6. Joining(c, l, out)
            BY <1>2, <3>2, <3>3, <3>4, <3>5 DEF Joining
        <3> QED
            BY <1>9, <2>1, <3>2, <3>3, <3>6
    <2> QED
        BY <1>1, <1>9, <2>1, <2>2, <2>3, ServerAssumption DEF Dispatch, ServerAssumption
<1>10. CASE r.type = "LOBBY_LIST_REQUEST"
    <2>1. ListedLobbies \in SUBSET Lobby
        <3>1. \A i \in DOMAIN sessions : group[sessions[i]] \in LobbyId
            BY <1>1 DEF TypeOK
        <3> QED
            BY <3>1 DEF ListedLobbies, LobbyId
    <2>2. ListResponse(ListedLobbies) \in Message
        BY <2>1, MessageTypes
    <2> DEFINE out == Answer(c, <<ListResponse(ListedLobbies)>>, {}, <<>>)
    <2>3. out \in [Client -> Seq(Message)] /\ out[c] = <<ListResponse(ListedLobbies)>>
          /\ \A d \in Client \ {c} : out[d] = <<>>
        <3>1. <<ListResponse(ListedLobbies)>> \in Seq(Message)
            BY <1>4, <2>2
        <3>2. out \in [Client -> Seq(Message)]
            BY <1>4, <3>1, AnswerType
        <3>3. out[c] = <<ListResponse(ListedLobbies)>> /\ \A d \in Client \ {c} : out[d] = <<>>
            BY DEF Answer
        <3> QED
            BY <3>2, <3>3, Zenon
    <2>4. queue' = [d \in Client |-> queue[d] \o out[d]] /\ group' = group
        BY <1>1, <1>10 DEF Dispatch, List, Send
    <2> HIDE DEF out
    <2>5. Listing(c, out)
        BY <2>3, <2>4 DEF Listing
    <2> QED
        BY <1>10, <2>3, <2>4, <2>5
<1> QED
    BY <1>1, <1>8, <1>9, <1>10 DEF Request

----------------------------------------------------------------------------
(* Types. A menu that creates and joins lobbies only is never told of lobby 0 by a lobby
   that is created, nor by a notice about another user: others_in_lobby never falls. *)

Said == {m \in Message :
           /\ m.type = "LOBBY_CREATE_RESPONSE" /\ m.error = NoError => m.lobby # NoLobby
           /\ m.type = "LOBBY_JOIN_RESPONSE" /\ m.other => m.lobby # NoLobby /\ m.error = NoError}

GameType ==
    /\ scene \in [Process -> {"menu", "game"}]
    /\ conn \in [Process -> Client \cup {NoConn}]
    /\ lobby \in [Process -> LobbyId]
    /\ others \in [Process -> Nat]
    /\ ids \in [Process -> SUBSET Lobby]
    /\ steady \in SUBSET Process

NetType ==
    /\ dialed \in SUBSET Client
    /\ Carried
    /\ down \in [Client -> Seq(Said)]
    /\ queue \in [Client -> Seq(Said)]
    /\ listed \subseteq Registered
    /\ founder \subseteq Registered

\* What the streams are to the proofs: a connection has one owner, and is served for nobody
\* but it.
ConnectionsApart ==
    /\ \A p, q \in Process : conn[p] = conn[q] /\ conn[p] # NoConn => p = q
    /\ dialed \cap Registered = {}
    /\ \A c \in Client : (~Owned(c) => down[c] = <<>>) /\ (~Live(c) => up[c] = <<>>)

SysInv == IInv /\ GameType /\ NetType /\ ConnectionsApart

LEMMA SaidTypes ==
    /\ Welcome \in Said
    /\ \A l \in Lobby : /\ CreateResponse(l, NoError) \in Said
                        /\ JoinResponse(l, NoError, FALSE) \in Said
                        /\ JoinResponse(l, NoError, TRUE) \in Said
    /\ \A ls \in SUBSET Lobby : ListResponse(ls) \in Said
    /\ \A s \in Seq(Said) : s \in Seq(Message)
<1>1. Welcome \in Said
    BY MessageTypes DEF Said, Welcome
<1>2. ASSUME NEW l \in Lobby
      PROVE  /\ CreateResponse(l, NoError) \in Said
             /\ JoinResponse(l, NoError, FALSE) \in Said
             /\ JoinResponse(l, NoError, TRUE) \in Said
    <2>1. l # NoLobby /\ CreateResponse(l, NoError) \in Message
          /\ JoinResponse(l, NoError, FALSE) \in Message /\ JoinResponse(l, NoError, TRUE) \in Message
        BY MessageTypes, ServerAssumption DEF LobbyId, ServerAssumption
    <2> QED
        BY <2>1 DEF Said, CreateResponse, JoinResponse
<1>3. ASSUME NEW ls \in SUBSET Lobby PROVE ListResponse(ls) \in Said
    BY MessageTypes DEF Said, ListResponse
<1>4. ASSUME NEW s \in Seq(Said) PROVE s \in Seq(Message)
    <2>1. Said \subseteq Message
        BY DEF Said
    <2> QED
        BY <2>1
<1> QED
    BY <1>1, <1>2, <1>3, <1>4

\* What a menu shows of a message keeps its type.
LEMMA ShowType ==
    ASSUME GameType, NEW p \in Process, NEW m \in Said, Show(p, m)
    PROVE  lobby' \in [Process -> LobbyId] /\ others' \in [Process -> Nat]
           /\ ids' \in [Process -> SUBSET Lobby]
<1>0. m \in Message
    BY DEF Said
<1>1. OwnJoin(m) => m.lobby \in LobbyId
    BY <1>0 DEF OwnJoin, Message
<1>2. m.type = "LOBBY_CREATE_RESPONSE" /\ m.error = NoError => m.lobby \in Lobby
    BY DEF Message, Said, LobbyId
<1>3. m.type = "LOBBY_LIST_RESPONSE" => m.lobbies \in SUBSET Lobby
    BY <1>0 DEF Message
<1>4. lobby' \in [Process -> LobbyId]
    BY <1>1 DEF Show, GameType
<1>5. others' \in [Process -> Nat]
    BY DEF Show, GameType, Said
<1>6. ids' \in [Process -> SUBSET Lobby]
    <2>1. ids \in [Process -> SUBSET Lobby]
        BY DEF GameType
    <2>2. CASE m.type = "LOBBY_CREATE_RESPONSE" /\ m.error = NoError
        <3>1. ids' = [ids EXCEPT ![p] = @ \cup {m.lobby}]
            BY <2>2 DEF Show
        <3> QED
            BY <1>2, <2>1, <2>2, <3>1
    <2>3. CASE m.type = "LOBBY_LIST_RESPONSE"
        <3>1. ids' = [ids EXCEPT ![p] = m.lobbies]
            BY <2>3 DEF Show
        <3> QED
            BY <1>3, <2>1, <2>3, <3>1
    <2>4. CASE ~(m.type = "LOBBY_CREATE_RESPONSE" /\ m.error = NoError) /\ m.type # "LOBBY_LIST_RESPONSE"
        <3>1. ids' = ids
            BY <2>4 DEF Show
        <3> QED
            BY <2>1, <3>1
    <2> QED
        BY <2>2, <2>3, <2>4
<1> QED
    BY <1>4, <1>5, <1>6

\* Whatever is answered is something the server says.
LEMMA OutSaid ==
    ASSUME IInv, NEW c \in Client, NEW out \in [Client -> Seq(Message)],
           Refused(c, out) \/ Listing(c, out) \/ \E l \in Lobby : Creating(c, l, out) \/ Joining(c, l, out),
           NEW d \in Client
    PROVE  out[d] \in Seq(Said)
<1>1. <<>> \in Seq(Said) /\ (\A m \in Said : <<m>> \in Seq(Said))
    OBVIOUS
<1>2. \A m, n \in Said : <<m, n>> \in Seq(Said)
    OBVIOUS
<1>3. CASE Refused(c, out)
    <2>1. PICK m \in Message : /\ m.type \in {"LOBBY_CREATE_RESPONSE", "LOBBY_JOIN_RESPONSE"}
                               /\ m.error # NoError
                               /\ m.type = "LOBBY_JOIN_RESPONSE" => ~m.other
                               /\ out[c] = <<m>>
        BY <1>3 DEF Refused
    <2>2. m \in Said
        BY <2>1 DEF Said
    <2> QED
        BY <1>1, <1>3, <2>1, <2>2 DEF Refused
<1>4. CASE Listing(c, out)
    <2>1. ListedLobbies \in SUBSET Lobby
        BY DEF IInv, TypeOK, ListedLobbies, LobbyId
    <2> QED
        BY <1>1, <1>4, <2>1, SaidTypes DEF Listing
<1>5. ASSUME NEW l \in Lobby, Creating(c, l, out) PROVE out[d] \in Seq(Said)
    BY <1>1, <1>2, <1>5, SaidTypes DEF Creating
<1>6. ASSUME NEW l \in Lobby, Joining(c, l, out) PROVE out[d] \in Seq(Said)
    BY <1>1, <1>6, SaidTypes DEF Joining
<1> QED
    BY <1>3, <1>4, <1>5, <1>6

\* A request of a menu keeps the queues sequences of what the server says.
LEMMA SaidStep ==
    ASSUME IInv, NEW c \in Client, NEW r \in MenuRequest, OnMessage(c, r), queue \in [Client -> Seq(Said)]
    PROVE  queue' \in [Client -> Seq(Said)]
<1>1. PICK out \in [Client -> Seq(Message)] :
        /\ queue' = [d \in Client |-> queue[d] \o out[d]]
        /\ \/ Refused(c, out)
           \/ Listing(c, out)
           \/ \E l \in Lobby : Creating(c, l, out) \/ Joining(c, l, out)
    BY MenuStep
<1>2. \A d \in Client : out[d] \in Seq(Said)
    BY <1>1, OutSaid
<1> QED
    BY <1>1, <1>2

\* The games' variables keep their types.
LEMMA GameStep ==
    ASSUME SysInv, [SysNext]_sysVars
    PROVE  GameType'
<1>0. GameType /\ down \in [Client -> Seq(Said)] /\ LobbyId = Lobby \cup {NoLobby}
    BY DEF SysInv, NetType, LobbyId
<1>1. ASSUME NEW p \in Process, NEW c \in Client, Connect(p, c) PROVE GameType'
    BY <1>0, <1>1 DEF Connect, GameType, view
<1>2. ASSUME NEW p \in Process, NEW r \in MenuRequest, SendRequest(p, r) PROVE GameType'
    BY <1>0, <1>2 DEF SendRequest, GameType, view
<1>3. ASSUME NEW p \in Process, HangUp(p), UNCHANGED <<scene, view>>, steady' = steady \ {p} PROVE GameType'
    BY <1>0, <1>3 DEF HangUp, GameType, view
<1>4. ASSUME NEW p \in Process, Receive(p) PROVE GameType'
    <2>1. CASE scene[p] = "menu"
        <3> DEFINE m == Head(down[conn[p]])
        <3>1. m \in Said
            BY <1>0, <1>4 DEF Receive, GameType
        <3>2. Show(p, m) /\ UNCHANGED <<scene, conn, steady>>
            BY <1>4, <2>1 DEF Receive
        <3> HIDE DEF m
        <3> QED
            BY <1>0, <3>1, <3>2, ShowType DEF GameType
    <2>2. CASE scene[p] # "menu"
        BY <1>0, <1>4, <2>2 DEF Receive, GameType, view
    <2> QED
        BY <2>1, <2>2
<1>5. ASSUME NEW p \in Process, LeaveMenu(p) PROVE GameType'
    BY <1>0, <1>5 DEF LeaveMenu, GameType, view, net
<1>6. ASSUME NEW p \in Process, LoadMenu(p), conn' \in [Process -> Client \cup {NoConn}], steady' \in SUBSET Process
      PROVE  GameType'
    BY <1>0, <1>6 DEF LoadMenu, GameType
<1>7. ASSUME NEW p \in Process, ReturnToMenu(p) PROVE GameType'
    BY <1>0, <1>6, <1>7 DEF ReturnToMenu, net, GameType
<1>8. ASSUME NEW p \in Process, Relaunch(p) PROVE GameType'
    BY <1>0, <1>6, <1>8 DEF Relaunch, HangUp, GameType
<1>9. ASSUME UNCHANGED <<scene, conn, view, steady>> PROVE GameType'
    BY <1>0, <1>9 DEF GameType, view
<1>10. CASE \E c \in Client : \/ \E i \in Id : Adopt(c, i)
                              \/ \E k \in DOMAIN up[c] : ReadChunk(c, k)
                              \/ Write(c) \/ Close(c) \/ Forget(c)
    BY <1>9, <1>10 DEF Adopt, ReadChunk, Write, Close, Forget
<1>11. CASE Crash \/ SysRestart \/ UNCHANGED sysVars
    BY <1>9, <1>11 DEF Crash, SysRestart, sysVars, net
<1> QED
    BY <1>1, <1>2, <1>3, <1>4, <1>5, <1>7, <1>8, <1>10, <1>11 DEF SysNext, SendFails, NoticeClose

\* Hanging up takes away what the process had not read, and nothing of another's.
LEMMA HangUpStep ==
    ASSUME SysInv, NEW p \in Process, HangUp(p), UNCHANGED <<vars, dialed, up, asked>>
    PROVE  NetType' /\ ConnectionsApart'
<1>1. conn \in [Process -> Client \cup {NoConn}] /\ conn' = [conn EXCEPT ![p] = NoConn]
      /\ down' = [c \in Client |-> IF c = conn[p] THEN <<>> ELSE down[c]]
    BY DEF SysInv, GameType, HangUp
<1>2. Registered' = Registered /\ UNCHANGED <<queue, listed, founder, dialed, up>>
    BY DEF vars, Registered, asked
<1>3. <<>> \in Seq(Said)
    OBVIOUS
<1>4. NetType'
    BY <1>1, <1>2, <1>3 DEF SysInv, NetType, Carried
<1>5. \A q, t \in Process : conn'[q] = conn'[t] /\ conn'[q] # NoConn => q = t
    BY <1>1 DEF SysInv, ConnectionsApart
<1>6. ASSUME NEW c \in Client, ~Owned(c)' PROVE down'[c] = <<>>
    <2>1. CASE c = conn[p]
        BY <1>1, <2>1
    <2>2. CASE c # conn[p]
        <3>1. ~Owned(c)
            BY <1>1, <1>6, <2>2 DEF Owned
        <3> QED
            BY <1>1, <2>2, <3>1 DEF SysInv, ConnectionsApart
    <2> QED
        BY <2>1, <2>2
<1>7. ASSUME NEW c \in Client, ~Live(c)' PROVE up'[c] = <<>>
    BY <1>2, <1>7 DEF Live, SysInv, ConnectionsApart
<1>8. (dialed \cap Registered = {})'
    BY <1>2 DEF SysInv, ConnectionsApart
<1> QED
    BY <1>4, <1>5, <1>6, <1>7, <1>8 DEF ConnectionsApart

\* A connection that is opened was held by nobody, and nothing is on its way.
LEMMA ConnectStep ==
    ASSUME SysInv, NEW p \in Process, NEW c \in Client, Connect(p, c)
    PROVE  NetType' /\ ConnectionsApart'
<1>1. /\ conn \in [Process -> Client \cup {NoConn}] /\ conn' = [conn EXCEPT ![p] = c]
      /\ conn[p] = NoConn /\ NoConn \notin Client
      /\ dialed' = dialed \cup {c}
      /\ ~Owned(c) /\ c \notin dialed \cup Registered
    BY SystemAssumption DEF SysInv, GameType, Connect, Free, Live, SystemAssumption
<1>2. Registered' = Registered /\ UNCHANGED <<queue, listed, founder, up, down>>
    BY DEF Connect, vars, Registered, asked
<1>3. NetType'
    BY <1>1, <1>2 DEF SysInv, NetType, Carried
<1>4. \A q, t \in Process : conn'[q] = conn'[t] /\ conn'[q] # NoConn => q = t
    BY <1>1 DEF SysInv, ConnectionsApart, Owned
<1>5. \A d \in Client : ~Owned(d)' => ~Owned(d)
    BY <1>1 DEF Owned
<1>6. \A d \in Client : ~Live(d)' => ~Live(d)
    BY <1>1, <1>2 DEF Live
<1>7. (dialed \cap Registered = {})'
    BY <1>1, <1>2 DEF SysInv, ConnectionsApart
<1> QED
    BY <1>2, <1>3, <1>4, <1>5, <1>6, <1>7 DEF SysInv, ConnectionsApart

\* What a button sends goes to the server's end, if that is up.
LEMMA SendStep ==
    ASSUME SysInv, NEW p \in Process, NEW r \in MenuRequest, SendRequest(p, r)
    PROVE  NetType' /\ ConnectionsApart'
<1>1. Registered' = Registered /\ UNCHANGED <<queue, listed, founder, dialed, conn, down>>
    BY DEF SendRequest, vars, Registered, asked
<1>2. CASE ~Live(conn[p])
    BY <1>1, <1>2 DEF SysInv, NetType, Carried, ConnectionsApart, SendRequest, Owned, Live
<1>3. CASE Live(conn[p])
    <2>1. conn[p] \in Client /\ up' = [up EXCEPT ![conn[p]] = Append(@, r)] /\ Carried
        BY <1>3 DEF SysInv, NetType, GameType, SendRequest
    <2>2. Append(up[conn[p]], r) \in Seq(MenuRequest)
        BY <2>1 DEF Carried
    <2>3. Carried'
        BY <2>1, <2>2 DEF Carried
    <2>4. \A d \in Client : ~Live(d)' => ~Live(d) /\ up'[d] = up[d]
        BY <1>1, <1>3, <2>1 DEF Live, Carried
    <2> QED
        BY <1>1, <2>3, <2>4 DEF SysInv, NetType, ConnectionsApart, Owned
<1> QED
    BY <1>2, <1>3

\* A message that is read was the first on its way to its owner.
LEMMA ReceiveStep ==
    ASSUME SysInv, NEW p \in Process, Receive(p)
    PROVE  NetType' /\ ConnectionsApart'
<1>1. Registered' = Registered /\ UNCHANGED <<queue, listed, founder, dialed, conn, up>>
    BY DEF Receive, vars, Registered, asked
<1>2. /\ conn[p] \in Client /\ down[conn[p]] # <<>> /\ down \in [Client -> Seq(Said)]
      /\ down' = [down EXCEPT ![conn[p]] = Tail(@)]
    BY DEF SysInv, NetType, GameType, Receive
<1>3. Tail(down[conn[p]]) \in Seq(Said)
    BY <1>2
<1>4. NetType'
    BY <1>1, <1>2, <1>3 DEF SysInv, NetType, Carried
<1>5. \A d \in Client : ~Owned(d) => d # conn[p]
    BY DEF Owned
<1> QED
    BY <1>1, <1>2, <1>4, <1>5 DEF SysInv, ConnectionsApart, Owned, Live

\* A connection that is adopted is registered from then on, and is welcomed.
LEMMA AdoptStep ==
    ASSUME SysInv, NEW c \in Client, NEW i \in Id, Adopt(c, i)
    PROVE  NetType' /\ ConnectionsApart'
<1>1. /\ OnConnect(c, i) /\ TypeOK /\ c \in dialed
      /\ dialed' = dialed \ {c} /\ UNCHANGED <<conn, up, down, listed, founder>>
    BY DEF Adopt, SysInv, IInv, asked
<1>2. Registered' = Registered \cup {c} /\ queue' = [queue EXCEPT ![c] = <<Welcome>>]
    BY <1>1, ConnectRegisters DEF OnConnect
<1>3. <<Welcome>> \in Seq(Said)
    BY SaidTypes
<1>4. NetType'
    BY <1>1, <1>2, <1>3 DEF SysInv, NetType, Carried
<1> QED
    BY <1>1, <1>2, <1>4 DEF SysInv, ConnectionsApart, Owned, Live

\* A chunk is parsed and handled, and is on its way no longer.
LEMMA ReadStep ==
    ASSUME SysInv, NEW c \in Client, NEW k \in DOMAIN up[c], ReadChunk(c, k)
    PROVE  NetType' /\ ConnectionsApart'
<1>1. /\ OnMessage(c, up[c][1]) /\ Carried /\ queue \in [Client -> Seq(Said)]
      /\ UNCHANGED <<conn, dialed, down>>
      /\ up' = [up EXCEPT ![c] = SubSeq(@, k + 1, Len(@))]
    BY DEF ReadChunk, SysInv, NetType
<1>2. Registered' = Registered /\ c \in Registered
    BY <1>1 DEF OnMessage, Registered
<1>3. queue' \in [Client -> Seq(Said)]
    BY <1>1, FirstRequest, SaidStep DEF SysInv
<1>4. SubSeq(up[c], k + 1, Len(up[c])) \in Seq(MenuRequest)
    BY <1>1 DEF Carried
<1>5. Carried'
    BY <1>1, <1>4 DEF Carried
<1>6. listed' \subseteq Registered /\ founder' \subseteq Registered
    BY <1>2 DEF ReadChunk, SysInv, NetType
<1>7. NetType'
    BY <1>1, <1>2, <1>3, <1>5, <1>6 DEF SysInv, NetType
<1>8. \A d \in Client : ~Live(d)' => ~Live(d) /\ up'[d] = up[d]
    BY <1>1, <1>2 DEF Live, Carried
<1> QED
    BY <1>1, <1>2, <1>7, <1>8 DEF SysInv, ConnectionsApart, Owned

\* What is written goes to the connection's owner, if it has one.
LEMMA WriteStep ==
    ASSUME SysInv, NEW c \in Client, Write(c)
    PROVE  NetType' /\ ConnectionsApart'
<1>1. /\ UNCHANGED <<conn, dialed, up, listed, founder>>
      /\ queue \in [Client -> Seq(Said)] /\ down \in [Client -> Seq(Said)]
      /\ queue' = [queue EXCEPT ![c] = <<>>]
      /\ down' = IF Owned(c) THEN [down EXCEPT ![c] = @ \o queue[c]] ELSE down
    BY DEF Write, OnWritable, asked, SysInv, NetType
<1>2. Registered' = Registered
    BY DEF Write, OnWritable, Registered
<1>3. <<>> \in Seq(Said) /\ down[c] \o queue[c] \in Seq(Said)
    BY <1>1
<1>4. queue' \in [Client -> Seq(Said)] /\ down' \in [Client -> Seq(Said)]
    BY <1>1, <1>3
<1>5. NetType'
    BY <1>1, <1>2, <1>4 DEF SysInv, NetType, Carried
<1>6. \A d \in Client : ~Owned(d) => down'[d] = down[d]
    BY <1>1
<1> QED
    BY <1>1, <1>2, <1>5, <1>6 DEF SysInv, ConnectionsApart, Owned, Live

\* A connection that is closed carries nothing to the server any more.
LEMMA CloseStep ==
    ASSUME SysInv, NEW c \in Client, Close(c)
    PROVE  NetType' /\ ConnectionsApart'
<1>1. /\ OnDisconnect(c) /\ UNCHANGED <<conn, dialed, down>>
      /\ up' = [up EXCEPT ![c] = <<>>]
      /\ listed' = listed \ {c} /\ founder' = founder \ {c}
    BY DEF Close
<1>2. Registered' = Registered \ {c} /\ queue' = [queue EXCEPT ![c] = <<>>]
    BY <1>1, DisconnectRegisters DEF SysInv, IInv, OnDisconnect
<1>3. <<>> \in Seq(Said) /\ <<>> \in Seq(MenuRequest)
    OBVIOUS
<1>4. NetType'
    BY <1>1, <1>2, <1>3 DEF SysInv, NetType, Carried
<1> QED
    BY <1>1, <1>2, <1>4 DEF SysInv, NetType, Carried, ConnectionsApart, Owned, Live

\* Nor does one that is given up before it is adopted.
LEMMA ForgetStep ==
    ASSUME SysInv, NEW c \in Client, Forget(c)
    PROVE  NetType' /\ ConnectionsApart'
<1>1. /\ UNCHANGED <<conn, down, queue, listed, founder>>
      /\ dialed' = dialed \ {c} /\ up' = [up EXCEPT ![c] = <<>>]
    BY DEF Forget, vars, asked
<1>2. Registered' = Registered
    BY DEF Forget, vars, Registered
<1>3. <<>> \in Seq(MenuRequest)
    OBVIOUS
<1>4. NetType'
    BY <1>1, <1>2, <1>3 DEF SysInv, NetType, Carried
<1> QED
    BY <1>1, <1>2, <1>4 DEF SysInv, NetType, Carried, ConnectionsApart, Owned, Live

\* A crash leaves the games with what had arrived of their messages.
LEMMA CrashStep ==
    ASSUME SysInv, Crash
    PROVE  NetType' /\ ConnectionsApart'
<1>1. Abort /\ UNCHANGED conn /\ dialed' = {} /\ listed' = {} /\ founder' = {}
      /\ up' = [c \in Client |-> <<>>] /\ queue' = [c \in Client |-> <<>>]
    BY DEF Crash, OnConnectCollision, OnMessageTail, Abort
<1>2. PICK kept \in SUBSET Client : down' = [c \in Client |-> IF c \in kept THEN down[c] ELSE <<>>]
    BY DEF Crash
<1>3. Registered' = {}
    BY <1>1, NoneRegistered DEF Abort
<1>4. <<>> \in Seq(MenuRequest) /\ <<>> \in Seq(Said)
    OBVIOUS
<1>5. NetType'
    BY <1>1, <1>2, <1>3, <1>4 DEF SysInv, NetType, Carried
<1> QED
    BY <1>1, <1>2, <1>3, <1>5 DEF SysInv, ConnectionsApart, Owned

\* Changing scenes, or the start of a server, moves nothing.
LEMMA StillStep ==
    ASSUME SysInv, UNCHANGED <<sessions, queue, net, asked>>
    PROVE  NetType' /\ ConnectionsApart'
<1>1. Registered' = Registered
    BY DEF Registered
<1> QED
    BY <1>1 DEF SysInv, net, asked, NetType, Carried, ConnectionsApart, Owned, Live

\* Every step of the system keeps SysInv.
LEMMA SysStep == SysInv /\ [SysNext]_sysVars => SysInv'
<1> SUFFICES ASSUME SysInv, [SysNext]_sysVars PROVE SysInv'
    OBVIOUS
<1>1. IInv'
    BY StepOfServer, StepInv DEF SysInv, NetType
<1>2. NetType' /\ ConnectionsApart'
    <2>1. ASSUME NEW p \in Process, SendFails(p) \/ NoticeClose(p) \/ Relaunch(p)
          PROVE  NetType' /\ ConnectionsApart'
        BY <2>1, HangUpStep DEF SendFails, NoticeClose, Relaunch
    <2>2. ASSUME NEW p \in Process, LeaveMenu(p) \/ ReturnToMenu(p)
          PROVE  NetType' /\ ConnectionsApart'
        BY <2>2, StillStep DEF LeaveMenu, ReturnToMenu, vars
    <2>3. CASE SysRestart \/ UNCHANGED sysVars
        BY <2>3, StillStep DEF SysRestart, Restart, sysVars, vars
    <2> QED
        BY <2>1, <2>2, <2>3, ConnectStep, SendStep, ReceiveStep, AdoptStep, ReadStep, WriteStep,
           CloseStep, ForgetStep, CrashStep DEF SysNext
<1> QED
    BY <1>1, <1>2, GameStep DEF SysInv

\* The games and the server start with SysInv.
LEMMA SysInitInv == SysInit => SysInv
<1> SUFFICES ASSUME SysInit PROVE SysInv
    OBVIOUS
<1>1. IInv
    BY InitInv DEF SysInit
<1>2. Registered = {} /\ queue = [c \in Client |-> <<>>]
    BY DEF SysInit, Init, Registered
<1>3. <<>> \in Seq(MenuRequest) /\ <<>> \in Seq(Said)
    OBVIOUS
<1>4. GameType
    BY DEF SysInit, GameType, LobbyId
<1>5. NetType
    BY <1>2, <1>3 DEF SysInit, NetType, Carried
<1>6. ConnectionsApart
    BY <1>2 DEF SysInit, ConnectionsApart
<1> QED
    BY <1>1, <1>4, <1>5, <1>6 DEF SysInv

\* SysInv holds in every state of the system.
THEOREM SystemInvariant == SysSpec => []SysInv
BY SysInitInv, SysStep, PTL DEF SysSpec

\* In the company of its games the lobby server is the server of LobbyServer: whatever is
\* proved of that holds here.
THEOREM ServerOfTheSystem == SysSpec => Spec
<1>1. SysInit => Init
    BY DEF SysInit
<1>2. SysInv /\ [SysNext]_sysVars => [Next]_vars
    BY StepOfServer DEF SysInv, NetType
<1> QED
    BY <1>1, <1>2, SystemInvariant, PTL DEF SysSpec, Spec

\* Every variable of the system keeps its type.
THEOREM SystemTyped == SysSpec => []SysTypeOK
<1>1. SysInv => SysTypeOK
    <2> SUFFICES ASSUME SysInv PROVE SysTypeOK
        OBVIOUS
    <2>1. TypeOK /\ GameType /\ Carried
        BY DEF SysInv, IInv, NetType
    <2>2. down \in [Client -> Seq(Message)]
        BY SaidTypes DEF SysInv, NetType
    <2>3. dialed \in SUBSET Client /\ listed \in SUBSET Client /\ founder \in SUBSET Client
        BY <2>1, RegisteredClients DEF SysInv, NetType
    <2> QED
        BY <2>1, <2>2, <2>3 DEF SysTypeOK, GameType, Carried
<1> QED
    BY <1>1, SystemInvariant, PTL

----------------------------------------------------------------------------
(* What becomes of a process in touch, in one step: the step that adopts its connection, the
   one that shows it the next message, and one that the server takes for some request are the
   ones that matter to it. *)

\* Nothing has come down a connection that is not adopted, and a process that has not left the
\* menu since it connected is in it; before it is adopted it has been told nothing.
Fresh ==
    /\ \A c \in dialed : down[c] = <<>>
    /\ \A p \in steady : /\ conn[p] # NoConn => scene[p] = "menu"
                         /\ conn[p] \in dialed \cup {NoConn} => lobby[p] = NoLobby /\ others[p] = 0

\* What has no lobby stays without one, and the founders' lobbies are lobbies.
FoundersLobbies == \A c \in founder : group[c] # NoLobby

Adopted(p) ==
    /\ conn[p] \in Client \ Registered
    /\ conn'[p] = conn[p]
    /\ group'[conn[p]] = NoLobby
    /\ lobby'[p] = NoLobby
    /\ Pending(p)' = <<Welcome>>
    /\ UNCHANGED asked

Unmoved(p) == UNCHANGED <<lobby[p], others[p], ids[p], conn[p]>>

Reads(p) ==
    /\ Pending(p) \in Seq(Said) \ {<<>>}
    /\ Show(p, Head(Pending(p)))
    /\ Pending(p)' = Tail(Pending(p))
    /\ UNCHANGED <<vars, asked, conn>>

Hears(p) ==
    /\ Unmoved(p)
    /\ down'[conn[p]] = down[conn[p]]
    /\ \E c \in Client : \E k \in DOMAIN up[c] : ReadChunk(c, k)

Keeps(p) ==
    /\ Unmoved(p)
    /\ Pending(p)' = Pending(p)
    /\ \/ UNCHANGED <<sessions, group, asked>>
       \/ \E c \in Client \ {conn[p]}, i \in Id : OnConnect(c, i) /\ UNCHANGED asked
       \/ \E c \in Client \ {conn[p]} : /\ OnDisconnect(c)
                                        /\ listed' = listed \ {c}
                                        /\ founder' = founder \ {c}

\* What is pending for a process is a sequence of what the server says.
LEMMA PendingType ==
    ASSUME SysInv, NEW p \in Process, conn[p] \in Client
    PROVE  Pending(p) \in Seq(Said)
BY DEF SysInv, NetType, Pending

\* The first and the rest of a sequence that goes on.
LEMMA HeadTailCat ==
    ASSUME NEW s \in Seq(Said), NEW t \in Seq(Said), s # <<>>
    PROVE  s \o t # <<>> /\ Head(s \o t) = Head(s) /\ Tail(s \o t) = Tail(s) \o t
<1>1. Len(s) > 0 /\ s \o t \in Seq(Said) /\ Len(s \o t) = Len(s) + Len(t)
    OBVIOUS
<1>2. s \o t # <<>> /\ Head(s \o t) = Head(s)
    BY <1>1
<1>3. /\ Tail(s \o t) \in Seq(Said) /\ Tail(s) \o t \in Seq(Said)
      /\ Len(Tail(s \o t)) = Len(s) + Len(t) - 1 /\ Len(Tail(s) \o t) = Len(s) + Len(t) - 1
    BY <1>1
<1>4. ASSUME NEW i \in 1..(Len(s) + Len(t) - 1) PROVE Tail(s \o t)[i] = (Tail(s) \o t)[i]
    BY <1>1
<1> QED
    BY <1>2, <1>3, <1>4

\* What one step means to a process that is in touch after it.
LEMMA TouchStep ==
    ASSUME SysInv, Fresh, [SysNext]_sysVars, NEW p \in Process, InTouch(p)'
    PROVE  Adopted(p) \/ (InTouch(p) /\ (Reads(p) \/ Hears(p) \/ Keeps(p)))
<1>0. /\ conn \in [Process -> Client \cup {NoConn}] /\ NoConn \notin Client
      /\ down \in [Client -> Seq(Said)] /\ queue \in [Client -> Seq(Said)]
      /\ lobby \in [Process -> LobbyId] /\ others \in [Process -> Nat] /\ ids \in [Process -> SUBSET Lobby]
      /\ steady \subseteq Process
    BY SystemAssumption DEF SysInv, GameType, NetType, SystemAssumption
<1>1. p \in steady' /\ conn'[p] \in Registered' /\ Registered' \subseteq Client
    <2>1. IInv'
        BY StepOfServer, StepInv DEF SysInv, NetType
    <2>2. (TypeOK => Registered \subseteq Client)'
        BY DEF Registered, TypeOK
    <2> QED
        BY <2>1, <2>2 DEF InTouch, IInv
<1>2. ASSUME UNCHANGED <<vars, asked, conn, steady>>, UNCHANGED <<lobby[p], others[p], ids[p]>>,
             down'[conn[p]] = down[conn[p]]
      PROVE  InTouch(p) /\ Keeps(p)
    <2>1. Registered' = Registered
        BY <1>2 DEF vars, Registered
    <2>2. UNCHANGED <<sessions, group, asked>> /\ Pending(p)' = Pending(p) /\ Unmoved(p)
        BY <1>2 DEF vars, Pending, Unmoved
    <2> QED
        BY <1>1, <1>2, <2>1, <2>2 DEF InTouch, Keeps
<1>3. ASSUME NEW q \in Process, q # p, HangUp(q), UNCHANGED <<vars, asked>>, p \in steady,
             UNCHANGED <<lobby[p], others[p], ids[p]>>
      PROVE  InTouch(p) /\ Keeps(p)
    <2>1. conn'[p] = conn[p]
        BY <1>0, <1>3 DEF HangUp
    <2>2. conn[p] \in Client /\ conn[q] # conn[p]
        BY <1>0, <1>1, <1>3, <2>1 DEF SysInv, ConnectionsApart
    <2>3. down'[conn[p]] = down[conn[p]]
        BY <1>0, <1>3, <2>2 DEF HangUp
    <2>4. Registered' = Registered
        BY <1>3 DEF vars, Registered
    <2>5. UNCHANGED <<sessions, group, asked>> /\ Pending(p)' = Pending(p) /\ Unmoved(p)
        BY <1>3, <2>1, <2>3 DEF vars, Pending, Unmoved
    <2> QED
        BY <1>1, <1>3, <2>1, <2>4, <2>5 DEF InTouch, Keeps
<1>4. ASSUME NEW q \in Process, NEW c \in Client, Connect(q, c) PROVE InTouch(p) /\ Keeps(p)
    <2>1. Registered' = Registered /\ c \notin Registered /\ conn' = [conn EXCEPT ![q] = c]
          /\ UNCHANGED <<vars, down, view, steady, asked>>
        BY <1>4 DEF Connect, vars, Registered, Free, Live
    <2>2. conn'[p] = conn[p]
        BY <1>0, <1>1, <2>1
    <2>3. UNCHANGED <<sessions, group, asked>> /\ Pending(p)' = Pending(p) /\ Unmoved(p)
        BY <2>1, <2>2 DEF vars, Pending, Unmoved, view
    <2> QED
        BY <1>1, <2>1, <2>2, <2>3 DEF InTouch, Keeps
<1>5. ASSUME NEW q \in Process, NEW r \in MenuRequest, SendRequest(q, r) PROVE InTouch(p) /\ Keeps(p)
    BY <1>2, <1>5 DEF SendRequest, view
<1>6. ASSUME NEW q \in Process, HangUp(q), UNCHANGED <<vars, asked, view>>, steady' = steady \ {q}
      PROVE  InTouch(p) /\ Keeps(p)
    BY <1>1, <1>3, <1>6 DEF view
<1>7. ASSUME NEW q \in Process, Receive(q) PROVE InTouch(p) /\ (Reads(p) \/ Keeps(p))
    <2>1. /\ conn[q] \in Client /\ down[conn[q]] # <<>> /\ down' = [down EXCEPT ![conn[q]] = Tail(@)]
          /\ UNCHANGED <<vars, conn, steady, asked>>
        BY <1>0, <1>7 DEF Receive
    <2>2. CASE q # p
        <3>1. conn[q] # conn[p]
            BY <1>0, <2>1, <2>2 DEF SysInv, ConnectionsApart
        <3>2. UNCHANGED <<lobby[p], others[p], ids[p]>>
            <4>1. CASE scene[q] = "menu"
                <5>1. Show(q, Head(down[conn[q]]))
                    BY <1>7, <4>1 DEF Receive
                <5>2. lobby'[p] = lobby[p] /\ others'[p] = others[p]
                    BY <1>0, <2>2, <5>1 DEF Show
                <5>3. ids'[p] = ids[p]
                    <6> DEFINE m == Head(down[conn[q]])
                    <6>1. CASE m.type = "LOBBY_CREATE_RESPONSE" /\ m.error = NoError
                        <7>1. ids' = [ids EXCEPT ![q] = @ \cup {m.lobby}]
                            BY <5>1, <6>1 DEF Show
                        <7> QED
                            BY <1>0, <2>2, <7>1
                    <6>2. CASE m.type = "LOBBY_LIST_RESPONSE"
                        <7>1. ids' = [ids EXCEPT ![q] = m.lobbies]
                            BY <5>1, <6>2 DEF Show
                        <7> QED
                            BY <1>0, <2>2, <7>1
                    <6>3. CASE /\ ~(m.type = "LOBBY_CREATE_RESPONSE" /\ m.error = NoError)
                               /\ m.type # "LOBBY_LIST_RESPONSE"
                        BY <5>1, <6>3 DEF Show
                    <6> QED
                        BY <6>1, <6>2, <6>3
                <5> QED
                    BY <5>2, <5>3
            <4>2. CASE scene[q] # "menu"
                BY <1>7, <4>2 DEF Receive, view
            <4> QED
                BY <4>1, <4>2
        <3>3. down'[conn[p]] = down[conn[p]]
            BY <1>0, <1>1, <2>1, <3>1
        <3> QED
            BY <1>2, <2>1, <3>2, <3>3
    <2>3. CASE q = p
        <3>1. Registered' = Registered /\ InTouch(p)
            BY <1>1, <2>1 DEF vars, Registered, InTouch
        <3>2. scene[p] = "menu"
            BY <1>0, <1>1, <2>1, <2>3 DEF Fresh
        <3>3. Pending(p) \in Seq(Said)
            BY <2>1, <2>3, PendingType
        <3>4. Pending(p) # <<>> /\ Head(Pending(p)) = Head(down[conn[p]])
              /\ Tail(Pending(p)) = Tail(down[conn[p]]) \o queue[conn[p]]
            <4>1. down[conn[p]] \in Seq(Said) /\ queue[conn[p]] \in Seq(Said) /\ down[conn[p]] # <<>>
                BY <1>0, <2>1, <2>3
            <4> QED
                BY <4>1, HeadTailCat DEF Pending
        <3>5. Pending(p)' = Tail(Pending(p))
            BY <1>0, <2>1, <2>3, <3>4 DEF Pending, vars
        <3>6. Show(p, Head(Pending(p)))
            BY <1>7, <2>3, <3>2, <3>4 DEF Receive
        <3> QED
            BY <2>1, <3>1, <3>3, <3>4, <3>5, <3>6 DEF Reads
    <2> QED
        BY <2>2, <2>3
<1>8. ASSUME NEW q \in Process, LeaveMenu(q) PROVE InTouch(p) /\ Keeps(p)
    <2>1. UNCHANGED <<vars, net, view, asked>> /\ Registered' = Registered /\ p \in steady
        BY <1>1, <1>8 DEF LeaveMenu, vars, Registered
    <2>2. UNCHANGED <<sessions, group, asked>> /\ Pending(p)' = Pending(p) /\ Unmoved(p)
        BY <2>1 DEF vars, Pending, Unmoved, net, view
    <2> QED
        BY <1>1, <2>1, <2>2 DEF InTouch, Keeps, net
<1>9. ASSUME NEW q \in Process, ReturnToMenu(q) PROVE InTouch(p) /\ Keeps(p)
    <2>1. UNCHANGED <<vars, net, asked>> /\ Registered' = Registered /\ LoadMenu(q) /\ scene[q] = "game"
        BY <1>9 DEF ReturnToMenu, vars, Registered
    <2>2. conn[p] # NoConn
        BY <1>0, <1>1, <2>1 DEF net
    <2>3. p \in steady
        BY <1>1, <1>9, <2>2 DEF ReturnToMenu
    <2>4. q # p
        BY <2>1, <2>2, <2>3 DEF Fresh
    <2>5. UNCHANGED <<sessions, group, asked>> /\ Pending(p)' = Pending(p) /\ Unmoved(p)
        BY <1>0, <2>1, <2>4 DEF vars, Pending, Unmoved, net, LoadMenu
    <2> QED
        BY <1>1, <2>1, <2>3, <2>5 DEF InTouch, Keeps, net
<1>10. ASSUME NEW q \in Process, Relaunch(q) PROVE InTouch(p) /\ Keeps(p)
    <2>1. q # p
        BY <1>0, <1>1, <1>10 DEF Relaunch, HangUp
    <2>2. p \in steady /\ UNCHANGED <<lobby[p], others[p], ids[p]>>
        BY <1>0, <1>1, <1>10, <2>1 DEF Relaunch, LoadMenu
    <2> QED
        BY <1>3, <1>10, <2>1, <2>2 DEF Relaunch
<1>11. ASSUME NEW c \in Client, NEW i \in Id, Adopt(c, i)
       PROVE  Adopted(p) \/ (InTouch(p) /\ Keeps(p))
    <2>1. /\ OnConnect(c, i) /\ c \in dialed /\ c \notin Registered /\ c \notin Registered
          /\ UNCHANGED <<conn, down, view, steady, asked>>
        BY <1>11 DEF Adopt, OnConnect
    <2>2. /\ Registered' = Registered \cup {c}
          /\ queue' = [queue EXCEPT ![c] = <<Welcome>>] /\ group' = [group EXCEPT ![c] = NoLobby]
        BY <2>1, ConnectRegisters DEF OnConnect, SysInv, IInv
    <2>3. CASE conn[p] = c
        <3>1. down[c] = <<>> /\ lobby[p] = NoLobby
            BY <1>1, <2>1, <2>3 DEF Fresh
        <3>2. Pending(p)' = <<>> \o <<Welcome>>
            BY <1>0, <2>1, <2>2, <2>3, <3>1 DEF Pending
        <3>3. Pending(p)' = <<Welcome>>
            BY <3>2
        <3>4. group'[c] = NoLobby
            BY <2>2 DEF SysInv, IInv, TypeOK
        <3> QED
            BY <2>1, <2>3, <3>1, <3>3, <3>4 DEF Adopted, view
    <2>4. CASE conn[p] # c
        <3>1. Pending(p)' = Pending(p) /\ Unmoved(p) /\ InTouch(p)
            BY <1>0, <1>1, <2>1, <2>2, <2>4 DEF Pending, Unmoved, view, InTouch
        <3> QED
            BY <2>1, <2>4, <3>1 DEF Keeps
    <2> QED
        BY <2>3, <2>4
<1>12. ASSUME NEW c \in Client, NEW k \in DOMAIN up[c], ReadChunk(c, k) PROVE InTouch(p) /\ Hears(p)
    <2>1. Registered' = Registered /\ UNCHANGED <<conn, down, view, steady>>
        BY <1>12 DEF ReadChunk, OnMessage, Registered
    <2> QED
        BY <1>1, <1>12, <2>1 DEF InTouch, Hears, Unmoved, view
<1>13. ASSUME NEW c \in Client, Write(c) PROVE InTouch(p) /\ Keeps(p)
    <2>1. /\ Registered' = Registered /\ UNCHANGED <<sessions, group, asked, conn, view, steady>>
          /\ queue' = [queue EXCEPT ![c] = <<>>]
          /\ down' = IF Owned(c) THEN [down EXCEPT ![c] = @ \o queue[c]] ELSE down
        BY <1>13 DEF Write, OnWritable, Registered
    <2>2. InTouch(p) /\ Unmoved(p)
        BY <1>1, <2>1 DEF InTouch, Unmoved, view
    <2>3. Pending(p)' = Pending(p)
        <3>1. CASE conn[p] = c
            <4>1. Pending(p)' = (down[c] \o queue[c]) \o <<>>
                BY <1>0, <2>1, <3>1 DEF Pending, Owned
            <4> QED
                BY <1>0, <3>1, <4>1 DEF Pending
        <3>2. CASE conn[p] # c
            BY <1>0, <1>1, <2>1, <3>2 DEF Pending
        <3> QED
            BY <3>1, <3>2
    <2> QED
        BY <2>1, <2>2, <2>3 DEF Keeps
<1>14. ASSUME NEW c \in Client, Close(c) PROVE InTouch(p) /\ Keeps(p)
    <2>1. /\ OnDisconnect(c) /\ UNCHANGED <<conn, down, view, steady>>
          /\ listed' = listed \ {c} /\ founder' = founder \ {c}
        BY <1>14 DEF Close
    <2>2. Registered' = Registered \ {c} /\ queue' = [queue EXCEPT ![c] = <<>>]
        BY <2>1, DisconnectRegisters DEF SysInv, IInv, OnDisconnect
    <2>3. InTouch(p) /\ Unmoved(p) /\ conn[p] # c
        BY <1>1, <2>1, <2>2 DEF InTouch, Unmoved, view
    <2>4. Pending(p)' = Pending(p)
        BY <1>0, <1>1, <2>1, <2>2, <2>3 DEF Pending
    <2> QED
        BY <2>1, <2>3, <2>4 DEF Keeps
<1>15. ASSUME NEW c \in Client, Forget(c) PROVE InTouch(p) /\ Keeps(p)
    BY <1>2, <1>15 DEF Forget, view
<1>16. ~Crash
    <2>1. Crash => Registered' = {}
        BY NoneRegistered DEF Crash, OnConnectCollision, OnMessageTail, Abort
    <2> QED
        BY <1>1, <2>1
<1>17. CASE SysRestart \/ UNCHANGED sysVars
    <2>1. UNCHANGED <<sessions, group, queue, net, view, steady, asked>>
        BY <1>17 DEF SysRestart, Restart, sysVars, vars
    <2>2. Registered' = Registered /\ Pending(p)' = Pending(p) /\ Unmoved(p)
        BY <2>1 DEF Registered, Pending, Unmoved, net, view
    <2> QED
        BY <1>1, <2>1, <2>2 DEF InTouch, Keeps, net
<1> QED
    BY <1>4, <1>5, <1>6, <1>7, <1>8, <1>9, <1>10, <1>11, <1>12, <1>13, <1>14, <1>15, <1>16, <1>17
    DEF SysNext, SendFails, NoticeClose

\* Fresh is kept: nothing comes down a connection before it is adopted, and a process is no
\* longer steady once it leaves the menu while connected.
LEMMA FreshStep ==
    ASSUME SysInv, Fresh, [SysNext]_sysVars
    PROVE  Fresh'
<1>0. /\ conn \in [Process -> Client \cup {NoConn}] /\ NoConn \notin Client
      /\ scene \in [Process -> {"menu", "game"}] /\ dialed \subseteq Client
      /\ down \in [Client -> Seq(Said)] /\ queue \in [Client -> Seq(Said)]
      /\ lobby \in [Process -> LobbyId] /\ others \in [Process -> Nat] /\ steady \subseteq Process
    BY SystemAssumption DEF SysInv, GameType, NetType, SystemAssumption
<1> DEFINE Told(p) == /\ conn[p] # NoConn => scene[p] = "menu"
                      /\ conn[p] \in dialed \cup {NoConn} => lobby[p] = NoLobby /\ others[p] = 0
<1>1. SUFFICES /\ \A c \in dialed' : down'[c] = <<>>
               /\ \A p \in steady' : Told(p)'
    BY DEF Fresh
<1>2. (\A c \in dialed : down[c] = <<>>) /\ (\A p \in steady : Told(p))
    BY DEF Fresh
<1>3. ASSUME NEW p \in Process, HangUp(p), UNCHANGED <<dialed, scene, view>>, steady' = steady \ {p}
      PROVE  (\A c \in dialed' : down'[c] = <<>>) /\ (\A q \in steady' : Told(q)')
    <2>1. \A c \in dialed' : down'[c] = <<>>
        BY <1>0, <1>2, <1>3 DEF HangUp
    <2>2. ASSUME NEW q \in steady' PROVE Told(q)'
        BY <1>0, <1>2, <1>3 DEF HangUp, view
    <2> QED
        BY <2>1, <2>2
<1>4. ASSUME NEW p \in Process, NEW c \in Client, Connect(p, c)
      PROVE  (\A d \in dialed' : down'[d] = <<>>) /\ (\A q \in steady' : Told(q)')
    <2>1. down[c] = <<>> /\ dialed' = dialed \cup {c} /\ down' = down
        BY <1>4 DEF Connect, Free, SysInv, ConnectionsApart
    <2>2. ASSUME NEW q \in steady' PROVE Told(q)'
        <3>1. /\ UNCHANGED <<scene, lobby, others, steady>> /\ conn' = [conn EXCEPT ![p] = c]
              /\ conn[p] = NoConn /\ scene[p] = "menu" /\ ~Owned(c)
            BY <1>4 DEF Connect, view, Free
        <3>2. CASE q = p
            BY <1>0, <1>2, <3>1, <3>2
        <3>3. CASE q # p
            <4>1. conn'[q] = conn[q] /\ conn[q] # c
                BY <1>0, <3>1, <3>3 DEF Owned
            <4> QED
                BY <1>0, <1>2, <2>1, <3>1, <4>1
        <3> QED
            BY <3>2, <3>3
    <2> QED
        BY <1>2, <2>1, <2>2
<1>5. ASSUME NEW p \in Process, NEW r \in MenuRequest, SendRequest(p, r)
      PROVE  (\A d \in dialed' : down'[d] = <<>>) /\ (\A q \in steady' : Told(q)')
    BY <1>2, <1>5 DEF SendRequest, view
<1>6. ASSUME NEW p \in Process, Receive(p)
      PROVE  (\A d \in dialed' : down'[d] = <<>>) /\ (\A q \in steady' : Told(q)')
    <2>1. /\ conn[p] \in Client \ dialed /\ down' = [down EXCEPT ![conn[p]] = Tail(@)]
          /\ UNCHANGED <<dialed, conn, scene, steady>>
        BY <1>0, <1>2, <1>6 DEF Receive
    <2>2. \A d \in dialed' : down'[d] = <<>>
        BY <1>0, <1>2, <2>1
    <2>3. \A q \in Process \ {p} : lobby'[q] = lobby[q] /\ others'[q] = others[q]
        BY <1>0, <1>6 DEF Receive, Show, view
    <2>4. ASSUME NEW q \in steady' PROVE Told(q)'
        BY <1>0, <1>2, <2>1, <2>3
    <2> QED
        BY <2>2, <2>4
<1>7. ASSUME NEW p \in Process, LeaveMenu(p)
      PROVE  (\A d \in dialed' : down'[d] = <<>>) /\ (\A q \in steady' : Told(q)')
    <2>1. UNCHANGED <<conn, dialed, down, lobby, others>> /\ scene' = [scene EXCEPT ![p] = "game"]
          /\ steady' = IF conn[p] = NoConn THEN steady ELSE steady \ {p}
        BY <1>7 DEF LeaveMenu, net, view
    <2>2. ASSUME NEW q \in steady' PROVE Told(q)'
        BY <1>0, <1>2, <2>1
    <2> QED
        BY <1>2, <2>1, <2>2
<1>8. ASSUME NEW p \in Process, ReturnToMenu(p)
      PROVE  (\A d \in dialed' : down'[d] = <<>>) /\ (\A q \in steady' : Told(q)')
    <2>1. UNCHANGED <<conn, dialed, down>> /\ LoadMenu(p)
          /\ steady' = IF conn[p] = NoConn THEN steady \cup {p} ELSE steady
        BY <1>8 DEF ReturnToMenu, net
    <2>2. ASSUME NEW q \in steady' PROVE Told(q)'
        BY <1>0, <1>2, <2>1 DEF LoadMenu
    <2> QED
        BY <1>2, <2>1, <2>2
<1>9. ASSUME NEW p \in Process, Relaunch(p)
      PROVE  (\A d \in dialed' : down'[d] = <<>>) /\ (\A q \in steady' : Told(q)')
    <2>1. HangUp(p) /\ LoadMenu(p) /\ dialed' = dialed /\ steady' = steady \cup {p}
        BY <1>9 DEF Relaunch
    <2>2. \A c \in dialed' : down'[c] = <<>>
        BY <1>0, <1>2, <2>1 DEF HangUp
    <2>3. ASSUME NEW q \in steady' PROVE Told(q)'
        BY <1>0, <1>2, <2>1 DEF LoadMenu, HangUp
    <2> QED
        BY <2>2, <2>3
<1>10. ASSUME UNCHANGED <<scene, conn, lobby, others, steady>>, dialed' \subseteq dialed,
              \A c \in dialed' : down[c] = <<>> => down'[c] = <<>>
       PROVE  (\A d \in dialed' : down'[d] = <<>>) /\ (\A q \in steady' : Told(q)')
    BY <1>2, <1>10
<1>11. ASSUME NEW c \in Client, \/ \E i \in Id : Adopt(c, i)
                                \/ \E k \in DOMAIN up[c] : ReadChunk(c, k)
                                \/ Close(c) \/ Forget(c)
       PROVE  (\A d \in dialed' : down'[d] = <<>>) /\ (\A q \in steady' : Told(q)')
    <2>1. UNCHANGED <<scene, conn, lobby, others, steady, down>> /\ dialed' \subseteq dialed
        BY <1>11 DEF Adopt, ReadChunk, Close, Forget, view
    <2> QED
        BY <1>10, <2>1
<1>12. ASSUME NEW c \in Client, Write(c)
       PROVE  (\A d \in dialed' : down'[d] = <<>>) /\ (\A q \in steady' : Told(q)')
    <2>1. /\ UNCHANGED <<scene, conn, lobby, others, steady, dialed>> /\ c \in writable
          /\ down' = IF Owned(c) THEN [down EXCEPT ![c] = @ \o queue[c]] ELSE down
        BY <1>12 DEF Write, OnWritable, view
    <2>2. c \notin dialed
        BY <2>1 DEF SysInv, ConnectionsApart, IInv, RegistryExact
    <2>3. \A d \in dialed' : down'[d] = down[d]
        BY <1>0, <2>1, <2>2
    <2> QED
        BY <1>10, <2>1, <2>3
<1>13. CASE Crash
    BY <1>10, <1>13 DEF Crash, view
<1>14. CASE SysRestart \/ UNCHANGED sysVars
    BY <1>10, <1>14 DEF SysRestart, sysVars, net, view
<1> QED
    BY <1>3, <1>4, <1>5, <1>6, <1>7, <1>8, <1>9, <1>11, <1>12, <1>13, <1>14
    DEF SysNext, SendFails, NoticeClose

\* The lobby a founder is in stays a lobby: the menu leaves none, and the history forgets a
\* founder that joins another.
LEMMA FoundersStep ==
    ASSUME SysInv, FoundersLobbies, [SysNext]_sysVars
    PROVE  FoundersLobbies'
<1>0. group \in [Client -> LobbyId] /\ founder \subseteq Registered /\ Registered \subseteq Client
      /\ NoLobby \notin Lobby
    BY RegisteredClients, ServerAssumption DEF SysInv, IInv, TypeOK, NetType, ServerAssumption
<1>1. ASSUME UNCHANGED <<group, founder>> PROVE FoundersLobbies'
    BY <1>1 DEF FoundersLobbies
<1>2. CASE \E p \in Process : \/ \E c \in Client : Connect(p, c)
                              \/ \E r \in MenuRequest : SendRequest(p, r)
                              \/ SendFails(p) \/ Receive(p) \/ NoticeClose(p)
                              \/ LeaveMenu(p) \/ ReturnToMenu(p) \/ Relaunch(p)
    BY <1>1, <1>2 DEF Connect, SendRequest, SendFails, Receive, NoticeClose, LeaveMenu, ReturnToMenu,
                      Relaunch, vars, asked
<1>3. ASSUME NEW c \in Client, NEW i \in Id, Adopt(c, i) PROVE FoundersLobbies'
    <2>1. c \notin Registered /\ group' = [group EXCEPT ![c] = NoLobby] /\ founder' = founder
        BY <1>3 DEF Adopt, OnConnect, asked
    <2> QED
        BY <1>0, <2>1 DEF FoundersLobbies
<1>4. ASSUME NEW c \in Client, NEW k \in DOMAIN up[c], ReadChunk(c, k) PROVE FoundersLobbies'
    <2>1. OnMessage(c, up[c][1]) /\ up[c][1] \in MenuRequest
        BY <1>4, FirstRequest DEF ReadChunk, SysInv, NetType
    <2>2. \/ group' = group
          \/ \E l \in Lobby : group' = [group EXCEPT ![c] = l]
        BY <2>1, MenuStep DEF SysInv, Refused, Listing, Creating, Joining
    <2>3. IF group'[c] = group[c] THEN founder' = founder ELSE founder' \subseteq founder \cup {c}
        BY <1>4 DEF ReadChunk
    <2> QED
        BY <1>0, <2>2, <2>3 DEF FoundersLobbies
<1>5. ASSUME NEW c \in Client, Close(c) PROVE FoundersLobbies'
    BY <1>0, <1>5 DEF Close, OnDisconnect, FoundersLobbies
<1>6. ASSUME NEW c \in Client, Write(c) \/ Forget(c) PROVE FoundersLobbies'
    BY <1>1, <1>6 DEF Write, OnWritable, Forget, vars, asked
<1>7. CASE Crash
    BY <1>7 DEF Crash, FoundersLobbies
<1>8. CASE SysRestart \/ UNCHANGED sysVars
    BY <1>1, <1>8 DEF SysRestart, Restart, sysVars, vars, asked
<1> QED
    BY <1>2, <1>3, <1>4, <1>5, <1>6, <1>7, <1>8 DEF SysNext

----------------------------------------------------------------------------
(* A menu ends with the lobby that the server has its session in. *)

\* What is left to read still ends there, once the first message is shown.
LEMMA KnowsRead ==
    ASSUME NEW l, NEW s \in Seq(Said), s # <<>>, NEW g, Knows(l, s, g)
    PROVE  Knows(IF OwnJoin(Head(s)) THEN Head(s).lobby ELSE l, Tail(s), g)
<1>1. /\ Tail(s) \in Seq(Said) /\ Len(s) \in Nat \ {0} /\ Len(Tail(s)) = Len(s) - 1
      /\ Head(s) = s[1] /\ 1 \in DOMAIN s
    OBVIOUS
<1>2. ASSUME NEW i \in DOMAIN Tail(s) PROVE i + 1 \in DOMAIN s /\ Tail(s)[i] = s[i + 1]
    BY <1>1
<1>3. CASE \A i \in DOMAIN s : ~OwnJoin(s[i])
    <2>1. g = l
        BY <1>3 DEF Knows
    <2> QED
        BY <1>1, <1>2, <1>3, <2>1 DEF Knows
<1>4. CASE \E i \in DOMAIN s : OwnJoin(s[i])
    <2>1. PICK i \in DOMAIN s : /\ OwnJoin(s[i]) /\ g = s[i].lobby
                                /\ \A j \in DOMAIN s : j > i => ~OwnJoin(s[j])
        BY <1>4 DEF Knows
    <2>2. CASE i = 1
        <3>1. \A j \in DOMAIN Tail(s) : ~OwnJoin(Tail(s)[j])
            BY <1>1, <1>2, <2>1, <2>2
        <3> QED
            BY <1>1, <2>1, <2>2, <3>1 DEF Knows
    <2>3. CASE i # 1
        <3>1. i - 1 \in DOMAIN Tail(s) /\ Tail(s)[i - 1] = s[i]
            BY <1>1, <2>1, <2>3
        <3>2. \A j \in DOMAIN Tail(s) : j > i - 1 => ~OwnJoin(Tail(s)[j])
            BY <1>1, <1>2, <2>1
        <3> QED
            BY <2>1, <3>1, <3>2 DEF Knows
    <2> QED
        BY <2>2, <2>3
<1> QED
    BY <1>3, <1>4

\* Messages that are queued are pending after all that was.
LEMMA LaterMessages ==
    ASSUME NEW s \in Seq(Message), NEW t \in Seq(Message), NEW u \in Seq(Message)
    PROVE  (s \o t) \o u = s \o (t \o u)
BY ConcatAssociative

\* ViewFollows is kept.
LEMMA ViewStep ==
    ASSUME SysInv, Fresh, ViewFollows, [SysNext]_sysVars
    PROVE  ViewFollows'
<1> SUFFICES ASSUME NEW p \in Process, InTouch(p)'
             PROVE  Knows(lobby'[p], Pending(p)', group'[conn'[p]])
    BY DEF ViewFollows
<1>1. CASE Adopted(p)
    <2>1. Len(<<Welcome>>) = 1 /\ <<Welcome>>[1] = Welcome /\ DOMAIN <<Welcome>> = {1}
        OBVIOUS
    <2>2. /\ Pending(p)' = <<Welcome>> /\ lobby'[p] = NoLobby
          /\ group'[conn'[p]] = NoLobby
        BY <1>1 DEF Adopted
    <2>3. Knows(NoLobby, <<Welcome>>, NoLobby)
        BY <2>1, OwnJoinFacts DEF Knows
    <2> QED
        BY <2>2, <2>3
<1>2. CASE InTouch(p) /\ Reads(p)
    <2> DEFINE s == Pending(p)
    <2>1. Knows(lobby[p], s, group[conn[p]])
        BY <1>2 DEF ViewFollows
    <2>2. s \in Seq(Said) /\ s # <<>> /\ Show(p, Head(s)) /\ Pending(p)' = Tail(s) /\ UNCHANGED <<group, conn>>
        BY <1>2 DEF Reads, vars
    <2> HIDE DEF s
    <2>3. lobby'[p] = IF OwnJoin(Head(s)) THEN Head(s).lobby ELSE lobby[p]
        BY <2>2 DEF Show, SysInv, GameType
    <2>4. Knows(lobby'[p], Tail(s), group[conn[p]])
        BY <2>1, <2>2, <2>3, KnowsRead
    <2> QED
        BY <2>2, <2>4
<1>3. CASE InTouch(p) /\ Hears(p)
    <2> DEFINE c == conn[p]
    <2>1. PICK d \in Client : \E k \in DOMAIN up[d] : ReadChunk(d, k)
        BY <1>3 DEF Hears
    <2>2. OnMessage(d, up[d][1]) /\ up[d][1] \in Request
        BY <2>1, FirstRequest DEF ReadChunk, SysInv, NetType
    <2>3. c \in Client /\ conn'[p] = c /\ lobby'[p] = lobby[p] /\ down'[c] = down[c]
        BY <1>3, RegisteredClients DEF InTouch, SysInv, IInv, Hears, Unmoved
    <2>4. PICK t \in Seq(Message) :
            /\ queue'[c] = queue[c] \o t
            /\ \A l : \A h \in Seq(Message) : Knows(l, h, group[c]) => Knows(l, h \o t, group'[c])
        BY <2>2, <2>3, MessageKnows DEF SysInv, IInv
    <2>5. Knows(lobby[p], Pending(p), group[c])
        BY <1>3 DEF ViewFollows
    <2>6. down[c] \in Seq(Message) /\ queue[c] \in Seq(Message)
        BY <2>3, SaidTypes DEF SysInv, NetType
    <2>7. Pending(p) \in Seq(Message)
        BY <2>6 DEF Pending
    <2>8. Pending(p)' = down[c] \o (queue[c] \o t)
        BY <2>3, <2>4 DEF Pending
    <2>9. Pending(p) \o t = down[c] \o (queue[c] \o t)
        <3>1. (down[c] \o queue[c]) \o t = down[c] \o (queue[c] \o t)
            BY <2>6, LaterMessages
        <3> QED
            BY <3>1 DEF Pending
    <2>10. Knows(lobby[p], Pending(p) \o t, group'[c])
        BY <2>4, <2>5, <2>7
    <2> QED
        BY <2>3, <2>8, <2>9, <2>10
<1>4. CASE InTouch(p) /\ Keeps(p)
    <2>1. Pending(p)' = Pending(p) /\ lobby'[p] = lobby[p] /\ conn'[p] = conn[p]
        BY <1>4 DEF Keeps, Unmoved
    <2>2. group'[conn[p]] = group[conn[p]]
        BY <1>4, RegisteredClients DEF Keeps, OnConnect, OnDisconnect, SysInv, IInv, TypeOK, InTouch
    <2> QED
        BY <1>4, <2>1, <2>2 DEF ViewFollows
<1> QED
    BY <1>1, <1>2, <1>3, <1>4, TouchStep

----------------------------------------------------------------------------
(* What a process hears when the server takes a request of some connection d: out[conn[p]],
   after all that was pending. *)

Answered(d, r, out) ==
    /\ d \in Registered
    /\ UNCHANGED sessions
    /\ listed' = IF r.type = "LOBBY_LIST_REQUEST" THEN listed \cup {d} ELSE listed
    /\ founder' = IF group'[d] = group[d] THEN founder
                  ELSE IF r.type = "LOBBY_CREATE_REQUEST" THEN founder \cup {d} ELSE founder \ {d}
    /\ \/ r.type # "LOBBY_LIST_REQUEST" /\ Refused(d, out)
       \/ r.type = "LOBBY_LIST_REQUEST" /\ Listing(d, out)
       \/ \E l \in Lobby : \/ r.type = "LOBBY_CREATE_REQUEST" /\ Creating(d, l, out)
                           \/ r.type = "LOBBY_JOIN_REQUEST" /\ Joining(d, l, out)

LEMMA HeardStep ==
    ASSUME SysInv, NEW p \in Process, InTouch(p), Hears(p)
    PROVE  \E d \in Client, r \in MenuRequest, out \in [Client -> Seq(Message)] :
             Pending(p)' = Pending(p) \o out[conn[p]] /\ Answered(d, r, out)
<1>1. PICK d \in Client : \E k \in DOMAIN up[d] : ReadChunk(d, k)
    BY DEF Hears
<1> DEFINE r == up[d][1]
           c == conn[p]
<1>2. OnMessage(d, r) /\ r \in MenuRequest
    BY <1>1, FirstRequest DEF ReadChunk, SysInv, NetType
<1>3. PICK out \in [Client -> Seq(Message)] :
        /\ queue' = [e \in Client |-> queue[e] \o out[e]]
        /\ \/ r.type # "LOBBY_LIST_REQUEST" /\ Refused(d, out)
           \/ r.type = "LOBBY_LIST_REQUEST" /\ Listing(d, out)
           \/ \E l \in Lobby : \/ r.type = "LOBBY_CREATE_REQUEST" /\ Creating(d, l, out)
                               \/ r.type = "LOBBY_JOIN_REQUEST" /\ Joining(d, l, out)
    BY <1>2, MenuStep DEF SysInv
<1>4. Answered(d, r, out)
    BY <1>1, <1>2, <1>3 DEF Answered, ReadChunk, OnMessage
<1>5. c \in Client /\ conn'[p] = c /\ down'[c] = down[c]
    BY RegisteredClients DEF InTouch, SysInv, IInv, Hears, Unmoved
<1>6. down[c] \in Seq(Message) /\ queue[c] \in Seq(Message) /\ out[c] \in Seq(Message)
    BY <1>5, SaidTypes DEF SysInv, NetType
<1>7. Pending(p)' = down[c] \o (queue[c] \o out[c])
    BY <1>3, <1>5 DEF Pending
<1>8. Pending(p) \o out[c] = down[c] \o (queue[c] \o out[c])
    <2>1. (down[c] \o queue[c]) \o out[c] = down[c] \o (queue[c] \o out[c])
        BY <1>6, LaterMessages
    <2> QED
        BY <2>1 DEF Pending
<1> QED
    BY <1>2, <1>4, <1>7, <1>8

----------------------------------------------------------------------------
(* A founder misses nobody. *)

Arrives(m) == m.type = "LOBBY_JOIN_RESPONSE" /\ m.other

Arrivals(s) == {i \in DOMAIN s : Arrives(s[i])}

\* There are no departures to count.
LEMMA CountedArrivals ==
    ASSUME NEW s \in Seq(Said)
    PROVE  /\ Counted(s) = Cardinality(Arrivals(s))
           /\ IsFiniteSet(Arrivals(s)) /\ Cardinality(Arrivals(s)) \in Nat
<1> DEFINE Notices(arrived) == {i \in DOMAIN s : /\ s[i].type = "LOBBY_JOIN_RESPONSE"
                                                 /\ s[i].other
                                                 /\ (s[i].lobby # NoLobby) = arrived}
<1>1. \A i \in DOMAIN s : Arrives(s[i]) => s[i].lobby # NoLobby
    BY DEF Arrives, Said
<1>2. Notices(TRUE) = Arrivals(s)
    BY <1>1 DEF Arrivals, Arrives
<1>3. Notices(FALSE) = {}
    BY <1>1 DEF Arrivals, Arrives
<1>4. IsFiniteSet(Arrivals(s)) /\ Cardinality(Arrivals(s)) \in Nat
    <2>1. DOMAIN s = 1..Len(s) /\ Len(s) \in Nat
        OBVIOUS
    <2>2. IsFiniteSet(1..Len(s))
        BY <2>1, FS_Interval
    <2>3. Arrivals(s) \subseteq 1..Len(s)
        BY <2>1 DEF Arrivals
    <2> QED
        BY <2>2, <2>3, FS_Subset, FS_CardinalityType
<1>5. Counted(s) = Cardinality(Notices(TRUE)) - Cardinality(Notices(FALSE))
    BY DEF Counted
<1>6. Cardinality({}) = 0
    BY FS_EmptySet
<1> HIDE DEF Notices
<1>7. Counted(s) = Cardinality(Arrivals(s)) - 0
    BY <1>2, <1>3, <1>5, <1>6, Zenon
<1> QED
    BY <1>4, <1>7

\* What is heard last counts one more if it is of an arrival, and nothing is counted less.
LEMMA CountedMore ==
    ASSUME NEW s \in Seq(Said), NEW t \in Seq(Said)
    PROVE  /\ Counted(s \o t) >= Counted(s)
           /\ \A m \in Said : t = <<m>> /\ Arrives(m) => Counted(s \o t) = Counted(s) + 1
<1>1. s \o t \in Seq(Said) /\ (\A i \in DOMAIN s : i \in DOMAIN (s \o t) /\ (s \o t)[i] = s[i])
      /\ Len(s) \in Nat /\ DOMAIN s = 1..Len(s)
    OBVIOUS
<1>2. Arrivals(s) \subseteq Arrivals(s \o t)
    BY <1>1 DEF Arrivals
<1>3. Cardinality(Arrivals(s)) <= Cardinality(Arrivals(s \o t))
    BY <1>1, <1>2, CountedArrivals, FS_Subset
<1>4. ASSUME NEW m \in Said, t = <<m>>, Arrives(m) PROVE Counted(s \o t) = Counted(s) + 1
    <2>1. DOMAIN (s \o t) = DOMAIN s \cup {Len(s) + 1} /\ (s \o t)[Len(s) + 1] = m
        BY <1>4
    <2>2. Arrivals(s \o t) = Arrivals(s) \cup {Len(s) + 1} /\ Len(s) + 1 \notin Arrivals(s)
        BY <1>1, <1>4, <2>1 DEF Arrivals
    <2>3. Cardinality(Arrivals(s \o t)) = Cardinality(Arrivals(s)) + 1
        BY <2>2, CountedArrivals, FS_AddElement, Zenon
    <2> QED
        BY <1>1, <2>3, CountedArrivals
<1> QED
    BY <1>1, <1>3, <1>4, CountedArrivals

\* The first message is counted once, in the sum or on the screen.
LEMMA CountedRead ==
    ASSUME NEW s \in Seq(Said), s # <<>>
    PROVE  Counted(s) = Counted(Tail(s)) + (IF Arrives(Head(s)) THEN 1 ELSE 0)
<1>1. /\ Tail(s) \in Seq(Said) /\ Len(s) \in Nat \ {0} /\ Len(Tail(s)) = Len(s) - 1
      /\ Head(s) = s[1] /\ DOMAIN s = 1..Len(s) /\ DOMAIN Tail(s) = 1..(Len(s) - 1)
      /\ \A i \in DOMAIN Tail(s) : Tail(s)[i] = s[i + 1]
    OBVIOUS
<1> DEFINE A == Arrivals(Tail(s))
           B == Arrivals(s) \ {1}
           f == [i \in A |-> i + 1]
<1>2. A \subseteq Nat /\ (\A i \in A : i + 1 \in B) /\ (\A j \in B : j - 1 \in A /\ j - 1 + 1 = j)
    BY <1>1 DEF Arrivals
<1>3. f \in Bijection(A, B)
    BY <1>2 DEF Bijection, Injection, Surjection, IsInjective
<1>4. IsFiniteSet(A) /\ IsFiniteSet(Arrivals(s)) /\ IsFiniteSet(B)
    BY <1>1, CountedArrivals, FS_Subset
<1>5. Cardinality(B) = Cardinality(A)
    <2>1. ExistsBijection(A, B)
        BY <1>3, Zenon DEF ExistsBijection
    <2> HIDE DEF A, B
    <2> QED
        BY <1>4, <2>1, FS_Bijection, Zenon
<1>6. 1 \in Arrivals(s) <=> Arrives(Head(s))
    BY <1>1 DEF Arrivals
<1>7. Cardinality(Arrivals(s)) = Cardinality(B) + (IF Arrives(Head(s)) THEN 1 ELSE 0)
    <2>1. CASE Arrives(Head(s))
        <3>1. Arrivals(s) = B \cup {1} /\ 1 \notin B
            BY <1>6, <2>1
        <3>2. Cardinality(Arrivals(s)) = Cardinality(B) + 1
            BY <1>4, <3>1, FS_AddElement
        <3> QED
            BY <2>1, <3>2
    <2>2. CASE ~Arrives(Head(s))
        <3>1. Arrivals(s) = B
            BY <1>6, <2>2
        <3>2. Cardinality(B) \in Nat
            BY <1>4, FS_CardinalityType
        <3> HIDE DEF B
        <3> QED
            BY <2>2, <3>1, <3>2
    <2> QED
        BY <2>1, <2>2
<1> HIDE DEF A, B
<1> QED
    BY <1>1, <1>5, <1>7, CountedArrivals DEF A

\* The others in the lobby of connection c.
OthersOf(c) == {d \in Registered \ {c} : group[d] = group[c]}

LEMMA OthersFinite ==
    ASSUME TypeOK, NEW c
    PROVE  IsFiniteSet(OthersOf(c)) /\ Cardinality(OthersOf(c)) \in Nat
<1>1. OthersOf(c) \subseteq Client
    BY RegisteredClients DEF OthersOf
<1> QED
    BY <1>1, ServerAssumption, FS_Subset, FS_CardinalityType DEF ServerAssumption

\* A founder whose lobby nobody enters in the step still misses nobody.
LEMMA NobodyMissed ==
    ASSUME TypeOK, NEW c, NEW n \in Int, n >= Cardinality(OthersOf(c)), OthersOf(c)' \subseteq OthersOf(c)
    PROVE  n >= Cardinality(OthersOf(c)')
<1>1. IsFiniteSet(OthersOf(c)) /\ Cardinality(OthersOf(c)) \in Nat
    BY OthersFinite
<1>2. /\ Cardinality(OthersOf(c)') <= Cardinality(OthersOf(c))
      /\ Cardinality(OthersOf(c)') \in Nat
    <2> DEFINE A == OthersOf(c)
               B == OthersOf(c)'
    <2>1. B \subseteq A /\ IsFiniteSet(A)
        BY <1>1
    <2> HIDE DEF A, B
    <2>2. IsFiniteSet(B) /\ Cardinality(B) <= Cardinality(A) /\ Cardinality(B) \in Nat
        BY <2>1, FS_Subset, FS_CardinalityType
    <2> QED
        BY <2>2 DEF A, B
<1> QED
    BY <1>1, <1>2

\* FounderMissesNobody is kept: whoever enters the lobby is announced to the founder, and
\* nobody else adds to its members; a lobby that is created has no others yet.
LEMMA FounderStep ==
    ASSUME SysInv, Fresh, FoundersLobbies, FounderMissesNobody, [SysNext]_sysVars
    PROVE  FounderMissesNobody'
<1>0. /\ TypeOK /\ group \in [Client -> LobbyId] /\ Registered \subseteq Client
      /\ founder \subseteq Registered /\ others \in [Process -> Nat] /\ NoLobby \notin Lobby
    BY RegisteredClients, ServerAssumption
    DEF SysInv, IInv, TypeOK, NetType, GameType, ServerAssumption
<1> SUFFICES ASSUME NEW p \in Process, InTouch(p)', conn'[p] \in founder'
             PROVE  others'[p] + Counted(Pending(p)')
                      >= Cardinality({d \in Registered' \ {conn'[p]} : group'[d] = group'[conn'[p]]})
    BY DEF FounderMissesNobody
<1>a. PICK c \in Client : c = conn'[p]
    <2>1. SysInv'
        BY SysStep
    <2>2. (TypeOK => Registered \subseteq Client)'
        BY DEF TypeOK, Registered
    <2> QED
        BY <2>1, <2>2 DEF SysInv, IInv, InTouch
<1> SUFFICES others'[p] + Counted(Pending(p)') >= Cardinality(OthersOf(c)')
    BY <1>a DEF OthersOf
<1>b. conn[p] = c
    BY <1>a, TouchStep DEF Adopted, Reads, Hears, Keeps, Unmoved
<1>1. ASSUME InTouch(p), c \in founder
      PROVE  /\ others[p] + Counted(Pending(p)) >= Cardinality(OthersOf(c))
             /\ Counted(Pending(p)) \in Nat /\ Pending(p) \in Seq(Said)
    <2>1. Pending(p) \in Seq(Said) /\ c \in Client
        BY <1>0, <1>1, <1>b, PendingType DEF InTouch
    <2>2. Counted(Pending(p)) \in Nat
        BY <2>1, CountedArrivals
    <2> QED
        BY <1>1, <1>b, <2>1, <2>2 DEF FounderMissesNobody, OthersOf
<1>2. ~Adopted(p)
    BY <1>0, <1>a, <1>b DEF Adopted, asked
<1>3. CASE InTouch(p) /\ Reads(p)
    <2> DEFINE s == Pending(p)
    <2>1. s \in Seq(Said) /\ s # <<>> /\ Show(p, Head(s)) /\ Pending(p)' = Tail(s) /\ UNCHANGED <<vars, asked, conn>>
        BY <1>3 DEF Reads
    <2>2. OthersOf(c)' = OthersOf(c) /\ c \in founder
        BY <1>a, <2>1 DEF OthersOf, Registered, vars, asked
    <2>3. others[p] + Counted(s) >= Cardinality(OthersOf(c))
        BY <1>1, <1>3, <2>2
    <2>4. Counted(s) = Counted(Tail(s)) + (IF Arrives(Head(s)) THEN 1 ELSE 0)
        BY <2>1, CountedRead
    <2>5. others'[p] = others[p] + (IF Arrives(Head(s)) THEN 1 ELSE 0)
        <3>1. Head(s) \in Said
            BY <2>1
        <3> HIDE DEF s
        <3> QED
            BY <1>0, <2>1, <3>1 DEF Show, Arrives, Said
    <2> HIDE DEF s
    <2>6. Counted(Tail(s)) \in Nat
        <3>1. Tail(s) \in Seq(Said)
            BY <2>1
        <3> QED
            BY <3>1, CountedArrivals
    <2>7. others'[p] + Counted(Tail(s)) = others[p] + Counted(s)
        BY <1>0, <2>4, <2>5, <2>6
    <2> QED
        BY <1>a, <2>1, <2>2, <2>3, <2>7
<1>4. CASE InTouch(p) /\ Hears(p)
    <2>1. PICK d \in Client, r \in MenuRequest, out \in [Client -> Seq(Message)] :
            Pending(p)' = Pending(p) \o out[c] /\ Answered(d, r, out)
        BY <1>4, <1>b, HeardStep
    <2>2. /\ conn'[p] = c /\ c \in Client /\ c \in Registered /\ others'[p] = others[p]
          /\ Registered' = Registered
        BY <1>0, <1>4, <1>a, <1>b, <2>1 DEF Hears, Unmoved, InTouch, Answered, Registered
    <2>3. Pending(p) \in Seq(Said) /\ Pending(p)' \in Seq(Said)
        <3>1. SysInv'
            BY SysStep
        <3>2. (SysInv /\ conn[p] \in Client => Pending(p) \in Seq(Said))'
            BY DEF SysInv, NetType, Pending
        <3> QED
            BY <1>b, <2>2, <3>1, <3>2, PendingType
    <2>4. Counted(Pending(p)') \in Nat
        BY <2>3, CountedArrivals
    <2>5. out[c] \in Seq(Said) => Counted(Pending(p)') >= Counted(Pending(p))
        BY <2>1, <2>3, CountedMore
    <2>6. CASE group' = group /\ (Refused(d, out) \/ Listing(d, out))
        <3>1. c \in founder
            BY <1>a, <2>1, <2>2, <2>6 DEF Answered
        <3>2. OthersOf(c)' = OthersOf(c)
            BY <2>2, <2>6 DEF OthersOf
        <3>3. out[c] \in Seq(Said)
            BY <2>1, <2>2, <2>6, OutSaid DEF SysInv
        <3> QED
            BY <1>0, <1>1, <1>4, <2>2, <2>4, <2>5, <3>1, <3>2, <3>3, OthersFinite
    <2>7. ASSUME NEW l \in Lobby, Creating(d, l, out), r.type = "LOBBY_CREATE_REQUEST"
          PROVE  others'[p] + Counted(Pending(p)') >= Cardinality(OthersOf(c)')
        <3>1. group' = [group EXCEPT ![d] = l] /\ \A e \in Registered : group[e] # l
            BY <2>7 DEF Creating
        <3>2. CASE d = c
            <4>1. OthersOf(c)' = {}
                BY <1>0, <2>2, <3>1, <3>2 DEF OthersOf
            <4> QED
                BY <1>0, <2>2, <2>4, <4>1, FS_EmptySet
        <3>3. CASE d # c
            <4>1. c \in founder
                BY <1>a, <2>1, <2>2, <3>3 DEF Answered
            <4>2. OthersOf(c)' \subseteq OthersOf(c)
                BY <1>0, <2>2, <3>1, <3>3 DEF OthersOf
            <4>3. out[c] \in Seq(Said)
                BY <2>2, <2>7, OutSaid DEF SysInv
            <4>4. others[p] + Counted(Pending(p)') >= Cardinality(OthersOf(c))
                BY <1>0, <1>1, <1>4, <2>4, <2>5, <4>1, <4>3, OthersFinite
            <4> QED
                BY <1>0, <2>2, <2>4, <4>2, <4>4, NobodyMissed
        <3> QED
            BY <3>2, <3>3
    <2>8. ASSUME NEW l \in Lobby, Joining(d, l, out), r.type = "LOBBY_JOIN_REQUEST"
          PROVE  others'[p] + Counted(Pending(p)') >= Cardinality(OthersOf(c)')
        <3>1. group' = [group EXCEPT ![d] = l] /\ l # group[d]
            BY <2>8 DEF Joining
        <3>2. d # c /\ c \in founder
            BY <1>0, <1>a, <2>1, <2>2, <2>8, <3>1 DEF Answered
        <3>3. out[c] \in Seq(Said)
            BY <2>2, <2>8, OutSaid DEF SysInv
        <3>4. CASE l = group[c]
            <4> DEFINE m == JoinResponse(l, NoError, TRUE)
            <4>1. out[c] = <<m>> /\ m \in Said /\ Arrives(m)
                BY <2>2, <2>8, <3>2, <3>4, SaidTypes DEF Joining, Arrives, JoinResponse
            <4> HIDE DEF m
            <4>2. Counted(Pending(p)') = Counted(Pending(p)) + 1
                BY <2>1, <2>3, <3>3, <4>1, CountedMore
            <4>3. OthersOf(c)' = OthersOf(c) \cup {d} /\ d \in Registered
                BY <1>0, <2>1, <2>2, <3>1, <3>2, <3>4 DEF OthersOf, Answered
            <4>4. Cardinality(OthersOf(c)') <= Cardinality(OthersOf(c)) + 1
                  /\ Cardinality(OthersOf(c)') \in Nat
                <5>1. IsFiniteSet(OthersOf(c)) /\ Cardinality(OthersOf(c)) \in Nat
                    BY <1>0, OthersFinite
                <5>2. Cardinality(OthersOf(c) \cup {d})
                        = IF d \in OthersOf(c) THEN Cardinality(OthersOf(c)) ELSE Cardinality(OthersOf(c)) + 1
                    BY <5>1, FS_AddElement, Zenon
                <5> QED
                    BY <4>3, <5>1, <5>2
            <4> QED
                BY <1>0, <1>1, <1>4, <2>2, <3>2, <4>2, <4>4, OthersFinite
        <3>5. CASE l # group[c]
            <4>1. OthersOf(c)' \subseteq OthersOf(c)
                BY <1>0, <2>1, <2>2, <3>1, <3>2, <3>5 DEF OthersOf, Answered
            <4>2. others[p] + Counted(Pending(p)') >= Cardinality(OthersOf(c))
                BY <1>0, <1>1, <1>4, <2>4, <2>5, <3>2, <3>3, OthersFinite
            <4> QED
                BY <1>0, <2>2, <2>4, <4>1, <4>2, NobodyMissed
        <3> QED
            BY <3>4, <3>5
    <2> QED
        BY <1>a, <2>1, <2>2, <2>6, <2>7, <2>8 DEF Answered, Refused, Listing
<1>5. CASE InTouch(p) /\ Keeps(p)
    <2>1. Pending(p)' = Pending(p) /\ others'[p] = others[p] /\ conn'[p] = c /\ c \in founder /\ c \in Client
        BY <1>0, <1>5, <1>a, <1>b DEF Keeps, Unmoved, asked
    <2>2. OthersOf(c)' \subseteq OthersOf(c)
        <3>1. ASSUME NEW d \in Client \ {c}, NEW i \in Id, OnConnect(d, i) PROVE OthersOf(c)' \subseteq OthersOf(c)
            <4>1. Registered' = Registered \cup {d} /\ group' = [group EXCEPT ![d] = NoLobby]
                BY <1>0, <3>1, ConnectRegisters DEF OnConnect
            <4>2. group[c] # NoLobby
                BY <2>1 DEF FoundersLobbies
            <4> QED
                BY <1>0, <2>1, <4>1, <4>2 DEF OthersOf
        <3>2. ASSUME NEW d \in Client \ {c}, OnDisconnect(d) PROVE OthersOf(c)' \subseteq OthersOf(c)
            <4>1. Registered' = Registered \ {d} /\ group' = [group EXCEPT ![d] = NoLobby]
                BY <3>2, DisconnectRegisters DEF OnDisconnect, SysInv, IInv
            <4> QED
                BY <1>0, <2>1, <4>1 DEF OthersOf
        <3>3. ASSUME UNCHANGED <<sessions, group>> PROVE OthersOf(c)' \subseteq OthersOf(c)
            BY <3>3 DEF OthersOf, Registered
        <3> QED
            BY <1>5, <1>b, <3>1, <3>2, <3>3 DEF Keeps
    <2>3. others[p] + Counted(Pending(p)) \in Int
        BY <1>0, <1>1, <1>5, <2>1
    <2> QED
        BY <1>0, <1>1, <1>5, <1>a, <2>1, <2>2, <2>3, NobodyMissed
<1> QED
    BY <1>2, <1>3, <1>4, <1>5, TouchStep

----------------------------------------------------------------------------
(* A menu that asked for the lobbies once knows all there are, as long as a list looks at
   every session. *)

\* Messages that are no list take nothing from what is known.
LEMMA KnowsOfMore ==
    ASSUME NEW known, NEW l, NEW s \in Seq(Message), NEW t \in Seq(Message), KnowsOf(known, s, l),
           \A i \in DOMAIN t : t[i].type # "LOBBY_LIST_RESPONSE"
    PROVE  KnowsOf(known, s \o t, l)
<1>1. /\ \A i \in DOMAIN s : i \in DOMAIN (s \o t) /\ (s \o t)[i] = s[i]
      /\ \A i \in DOMAIN (s \o t) \ DOMAIN s : (s \o t)[i] = t[i - Len(s)] /\ i - Len(s) \in DOMAIN t
      /\ DOMAIN s = 1..Len(s) /\ Len(s) \in Nat /\ DOMAIN (s \o t) \subseteq Nat
    OBVIOUS
<1>2. \A i \in DOMAIN (s \o t) : (s \o t)[i].type = "LOBBY_LIST_RESPONSE" => i \in DOMAIN s
    BY <1>1
<1>3. CASE /\ l \in known
           /\ \A i \in DOMAIN s : s[i].type = "LOBBY_LIST_RESPONSE" => l \in s[i].lobbies
    BY <1>1, <1>2, <1>3 DEF KnowsOf
<1>4. ASSUME NEW i \in DOMAIN s,
             \/ s[i].type = "LOBBY_LIST_RESPONSE" /\ l \in s[i].lobbies
             \/ s[i].type = "LOBBY_CREATE_RESPONSE" /\ s[i].error = NoError /\ s[i].lobby = l,
             \A j \in DOMAIN s : j > i /\ s[j].type = "LOBBY_LIST_RESPONSE" => l \in s[j].lobbies
      PROVE  KnowsOf(known, s \o t, l)
    <2>1. \A j \in DOMAIN (s \o t) :
             j > i /\ (s \o t)[j].type = "LOBBY_LIST_RESPONSE" => l \in (s \o t)[j].lobbies
        BY <1>1, <1>2, <1>4
    <2> QED
        BY <1>1, <1>4, <2>1 DEF KnowsOf
<1> QED
    BY <1>3, <1>4 DEF KnowsOf

\* A list with the lobby in it, or its creation with no list after it, is enough.
LEMMA KnowsOfNew ==
    ASSUME NEW known, NEW l, NEW s \in Seq(Message), NEW t \in Seq(Message), NEW k \in DOMAIN t,
           \/ t[k].type = "LOBBY_LIST_RESPONSE" /\ l \in t[k].lobbies
           \/ t[k].type = "LOBBY_CREATE_RESPONSE" /\ t[k].error = NoError /\ t[k].lobby = l,
           \A j \in DOMAIN t : j > k => t[j].type # "LOBBY_LIST_RESPONSE"
    PROVE  KnowsOf(known, s \o t, l)
<1> DEFINE i == Len(s) + k
<1>1. /\ i \in DOMAIN (s \o t) /\ (s \o t)[i] = t[k]
      /\ \A j \in DOMAIN (s \o t) : j > i => /\ j - Len(s) \in DOMAIN t /\ j - Len(s) > k
                                             /\ (s \o t)[j] = t[j - Len(s)]
    OBVIOUS
<1>2. \A j \in DOMAIN (s \o t) : ~(j > i /\ (s \o t)[j].type = "LOBBY_LIST_RESPONSE")
    BY <1>1
<1> HIDE DEF i
<1> QED
    BY <1>1, <1>2 DEF KnowsOf

\* What is known once all is read does not change as the first message is shown.
LEMMA KnowsOfRead ==
    ASSUME NEW known, NEW then, NEW l, NEW s \in Seq(Said), s # <<>>, KnowsOf(known, s, l),
           then = CASE Head(s).type = "LOBBY_CREATE_RESPONSE" /\ Head(s).error = NoError
                         -> known \cup {Head(s).lobby}
                    [] Head(s).type = "LOBBY_LIST_RESPONSE" -> Head(s).lobbies
                    [] OTHER -> known
    PROVE  KnowsOf(then, Tail(s), l)
<1>1. /\ Tail(s) \in Seq(Said) /\ Len(s) \in Nat \ {0} /\ Len(Tail(s)) = Len(s) - 1
      /\ Head(s) = s[1] /\ 1 \in DOMAIN s
    OBVIOUS
<1>2. ASSUME NEW i \in DOMAIN Tail(s) PROVE i + 1 \in DOMAIN s /\ Tail(s)[i] = s[i + 1]
    BY <1>1
<1>3. CASE /\ l \in known
           /\ \A i \in DOMAIN s : s[i].type = "LOBBY_LIST_RESPONSE" => l \in s[i].lobbies
    <2>1. l \in then
        BY <1>1, <1>3
    <2>2. \A i \in DOMAIN Tail(s) : Tail(s)[i].type = "LOBBY_LIST_RESPONSE" => l \in Tail(s)[i].lobbies
        BY <1>2, <1>3
    <2> QED
        BY <2>1, <2>2 DEF KnowsOf
<1>4. ASSUME NEW i \in DOMAIN s,
             \/ s[i].type = "LOBBY_LIST_RESPONSE" /\ l \in s[i].lobbies
             \/ s[i].type = "LOBBY_CREATE_RESPONSE" /\ s[i].error = NoError /\ s[i].lobby = l,
             \A j \in DOMAIN s : j > i /\ s[j].type = "LOBBY_LIST_RESPONSE" => l \in s[j].lobbies
      PROVE  KnowsOf(then, Tail(s), l)
    <2>1. CASE i = 1
        <3>1. l \in then
            BY <1>1, <1>4, <2>1
        <3>2. \A j \in DOMAIN Tail(s) :
                 Tail(s)[j].type = "LOBBY_LIST_RESPONSE" => l \in Tail(s)[j].lobbies
            BY <1>1, <1>2, <1>4, <2>1
        <3> QED
            BY <3>1, <3>2 DEF KnowsOf
    <2>2. CASE i # 1
        <3>1. i - 1 \in DOMAIN Tail(s) /\ Tail(s)[i - 1] = s[i]
            BY <1>1, <2>2
        <3>2. \A j \in DOMAIN Tail(s) :
                 j > i - 1 /\ Tail(s)[j].type = "LOBBY_LIST_RESPONSE" => l \in Tail(s)[j].lobbies
            BY <1>1, <1>2, <1>4
        <3> QED
            BY <1>4, <3>1, <3>2 DEF KnowsOf
    <2> QED
        BY <2>1, <2>2
<1> QED
    BY <1>3, <1>4 DEF KnowsOf

\* As long as no session is beyond the first ListLimit, a list has every lobby.
LEMMA ListedAll ==
    ASSUME TypeOK, Len(sessions) <= ListLimit, NEW d \in Registered, group[d] # NoLobby
    PROVE  group[d] \in ListedLobbies
<1>1. \A i \in DOMAIN sessions : i <= ListLimit
    BY ServerAssumption DEF TypeOK, ServerAssumption
<1> QED
    BY <1>1 DEF ListedLobbies, Registered

\* ListStaysComplete is kept.
LEMMA ListStep ==
    ASSUME Len(sessions) <= ListLimit, SysInv, Fresh, ListStaysComplete, [SysNext]_sysVars
    PROVE  ListStaysComplete'
<1>0. /\ TypeOK /\ RegistryExact /\ group \in [Client -> LobbyId] /\ Registered \subseteq Client
      /\ listed \subseteq Registered /\ ids \in [Process -> SUBSET Lobby] /\ NoLobby \notin Lobby
    BY RegisteredClients, ServerAssumption
    DEF SysInv, IInv, TypeOK, NetType, GameType, ServerAssumption
<1> SUFFICES ASSUME NEW p \in Process, InTouch(p)', conn'[p] \in listed',
                    NEW e \in Registered', group'[e] # NoLobby
             PROVE  KnowsOf(ids'[p], Pending(p)', group'[e])
    BY DEF ListStaysComplete
<1>a. PICK c \in Client : c = conn'[p]
    <2>1. SysInv'
        BY SysStep
    <2>2. (TypeOK => Registered \subseteq Client)'
        BY DEF TypeOK, Registered
    <2> QED
        BY <2>1, <2>2 DEF SysInv, IInv, InTouch
<1>b. conn[p] = c
    BY <1>a, TouchStep DEF Adopted, Reads, Hears, Keeps, Unmoved
<1>1. ASSUME InTouch(p), c \in listed, NEW d \in Registered, group[d] # NoLobby
      PROVE  KnowsOf(ids[p], Pending(p), group[d])
    BY <1>1, <1>b DEF ListStaysComplete
<1>2. ~Adopted(p)
    BY <1>0, <1>a, <1>b DEF Adopted, asked
<1>3. CASE InTouch(p) /\ Reads(p)
    <2> DEFINE s == Pending(p)
               m == Head(s)
    <2>1. s \in Seq(Said) /\ s # <<>> /\ Show(p, m) /\ Pending(p)' = Tail(s)
        BY <1>3 DEF Reads
    <2>2. Registered' = Registered /\ group' = group /\ c \in listed
        BY <1>3, <1>a DEF Reads, Registered, vars, asked
    <2>3. KnowsOf(ids[p], s, group[e])
        BY <1>1, <1>3, <2>2
    <2>4. ids'[p] = CASE m.type = "LOBBY_CREATE_RESPONSE" /\ m.error = NoError -> ids[p] \cup {m.lobby}
                      [] m.type = "LOBBY_LIST_RESPONSE" -> m.lobbies
                      [] OTHER -> ids[p]
        <3> HIDE DEF m
        <3>1. CASE m.type = "LOBBY_CREATE_RESPONSE" /\ m.error = NoError
            <4>1. ids' = [ids EXCEPT ![p] = @ \cup {m.lobby}]
                BY <2>1, <3>1 DEF Show
            <4> QED
                BY <1>0, <3>1, <4>1
        <3>2. CASE m.type = "LOBBY_LIST_RESPONSE"
            <4>1. ids' = [ids EXCEPT ![p] = m.lobbies]
                BY <2>1, <3>2 DEF Show
            <4> QED
                BY <1>0, <3>2, <4>1
        <3>3. CASE ~(m.type = "LOBBY_CREATE_RESPONSE" /\ m.error = NoError) /\ m.type # "LOBBY_LIST_RESPONSE"
            BY <2>1, <3>3 DEF Show
        <3> QED
            BY <3>1, <3>2, <3>3
    <2> HIDE DEF s
    <2>5. KnowsOf(ids'[p], Tail(s), group[e])
        BY <2>1, <2>3, <2>4, KnowsOfRead
    <2> QED
        BY <2>1, <2>2, <2>5
<1>4. CASE InTouch(p) /\ Hears(p)
    <2>1. PICK d \in Client, r \in MenuRequest, out \in [Client -> Seq(Message)] :
            Pending(p)' = Pending(p) \o out[c] /\ Answered(d, r, out)
        BY <1>4, <1>b, HeardStep
    <2>2. /\ ids'[p] = ids[p] /\ c \in Registered /\ d \in Registered /\ Registered' = Registered
        BY <1>4, <1>b, <2>1 DEF Hears, Unmoved, InTouch, Answered, Registered
    <2>3. Pending(p) \in Seq(Message) /\ out[c] \in Seq(Message)
        BY <1>b, SaidTypes, PendingType
    <2>4. ASSUME r.type # "LOBBY_LIST_REQUEST", \A i \in DOMAIN out[c] : out[c][i].type # "LOBBY_LIST_RESPONSE",
                 NEW f \in Registered, group[f] # NoLobby
          PROVE  KnowsOf(ids'[p], Pending(p)', group[f])
        <3>1. c \in listed
            BY <1>a, <2>1, <2>4 DEF Answered
        <3>2. KnowsOf(ids[p], Pending(p), group[f])
            BY <1>1, <1>4, <2>4, <3>1
        <3> QED
            BY <2>1, <2>2, <2>3, <2>4, <3>2, KnowsOfMore
    <2>5. CASE r.type # "LOBBY_LIST_REQUEST" /\ Refused(d, out)
        <3>1. \A i \in DOMAIN out[c] : out[c][i].type # "LOBBY_LIST_RESPONSE"
            BY <2>5 DEF Refused
        <3> QED
            BY <2>2, <2>4, <2>5, <3>1 DEF Refused
    <2>6. CASE r.type = "LOBBY_LIST_REQUEST" /\ Listing(d, out)
        <3>1. group' = group
            BY <2>6 DEF Listing
        <3>2. CASE c = d
            <4> DEFINE t == out[c]
            <4>1. t = <<ListResponse(ListedLobbies)>>
                BY <2>6, <3>2 DEF Listing
            <4>2. DOMAIN t = {1} /\ t[1].type = "LOBBY_LIST_RESPONSE" /\ t[1].lobbies = ListedLobbies
                BY <4>1 DEF ListResponse
            <4>3. group[e] \in ListedLobbies
                BY <1>0, <2>2, <3>1, ListedAll
            <4> HIDE DEF t
            <4>4. KnowsOf(ids[p], Pending(p) \o t, group[e])
                <5>1. 1 \in DOMAIN t /\ \A j \in DOMAIN t : ~(j > 1)
                    BY <4>2
                <5> QED
                    BY <2>3, <4>2, <4>3, <5>1, KnowsOfNew DEF t
            <4> QED
                BY <2>1, <2>2, <3>1, <4>4 DEF t
        <3>3. CASE c # d
            <4>1. out[c] = <<>> /\ c \in listed
                BY <1>a, <2>1, <2>6, <3>3 DEF Listing, Answered
            <4>2. KnowsOf(ids[p], Pending(p), group[e])
                BY <1>1, <1>4, <2>2, <3>1, <4>1
            <4> QED
                BY <2>1, <2>2, <2>3, <3>1, <4>1, <4>2, KnowsOfMore
        <3> QED
            BY <3>2, <3>3
    <2>7. ASSUME NEW l \in Lobby, r.type = "LOBBY_CREATE_REQUEST", Creating(d, l, out)
          PROVE  KnowsOf(ids'[p], Pending(p)', group'[e])
        <3> DEFINE t == out[c]
        <3>1. 1 \in DOMAIN t /\ t[1] = CreateResponse(l, NoError)
            BY <2>2, <2>7 DEF Creating
        <3>2. \A i \in DOMAIN t : t[i].type # "LOBBY_LIST_RESPONSE"
            BY <2>2, <2>7 DEF Creating, CreateResponse, JoinResponse
        <3>3. group' = [group EXCEPT ![d] = l]
            BY <2>7 DEF Creating
        <3>4. CASE e = d
            <4>1. group'[e] = l /\ t[1].type = "LOBBY_CREATE_RESPONSE" /\ t[1].error = NoError /\ t[1].lobby = l
                BY <1>0, <3>1, <3>3, <3>4 DEF CreateResponse
            <4>2. KnowsOf(ids[p], Pending(p) \o t, l)
                <5> HIDE DEF t
                <5> QED
                    BY <2>3, <3>1, <3>2, <4>1, KnowsOfNew DEF t
            <4> QED
                BY <2>1, <2>2, <4>1, <4>2
        <3>5. CASE e # d
            <4>1. group'[e] = group[e]
                BY <1>0, <2>2, <3>3, <3>5
            <4> QED
                BY <2>2, <2>4, <2>7, <3>2, <4>1
        <3> QED
            BY <3>4, <3>5
    <2>8. ASSUME NEW l \in Lobby, r.type = "LOBBY_JOIN_REQUEST", Joining(d, l, out)
          PROVE  KnowsOf(ids'[p], Pending(p)', group'[e])
        <3>1. \A i \in DOMAIN out[c] : out[c][i].type # "LOBBY_LIST_RESPONSE"
            BY <2>2, <2>8, SMTT(30) DEF Joining, JoinResponse
        <3>2. PICK f \in Registered : group'[e] = group[f]
            BY <1>0, <2>2, <2>8 DEF Joining
        <3> QED
            BY <2>4, <2>8, <3>1, <3>2
    <2> QED
        BY <2>1, <2>5, <2>6, <2>7, <2>8 DEF Answered
<1>5. CASE InTouch(p) /\ Keeps(p)
    <2>1. Pending(p)' = Pending(p) /\ ids'[p] = ids[p] /\ c \in listed
        BY <1>0, <1>5, <1>a DEF Keeps, Unmoved, asked
    <2>2. e \in Registered /\ group'[e] = group[e]
        <3>1. ASSUME NEW d \in Client, NEW i \in Id, OnConnect(d, i) PROVE e \in Registered /\ group'[e] = group[e]
            <4>1. Registered' = Registered \cup {d} /\ group' = [group EXCEPT ![d] = NoLobby]
                BY <1>0, <3>1, ConnectRegisters DEF OnConnect
            <4> QED
                BY <1>0, <4>1
        <3>2. ASSUME NEW d \in Client, OnDisconnect(d) PROVE e \in Registered /\ group'[e] = group[e]
            <4>1. Registered' = Registered \ {d} /\ group' = [group EXCEPT ![d] = NoLobby]
                BY <1>0, <3>2, DisconnectRegisters DEF OnDisconnect
            <4> QED
                BY <1>0, <4>1
        <3>3. ASSUME UNCHANGED <<sessions, group>> PROVE e \in Registered /\ group'[e] = group[e]
            BY <3>3 DEF Registered
        <3> QED
            BY <1>5, <3>1, <3>2, <3>3 DEF Keeps
    <2> QED
        BY <1>1, <1>5, <2>1, <2>2
<1> QED
    BY <1>2, <1>3, <1>4, <1>5, TouchStep

----------------------------------------------------------------------------
(* The theorems. *)

\* The parts that follow one process need these two beside SysInv.
LEMMA FreshAlways == SysSpec => [](Fresh /\ FoundersLobbies)
<1>1. SysInit => Fresh /\ FoundersLobbies
    BY SystemAssumption DEF SysInit, Fresh, FoundersLobbies
<1> QED
    BY <1>1, FreshStep, FoundersStep, SystemInvariant, PTL DEF SysSpec

\* A menu that was connected all along ends, once it has read everything on the way, with
\* the lobby the server has its session in: over both queues, through every interleaving of
\* requests, joins and writes, no change is lost, invented or overtaken by another.
THEOREM ViewsFollow == SysSpec => []ViewFollows
<1>1. SysInit => ViewFollows
    BY SystemAssumption DEF SysInit, ViewFollows, InTouch, Init, Registered
<1> QED
    BY <1>1, ViewStep, FreshAlways, SystemInvariant, PTL DEF SysSpec

\* Whoever created the lobby it is in counts at least everybody else in it.
THEOREM FoundersMissNobody == SysSpec => []FounderMissesNobody
<1>1. SysInit => FounderMissesNobody
    BY DEF SysInit, FounderMissesNobody
<1> QED
    BY <1>1, FounderStep, FreshAlways, SystemInvariant, PTL DEF SysSpec

\* While no more sessions are registered than a list looks at, a menu that asked for the
\* lobbies once knows all there are from then on: the broadcasts keep its list complete.
THEOREM ListsStayComplete == SysSpec /\ [](Len(sessions) <= ListLimit) => []ListStaysComplete
<1>1. SysInit => ListStaysComplete
    BY DEF SysInit, ListStaysComplete
<1> QED
    BY <1>1, ListStep, FreshAlways, SystemInvariant, PTL DEF SysSpec
=============================================================================
