----------------------------- MODULE LobbyServer -----------------------------
(***************************************************************************)
(* The lobby server: the session registry and outgoing message queues of   *)
(* server/gameserver.c, the dispatcher services/services.c, and the three  *)
(* operations of services/group_service.c.                                 *)
(*                                                                         *)
(* All of it runs on the thread inside lws_service(): libwebsockets calls  *)
(* a protocol callback for one event of one connection at a time, so every *)
(* handler is one atomic action here. What the events are and when they    *)
(* come is up to the network and the clients, and is left open: any        *)
(* connection may open, close, or send any request at any time.            *)
(*                                                                         *)
(* A connection (`struct lws *wsi` with the `struct session` that          *)
(* libwebsockets allocates for it) is a member of Client. The session's    *)
(* fields are the functions id, group and queue. libwebsockets frees the   *)
(* session when its connection has closed; the fields of a freed session   *)
(* read NoId, NoLobby and the empty queue.                                 *)
(***************************************************************************)
EXTENDS Naturals, Sequences, FiniteSets

CONSTANTS Client,      \* the connections
          Lobby,       \* the lobby numbers > 0
          NoLobby,     \* the lobby number 0
          Id,          \* the session ids rand() can produce
          NoId,        \* the id of a freed session
          ListLimit,   \* how many sessions a lobby list looks at (8 in the code)
          MaxQueued    \* bound: no event is taken while more messages are queued

ASSUME ServerAssumption == /\ NoLobby \notin Lobby
                           /\ NoId \notin Id
                           /\ ListLimit \in Nat
                           /\ MaxQueued \in Nat
                           /\ IsFiniteSet(Client)

VARIABLES running,     \* the server process is alive
          sessions,    \* server->sessions, the registry, in order of arrival
          id,          \* session->id
          group,       \* session->group_id
          queue,       \* session->message_queue
          writable,    \* connections with a writable callback requested
          told         \* history: the lobby each client knows to be in, from what
                       \* was written to it (menu.c keeps it in id_of_current_lobby)

vars == <<running, sessions, id, group, queue, writable, told>>

----------------------------------------------------------------------------
(* Messages. A type, and the fields net/message.h gives it. *)

LobbyId == Lobby \cup {NoLobby}
NoError == "NO_ERROR"
Error   == {"ALREADY_IN_A_LOBBY", "LOBBY_ALREADY_EXISTS", "LOBBY_DOES_NOT_EXIST"}

Request == [type : {"LOBBY_CREATE_REQUEST", "LOBBY_JOIN_REQUEST"}, lobby : LobbyId]
             \cup [type : {"LOBBY_LIST_REQUEST"}]

Message == [type : {"WELCOME_RESPONSE"}]
    \cup [type : {"LOBBY_CREATE_RESPONSE"}, lobby : LobbyId, error : Error \cup {NoError}]
    \cup [type : {"LOBBY_JOIN_RESPONSE"}, lobby : LobbyId, error : Error \cup {NoError},
          other : BOOLEAN]
    \cup [type : {"LOBBY_LIST_RESPONSE"}, lobbies : SUBSET Lobby]

Welcome == [type |-> "WELCOME_RESPONSE"]
CreateResponse(l, e) == [type |-> "LOBBY_CREATE_RESPONSE", lobby |-> l, error |-> e]
JoinResponse(l, e, o) ==
    [type |-> "LOBBY_JOIN_RESPONSE", lobby |-> l, error |-> e, other |-> o]
ListResponse(ls) == [type |-> "LOBBY_LIST_RESPONSE", lobbies |-> ls]

----------------------------------------------------------------------------
(* The registry, and what the handlers ask of it. *)

Registered == {sessions[i] : i \in DOMAIN sessions}

\* A session of the registry is in lobby l.
Exists(l) == \E i \in DOMAIN sessions : group[sessions[i]] = l

\* The recipients of gameserver_send_filtered() under filter_group_exclude and
\* filter_everybody_exclude. Sessions are compared by id, and `g` is group_id
\* as it stands when the message is sent.
GroupExclude(c, g)  == {d \in Registered : id[d] # id[c] /\ g[d] = g[c]}
EverybodyExclude(c) == {d \in Registered : id[d] # id[c]}

\* Mutant of Send: nobody asks for the writable callback.
SendQuietly(out) ==
    /\ queue' = [d \in Client |-> queue[d] \o out[d]]
    /\ UNCHANGED writable

\* gameserver_send_to() and gameserver_send_filtered(): append to the message
\* queues and ask for a writable callback. out[d] is what is appended for d.
Send(out) ==
    /\ queue' = [d \in Client |-> queue[d] \o out[d]]
    /\ writable' = writable \cup {d \in Client : out[d] # <<>>}

\* `own` for the requester c, `notice` for each of `others`.
Answer(c, own, others, notice) ==
    [d \in Client |-> IF d = c THEN own ELSE IF d \in others THEN notice ELSE <<>>]

\* The number of messages that wait in the queues.
Queued == Cardinality(UNION {{d} \X DOMAIN queue[d] : d \in Client})

\* The process serves its callbacks; MaxQueued bounds the state space.
Serving == running /\ Queued <= MaxQueued

----------------------------------------------------------------------------
Init == /\ running = TRUE
        /\ sessions = <<>>
        /\ id = [c \in Client |-> NoId]
        /\ group = [c \in Client |-> NoLobby]
        /\ queue = [c \in Client |-> <<>>]
        /\ writable = {}
        /\ told = [c \in Client |-> NoLobby]

\* An assertion fails and abort() ends the process: nothing it held survives.
Abort == /\ running' = FALSE
         /\ sessions' = <<>>
         /\ id' = [c \in Client |-> NoId]
         /\ group' = [c \in Client |-> NoLobby]
         /\ queue' = [c \in Client |-> <<>>]
         /\ writable' = {}
         /\ told' = [c \in Client |-> NoLobby]

\* The id drawn for a new connection is some registered session's already.
Collides(i) == \E d \in Registered : id[d] = i

\* Mutant of OnConnect: the id is used without a look at the others.
OnConnectUnchecked(c, i) ==
    /\ Serving
    /\ c \notin Registered
    /\ id' = [id EXCEPT ![c] = i]
    /\ group' = [group EXCEPT ![c] = NoLobby]
    /\ sessions' = Append(sessions, c)
    /\ queue' = [queue EXCEPT ![c] = <<Welcome>>]
    /\ writable' = writable \cup {c}
    /\ told' = [told EXCEPT ![c] = NoLobby]
    /\ UNCHANGED running

\* gameserver_on_connect() and server_on_connect(): clear the session, draw its
\* id, register it and queue a welcome message.
OnConnect(c, i) ==
    /\ Serving
    /\ c \notin Registered
    /\ ~Collides(i)
    /\ id' = [id EXCEPT ![c] = i]
    /\ group' = [group EXCEPT ![c] = NoLobby]
    /\ sessions' = Append(sessions, c)
    /\ queue' = [queue EXCEPT ![c] = <<Welcome>>]
    /\ writable' = writable \cup {c}
    /\ told' = [told EXCEPT ![c] = NoLobby]
    /\ UNCHANGED running

\* gameserver_on_connect() with an id that is taken: its assertion fails.
OnConnectCollision(c, i) ==
    /\ Serving
    /\ c \notin Registered
    /\ Collides(i)
    /\ Abort

\* The first position of the registry that holds id i.
FirstWithId(i) == CHOOSE n \in DOMAIN sessions :
                     /\ id[sessions[n]] = i
                     /\ \A m \in DOMAIN sessions : id[sessions[m]] = i => n <= m

\* stbds_arrdel(): close the gap at position n.
DeleteAt(s, n) == [m \in 1..(Len(s) - 1) |-> IF m < n THEN s[m] ELSE s[m + 1]]

\* gameserver_on_disconnect() drops the queue and removes the session with this
\* id from the registry; nobody is told. libwebsockets then frees the session.
OnDisconnect(c) ==
    /\ running
    /\ c \in Registered
    /\ sessions' = DeleteAt(sessions, FirstWithId(id[c]))
    /\ id' = [id EXCEPT ![c] = NoId]
    /\ group' = [group EXCEPT ![c] = NoLobby]
    /\ queue' = [queue EXCEPT ![c] = <<>>]
    /\ writable' = writable \ {c}
    /\ told' = [told EXCEPT ![c] = NoLobby]
    /\ UNCHANGED running

----------------------------------------------------------------------------
(* group_service_create_lobby(). A lobby id below 0 fails an assertion there;   *)
(* LobbyId has none, because the menu never sends one.                         *)

CreateRefused(c, l) ==
    /\ group[c] # NoLobby \/ Exists(l)
    /\ LET e == IF group[c] # NoLobby
                THEN "ALREADY_IN_A_LOBBY" ELSE "LOBBY_ALREADY_EXISTS"
       IN  Send(Answer(c, <<CreateResponse(l, e)>>, {}, <<>>))
    /\ UNCHANGED group

\* Mutant of CreateGranted: the join response that goes with it is left out.
CreateGrantedUntold(c, l) ==
    /\ group[c] = NoLobby
    /\ ~Exists(l)
    /\ group' = [group EXCEPT ![c] = l]
    /\ Send(Answer(c, <<CreateResponse(l, NoError)>>,
                   EverybodyExclude(c), <<CreateResponse(l, NoError)>>))

\* Mutant of CreateGranted: the others are addressed with the wrong filter.
CreateGrantedToGroup(c, l) ==
    /\ group[c] = NoLobby
    /\ ~Exists(l)
    /\ group' = [group EXCEPT ![c] = l]
    /\ Send(Answer(c, <<CreateResponse(l, NoError), JoinResponse(l, NoError, FALSE)>>,
                   GroupExclude(c, group'), <<CreateResponse(l, NoError)>>))

CreateGranted(c, l) ==
    /\ group[c] = NoLobby
    /\ ~Exists(l)
    /\ group' = [group EXCEPT ![c] = l]
    /\ Send(Answer(c, <<CreateResponse(l, NoError), JoinResponse(l, NoError, FALSE)>>,
                   EverybodyExclude(c), <<CreateResponse(l, NoError)>>))

(* group_service_join_lobby(); joining lobby 0 is how a client leaves. *)

JoinRefused(c, l) ==
    /\ \/ l # NoLobby /\ ~Exists(l)
       \/ l = group[c]
    /\ LET e == IF l # NoLobby /\ ~Exists(l)
                THEN "LOBBY_DOES_NOT_EXIST" ELSE "ALREADY_IN_A_LOBBY"
       IN  Send(Answer(c, <<JoinResponse(l, e, FALSE)>>, {}, <<>>))
    /\ UNCHANGED group

\* Mutant of JoinGranted: nobody looks whether the lobby exists.
JoinGrantedUnchecked(c, l) ==
    /\ l # NoLobby
    /\ l # group[c]
    /\ group' = [group EXCEPT ![c] = l]
    /\ Send(Answer(c, <<JoinResponse(l, NoError, FALSE)>>,
                   GroupExclude(c, group'), <<JoinResponse(l, NoError, TRUE)>>))

\* Mutant of JoinGranted: group_id is set after the notice.
JoinGrantedLate(c, l) ==
    /\ l # NoLobby
    /\ Exists(l)
    /\ l # group[c]
    /\ Send(Answer(c, <<JoinResponse(l, NoError, FALSE)>>,
                   GroupExclude(c, group), <<JoinResponse(l, NoError, TRUE)>>))
    /\ group' = [group EXCEPT ![c] = l]

\* The members of the lobby that is entered hear of it; those of the lobby that
\* the client may come out of do not.
JoinGranted(c, l) ==
    /\ l # NoLobby
    /\ Exists(l)
    /\ l # group[c]
    /\ group' = [group EXCEPT ![c] = l]
    /\ Send(Answer(c, <<JoinResponse(l, NoError, FALSE)>>,
                   GroupExclude(c, group'), <<JoinResponse(l, NoError, TRUE)>>))

\* Mutant of LeaveGranted: group_id is cleared before the notice.
LeaveGrantedEarly(c) ==
    /\ group[c] # NoLobby
    /\ group' = [group EXCEPT ![c] = NoLobby]
    /\ Send(Answer(c, <<JoinResponse(NoLobby, NoError, FALSE)>>,
                   GroupExclude(c, group'), <<JoinResponse(NoLobby, NoError, TRUE)>>))

\* The notice goes to the lobby that is left, and group_id is cleared after it.
LeaveGranted(c) ==
    /\ group[c] # NoLobby
    /\ Send(Answer(c, <<JoinResponse(NoLobby, NoError, FALSE)>>,
                   GroupExclude(c, group), <<JoinResponse(NoLobby, NoError, TRUE)>>))
    /\ group' = [group EXCEPT ![c] = NoLobby]

(* group_service_list_lobbies() looks at the first ListLimit sessions only. *)

\* Mutant of ListedLobbies: the sessions without a lobby are not passed over.
ListedGroups == {group[sessions[i]] : i \in {j \in DOMAIN sessions : j <= ListLimit}}

ListedLobbies ==
    {group[sessions[i]] : i \in {j \in DOMAIN sessions : j <= ListLimit}} \ {NoLobby}

List(c) == /\ Send(Answer(c, <<ListResponse(ListedLobbies)>>, {}, <<>>))
           /\ UNCHANGED group

\* services_dispatcher()
Dispatch(c, r) ==
    \/ /\ r.type = "LOBBY_CREATE_REQUEST"
       /\ CreateRefused(c, r.lobby) \/ CreateGranted(c, r.lobby)
    \/ /\ r.type = "LOBBY_JOIN_REQUEST"
       /\ \/ JoinRefused(c, r.lobby)
          \/ JoinGranted(c, r.lobby)
          \/ r.lobby = NoLobby /\ LeaveGranted(c)
    \/ /\ r.type = "LOBBY_LIST_REQUEST"
       /\ List(c)

\* gameserver_on_message() with data that starts with a whole request.
OnMessage(c, r) ==
    /\ Serving
    /\ c \in Registered
    /\ Dispatch(c, r)
    /\ UNCHANGED <<running, sessions, id, told>>

\* gameserver_on_message() with the tail of a request that TCP cut in two: a
\* tail that parses as a bare JSON value has no header, and an assertion fails.
\* (One that does not parse is ignored, which changes nothing.)
OnMessageTail(c) ==
    /\ Serving
    /\ c \in Registered
    /\ Abort

\* The client's rule (menu.c, on_message): a successful join response that is
\* not about another user names the lobby it is in.
OwnJoin(m) == m.type = "LOBBY_JOIN_RESPONSE" /\ m.error = NoError /\ ~m.other

\* A client that took itself to be in l, and reads the messages s, then takes
\* itself to be in g: the lobby of the last own join response, or l without one.
Knows(l, s, g) ==
    \/ g = l /\ \A i \in DOMAIN s : ~OwnJoin(s[i])
    \/ \E i \in DOMAIN s : /\ OwnJoin(s[i])
                          /\ g = s[i].lobby
                          /\ \A j \in DOMAIN s : j > i => ~OwnJoin(s[j])

KnownAfter(l, s) == CHOOSE g \in LobbyId : Knows(l, s, g)

\* gameserver_on_writable(): write the whole queue, in order, and empty it.
OnWritable(c) ==
    /\ running
    /\ c \in writable
    /\ queue' = [queue EXCEPT ![c] = <<>>]
    /\ writable' = writable \ {c}
    /\ told' = [told EXCEPT ![c] = KnownAfter(@, queue[c])]
    /\ UNCHANGED <<running, sessions, id, group>>

\* The operator starts the program again, which starts from nothing.
Restart == ~running /\ running' = TRUE
           /\ UNCHANGED <<sessions, id, group, queue, writable, told>>

Next == \/ \E c \in Client, i \in Id : OnConnect(c, i) \/ OnConnectCollision(c, i)
        \/ \E c \in Client, r \in Request : OnMessage(c, r)
        \/ \E c \in Client : OnDisconnect(c) \/ OnMessageTail(c) \/ OnWritable(c)
        \/ Restart

Spec == Init /\ [][Next]_vars

----------------------------------------------------------------------------
(* Properties. *)

TypeOK ==
    /\ running \in BOOLEAN
    /\ sessions \in Seq(Client)
    /\ id \in [Client -> Id \cup {NoId}]
    /\ group \in [Client -> LobbyId]
    /\ queue \in [Client -> Seq(Message)]
    /\ writable \in SUBSET Client
    /\ told \in [Client -> LobbyId]

\* The registry holds exactly the live sessions, each once, under ids that differ:
\* on_disconnect searches by id and the filters compare ids, so one shared id
\* would remove the wrong session or leave the requester out of a broadcast.
\* A session that is not in it has no lobby, no queue and no pending callback.
RegistryExact ==
    /\ \A m, n \in DOMAIN sessions : id[sessions[m]] = id[sessions[n]] => m = n
    /\ \A c \in Client : c \in Registered <=> id[c] # NoId
    /\ \A c \in Client \ Registered :
          group[c] = NoLobby /\ queue[c] = <<>> /\ c \notin writable /\ told[c] = NoLobby

\* A client that reads every message written or queued for it, in order, and
\* applies the menu's rule, ends in the lobby the server has it in: no change of
\* group_id goes unannounced to its own client, none is announced that was not
\* made, and the queue keeps the announcements in order.
MembershipTold ==
    \A c \in Registered : Knows(told[c], queue[c], group[c])

\* A session with queued messages has a writable callback coming.
NothingStranded == \A c \in Client : queue[c] # <<>> => c \in writable

\* The notices that a step adds to d's queue: join responses about another user.
NewNotices(d) ==
    {i \in DOMAIN queue'[d] : /\ i > Len(queue[d])
                             /\ queue'[d][i].type = "LOBBY_JOIN_RESPONSE"
                             /\ queue'[d][i].other}

\* When a request moves c into or out of a lobby, the other members of that lobby
\* are told, and nobody else is: a leave notice goes to the group as it was, a
\* join notice to the group as it will be. A client alone in a lobby that it
\* opens tells nobody.
NoticesReachTheGroup ==
    [][\A c \in Registered :
         (group'[c] # group[c] /\ c \in Registered' /\ running') =>
           LET l == IF group'[c] = NoLobby THEN group[c] ELSE group'[c]
           IN  \A d \in Registered \ {c} : NewNotices(d) # {} <=> group[d] = l]_vars

\* The lobby service is an implementation of the abstract lobbies.
LobbyService == INSTANCE Lobbies WITH member <- group,
                                      open <- {group[c] : c \in Client} \ {NoLobby}
ImplementsLobbies == LobbyService!Spec

\* What the comment on group_service_list_lobbies() says: the list is one of all
\* lobbies.
ListIsComplete == ListedLobbies = {group[c] : c \in Registered} \ {NoLobby}
=============================================================================
