--------------------------- MODULE LobbyServer_proofs ---------------------------
(***************************************************************************)
(* Proofs about LobbyServer, for any number of connections, lobbies and    *)
(* ids, any ListLimit and any MaxQueued.                                   *)
(*                                                                         *)
(* None of the invariants is inductive alone. That `told` keeps its type   *)
(* needs MembershipTold (a client has read enough to know some lobby),     *)
(* MembershipTold needs NothingStranded and RegistryExact (only registered *)
(* sessions are written to), and RegistryExact is what makes a search by   *)
(* id find the right session. Their conjunction IInv is inductive, one     *)
(* lemma per handler; MessageStep says what any request does to the queues *)
(* and to group_id. The refinement of Lobbies follows from IInv too: the   *)
(* handlers look for a lobby among registered sessions only, and           *)
(* RegistryExact says that no other session has one.                       *)
(***************************************************************************)
EXTENDS LobbyServer, TLAPS

----------------------------------------------------------------------------
(* Facts about messages. *)

\* The messages a handler queues are messages.
LEMMA MessageTypes ==
    /\ Welcome \in Message
    /\ \A l \in LobbyId, e \in Error \cup {NoError} : CreateResponse(l, e) \in Message
    /\ \A l \in LobbyId, e \in Error \cup {NoError}, o \in BOOLEAN :
          JoinResponse(l, e, o) \in Message
    /\ \A ls \in SUBSET Lobby : ListResponse(ls) \in Message
BY DEF Welcome, CreateResponse, JoinResponse, ListResponse, Message

\* Only a successful join response about the client itself changes what it knows.
LEMMA OwnJoinFacts ==
    /\ ~OwnJoin(Welcome)
    /\ \A l, e : ~OwnJoin(CreateResponse(l, e))
    /\ \A l, e : ~OwnJoin(JoinResponse(l, e, TRUE))
    /\ \A l : \A e \in Error : ~OwnJoin(JoinResponse(l, e, FALSE))
    /\ \A l : OwnJoin(JoinResponse(l, NoError, FALSE))
    /\ \A l, e, o : JoinResponse(l, e, o).lobby = l
    /\ \A ls : ~OwnJoin(ListResponse(ls))
BY DEF OwnJoin, Welcome, CreateResponse, JoinResponse, ListResponse, Error, NoError

\* Appending messages without an own join response teaches a client nothing.
LEMMA KnowsSame ==
    ASSUME NEW l, NEW s \in Seq(Message), NEW t \in Seq(Message), NEW g,
           Knows(l, s, g), \A i \in DOMAIN t : ~OwnJoin(t[i])
    PROVE  Knows(l, s \o t, g)
<1>1. \A i \in DOMAIN s : (s \o t)[i] = s[i]
  OBVIOUS
<1>2. \A i \in DOMAIN (s \o t) : i \notin DOMAIN s => ~OwnJoin((s \o t)[i])
  OBVIOUS
<1>3. DOMAIN s \subseteq DOMAIN (s \o t)
  OBVIOUS
<1>4. QED
  BY <1>1, <1>2, <1>3 DEF Knows

\* A last message that is an own join response tells a client its lobby.
LEMMA KnowsLast ==
    ASSUME NEW l, NEW s \in Seq(Message), NEW t \in Seq(Message), Len(t) > 0,
           OwnJoin(t[Len(t)])
    PROVE  Knows(l, s \o t, t[Len(t)].lobby)
<1> DEFINE k == Len(s) + Len(t)
<1>1. k \in DOMAIN (s \o t) /\ (s \o t)[k] = t[Len(t)]
  OBVIOUS
<1>2. \A j \in DOMAIN (s \o t) : ~(j > k)
  OBVIOUS
<1>3. QED
  BY <1>1, <1>2 DEF Knows

\* What a client knows is determined by what it reads.
LEMMA KnowsUnique ==
    ASSUME NEW l, NEW s \in Seq(Message), NEW g, NEW h,
           Knows(l, s, g), Knows(l, s, h)
    PROVE  g = h
BY DEF Knows

----------------------------------------------------------------------------
(* Type correctness. *)

\* What a handler queues for c and for the others is a sequence of messages each.
LEMMA AnswerType ==
    ASSUME NEW c \in Client, NEW own \in Seq(Message), NEW others,
           NEW notice \in Seq(Message)
    PROVE  Answer(c, own, others, notice) \in [Client -> Seq(Message)]
BY DEF Answer

\* Sending keeps the queues sequences of messages.
LEMMA SendType ==
    ASSUME TypeOK, NEW out \in [Client -> Seq(Message)], Send(out)
    PROVE  queue' \in [Client -> Seq(Message)] /\ writable' \in SUBSET Client
BY DEF TypeOK, Send

\* What one request does: it sends something, and changes the requester's group
\* only. Nobody but the requester is sent an own join response; the requester is
\* sent one exactly when its group changes, as the last message, and the
\* response names the new group. Only registered sessions are sent anything.
LEMMA MessageStep ==
    ASSUME TypeOK, NEW c \in Client, NEW r \in Request, OnMessage(c, r)
    PROVE  \E out \in [Client -> Seq(Message)], g \in LobbyId :
             /\ Send(out)
             /\ group' = [group EXCEPT ![c] = g]
             /\ \A d \in Client \ Registered : out[d] = <<>>
             /\ \A d \in Client \ {c} : \A i \in DOMAIN out[d] : ~OwnJoin(out[d][i])
             /\ \/ g = group[c] /\ \A i \in DOMAIN out[c] : ~OwnJoin(out[c][i])
                \/ /\ Len(out[c]) > 0
                   /\ OwnJoin(out[c][Len(out[c])])
                   /\ out[c][Len(out[c])].lobby = g
<1> DEFINE Good(out, g) ==
             /\ Send(out)
             /\ group' = [group EXCEPT ![c] = g]
             /\ \A d \in Client \ Registered : out[d] = <<>>
             /\ \A d \in Client \ {c} : \A i \in DOMAIN out[d] : ~OwnJoin(out[d][i])
             /\ \/ g = group[c] /\ \A i \in DOMAIN out[c] : ~OwnJoin(out[c][i])
                \/ /\ Len(out[c]) > 0
                   /\ OwnJoin(out[c][Len(out[c])])
                   /\ out[c][Len(out[c])].lobby = g
<1> SUFFICES \E out \in [Client -> Seq(Message)], g \in LobbyId : Good(out, g)
  OBVIOUS
<1>1. c \in Registered /\ Dispatch(c, r)
  BY DEF OnMessage
<1>2. group[c] \in LobbyId /\ group = [group EXCEPT ![c] = group[c]]
  BY DEF TypeOK
<1>a. ASSUME NEW m \in Message, ~OwnJoin(m), Send(Answer(c, <<m>>, {}, <<>>)),
             UNCHANGED group
      PROVE  \E out \in [Client -> Seq(Message)], g \in LobbyId : Good(out, g)
  <2> DEFINE out == Answer(c, <<m>>, {}, <<>>)
  <2>1. <<m>> \in Seq(Message) /\ <<>> \in Seq(Message)
    OBVIOUS
  <2>2. out \in [Client -> Seq(Message)]
    BY <2>1, AnswerType
  <2>3. /\ out[c] = <<m>>
        /\ \A d \in Client \ {c} : out[d] = <<>>
    BY DEF Answer
  <2>4. Send(out)
    BY <1>a
  <2> HIDE DEF out
  <2>5. Good(out, group[c])
    BY <1>1, <1>2, <1>a, <2>3, <2>4
  <2>6. QED
    BY <1>2, <2>2, <2>5
<1>b. ASSUME NEW own \in Seq(Message), Len(own) > 0, NEW others, others \subseteq Registered,
             NEW n \in Message, NEW g \in LobbyId, OwnJoin(own[Len(own)]),
             own[Len(own)].lobby = g, ~OwnJoin(n),
             Send(Answer(c, own, others, <<n>>)), group' = [group EXCEPT ![c] = g]
      PROVE  \E out \in [Client -> Seq(Message)], h \in LobbyId : Good(out, h)
  <2> DEFINE out == Answer(c, own, others, <<n>>)
  <2>1. <<n>> \in Seq(Message)
    OBVIOUS
  <2>2. out \in [Client -> Seq(Message)]
    BY <2>1, AnswerType
  <2>3. /\ out[c] = own
        /\ \A d \in Client \ {c} : out[d] = <<>> \/ (out[d] = <<n>> /\ d \in Registered)
    BY <1>b DEF Answer
  <2>4. Send(out)
    BY <1>b
  <2> HIDE DEF out
  <2>5. Good(out, g)
    BY <1>1, <1>b, <2>3, <2>4
  <2>6. QED
    BY <2>2, <2>5
<1> HIDE DEF Good
<1>3. ASSUME r.type \in {"LOBBY_CREATE_REQUEST", "LOBBY_JOIN_REQUEST"}
      PROVE  r.lobby \in LobbyId
  BY <1>3 DEF Request
<1>4. ASSUME NEW l \in LobbyId, CreateRefused(c, l)
      PROVE  \E out \in [Client -> Seq(Message)], g \in LobbyId : Good(out, g)
  <2>1. PICK e \in Error : /\ Send(Answer(c, <<CreateResponse(l, e)>>, {}, <<>>))
                          /\ UNCHANGED group
    BY <1>4 DEF CreateRefused, Error
  <2>2. CreateResponse(l, e) \in Message /\ ~OwnJoin(CreateResponse(l, e))
    BY MessageTypes, OwnJoinFacts
  <2>3. QED
    BY <1>a, <2>1, <2>2
<1>5. ASSUME NEW l \in LobbyId, CreateGranted(c, l)
      PROVE  \E out \in [Client -> Seq(Message)], g \in LobbyId : Good(out, g)
  <2> DEFINE n   == CreateResponse(l, NoError)
             j   == JoinResponse(l, NoError, FALSE)
             own == <<n, j>>
             to  == EverybodyExclude(c)
  <2>1. n \in Message /\ j \in Message /\ ~OwnJoin(n) /\ OwnJoin(j) /\ j.lobby = l
    BY MessageTypes, OwnJoinFacts
  <2>2. to \subseteq Registered
    BY DEF EverybodyExclude
  <2>3. Send(Answer(c, own, to, <<n>>)) /\ group' = [group EXCEPT ![c] = l]
    BY <1>5 DEF CreateGranted
  <2> HIDE DEF n, j, to
  <2>4. own \in Seq(Message) /\ Len(own) = 2 /\ own[2] = j
    BY <2>1
  <2> HIDE DEF own
  <2>5. Len(own) > 0 /\ OwnJoin(own[Len(own)]) /\ own[Len(own)].lobby = l
    BY <2>1, <2>4
  <2>6. QED
    BY <1>b, <2>1, <2>2, <2>3, <2>4, <2>5
<1>6. ASSUME NEW l \in LobbyId, JoinRefused(c, l)
      PROVE  \E out \in [Client -> Seq(Message)], g \in LobbyId : Good(out, g)
  <2>1. PICK e \in Error : /\ Send(Answer(c, <<JoinResponse(l, e, FALSE)>>, {}, <<>>))
                          /\ UNCHANGED group
    BY <1>6 DEF JoinRefused, Error
  <2>2. JoinResponse(l, e, FALSE) \in Message /\ ~OwnJoin(JoinResponse(l, e, FALSE))
    BY MessageTypes, OwnJoinFacts
  <2>3. QED
    BY <1>a, <2>1, <2>2
<1>7. ASSUME NEW l \in LobbyId, NEW f, group' = [group EXCEPT ![c] = l],
             Send(Answer(c, <<JoinResponse(l, NoError, FALSE)>>, GroupExclude(c, f),
                         <<JoinResponse(l, NoError, TRUE)>>))
      PROVE  \E out \in [Client -> Seq(Message)], g \in LobbyId : Good(out, g)
  <2> DEFINE n   == JoinResponse(l, NoError, TRUE)
             j   == JoinResponse(l, NoError, FALSE)
             own == <<j>>
             to  == GroupExclude(c, f)
  <2>1. n \in Message /\ j \in Message /\ ~OwnJoin(n) /\ OwnJoin(j) /\ j.lobby = l
    BY MessageTypes, OwnJoinFacts
  <2>2. to \subseteq Registered
    BY DEF GroupExclude
  <2>3. Send(Answer(c, own, to, <<n>>)) /\ group' = [group EXCEPT ![c] = l]
    BY <1>7
  <2> HIDE DEF n, j, to
  <2>4. own \in Seq(Message) /\ Len(own) = 1 /\ own[1] = j
    BY <2>1
  <2> HIDE DEF own
  <2>5. Len(own) > 0 /\ OwnJoin(own[Len(own)]) /\ own[Len(own)].lobby = l
    BY <2>1, <2>4
  <2>6. QED
    BY <1>b, <2>1, <2>2, <2>3, <2>4, <2>5
<1>8. ASSUME List(c)
      PROVE  \E out \in [Client -> Seq(Message)], g \in LobbyId : Good(out, g)
  <2>1. ListedLobbies \in SUBSET Lobby
    <3>1. \A i \in DOMAIN sessions : sessions[i] \in Client
      BY DEF TypeOK
    <3>2. QED
      BY <3>1 DEF ListedLobbies, TypeOK, LobbyId
  <2>2. ListResponse(ListedLobbies) \in Message /\ ~OwnJoin(ListResponse(ListedLobbies))
    BY <2>1, MessageTypes, OwnJoinFacts
  <2>3. QED
    BY <1>8, <1>a, <2>2 DEF List
<1>9. CASE r.type = "LOBBY_CREATE_REQUEST"
  BY <1>1, <1>3, <1>4, <1>5, <1>9 DEF Dispatch
<1>10. CASE r.type = "LOBBY_JOIN_REQUEST"
  <2>1. CASE JoinRefused(c, r.lobby)
    BY <1>3, <1>6, <1>10, <2>1
  <2>2. CASE JoinGranted(c, r.lobby)
    BY <1>3, <1>7, <1>10, <2>2 DEF JoinGranted
  <2>3. CASE LeaveGranted(c)
    BY <1>7, <2>3 DEF LeaveGranted, LobbyId
  <2>4. QED
    BY <1>1, <1>10, <2>1, <2>2, <2>3 DEF Dispatch
<1>11. CASE r.type = "LOBBY_LIST_REQUEST"
  BY <1>1, <1>8, <1>11 DEF Dispatch
<1>12. QED
  BY <1>9, <1>10, <1>11 DEF Request

\* Deleting a position of a nonempty registry leaves a registry.
LEMMA DeleteType ==
    ASSUME NEW s \in Seq(Client), Len(s) > 0, NEW n
    PROVE  DeleteAt(s, n) \in Seq(Client)
<1>1. Len(s) - 1 \in Nat
  OBVIOUS
<1>2. \A m \in 1..(Len(s) - 1) : (IF m < n THEN s[m] ELSE s[m + 1]) \in Client
  OBVIOUS
<1>3. QED
  BY <1>1, <1>2 DEF DeleteAt

\* What a client is told is a lobby number: an own join response names one.
LEMMA KnownAfterType ==
    ASSUME NEW l \in LobbyId, NEW s \in Seq(Message), NEW g \in LobbyId, Knows(l, s, g)
    PROVE  KnownAfter(l, s) = g
BY KnowsUnique DEF KnownAfter

----------------------------------------------------------------------------
(* The inductive invariant, and the handlers that keep it. *)

IInv == TypeOK /\ RegistryExact /\ NothingStranded /\ MembershipTold

\* The empty sequence is a sequence of anything.
LEMMA EmptyQueue == <<>> \in Seq(Client) /\ <<>> \in Seq(Message)
OBVIOUS

\* Nothing is registered in an empty registry.
LEMMA NoneRegistered ==
    ASSUME sessions' = <<>> PROVE Registered' = {}
BY DEF Registered

\* Only connections are registered.
LEMMA RegisteredClients ==
    ASSUME TypeOK PROVE Registered \subseteq Client
BY DEF Registered, TypeOK

\* The initial state satisfies the invariant.
LEMMA InitInv == Init => IInv
<1> SUFFICES ASSUME Init PROVE IInv
  OBVIOUS
<1>1. Registered = {}
  BY DEF Init, Registered
<1>2. TypeOK
  BY EmptyQueue DEF Init, TypeOK, LobbyId
<1>3. RegistryExact
  BY <1>1 DEF Init, RegistryExact
<1>4. NothingStranded
  BY DEF Init, NothingStranded
<1>5. MembershipTold
  BY <1>1 DEF MembershipTold
<1>6. QED
  BY <1>2, <1>3, <1>4, <1>5 DEF IInv

\* So does the state that a failed assertion leaves.
LEMMA AbortInv == Abort => IInv'
<1> SUFFICES ASSUME Abort PROVE IInv'
  OBVIOUS
<1>1. Registered' = {}
  BY NoneRegistered DEF Abort
<1>2. TypeOK'
  BY EmptyQueue DEF Abort, TypeOK, LobbyId
<1>3. RegistryExact'
  BY <1>1 DEF Abort, RegistryExact
<1>4. NothingStranded'
  BY DEF Abort, NothingStranded
<1>5. MembershipTold'
  BY <1>1 DEF MembershipTold
<1>6. QED
  BY <1>2, <1>3, <1>4, <1>5 DEF IInv

\* Connecting registers the new session, behind the others.
LEMMA ConnectRegisters ==
    ASSUME TypeOK, NEW c \in Client, NEW i \in Id, OnConnect(c, i)
    PROVE  /\ DOMAIN sessions' = DOMAIN sessions \cup {Len(sessions) + 1}
           /\ \A n \in DOMAIN sessions : sessions'[n] = sessions[n]
           /\ sessions'[Len(sessions) + 1] = c
           /\ Registered' = Registered \cup {c}
<1>1. /\ DOMAIN sessions' = DOMAIN sessions \cup {Len(sessions) + 1}
      /\ \A n \in DOMAIN sessions : sessions'[n] = sessions[n]
      /\ sessions'[Len(sessions) + 1] = c
  BY DEF OnConnect, TypeOK
<1>2. QED
  BY <1>1 DEF Registered

\* A connection that opens is told its lobby: none.
LEMMA ConnectInv ==
    ASSUME IInv, NEW c \in Client, NEW i \in Id, OnConnect(c, i) PROVE IInv'
<1> USE DEF IInv
<1>1. <<Welcome>> \in Seq(Message) /\ Append(sessions, c) \in Seq(Client)
  BY MessageTypes DEF TypeOK
<1>2. TypeOK'
  BY <1>1 DEF OnConnect, TypeOK, LobbyId
<1>3. /\ DOMAIN sessions' = DOMAIN sessions \cup {Len(sessions) + 1}
      /\ \A n \in DOMAIN sessions : sessions'[n] = sessions[n]
      /\ sessions'[Len(sessions) + 1] = c
      /\ Registered' = Registered \cup {c}
  BY ConnectRegisters
<1>4. Registered' = Registered \cup {c}
  BY <1>3
<1>5. \A m, n \in DOMAIN sessions' : id'[sessions'[m]] = id'[sessions'[n]] => m = n
  <2>1. c \notin Registered /\ id' = [id EXCEPT ![c] = i] /\ ~Collides(i)
    BY DEF OnConnect
  <2>2. \A n \in DOMAIN sessions : /\ sessions[n] \in Registered
                                   /\ sessions[n] \in Client
                                   /\ id'[sessions[n]] = id[sessions[n]]
                                   /\ id[sessions[n]] # i
    BY <2>1 DEF Registered, Collides, TypeOK
  <2>3. id'[c] = i
    BY <2>1 DEF TypeOK
  <2>4. QED
    BY <1>3, <2>2, <2>3 DEF RegistryExact
<1>6. RegistryExact'
  BY <1>4, <1>5, ServerAssumption DEF OnConnect, RegistryExact, TypeOK
<1>7. NothingStranded'
  BY DEF OnConnect, NothingStranded, TypeOK
<1>8. Knows(NoLobby, <<Welcome>>, NoLobby)
  BY OwnJoinFacts DEF Knows
<1>9. MembershipTold'
  <2>1. ASSUME NEW d \in Registered PROVE Knows(told'[d], queue'[d], group'[d])
    <3>1. d \in Client /\ d # c
      BY RegisteredClients DEF OnConnect
    <3>2. told'[d] = told[d] /\ queue'[d] = queue[d] /\ group'[d] = group[d]
      BY <3>1 DEF OnConnect, TypeOK
    <3>3. QED
      BY <3>2 DEF MembershipTold
  <2>2. told'[c] = NoLobby /\ queue'[c] = <<Welcome>> /\ group'[c] = NoLobby
    BY DEF OnConnect, TypeOK
  <2>3. QED
    BY <1>4, <1>8, <2>1, <2>2 DEF MembershipTold
<1>10. QED
  BY <1>2, <1>6, <1>7, <1>9

\* The search by id finds the position of the session itself, and no other.
LEMMA FirstWithIdFinds ==
    ASSUME TypeOK, RegistryExact, NEW n \in DOMAIN sessions
    PROVE  FirstWithId(id[sessions[n]]) = n
<1>1. \A m \in DOMAIN sessions : id[sessions[m]] = id[sessions[n]] => m = n
  BY DEF RegistryExact
<1>2. DOMAIN sessions \subseteq Nat
  BY DEF TypeOK
<1>3. QED
  BY <1>1, <1>2 DEF FirstWithId

\* Where the elements of a sequence are after one was deleted.
LEMMA DeleteElements ==
    ASSUME NEW s \in Seq(Client), NEW n \in DOMAIN s
    PROVE  /\ DOMAIN DeleteAt(s, n) = 1..(Len(s) - 1)
           /\ \A m \in DOMAIN DeleteAt(s, n) :
                 DeleteAt(s, n)[m] = s[IF m < n THEN m ELSE m + 1]
           /\ \A m \in DOMAIN DeleteAt(s, n) :
                 (IF m < n THEN m ELSE m + 1) \in DOMAIN s \ {n}
           /\ \A k \in DOMAIN s \ {n} : \E m \in DOMAIN DeleteAt(s, n) :
                 k = IF m < n THEN m ELSE m + 1
<1>1. DOMAIN DeleteAt(s, n) = 1..(Len(s) - 1)
  BY DEF DeleteAt
<1>2. \A m \in 1..(Len(s) - 1) : DeleteAt(s, n)[m] = s[IF m < n THEN m ELSE m + 1]
  BY DEF DeleteAt
<1>3. \A m \in 1..(Len(s) - 1) : (IF m < n THEN m ELSE m + 1) \in DOMAIN s \ {n}
  OBVIOUS
<1>4. ASSUME NEW k \in DOMAIN s \ {n}
      PROVE  \E m \in 1..(Len(s) - 1) : k = IF m < n THEN m ELSE m + 1
  <2>1. CASE k < n
    BY <2>1
  <2>2. CASE k > n
    <3>1. k - 1 \in 1..(Len(s) - 1) /\ ~(k - 1 < n) /\ k = (k - 1) + 1
      BY <2>2
    <3>2. QED
      BY <3>1
  <2>3. QED
    BY <2>1, <2>2
<1>5. QED
  BY <1>1, <1>2, <1>3, <1>4

\* Disconnecting closes the gap that the session leaves in the registry.
LEMMA DisconnectRegisters ==
    ASSUME TypeOK, RegistryExact, NEW c \in Client, OnDisconnect(c)
    PROVE  /\ Registered' = Registered \ {c}
           /\ \E n \in DOMAIN sessions : /\ sessions[n] = c
                                        /\ sessions' = DeleteAt(sessions, n)
<1>1. PICK n \in DOMAIN sessions : sessions[n] = c
  BY DEF OnDisconnect, Registered
<1>2. sessions' = DeleteAt(sessions, n)
  BY <1>1, FirstWithIdFinds DEF OnDisconnect
<1>3. sessions \in Seq(Client)
  BY DEF TypeOK
<1> DEFINE at(m) == IF m < n THEN m ELSE m + 1
<1>4. /\ \A m \in DOMAIN sessions' : /\ sessions'[m] = sessions[at(m)]
                                     /\ at(m) \in DOMAIN sessions \ {n}
      /\ \A k \in DOMAIN sessions \ {n} : \E m \in DOMAIN sessions' : k = at(m)
  BY <1>1, <1>2, <1>3, DeleteElements
<1>5. \A k \in DOMAIN sessions \ {n} : sessions[k] # c
  BY <1>1, <1>3 DEF RegistryExact
<1>6. Registered' = Registered \ {c}
  <2>1. Registered' \subseteq Registered \ {c}
    BY <1>4, <1>5 DEF Registered
  <2>2. Registered \ {c} \subseteq Registered'
    BY <1>1, <1>4 DEF Registered
  <2>3. QED
    BY <2>1, <2>2
<1>7. QED
  BY <1>1, <1>2, <1>6

\* A connection that closes leaves the registry, and no other session does.
LEMMA DisconnectInv ==
    ASSUME IInv, NEW c \in Client, OnDisconnect(c) PROVE IInv'
<1> USE DEF IInv
<1>1. PICK n \in DOMAIN sessions : sessions[n] = c /\ sessions' = DeleteAt(sessions, n)
  BY DisconnectRegisters
<1>2. sessions' = DeleteAt(sessions, n)
  BY <1>1
<1>3. sessions \in Seq(Client)
  BY DEF TypeOK
<1> DEFINE at(m) == IF m < n THEN m ELSE m + 1
<1>4. /\ DOMAIN sessions' = 1..(Len(sessions) - 1)
      /\ \A m \in DOMAIN sessions' : /\ sessions'[m] = sessions[at(m)]
                                     /\ at(m) \in DOMAIN sessions \ {n}
      /\ \A k \in DOMAIN sessions \ {n} : \E m \in DOMAIN sessions' : k = at(m)
  BY <1>1, <1>2, <1>3, DeleteElements
<1>5. \A k \in DOMAIN sessions \ {n} : sessions[k] # c /\ sessions[k] \in Client
  BY <1>1, <1>3 DEF RegistryExact
<1>6. Registered' = Registered \ {c}
  BY DisconnectRegisters
<1>7. \A m, k \in DOMAIN sessions' : id'[sessions'[m]] = id'[sessions'[k]] => m = k
  <2>1. \A k \in DOMAIN sessions \ {n} : id'[sessions[k]] = id[sessions[k]]
    BY <1>5 DEF OnDisconnect, TypeOK
  <2>2. \A m, k \in DOMAIN sessions' : at(m) = at(k) => m = k
    BY <1>1, <1>3, <1>4
  <2>3. QED
    BY <1>4, <2>1, <2>2 DEF RegistryExact
<1>8. TypeOK'
  <2>1. Len(sessions) > 0
    BY <1>1, <1>3
  <2>2. sessions' \in Seq(Client)
    BY <1>2, <1>3, <2>1, DeleteType
  <2>3. QED
    BY <2>2, EmptyQueue DEF OnDisconnect, TypeOK, LobbyId
<1>9. RegistryExact'
  BY <1>6, <1>7 DEF OnDisconnect, RegistryExact, TypeOK
<1>10. NothingStranded'
  BY DEF OnDisconnect, NothingStranded, TypeOK
<1>11. MembershipTold'
  <2>1. \A d \in Registered' : d \in Client \ {c}
    BY <1>6, RegisteredClients
  <2>2. QED
    BY <1>6, <2>1 DEF OnDisconnect, MembershipTold, TypeOK
<1>12. QED
  BY <1>8, <1>9, <1>10, <1>11

\* A request is announced to every client in what it adds to its queue: who knew the
\* lobby it was in before, then knows the one it is in.
LEMMA MessageKnows ==
    ASSUME TypeOK, NEW c \in Client, NEW r \in Request, OnMessage(c, r), NEW d \in Client
    PROVE  \E t \in Seq(Message) :
             /\ queue'[d] = queue[d] \o t
             /\ \A l : \A h \in Seq(Message) : Knows(l, h, group[d]) => Knows(l, h \o t, group'[d])
<1>1. PICK out \in [Client -> Seq(Message)], g \in LobbyId :
         /\ Send(out)
         /\ group' = [group EXCEPT ![c] = g]
         /\ \A e \in Client \ {c} : \A i \in DOMAIN out[e] : ~OwnJoin(out[e][i])
         /\ \/ g = group[c] /\ \A i \in DOMAIN out[c] : ~OwnJoin(out[c][i])
            \/ /\ Len(out[c]) > 0
               /\ OwnJoin(out[c][Len(out[c])])
               /\ out[c][Len(out[c])].lobby = g
  BY MessageStep
<1>2. queue'[d] = queue[d] \o out[d] /\ out[d] \in Seq(Message)
  BY <1>1 DEF Send
<1>3. ASSUME NEW l, NEW h \in Seq(Message), Knows(l, h, group[d])
      PROVE  Knows(l, h \o out[d], group'[d])
  <2>1. CASE \A i \in DOMAIN out[d] : ~OwnJoin(out[d][i])
    <3>1. Knows(l, h \o out[d], group[d])
      BY <1>2, <1>3, <2>1, KnowsSame
    <3>2. group'[d] = group[d]
      <4>1. CASE d # c
        BY <1>1, <4>1 DEF TypeOK
      <4>2. CASE d = c
        <5>1. g = group[c]
          BY <1>1, <1>2, <2>1, <4>2
        <5>2. QED
          BY <1>1, <4>2, <5>1 DEF TypeOK
      <4>3. QED
        BY <4>1, <4>2
    <3>3. QED
      BY <3>1, <3>2
  <2>2. CASE d = c /\ Len(out[c]) > 0 /\ OwnJoin(out[c][Len(out[c])])
    <3>1. Knows(l, h \o out[c], out[c][Len(out[c])].lobby)
      BY <1>2, <1>3, <2>2, KnowsLast
    <3>2. out[c][Len(out[c])].lobby = g
      BY <1>1, <1>2, <2>2
    <3>3. QED
      BY <1>1, <2>2, <3>1, <3>2 DEF TypeOK
  <2>3. QED
    BY <1>1, <2>1, <2>2
<1>4. QED
  BY <1>2, <1>3

\* A request keeps the queues announcing what happens to the groups.
LEMMA MessageInv ==
    ASSUME IInv, NEW c \in Client, NEW r \in Request, OnMessage(c, r) PROVE IInv'
<1> USE DEF IInv
<1>1. PICK out \in [Client -> Seq(Message)], g \in LobbyId :
         /\ Send(out)
         /\ group' = [group EXCEPT ![c] = g]
         /\ \A d \in Client \ Registered : out[d] = <<>>
         /\ \A d \in Client \ {c} : \A i \in DOMAIN out[d] : ~OwnJoin(out[d][i])
         /\ \/ g = group[c] /\ \A i \in DOMAIN out[c] : ~OwnJoin(out[c][i])
            \/ /\ Len(out[c]) > 0
               /\ OwnJoin(out[c][Len(out[c])])
               /\ out[c][Len(out[c])].lobby = g
  BY MessageStep
<1>2. UNCHANGED <<running, sessions, id, told>> /\ c \in Registered
  BY DEF OnMessage
<1>3. Registered' = Registered
  BY <1>2 DEF Registered
<1>4. queue' = [d \in Client |-> queue[d] \o out[d]]
  BY <1>1 DEF Send
<1>5. \A d \in Client : queue[d] \in Seq(Message) /\ out[d] \in Seq(Message)
  BY DEF TypeOK
<1>6. \A s \in Seq(Message) : s \o <<>> = s
  OBVIOUS
<1>7. TypeOK'
  <2>1. queue' \in [Client -> Seq(Message)] /\ writable' \in SUBSET Client
    BY <1>1, SendType
  <2>2. QED
    BY <1>1, <1>2, <2>1 DEF TypeOK
<1>8. RegistryExact'
  <2>1. ASSUME NEW d \in Client \ Registered
        PROVE  /\ group'[d] = NoLobby /\ queue'[d] = <<>>
               /\ d \notin writable' /\ told'[d] = NoLobby
    <3>1. d # c /\ out[d] = <<>> /\ queue[d] = <<>> /\ d \notin writable
      BY <1>1, <1>2 DEF RegistryExact
    <3>2. queue'[d] = <<>>
      BY <1>4, <1>6, <3>1, EmptyQueue
    <3>3. QED
      BY <1>1, <1>2, <3>1, <3>2 DEF RegistryExact, Send, TypeOK
  <2>2. QED
    BY <1>2, <1>3, <2>1 DEF RegistryExact
<1>9. NothingStranded'
  <2>1. ASSUME NEW d \in Client, queue'[d] # <<>> PROVE d \in writable'
    <3>1. CASE out[d] = <<>>
      BY <1>1, <1>4, <1>5, <1>6, <2>1, <3>1 DEF NothingStranded, Send
    <3>2. CASE out[d] # <<>>
      BY <1>1, <3>2 DEF Send
    <3>3. QED
      BY <3>1, <3>2
  <2>2. QED
    BY <2>1 DEF NothingStranded
<1>10. ASSUME NEW d \in Registered PROVE Knows(told'[d], queue'[d], group'[d])
  <2>1. d \in Client
    BY DEF Registered, TypeOK
  <2>2. Knows(told[d], queue[d], group[d]) /\ told'[d] = told[d]
    BY <1>2, <1>10 DEF MembershipTold
  <2>3. QED
    BY <1>5, <2>1, <2>2, MessageKnows
<1>11. QED
  BY <1>3, <1>7, <1>8, <1>9, <1>10 DEF MembershipTold

\* Writing a queue moves what it says from the queue to the client.
LEMMA WritableInv ==
    ASSUME IInv, NEW c \in Client, OnWritable(c) PROVE IInv'
<1> USE DEF IInv
<1>1. c \in Registered
  BY DEF OnWritable, RegistryExact
<1>2. Knows(told[c], queue[c], group[c]) /\ group[c] \in LobbyId
  BY <1>1 DEF MembershipTold, TypeOK
<1>3. KnownAfter(told[c], queue[c]) = group[c]
  BY <1>2, KnownAfterType DEF TypeOK
<1>4. told' = [told EXCEPT ![c] = group[c]]
  BY <1>3 DEF OnWritable
<1>5. Registered' = Registered
  BY DEF OnWritable, Registered
<1>6. TypeOK'
  BY <1>2, <1>4, EmptyQueue DEF OnWritable, TypeOK
<1>7. RegistryExact'
  BY <1>1, <1>4, <1>5 DEF OnWritable, RegistryExact, TypeOK
<1>8. NothingStranded'
  BY DEF OnWritable, NothingStranded, TypeOK
<1>9. Knows(group[c], <<>>, group[c])
  BY DEF Knows
<1>10. MembershipTold'
  <2>1. \A d \in Registered : d \in Client
    BY DEF Registered, TypeOK
  <2>2. QED
    BY <1>4, <1>5, <1>9, <2>1 DEF OnWritable, MembershipTold, TypeOK
<1>11. QED
  BY <1>6, <1>7, <1>8, <1>10

\* Starting the program again, and a step that changes nothing, keep everything.
LEMMA IdleInv ==
    ASSUME IInv, Restart \/ UNCHANGED vars PROVE IInv'
<1>1. UNCHANGED <<sessions, id, group, queue, writable, told>> /\ running' \in BOOLEAN
  BY DEF Restart, vars, IInv, TypeOK
<1>2. Registered' = Registered
  BY <1>1 DEF Registered
<1>3. QED
  BY <1>1, <1>2 DEF IInv, TypeOK, RegistryExact, NothingStranded, MembershipTold

\* Every step of the server keeps IInv.
LEMMA StepInv == IInv /\ [Next]_vars => IInv'
<1> SUFFICES ASSUME IInv, [Next]_vars PROVE IInv'
  OBVIOUS
<1>1. ASSUME NEW c \in Client, NEW i \in Id, OnConnectCollision(c, i) PROVE IInv'
  BY <1>1, AbortInv DEF OnConnectCollision
<1>2. ASSUME NEW c \in Client, OnMessageTail(c) PROVE IInv'
  BY <1>2, AbortInv DEF OnMessageTail
<1>3. QED
  BY <1>1, <1>2, ConnectInv, MessageInv, DisconnectInv, WritableInv, IdleInv DEF Next

\* IInv is an invariant of the server.
THEOREM Invariant == Spec => []IInv
BY InitInv, StepInv, PTL DEF Spec

\* Every variable keeps its type.
THEOREM TypeCorrect == Spec => []TypeOK
BY Invariant, PTL DEF IInv

\* The registry holds exactly the live sessions, under ids that differ.
THEOREM RegistryIsExact == Spec => []RegistryExact
BY Invariant, PTL DEF IInv

\* Whatever is queued for a session has a writable callback coming.
THEOREM NothingIsStranded == Spec => []NothingStranded
BY Invariant, PTL DEF IInv

\* What a client is told, read in order, ends in the lobby the server has it in.
THEOREM MembershipIsTold == Spec => []MembershipTold
BY Invariant, PTL DEF IInv

----------------------------------------------------------------------------
(* The server implements the abstract lobbies. *)

Open == {group[c] : c \in Client} \ {NoLobby}

\* The handlers look for a lobby among the registered sessions, which is enough.
LEMMA ExistsIsOpen ==
    ASSUME TypeOK, RegistryExact, NEW l \in Lobby
    PROVE  Exists(l) <=> l \in Open
<1>1. Exists(l) <=> \E d \in Registered : group[d] = l
  BY DEF Exists, Registered
<1>2. \A d \in Client \ Registered : group[d] # l
  BY ServerAssumption DEF RegistryExact
<1>3. QED
  BY <1>1, <1>2, RegisteredClients, ServerAssumption DEF Open

\* The open lobbies after one client moved.
LEMMA OpenAfterMove ==
    ASSUME TypeOK, NEW c \in Client, NEW g \in LobbyId, g # group[c],
           group' = [group EXCEPT ![c] = g]
    PROVE  Open' = (IF \E d \in Client \ {c} : group[d] = group[c]
                    THEN Open ELSE Open \ {group[c]}) \cup ({g} \ {NoLobby})
<1>1. group'[c] = g /\ \A d \in Client \ {c} : group'[d] = group[d]
  BY DEF TypeOK
<1>2. Open' = ({group[d] : d \in Client \ {c}} \cup {g}) \ {NoLobby}
  BY <1>1 DEF Open
<1>3. Open = ({group[d] : d \in Client \ {c}} \cup {group[c]}) \ {NoLobby}
  BY DEF Open
<1>4. QED
  BY <1>2, <1>3

\* A client that goes to lobby 0 takes the abstract step Leave.
LEMMA MoveOutIsLeave ==
    ASSUME TypeOK, NEW c \in Client, group[c] # NoLobby,
           group' = [group EXCEPT ![c] = NoLobby]
    PROVE  LobbyService!Leave(c)
<1> DEFINE rest == IF \E d \in Client \ {c} : group[d] = group[c]
                   THEN Open ELSE Open \ {group[c]}
<1>1. Open' = rest
  <2>1. NoLobby \in LobbyId
    BY DEF LobbyId
  <2>2. Open' = rest \cup ({NoLobby} \ {NoLobby})
    BY <2>1, OpenAfterMove
  <2> HIDE DEF rest
  <2>3. QED
    BY <2>2
<1>2. QED
  BY <1>1 DEF LobbyService!Leave, Open

\* A request is an abstract step or changes no membership.
LEMMA MessageRefines ==
    ASSUME TypeOK, RegistryExact, NEW c \in Client, NEW r \in Request, OnMessage(c, r)
    PROVE  \/ UNCHANGED group
           \/ LobbyService!Next
<1>1. c \in Registered /\ Dispatch(c, r)
  BY DEF OnMessage
<1>2. group[c] \in LobbyId
  BY DEF TypeOK
<1>3. ASSUME NEW l \in LobbyId, CreateGranted(c, l) PROVE LobbyService!Create(c, l) /\ l \in Lobby
  <2>1. Exists(group[c])
    BY <1>1 DEF Exists, Registered
  <2>2. group[c] = NoLobby /\ ~Exists(l) /\ group' = [group EXCEPT ![c] = l]
    BY <1>3 DEF CreateGranted
  <2>3. l \in Lobby /\ l # NoLobby
    BY <2>1, <2>2, ServerAssumption DEF LobbyId
  <2>4. l \notin Open
    BY <2>2, <2>3, ExistsIsOpen
  <2>5. Open \ {NoLobby} = Open
    BY DEF Open
  <2>6. Open' = Open \cup {l}
    <3> DEFINE rest == IF \E d \in Client \ {c} : group[d] = group[c]
                       THEN Open ELSE Open \ {group[c]}
    <3>1. Open' = rest \cup ({l} \ {NoLobby})
      BY <2>2, <2>3, OpenAfterMove
    <3>2. rest = Open
      BY <2>2, <2>5
    <3> HIDE DEF rest
    <3>3. QED
      BY <2>3, <3>1, <3>2
  <2>7. QED
    BY <2>2, <2>3, <2>4, <2>6 DEF LobbyService!Create, Open
<1>4. ASSUME NEW l \in LobbyId, JoinGranted(c, l) PROVE LobbyService!Enter(c, l) /\ l \in Lobby
  <2>1. l # NoLobby /\ Exists(l) /\ l # group[c] /\ group' = [group EXCEPT ![c] = l]
    BY <1>4 DEF JoinGranted
  <2>2. l \in Lobby /\ l \in Open
    BY <2>1, ExistsIsOpen DEF LobbyId
  <2> DEFINE rest == IF \E d \in Client \ {c} : group[d] = group[c]
                     THEN Open ELSE Open \ {group[c]}
  <2>3. Open' = rest
    <3>1. Open' = rest \cup ({l} \ {NoLobby})
      BY <2>1, OpenAfterMove
    <3>2. l \in rest
      BY <2>1, <2>2
    <3> HIDE DEF rest
    <3>3. QED
      BY <3>1, <3>2
  <2>4. QED
    BY <2>1, <2>2, <2>3 DEF LobbyService!Enter, Open
<1>5. ASSUME LeaveGranted(c) PROVE LobbyService!Leave(c)
  BY <1>5, MoveOutIsLeave DEF LeaveGranted
<1>6. r.type \in {"LOBBY_CREATE_REQUEST", "LOBBY_JOIN_REQUEST"} => r.lobby \in LobbyId
  BY DEF Request
<1>7. \/ UNCHANGED group
      \/ \E l \in LobbyId : CreateGranted(c, l) \/ JoinGranted(c, l)
      \/ LeaveGranted(c)
  BY <1>1, <1>6 DEF Dispatch, CreateRefused, JoinRefused, List
<1>8. QED
  BY <1>3, <1>4, <1>5, <1>7 DEF LobbyService!Next

\* The server, seen through group_id alone, behaves as the abstract lobbies do.
THEOREM LobbiesAreImplemented == Spec => ImplementsLobbies
<1>1. Init => LobbyService!Init
  BY ServerAssumption DEF Init, LobbyService!Init
<1>2. IInv /\ [Next]_vars => [LobbyService!Next]_LobbyService!vars
  <2> SUFFICES ASSUME IInv, [Next]_vars
               PROVE  UNCHANGED group \/ LobbyService!Next
    BY DEF LobbyService!vars
  <2> USE DEF IInv
  <2>1. ASSUME Abort PROVE LobbyService!Next
    <3>1. {group'[c] : c \in Client} \ {NoLobby} = {}
      BY <2>1 DEF Abort
    <3>2. QED
      BY <2>1, <3>1 DEF Abort, LobbyService!Next, LobbyService!Collapse
  <2>2. ASSUME NEW c \in Client, NEW i \in Id, OnConnect(c, i) PROVE UNCHANGED group
    BY <2>2 DEF OnConnect, RegistryExact, TypeOK
  <2>3. ASSUME NEW c \in Client, OnDisconnect(c)
        PROVE  UNCHANGED group \/ LobbyService!Next
    <3>1. group' = [group EXCEPT ![c] = NoLobby]
      BY <2>3 DEF OnDisconnect
    <3>2. CASE group[c] = NoLobby
      BY <3>1, <3>2 DEF TypeOK
    <3>3. CASE group[c] # NoLobby
      BY <3>1, <3>3, MoveOutIsLeave DEF LobbyService!Next
    <3>4. QED
      BY <3>2, <3>3
  <2>4. ASSUME \/ \E c \in Client : OnWritable(c)
               \/ Restart
               \/ UNCHANGED vars
        PROVE  UNCHANGED group
    BY <2>4 DEF OnWritable, Restart, vars
  <2>5. QED
    BY <2>1, <2>2, <2>3, <2>4, MessageRefines
    DEF Next, OnConnectCollision, OnMessageTail
<1>3. QED
  BY <1>1, <1>2, Invariant, PTL DEF Spec, ImplementsLobbies, LobbyService!Spec

----------------------------------------------------------------------------
(* Who is told of a move. *)

\* What is new in the queue of another session d: a notice, if d is a recipient.
LEMMA NoticesOfAnswer ==
    ASSUME TypeOK, NEW c \in Client, NEW own \in Seq(Message), NEW others,
           NEW m \in Message, Send(Answer(c, own, others, <<m>>)), NEW d \in Client \ {c}
    PROVE  NewNotices(d) # {} <=> /\ d \in others
                                  /\ m.type = "LOBBY_JOIN_RESPONSE"
                                  /\ m.other
<1>1. queue'[d] = queue[d] \o (IF d \in others THEN <<m>> ELSE <<>>)
  BY DEF Send, Answer
<1>2. queue[d] \in Seq(Message)
  BY DEF TypeOK
<1>3. CASE d \in others
  <2>1. /\ DOMAIN queue'[d] = 1..(Len(queue[d]) + 1)
        /\ queue'[d][Len(queue[d]) + 1] = m
    BY <1>1, <1>2, <1>3
  <2>2. QED
    BY <1>2, <1>3, <2>1 DEF NewNotices
<1>4. CASE d \notin others
  <2>1. DOMAIN queue'[d] = 1..Len(queue[d])
    BY <1>1, <1>2, <1>4
  <2>2. QED
    BY <1>2, <1>4, <2>1 DEF NewNotices
<1>5. QED
  BY <1>3, <1>4

\* Sessions are compared by id, and ids differ.
LEMMA OthersById ==
    ASSUME TypeOK, RegistryExact, NEW c \in Registered, NEW d \in Registered, d # c
    PROVE  id[d] # id[c]
BY DEF RegistryExact, Registered

\* A move of c by a request is told to the other members of one lobby exactly.
LEMMA MessageNotices ==
    ASSUME TypeOK, RegistryExact, NEW c \in Client, NEW r \in Request, OnMessage(c, r),
           group'[c] # group[c], NEW d \in Registered \ {c}
    PROVE  NewNotices(d) # {} <=>
              group[d] = IF group'[c] = NoLobby THEN group[c] ELSE group'[c]
<1>1. c \in Registered /\ Dispatch(c, r) /\ d \in Client \ {c}
  BY RegisteredClients DEF OnMessage
<1>2. id[d] # id[c]
  BY <1>1, OthersById
<1>3. r.type \in {"LOBBY_CREATE_REQUEST", "LOBBY_JOIN_REQUEST"} => r.lobby \in LobbyId
  BY DEF Request
<1>4. \/ \E l \in LobbyId : CreateGranted(c, l) \/ JoinGranted(c, l)
      \/ LeaveGranted(c)
  BY <1>1, <1>3 DEF Dispatch, CreateRefused, JoinRefused, List
<1>5. ASSUME NEW l \in LobbyId, NEW others,
             Send(Answer(c, <<JoinResponse(l, NoError, FALSE)>>, others,
                         <<JoinResponse(l, NoError, TRUE)>>))
      PROVE  NewNotices(d) # {} <=> d \in others
  <2> DEFINE m   == JoinResponse(l, NoError, TRUE)
             j   == JoinResponse(l, NoError, FALSE)
             own == <<j>>
  <2>1. m \in Message /\ j \in Message
    BY MessageTypes
  <2>2. m.type = "LOBBY_JOIN_RESPONSE" /\ m.other
    BY DEF JoinResponse
  <2>3. Send(Answer(c, own, others, <<m>>))
    BY <1>5
  <2> HIDE DEF m, j
  <2>4. own \in Seq(Message)
    BY <2>1
  <2> HIDE DEF own
  <2>5. QED
    BY <1>1, <2>1, <2>2, <2>3, <2>4, NoticesOfAnswer
<1>6. ASSUME NEW l \in LobbyId, CreateGranted(c, l)
      PROVE  NewNotices(d) = {} /\ group'[c] = l /\ l # NoLobby /\ group[d] # l
  <2>1. group[c] = NoLobby /\ ~Exists(l) /\ group' = [group EXCEPT ![c] = l]
    BY <1>6 DEF CreateGranted
  <2>2. group[d] # l /\ group[c] # l
    BY <1>1, <2>1 DEF Exists, Registered
  <2>3. NewNotices(d) = {}
    <3> DEFINE m   == CreateResponse(l, NoError)
               j   == JoinResponse(l, NoError, FALSE)
               own == <<m, j>>
               to  == EverybodyExclude(c)
    <3>1. m \in Message /\ j \in Message /\ m.type # "LOBBY_JOIN_RESPONSE"
      BY MessageTypes DEF CreateResponse
    <3>2. Send(Answer(c, own, to, <<m>>))
      BY <1>6 DEF CreateGranted
    <3> HIDE DEF m, j, to
    <3>3. own \in Seq(Message)
      BY <3>1
    <3> HIDE DEF own
    <3>4. QED
      BY <1>1, <3>1, <3>2, <3>3, NoticesOfAnswer
  <2>4. QED
    BY <2>1, <2>2, <2>3 DEF TypeOK
<1>7. ASSUME NEW l \in LobbyId, JoinGranted(c, l)
      PROVE  (NewNotices(d) # {} <=> group[d] = l) /\ group'[c] = l /\ l # NoLobby
  <2>1. l # NoLobby /\ group' = [group EXCEPT ![c] = l]
    BY <1>7 DEF JoinGranted
  <2>2. group'[c] = l /\ group'[d] = group[d]
    BY <1>1, <2>1 DEF TypeOK
  <2>3. NewNotices(d) # {} <=> d \in GroupExclude(c, group')
    BY <1>5, <1>7 DEF JoinGranted
  <2>4. d \in GroupExclude(c, group') <=> group[d] = l
    BY <1>2, <2>2 DEF GroupExclude
  <2>5. QED
    BY <2>1, <2>2, <2>3, <2>4
<1>8. ASSUME LeaveGranted(c)
      PROVE  (NewNotices(d) # {} <=> group[d] = group[c]) /\ group'[c] = NoLobby
  <2>1. NewNotices(d) # {} <=> d \in GroupExclude(c, group)
    BY <1>5, <1>8 DEF LeaveGranted, LobbyId
  <2>2. d \in GroupExclude(c, group) <=> group[d] = group[c]
    BY <1>2 DEF GroupExclude
  <2>3. QED
    BY <1>8, <2>1, <2>2 DEF LeaveGranted, TypeOK
<1>9. QED
  BY <1>4, <1>6, <1>7, <1>8

\* Exactly the other members of the lobby in question are told of a move.
THEOREM NoticesAreExact == Spec => NoticesReachTheGroup
<1> DEFINE Told(c) ==
      (group'[c] # group[c] /\ c \in Registered' /\ running') =>
        LET l == IF group'[c] = NoLobby THEN group[c] ELSE group'[c]
        IN  \A d \in Registered \ {c} : NewNotices(d) # {} <=> group[d] = l
<1>1. IInv /\ [Next]_vars => [\A c \in Registered : Told(c)]_vars
  <2> SUFFICES ASSUME IInv, Next, NEW c \in Registered,
                      group'[c] # group[c], c \in Registered', running',
                      NEW d \in Registered \ {c}
               PROVE  NewNotices(d) # {} <=>
                        group[d] = IF group'[c] = NoLobby THEN group[c] ELSE group'[c]
    OBVIOUS
  <2> USE DEF IInv
  <2>1. c \in Client
    BY RegisteredClients
  <2>2. ASSUME NEW e \in Client, NEW r \in Request, OnMessage(e, r) PROVE e = c
    <3>1. PICK g \in LobbyId : group' = [group EXCEPT ![e] = g]
      BY <2>2, MessageStep
    <3>2. QED
      BY <2>1, <3>1 DEF TypeOK
  <2>3. ~Abort
    BY DEF Abort
  <2>4. ASSUME NEW e \in Client, NEW i \in Id, OnConnect(e, i) PROVE FALSE
    <3>1. e # c /\ group' = [group EXCEPT ![e] = NoLobby]
      BY <2>4 DEF OnConnect
    <3>2. QED
      BY <2>1, <3>1 DEF TypeOK
  <2>5. ASSUME NEW e \in Client, OnDisconnect(e) PROVE FALSE
    <3>1. group' = [group EXCEPT ![e] = NoLobby]
      BY <2>5 DEF OnDisconnect
    <3>2. e = c
      BY <2>1, <3>1 DEF TypeOK
    <3>3. IInv'
      BY <2>5, DisconnectInv
    <3>4. id'[c] = NoId
      BY <2>1, <2>5, <3>2 DEF OnDisconnect, TypeOK
    <3>5. QED
      BY <2>1, <3>3, <3>4 DEF RegistryExact
  <2>6. ~Restart /\ \A e \in Client : ~OnWritable(e)
    BY DEF Restart, OnWritable
  <2>7. PICK r \in Request : OnMessage(c, r)
    BY <2>2, <2>3, <2>4, <2>5, <2>6 DEF Next, OnConnectCollision, OnMessageTail
  <2>8. QED
    BY <2>1, <2>7, MessageNotices
<1>2. QED
  BY <1>1, Invariant, PTL DEF Spec, NoticesReachTheGroup
=============================================================================
