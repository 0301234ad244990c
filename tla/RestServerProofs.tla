--------------------------- MODULE RestServerProofs ---------------------------
(***************************************************************************)
(* Safety of the web server and the REST server, for all connections,      *)
(* addresses, limits, packets and replies.                                 *)
(*                                                                         *)
(* RestListsAgree holds because each list follows the sockets              *)
(* (PlacesRight, SocketsRight), WaitingIsNotIdle because the timer of a    *)
(* connection never is older than the reply that waits for it (RepliesAge).*)
(*                                                                         *)
(* RequestsRouted needs no invariant: each resource looks up what a path   *)
(* names before it uses its member.  A route is served or not by its shape *)
(* (PlainServed, ..., IdWordIdServed); what a method answers is routed,    *)
(* case by case.                                                           *)
(***************************************************************************)
EXTENDS RestServer, RestResources, FiniteSetTheorems, TLAPS

SocketStates == {"unused", "encrypting", "open", "closed", "lost"}

Typed ==
    /\ m_useSsl \in BOOLEAN
    /\ socket \in [Connections -> SocketStates]
    /\ m_webServerClients \subseteq Addresses
    /\ m_connections \in [Addresses -> SUBSET Connections]
    /\ m_runningConnections \in [Connections -> Nat \cup {None}]
    /\ m_clientList \subseteq Connections
    /\ DOMAIN m_incompleteRequests = Connections
    /\ m_asyncReplies \in [Connections -> Replies \cup {None}]
    /\ connection \in [Replies -> Connections \cup {None}]
    /\ age \in [Replies -> Nat \cup {None}]
    /\ waiting \in [Kinds -> [Keys -> Replies \cup {None}]]
    /\ m_restClients \subseteq Connections

\* The places of an address are held by its own connections, not more than it may
\* have; one that holds none has no WebServerClient.
PlacesRight ==
    /\ \A a \in Addresses :
        /\ IsFiniteSet(m_connections[a]) /\ Occupied(a) <= MaxConnections
        /\ \A c \in m_connections[a] : AddressOf[c] = a
        /\ a \in m_webServerClients <=> m_connections[a] # {}
    /\ m_clientList = UNION {m_connections[a] : a \in Addresses}

\* An unused or closed connection holds no place, one that is open or encrypting does.
\* Without SSL none is lost.
SocketsRight ==
    \A c \in Connections :
        /\ socket[c] \in {"unused", "closed"} =>
              c \notin m_clientList /\ m_runningConnections[c] = None
        /\ socket[c] \in {"open", "encrypting"} =>
              c \in m_clientList /\ m_runningConnections[c] # None
        /\ ~m_useSsl => socket[c] \in {"unused", "open", "closed"}
        /\ m_incompleteRequests[c] # None => socket[c] = "open"
        /\ c \in m_restClients <=> socket[c] = "open"

\* A reply that waits for a connection is not overdue, and the connection's timer,
\* which its request has started anew, is not older.
RepliesAge ==
    /\ \A r \in Replies :
          age[r] # None => age[r] <= ReplyTimeout /\ connection[r] # None
    /\ \A c \in Connections : m_asyncReplies[c] # None =>
        LET r == m_asyncReplies[c] IN
        /\ connection[r] = c /\ age[r] # None
        /\ m_runningConnections[c] # None => m_runningConnections[c] <= age[r]

IInv == Typed /\ PlacesRight /\ SocketsRight /\ RepliesAge

-----------------------------------------------------------------------------
(* Facts about the operators *)

LEMMA AddressType == \A c \in Connections : AddressOf[c] \in Addresses
BY DEF Addresses

\* Nothing about the places changes when the lists of connections stay.
LEMMA PlacesStay ==
    ASSUME PlacesRight, UNCHANGED m_webServerClients, UNCHANGED m_connections,
           UNCHANGED m_clientList
    PROVE  PlacesRight'
BY DEF PlacesRight, Occupied

\* Replies whose data stay are as old as before, if no timer of a connection gets older.
LEMMA RepliesStay ==
    ASSUME RepliesAge, Typed, UNCHANGED m_asyncReplies, UNCHANGED connection, UNCHANGED age,
           \A c \in Connections :
              m_runningConnections'[c] \in {m_runningConnections[c], 0, None}
    PROVE  RepliesAge'
<1> USE WebServerAssumption, RestServerAssumption
<1> SUFFICES ASSUME NEW c \in Connections, m_asyncReplies[c] # None,
                    m_runningConnections'[c] # None
             PROVE  m_runningConnections'[c] <= age[m_asyncReplies[c]]
  BY DEF RepliesAge
<1>1. age[m_asyncReplies[c]] \in Nat
  BY DEF Typed, RepliesAge
<1>2. QED
  BY <1>1 DEF RepliesAge, Typed

LEMMA InitRight == Init => IInv
<1> USE WebServerAssumption, RestServerAssumption
<1> SUFFICES ASSUME Init PROVE IInv
  OBVIOUS
<1>1. Typed
  BY DEF Init, WebInit, Typed, SocketStates
<1>2. PlacesRight
  BY FS_EmptySet DEF Init, WebInit, PlacesRight, Occupied
<1>3. SocketsRight /\ RepliesAge
  BY DEF Init, WebInit, SocketsRight, RepliesAge
<1>4. QED
  BY <1>1, <1>2, <1>3 DEF IInv, Init

-----------------------------------------------------------------------------
(* Connections *)

LEMMA IncomingStep ==
    ASSUME IInv, NEW c \in Connections, IncomingConnection(c),
           m_restClients' = IF m_useSsl THEN m_restClients ELSE m_restClients \cup {c},
           UNCHANGED m_asyncReplies, UNCHANGED connection, UNCHANGED age, UNCHANGED waiting
    PROVE  IInv'
<1> USE WebServerAssumption, RestServerAssumption
<1> DEFINE a == AddressOf[c]
<1>1. a \in Addresses
  BY AddressType
<1>2. /\ socket[c] = "unused" /\ c \notin m_clientList
      /\ socket' = [socket EXCEPT ![c] = IF m_useSsl THEN "encrypting" ELSE "open"]
      /\ m_webServerClients' = m_webServerClients \cup {a}
      /\ m_connections' = [m_connections EXCEPT ![a] = m_connections[a] \cup {c}]
      /\ m_runningConnections' = [m_runningConnections EXCEPT ![c] = 0]
      /\ m_clientList' = m_clientList \cup {c}
      /\ UNCHANGED m_useSsl /\ UNCHANGED m_incompleteRequests
  BY DEF IncomingConnection, IInv, SocketsRight
<1>3. Typed'
  BY <1>1, <1>2 DEF IInv, Typed, SocketStates
<1>4. PlacesRight'
  <2>1. /\ m_connections'[a] = m_connections[a] \cup {c}
        /\ \A b \in Addresses \ {a} : m_connections'[b] = m_connections[b]
    BY <1>1, <1>2 DEF IInv, Typed
  <2>2. IsFiniteSet(m_connections'[a]) /\ Cardinality(m_connections'[a]) <= MaxConnections
    <3>1. IsFiniteSet(m_connections[a])
      BY <1>1 DEF IInv, PlacesRight
    <3>2. /\ Cardinality(m_connections[a]) \in Nat
          /\ m_connections[a] = {} => Cardinality(m_connections[a]) = 0
      BY <3>1, FS_CardinalityType, FS_EmptySet
    <3>3. Cardinality(m_connections[a]) < MaxConnections
      BY <1>1, <3>2 DEF IInv, PlacesRight, IncomingConnection, Occupied
    <3>4. /\ IsFiniteSet(m_connections[a] \cup {c})
          /\ Cardinality(m_connections[a] \cup {c})
                \in {Cardinality(m_connections[a]), Cardinality(m_connections[a]) + 1}
      BY <3>1, FS_AddElement, Zenon
    <3>5. Cardinality(m_connections[a] \cup {c}) \in Nat
      BY <3>4, FS_CardinalityType
    <3>6. QED
      BY <2>1, <3>2, <3>3, <3>4, <3>5
  <2>3. m_clientList' = UNION {m_connections'[b] : b \in Addresses}
    BY <1>1, <1>2, <2>1 DEF IInv, PlacesRight
  <2>4. QED
    BY <1>2, <2>1, <2>2, <2>3, ZenonT(40) DEF IInv, PlacesRight, Occupied
<1>5. SocketsRight'
  BY <1>2 DEF IInv, Typed, SocketsRight
<1>6. RepliesAge'
  BY <1>2, RepliesStay DEF IInv, Typed
<1>7. QED
  BY <1>3, <1>4, <1>5, <1>6 DEF IInv

LEMMA EncryptedStep ==
    ASSUME IInv, NEW c \in Connections, OnEncrypted(c), m_restClients' = m_restClients \cup {c},
           UNCHANGED m_asyncReplies, UNCHANGED connection, UNCHANGED age, UNCHANGED waiting
    PROVE  IInv'
<1> USE WebServerAssumption, RestServerAssumption
<1>1. /\ socket[c] = "encrypting" /\ socket' = [socket EXCEPT ![c] = "open"]
      /\ UNCHANGED m_webServerClients /\ UNCHANGED m_connections /\ UNCHANGED m_clientList
      /\ UNCHANGED <<m_useSsl, m_runningConnections, m_incompleteRequests>>
  BY DEF OnEncrypted, listVars
<1>2. Typed'
  BY <1>1 DEF IInv, Typed, SocketStates
<1>3. SocketsRight'
  BY <1>1 DEF IInv, Typed, SocketsRight
<1>4. PlacesRight' /\ RepliesAge'
  BY <1>1, PlacesStay, RepliesStay DEF IInv, Typed
<1>5. QED
  BY <1>2, <1>3, <1>4 DEF IInv

LEMMA DisconnectedStep ==
    ASSUME IInv, NEW c \in Connections, OnDisconnected(c), m_restClients' = m_restClients \ {c},
           UNCHANGED m_asyncReplies, UNCHANGED connection, UNCHANGED age, UNCHANGED waiting
    PROVE  IInv'
<1> USE WebServerAssumption, RestServerAssumption
<1> DEFINE a == AddressOf[c]
<1>1. a \in Addresses
  BY AddressType
<1>2. /\ socket[c] = "open" /\ socket' = [socket EXCEPT ![c] = "closed"]
      /\ m_connections' = [m_connections EXCEPT ![a] = m_connections[a] \ {c}]
      /\ m_webServerClients' = IF m_connections[a] = {c} THEN m_webServerClients \ {a}
                                ELSE m_webServerClients
      /\ m_runningConnections' = [m_runningConnections EXCEPT ![c] = None]
      /\ m_clientList' = m_clientList \ {c}
      /\ m_incompleteRequests' = [m_incompleteRequests EXCEPT ![c] = None]
      /\ UNCHANGED m_useSsl
  BY DEF OnDisconnected
<1>3. Typed'
  BY <1>1, <1>2 DEF IInv, Typed, SocketStates
<1>4. PlacesRight'
  <2>1. /\ m_connections'[a] = m_connections[a] \ {c}
        /\ \A b \in Addresses \ {a} : m_connections'[b] = m_connections[b]
    BY <1>1, <1>2 DEF IInv, Typed
  <2>2. IsFiniteSet(m_connections'[a]) /\ Cardinality(m_connections'[a]) <= MaxConnections
    <3>1. IsFiniteSet(m_connections[a]) /\ Cardinality(m_connections[a]) <= MaxConnections
      BY <1>1 DEF IInv, PlacesRight, Occupied
    <3>2. /\ m_connections'[a] \in SUBSET m_connections[a]
          /\ Cardinality(m_connections[a]) \in Nat
      BY <2>1, <3>1, FS_CardinalityType
    <3>3. /\ IsFiniteSet(m_connections'[a])
          /\ Cardinality(m_connections'[a]) <= Cardinality(m_connections[a])
      BY <3>1, <3>2, FS_Subset
    <3>4. Cardinality(m_connections'[a]) \in Nat
      BY <3>3, FS_CardinalityType
    <3>5. QED
      BY <3>1, <3>2, <3>3, <3>4
  <2>3. c \in m_connections[a] /\ \A b \in Addresses \ {a} : c \notin m_connections[b]
    BY <1>1, <1>2 DEF IInv, SocketsRight, PlacesRight
  <2>4. m_clientList' = UNION {m_connections'[b] : b \in Addresses}
    BY <1>1, <1>2, <2>1, <2>3 DEF IInv, PlacesRight
  <2>5. \A b \in Addresses : IsFiniteSet(m_connections'[b])
                            /\ Cardinality(m_connections'[b]) <= MaxConnections
    BY <2>1, <2>2 DEF IInv, PlacesRight, Occupied
  <2>6. \A b \in Addresses : \A d \in m_connections'[b] : AddressOf[d] = b
    BY <2>1 DEF IInv, PlacesRight
  <2>7. ASSUME NEW b \in Addresses
        PROVE  b \in m_webServerClients' <=> m_connections'[b] # {}
    <3>1. b \in m_webServerClients <=> m_connections[b] # {}
      BY DEF IInv, PlacesRight
    <3>2. CASE b # a
      BY <1>2, <2>1, <3>1, <3>2
    <3>3. CASE b = a /\ m_connections[a] = {c}
      BY <1>2, <2>1, <3>3
    <3>4. CASE b = a /\ m_connections[a] # {c}
      <4>1. m_connections[a] \ {c} # {}
        BY <2>3, <3>4
      <4>2. QED
        BY <1>2, <2>1, <2>3, <3>1, <3>4, <4>1
    <3>5. QED
      BY <3>2, <3>3, <3>4
  <2>8. QED
    BY <2>4, <2>5, <2>6, <2>7 DEF PlacesRight, Occupied
<1>5. SocketsRight'
  BY <1>2 DEF IInv, Typed, SocketsRight
<1>6. RepliesAge'
  BY <1>2, RepliesStay DEF IInv, Typed
<1>7. QED
  BY <1>3, <1>4, <1>5, <1>6 DEF IInv
\* A connection without SSL never is lost, and one that is keeps its place.
LEMMA LostStep ==
    ASSUME IInv, NEW c \in Connections, socket[c] \notin {"unused", "closed"},
           m_useSsl, socket[c] # "open",
           socket' = [socket EXCEPT ![c] = "lost"],
           \/ UNCHANGED m_runningConnections
           \/ m_runningConnections' = [m_runningConnections EXCEPT ![c] = None],
           UNCHANGED m_useSsl, UNCHANGED m_webServerClients, UNCHANGED m_connections,
           UNCHANGED m_clientList, UNCHANGED m_incompleteRequests,
           m_restClients' = m_restClients \ {c},
           UNCHANGED m_asyncReplies, UNCHANGED connection, UNCHANGED age, UNCHANGED waiting
    PROVE  IInv'
<1> USE WebServerAssumption, RestServerAssumption
<1>1. Typed'
  BY DEF IInv, Typed, SocketStates
<1>2. SocketsRight'
  BY DEF IInv, Typed, SocketsRight
<1>3. PlacesRight' /\ RepliesAge'
  BY PlacesStay, RepliesStay DEF IInv, Typed
<1>4. QED
  BY <1>1, <1>2, <1>3 DEF IInv

LEMMA GoesStep ==
    ASSUME IInv, NEW c \in Connections, ClientGoes(c)
    PROVE  IInv'
<1>1. /\ m_restClients' = m_restClients \ {c}
      /\ UNCHANGED m_asyncReplies /\ UNCHANGED connection /\ UNCHANGED age /\ UNCHANGED waiting
  BY DEF ClientGoes
<1>2. CASE OnDisconnected(c)
  BY <1>1, <1>2, DisconnectedStep
<1>3. CASE IdleTimeout(c) /\ socket[c] # "open"
  <2>1. /\ m_runningConnections[c] # None
        /\ socket' = [socket EXCEPT ![c] = "lost"]
        /\ m_runningConnections' = [m_runningConnections EXCEPT ![c] = None]
        /\ UNCHANGED m_useSsl /\ UNCHANGED m_webServerClients /\ UNCHANGED m_connections
        /\ UNCHANGED m_clientList /\ UNCHANGED m_incompleteRequests
    BY <1>3 DEF IdleTimeout, IdleFor
  <2>2. socket[c] \notin {"unused", "closed"} /\ m_useSsl
    BY <1>3, <2>1 DEF IInv, SocketsRight, Typed
  <2>3. QED
    BY <1>1, <1>3, <2>1, <2>2, LostStep
<1>4. CASE IdleTimeout(c) /\ socket[c] = "open"
  BY <1>1, <1>4, DisconnectedStep DEF IdleTimeout
<1>5. QED
  BY <1>2, <1>3, <1>4 DEF ClientGoes

LEMMA FailsStep ==
    ASSUME IInv, NEW c \in Connections, ConnectionFails(c)
    PROVE  IInv'
<1> USE WebServerAssumption, RestServerAssumption
<1>1. /\ UNCHANGED m_useSsl /\ UNCHANGED m_webServerClients /\ UNCHANGED m_connections
      /\ UNCHANGED m_clientList /\ UNCHANGED m_incompleteRequests
      /\ UNCHANGED m_runningConnections /\ UNCHANGED m_restClients
      /\ UNCHANGED m_asyncReplies /\ UNCHANGED connection /\ UNCHANGED age /\ UNCHANGED waiting
  BY DEF ConnectionFails, RejectConnection, HandshakeFails, listVars, replyVars
<1>2. CASE RejectConnection(c)
  <2>1. socket[c] = "unused" /\ socket' = [socket EXCEPT ![c] = "closed"]
    BY <1>2 DEF RejectConnection
  <2>2. Typed'
    BY <1>1, <2>1 DEF IInv, Typed, SocketStates
  <2>3. SocketsRight'
    BY <1>1, <2>1 DEF IInv, Typed, SocketsRight
  <2>4. QED
    BY <1>1, <2>2, <2>3, PlacesStay, RepliesStay DEF IInv, Typed
<1>3. CASE HandshakeFails(c)
  <2>1. socket[c] = "encrypting" /\ socket' = [socket EXCEPT ![c] = "lost"]
    BY <1>3 DEF HandshakeFails
  <2>2. m_useSsl /\ m_restClients' = m_restClients \ {c}
    BY <1>1, <2>1 DEF IInv, SocketsRight, Typed
  <2>3. QED
    BY <1>1, <2>1, <2>2, LostStep
<1>4. QED
  BY <1>2, <1>3 DEF ConnectionFails

-----------------------------------------------------------------------------
(* Requests *)

\* What a step may do that reads a packet of an open connection.
Reads(c) ==
    /\ socket[c] = "open" /\ DOMAIN m_incompleteRequests' = Connections
    /\ \A d \in Connections \ {c} : m_incompleteRequests'[d] = m_incompleteRequests[d]
    /\ \/ UNCHANGED m_runningConnections
       \/ m_runningConnections' = [m_runningConnections EXCEPT ![c] = 0]
    /\ UNCHANGED m_useSsl /\ UNCHANGED socket /\ UNCHANGED m_webServerClients
    /\ UNCHANGED m_connections /\ UNCHANGED m_clientList /\ UNCHANGED m_restClients

LEMMA ReadingIsRead ==
    ASSUME Typed, NEW c \in Connections, NEW p \in Packets, UNCHANGED m_restClients,
           ReadIncomplete(c, p) \/ ReadInvalid(c, p) \/ ReadValid(c, p)
    PROVE  Reads(c)
BY DEF Typed, ReadIncomplete, ReadInvalid, ReadValid, Reads, listVars

\* The lists stay right while a packet is read, whatever becomes of the replies.
LEMMA ReadsStep ==
    ASSUME IInv, NEW c \in Connections, Reads(c),
           m_asyncReplies' \in [Connections -> Replies \cup {None}],
           connection' \in [Replies -> Connections \cup {None}],
           age' \in [Replies -> Nat \cup {None}],
           waiting' \in [Kinds -> [Keys -> Replies \cup {None}]]
    PROVE  Typed' /\ PlacesRight' /\ SocketsRight'
<1> USE WebServerAssumption, RestServerAssumption
<1>1. Typed'
  BY DEF IInv, Typed, Reads
<1>2. PlacesRight'
  BY PlacesStay DEF IInv, Reads
<1>3. SocketsRight'
  BY DEF IInv, Typed, SocketsRight, Reads
<1>4. QED
  BY <1>1, <1>2, <1>3

LEMMA AtOnceStep ==
    ASSUME IInv, NEW c \in Connections, NEW p \in Packets, AnsweredAtOnce(c, p)
    PROVE  IInv'
<1>1. /\ UNCHANGED m_restClients /\ UNCHANGED m_asyncReplies /\ UNCHANGED connection
      /\ UNCHANGED age /\ UNCHANGED waiting
  BY DEF AnsweredAtOnce, replyVars
<1>2. Reads(c)
  BY <1>1, ReadingIsRead DEF AnsweredAtOnce, IInv
<1>3. Typed' /\ PlacesRight' /\ SocketsRight'
  BY <1>1, <1>2, ReadsStep DEF IInv, Typed
<1>4. RepliesAge'
  BY <1>1, <1>2, RepliesStay DEF Reads, IInv, Typed
<1>5. QED
  BY <1>3, <1>4 DEF IInv

\* A new reply begins to wait when the timer of its connection begins anew.
LEMMA RequestStep ==
    ASSUME IInv, NEW c \in Connections, NEW p \in Packets, NEW r \in Replies,
           NEW kind \in Kinds, NEW key \in Keys, ProcessHttpRequest(c, p, r, kind, key)
    PROVE  IInv'
<1> USE WebServerAssumption, RestServerAssumption
<1>1. /\ connection[r] = None
      /\ connection' = [connection EXCEPT ![r] = c]
      /\ age' = [age EXCEPT ![r] = 0]
      /\ m_asyncReplies' = [m_asyncReplies EXCEPT ![c] = r]
      /\ m_runningConnections' = [m_runningConnections EXCEPT ![c] = 0]
      /\ ReadValid(c, p) /\ UNCHANGED m_restClients
  BY DEF ProcessHttpRequest, ReadValid
<1>2. waiting' \in [Kinds -> [Keys -> Replies \cup {None}]]
  BY DEF ProcessHttpRequest, IInv, Typed
<1>3. Typed' /\ PlacesRight' /\ SocketsRight'
  <2>1. Reads(c)
    BY <1>1, ReadingIsRead DEF IInv
  <2>2. /\ m_asyncReplies' \in [Connections -> Replies \cup {None}]
        /\ connection' \in [Replies -> Connections \cup {None}]
        /\ age' \in [Replies -> Nat \cup {None}]
    BY <1>1 DEF IInv, Typed
  <2>3. QED
    BY <1>2, <2>1, <2>2, ReadsStep
<1>4. RepliesAge'
  <2>1. \A s \in Replies : age'[s] # None => age'[s] <= ReplyTimeout /\ connection'[s] # None
    BY <1>1 DEF IInv, Typed, RepliesAge
  <2>2. ASSUME NEW d \in Connections, m_asyncReplies'[d] # None
        PROVE  /\ connection'[m_asyncReplies'[d]] = d /\ age'[m_asyncReplies'[d]] # None
               /\ m_runningConnections'[d] # None
                     => m_runningConnections'[d] <= age'[m_asyncReplies'[d]]
    <3>1. CASE d = c
      BY <1>1, <3>1 DEF IInv, Typed
    <3>2. CASE d # c
      <4>1. m_asyncReplies'[d] = m_asyncReplies[d] /\ m_asyncReplies[d] \in Replies
        BY <1>1, <2>2, <3>2 DEF IInv, Typed
      <4>2. m_asyncReplies[d] # r
        BY <1>1, <2>2, <4>1 DEF IInv, RepliesAge
      <4>3. QED
        BY <1>1, <2>2, <3>2, <4>1, <4>2 DEF IInv, Typed, RepliesAge
    <3>3. QED
      BY <3>1, <3>2
  <2>3. QED
    BY <2>1, <2>2 DEF RepliesAge
<1>5. QED
  BY <1>3, <1>4 DEF IInv

-----------------------------------------------------------------------------
(* Answers *)

\* A reply that goes is no longer the one its connection waits for.
LEMMA FinishedStep ==
    ASSUME IInv, NEW r \in Replies, NEW what, age[r] # None, AsyncReplyFinished(r, what),
           UNCHANGED webVars, UNCHANGED m_restClients, UNCHANGED connection,
           waiting' \in [Kinds -> [Keys -> Replies \cup {None}]]
    PROVE  IInv'
<1> USE WebServerAssumption, RestServerAssumption
<1> DEFINE c == connection[r]
<1>1. c \in Connections /\ age' = [age EXCEPT ![r] = None]
  BY DEF IInv, Typed, RepliesAge, AsyncReplyFinished
<1>2. m_asyncReplies' = IF m_asyncReplies[c] = r THEN [m_asyncReplies EXCEPT ![c] = None]
                        ELSE m_asyncReplies
  BY DEF AsyncReplyFinished
<1>3. /\ UNCHANGED m_useSsl /\ UNCHANGED socket /\ UNCHANGED m_webServerClients
      /\ UNCHANGED m_connections /\ UNCHANGED m_runningConnections
      /\ UNCHANGED m_clientList /\ UNCHANGED m_incompleteRequests
  BY DEF webVars, listVars
<1>4. Typed'
  BY <1>1, <1>2, <1>3 DEF IInv, Typed
<1>5. PlacesRight' /\ SocketsRight'
  BY <1>3, PlacesStay DEF IInv, SocketsRight
<1>6. RepliesAge'
  <2>1. \A s \in Replies : age'[s] # None => age'[s] <= ReplyTimeout /\ connection'[s] # None
    BY <1>1 DEF IInv, Typed, RepliesAge
  <2>2. ASSUME NEW d \in Connections, m_asyncReplies'[d] # None
        PROVE  /\ m_asyncReplies'[d] = m_asyncReplies[d]
               /\ m_asyncReplies[d] \in Replies /\ m_asyncReplies[d] # r
    <3>1. m_asyncReplies'[d] = m_asyncReplies[d] /\ m_asyncReplies[d] \in Replies
      BY <1>1, <1>2, <2>2 DEF IInv, Typed
    <3>2. CASE m_asyncReplies[d] = r
      <4>1. d = c
        BY <2>2, <3>1, <3>2 DEF IInv, RepliesAge
      <4>2. m_asyncReplies'[c] = None
        BY <1>1, <1>2, <3>2, <4>1 DEF IInv, Typed
      <4>3. QED
        BY <2>2, <4>1, <4>2
    <3>3. QED
      BY <3>1, <3>2
  <2>3. ASSUME NEW d \in Connections, m_asyncReplies'[d] # None
        PROVE  /\ connection'[m_asyncReplies'[d]] = d /\ age'[m_asyncReplies'[d]] # None
               /\ m_runningConnections'[d] # None
                     => m_runningConnections'[d] <= age'[m_asyncReplies'[d]]
    <3>1. /\ m_asyncReplies'[d] = m_asyncReplies[d] /\ m_asyncReplies[d] # None
          /\ m_asyncReplies[d] \in Replies /\ m_asyncReplies[d] # r
      BY <2>2, <2>3
    <3>2. age'[m_asyncReplies[d]] = age[m_asyncReplies[d]]
      BY <1>1, <3>1 DEF IInv, Typed
    <3>3. QED
      BY <1>3, <3>1, <3>2 DEF IInv, RepliesAge
  <2>4. QED
    BY <2>1, <2>3 DEF RepliesAge
<1>7. QED
  BY <1>4, <1>5, <1>6 DEF IInv

LEMMA TimeoutStep ==
    ASSUME IInv, NEW r \in Replies, Timeout(r)
    PROVE  IInv'
<1>1. /\ age[r] # None /\ AsyncReplyFinished(r, "timeout")
      /\ UNCHANGED webVars /\ UNCHANGED m_restClients /\ UNCHANGED connection
      /\ UNCHANGED waiting
  BY DEF Timeout, Due
<1>2. QED
  BY <1>1, FinishedStep DEF IInv, Typed

LEMMA ResultStep ==
    ASSUME IInv, NEW kind \in Kinds, NEW key \in Keys, Result(kind, key)
    PROVE  IInv'
<1>1. PICK r : r = waiting[kind][key]
  OBVIOUS
<1>2. /\ r # None /\ age[r] # None /\ AsyncReplyFinished(r, "result")
      /\ waiting' = [waiting EXCEPT ![kind][key] = None]
      /\ UNCHANGED webVars /\ UNCHANGED m_restClients /\ UNCHANGED connection
  BY <1>1 DEF Result
<1>3. r \in Replies
  BY <1>1, <1>2 DEF IInv, Typed
<1>4. waiting' \in [Kinds -> [Keys -> Replies \cup {None}]]
  BY <1>2 DEF IInv, Typed
<1>5. QED
  BY <1>2, <1>3, <1>4, FinishedStep

LEMMA PairingStep ==
    ASSUME IInv, NEW key \in SharedKeys["pair"], PairingFinished(key)
    PROVE  IInv'
<1> USE WebServerAssumption, RestServerAssumption
<1>1. PICK r : r = waiting["pair"][key]
  OBVIOUS
<1>2. /\ r # None
      /\ waiting' = [waiting EXCEPT !["pair"][key] = None, !["add"][r] = r]
      /\ UNCHANGED webVars /\ UNCHANGED m_restClients /\ UNCHANGED m_asyncReplies
      /\ UNCHANGED connection /\ UNCHANGED age
  BY <1>1 DEF PairingFinished
<1>3. key \in Keys /\ "pair" \in Kinds /\ "add" \in Kinds
  BY DEF Keys, Kinds
<1>4. r \in Replies
  BY <1>1, <1>2, <1>3 DEF IInv, Typed
<1>5. waiting' \in [Kinds -> [Keys -> Replies \cup {None}]]
  BY <1>2, <1>4 DEF IInv, Typed
<1>6. UNCHANGED m_webServerClients /\ UNCHANGED m_connections /\ UNCHANGED m_clientList
  BY <1>2 DEF webVars, listVars
<1>7. PlacesRight'
  BY <1>6, PlacesStay DEF IInv
<1>8. Typed'
  BY <1>2, <1>5 DEF IInv, Typed, webVars, listVars
<1>9. SocketsRight' /\ RepliesAge'
  BY <1>2 DEF IInv, SocketsRight, RepliesAge, webVars, listVars
<1>10. QED
  BY <1>7, <1>8, <1>9 DEF IInv

\* Time passes for a reply and for its connection alike, while no reply is due.
LEMMA TickStep ==
    ASSUME IInv, Tick
    PROVE  IInv'
<1> USE WebServerAssumption, RestServerAssumption
<1>1. /\ m_runningConnections' =
             [c \in Connections |-> IF m_runningConnections[c] = None THEN None
                                    ELSE m_runningConnections[c] + 1]
      /\ age' = [r \in Replies |-> IF age[r] = None THEN None ELSE age[r] + 1]
      /\ UNCHANGED m_useSsl /\ UNCHANGED socket /\ UNCHANGED m_webServerClients
      /\ UNCHANGED m_connections /\ UNCHANGED m_clientList /\ UNCHANGED m_incompleteRequests
      /\ UNCHANGED m_restClients /\ UNCHANGED m_asyncReplies /\ UNCHANGED connection
      /\ UNCHANGED waiting
  BY DEF Tick, Older
<1>2. Typed'
  BY <1>1 DEF IInv, Typed
<1>3. PlacesRight'
  BY <1>1, PlacesStay DEF IInv
<1>4. SocketsRight'
  <2>1. \A c \in Connections : m_runningConnections'[c] = None <=> m_runningConnections[c] = None
    BY <1>1 DEF IInv, Typed
  <2>2. QED
    BY <1>1, <2>1 DEF IInv, SocketsRight
<1>5. RepliesAge'
  <2>1. ASSUME NEW r \in Replies, age'[r] # None
        PROVE  /\ age[r] # None /\ age[r] \in Nat
               /\ age'[r] = age[r] + 1 /\ age'[r] <= ReplyTimeout
    <3>1. age[r] # None /\ age[r] \in Nat /\ age'[r] = age[r] + 1
      BY <1>1, <2>1 DEF IInv, Typed
    <3>2. ~(age[r] >= ReplyTimeout)
      BY <3>1 DEF Tick, Due
    <3>3. QED
      BY <3>1, <3>2
  <2>2. \A r \in Replies : age'[r] # None => age'[r] <= ReplyTimeout /\ connection'[r] # None
    BY <1>1, <2>1 DEF IInv, RepliesAge
  <2>3. ASSUME NEW c \in Connections, m_asyncReplies'[c] # None
        PROVE  /\ connection'[m_asyncReplies'[c]] = c /\ age'[m_asyncReplies'[c]] # None
               /\ m_runningConnections'[c] # None
                     => m_runningConnections'[c] <= age'[m_asyncReplies'[c]]
    <3>1. /\ m_asyncReplies'[c] = m_asyncReplies[c] /\ m_asyncReplies[c] \in Replies
          /\ connection[m_asyncReplies[c]] = c /\ age[m_asyncReplies[c]] \in Nat
          /\ m_runningConnections[c] # None
                => m_runningConnections[c] <= age[m_asyncReplies[c]]
      BY <1>1, <2>3 DEF IInv, Typed, RepliesAge
    <3>2. age'[m_asyncReplies[c]] = age[m_asyncReplies[c]] + 1
      BY <1>1, <3>1
    <3>3. m_runningConnections'[c] # None =>
             /\ m_runningConnections[c] # None /\ m_runningConnections[c] \in Nat
             /\ m_runningConnections'[c] = m_runningConnections[c] + 1
      BY <1>1 DEF IInv, Typed
    <3>4. QED
      BY <1>1, <3>1, <3>2, <3>3
  <2>4. QED
    BY <2>2, <2>3 DEF RepliesAge
<1>6. QED
  BY <1>2, <1>3, <1>4, <1>5 DEF IInv

LEMMA StepRight == IInv /\ [Next]_vars => IInv'
<1> SUFFICES ASSUME IInv, [Next]_vars PROVE IInv'
  OBVIOUS
<1>1. ASSUME NEW c \in Connections, ClientConnects(c) PROVE IInv'
  <2>1. /\ UNCHANGED m_asyncReplies /\ UNCHANGED connection /\ UNCHANGED age
        /\ UNCHANGED waiting
    BY <1>1 DEF ClientConnects
  <2>2. QED
    BY <1>1, <2>1, IncomingStep, EncryptedStep DEF ClientConnects
<1>2. ASSUME NEW c \in Connections, NEW p \in Packets, NEW r \in Replies,
             NEW kind \in Kinds, NEW key \in Keys, ProcessHttpRequest(c, p, r, kind, key)
      PROVE  IInv'
  BY <1>2, RequestStep
<1>3. CASE UNCHANGED vars
  BY <1>3 DEF vars, webVars, listVars, replyVars, IInv, Typed, PlacesRight, Occupied,
              SocketsRight, RepliesAge
<1>4. QED
  BY <1>1, <1>2, <1>3, GoesStep, FailsStep, AtOnceStep, TimeoutStep, ResultStep, PairingStep,
     TickStep
  DEF Next, Keys

-----------------------------------------------------------------------------
(* Theorems *)

\* The inductive invariant holds in every state of the two servers.
THEOREM Invariance == Spec => []IInv
<1>1. Init => IInv
  BY InitRight
<1>2. IInv /\ [Next]_vars => IInv'
  BY StepRight
<1>3. QED
  BY <1>1, <1>2, PTL DEF Spec

\* The lists of the two servers agree, for every number of connections, addresses
\* and replies and every limit.
THEOREM RestListsAgreeCorrect == Spec => []RestListsAgree
<1> USE WebServerAssumption, RestServerAssumption
<1>1. IInv => RestListsAgree
  <2> SUFFICES ASSUME IInv PROVE RestListsAgree
    OBVIOUS
  <2>1. ~m_useSsl => ClientsHaveConnections
    BY DEF IInv, Typed, PlacesRight, SocketsRight, ClientsHaveConnections
  <2>2. \A a \in Addresses :
            /\ Occupied(a) <= MaxConnections
            /\ \A c \in m_connections[a] : AddressOf[c] = a
            /\ m_connections[a] # {} => a \in m_webServerClients
    BY DEF IInv, PlacesRight
  <2>3. \A c \in Connections :
            /\ socket[c] = "open" => c \in m_clientList /\ m_runningConnections[c] # None
            /\ m_incompleteRequests[c] # None => socket[c] = "open"
    BY DEF IInv, SocketsRight
  <2>4. m_restClients = {c \in Connections : socket[c] = "open"}
    BY DEF IInv, Typed, SocketsRight
  <2>5. QED
    BY <2>1, <2>2, <2>3, <2>4
    DEF RestListsAgree, ListsAgree, IInv, PlacesRight, RepliesAge, Typed
<1>2. QED
  BY <1>1, Invariance, PTL

\* The idle timer of a connection never fires while the connection waits for an
\* answer.
THEOREM WaitingIsNotIdleCorrect == Spec => WaitingIsNotIdle
<1> USE WebServerAssumption, RestServerAssumption
<1>1. IInv => \A c \in Connections :
                 /\ m_runningConnections[c] # None
                 /\ m_runningConnections[c] >= ConnectionTimeout
                 => m_asyncReplies[c] = None
  <2> SUFFICES ASSUME IInv, NEW c \in Connections, m_runningConnections[c] # None,
                      m_asyncReplies[c] # None
               PROVE  ~(m_runningConnections[c] >= ConnectionTimeout)
    OBVIOUS
  <2>1. /\ m_asyncReplies[c] \in Replies /\ m_runningConnections[c] \in Nat
        /\ age[m_asyncReplies[c]] \in Nat
        /\ m_runningConnections[c] <= age[m_asyncReplies[c]]
        /\ age[m_asyncReplies[c]] <= ReplyTimeout
    BY DEF IInv, Typed, RepliesAge
  <2>2. QED
    BY <2>1
<1>2. IInv => [\A c \in Connections :
        m_runningConnections[c] # None /\ m_runningConnections[c] >= ConnectionTimeout
        /\ m_runningConnections'[c] = None
        => m_asyncReplies[c] = None]_vars
  BY <1>1
<1>3. QED
  BY <1>2, Invariance, PTL DEF WaitingIsNotIdle

-----------------------------------------------------------------------------
(* The routes of the REST resources *)

\* A route serves a request that has its method and its pattern, if all it names is there.
LEMMA ServedMeans ==
    ASSUME NEW r, NEW pattern, NEW operation, <<r.method, pattern, operation>> \in Routes
    PROVE  <<r.method, pattern, operation>> \in Served(r) <=>
             /\ Len(r.tokens) >= 3
             /\ MatchesRoute(pattern, r.tokens)
             /\ Exists(pattern[1], NamedIds(pattern, r.tokens), r.tokens)
<1> DEFINE route == <<r.method, pattern, operation>>
<1>1. route[1] = r.method /\ route[2] = pattern
  OBVIOUS
<1> HIDE DEF route
<1>2. route \in Routes
  BY DEF route
<1>3. route \in Served(r) <=>
             /\ Len(r.tokens) >= 3
             /\ MatchesRoute(pattern, r.tokens)
             /\ Exists(pattern[1], NamedIds(pattern, r.tokens), r.tokens)
  BY <1>1, <1>2, Zenon DEF Served
<1>4. QED
  BY <1>3 DEF route

\* The third token of a path names the resource.
LEMMA ResourceMatches ==
    ASSUME NEW route \in Routes, NEW tokens, MatchesRoute(route[2], tokens)
    PROVE  tokens[3] = route[2][1]
BY DEF Routes, MatchesRoute

LEMMA ServedRoute ==
    ASSUME NEW r, NEW route \in Served(r)
    PROVE  route \in Routes /\ route[1] = r.method /\ route[2][1] = r.tokens[3]
BY ResourceMatches DEF Served

\* The five shapes of patterns: which paths match, what is named, and when it is served
LEMMA PlainMatches ==
    ASSUME NEW resource, NEW tokens, resource # "id", Len(tokens) \in Nat
    PROVE  MatchesRoute(<<resource>>, tokens) <=>
             Len(tokens) = 3 /\ tokens[3] = resource
BY DEF MatchesRoute

LEMMA PlainNamed ==
    ASSUME NEW resource, NEW tokens, resource # "id"
    PROVE  NamedIds(<<resource>>, tokens) = <<>>
BY DEF NamedIds

LEMMA PlainServed ==
    ASSUME NEW r, Len(r.tokens) \in Nat, NEW resource, NEW operation, resource # "id",
           <<r.method, <<resource>>, operation>> \in Routes
    PROVE  <<r.method, <<resource>>, operation>> \in Served(r) <=>
             /\ Len(r.tokens) = 3 /\ r.tokens[3] = resource

<1> DEFINE pattern == <<resource>>
           ids == <<>>
<1>1. pattern[1] = resource
  OBVIOUS
<1>2. NamedIds(pattern, r.tokens) = ids
  BY PlainNamed
<1>3. MatchesRoute(pattern, r.tokens) <=>
             Len(r.tokens) = 3 /\ r.tokens[3] = resource
  BY PlainMatches
<1>4. Exists(resource, ids, r.tokens) <=> TRUE
  BY DEF Exists
<1> HIDE DEF ids, pattern
<1>5. <<r.method, pattern, operation>> \in Routes
  BY DEF pattern
<1>6. <<r.method, pattern, operation>> \in Served(r) <=>
             /\ Len(r.tokens) >= 3
             /\ MatchesRoute(pattern, r.tokens)
             /\ Exists(resource, ids, r.tokens)
  BY <1>1, <1>2, <1>5, ServedMeans, Zenon
<1>7. QED
  BY <1>3, <1>4, <1>6 DEF pattern

LEMMA WordMatches ==
    ASSUME NEW resource, NEW word, NEW tokens, resource # "id", word # "id", Len(tokens) \in Nat
    PROVE  MatchesRoute(<<resource, word>>, tokens) <=>
             Len(tokens) = 4 /\ tokens[3] = resource /\ tokens[4] = word
BY DEF MatchesRoute

LEMMA WordNamed ==
    ASSUME NEW resource, NEW word, NEW tokens, resource # "id", word # "id"
    PROVE  NamedIds(<<resource, word>>, tokens) = <<>>
BY DEF NamedIds

LEMMA WordServed ==
    ASSUME NEW r, Len(r.tokens) \in Nat, NEW resource, NEW word, NEW operation,
           resource # "id", word # "id",
           <<r.method, <<resource, word>>, operation>> \in Routes
    PROVE  <<r.method, <<resource, word>>, operation>> \in Served(r) <=>
             /\ Len(r.tokens) = 4 /\ r.tokens[3] = resource /\ r.tokens[4] = word

<1> DEFINE pattern == <<resource, word>>
           ids == <<>>
<1>1. pattern[1] = resource
  OBVIOUS
<1>2. NamedIds(pattern, r.tokens) = ids
  BY WordNamed
<1>3. MatchesRoute(pattern, r.tokens) <=>
             Len(r.tokens) = 4 /\ r.tokens[3] = resource /\ r.tokens[4] = word
  BY WordMatches
<1>4. Exists(resource, ids, r.tokens) <=> TRUE
  BY DEF Exists
<1> HIDE DEF ids, pattern
<1>5. <<r.method, pattern, operation>> \in Routes
  BY DEF pattern
<1>6. <<r.method, pattern, operation>> \in Served(r) <=>
             /\ Len(r.tokens) >= 3
             /\ MatchesRoute(pattern, r.tokens)
             /\ Exists(resource, ids, r.tokens)
  BY <1>1, <1>2, <1>5, ServedMeans, Zenon
<1>7. QED
  BY <1>3, <1>4, <1>6 DEF pattern

LEMMA IdMatches ==
    ASSUME NEW resource, NEW tokens, resource # "id", Len(tokens) \in Nat
    PROVE  MatchesRoute(<<resource, "id">>, tokens) <=>
             Len(tokens) = 4 /\ tokens[3] = resource /\ tokens[4] \in Ids
BY DEF MatchesRoute

LEMMA IdNamed ==
    ASSUME NEW resource, NEW tokens, resource # "id"
    PROVE  NamedIds(<<resource, "id">>, tokens) = <<tokens[4]>>
BY DEF NamedIds

LEMMA IdServed ==
    ASSUME NEW r, Len(r.tokens) \in Nat, NEW resource, NEW operation, resource # "id",
           <<r.method, <<resource, "id">>, operation>> \in Routes
    PROVE  <<r.method, <<resource, "id">>, operation>> \in Served(r) <=>
             /\ Len(r.tokens) = 4 /\ r.tokens[3] = resource /\ r.tokens[4] \in Ids
             /\ r.tokens[4] \in There(resource)
<1> DEFINE pattern == <<resource, "id">>
           ids == <<r.tokens[4]>>
<1>1. pattern[1] = resource
  OBVIOUS
<1>2. NamedIds(pattern, r.tokens) = ids
  BY IdNamed
<1>3. MatchesRoute(pattern, r.tokens) <=>
             Len(r.tokens) = 4 /\ r.tokens[3] = resource /\ r.tokens[4] \in Ids
  BY IdMatches
<1>4. Exists(resource, ids, r.tokens) <=> r.tokens[4] \in There(resource)
  BY DEF Exists
<1> HIDE DEF ids, pattern
<1>5. <<r.method, pattern, operation>> \in Routes
  BY DEF pattern
<1>6. <<r.method, pattern, operation>> \in Served(r) <=>
             /\ Len(r.tokens) >= 3
             /\ MatchesRoute(pattern, r.tokens)
             /\ Exists(resource, ids, r.tokens)
  BY <1>1, <1>2, <1>5, ServedMeans, Zenon
<1>7. QED
  BY <1>3, <1>4, <1>6 DEF pattern

LEMMA IdWordMatches ==
    ASSUME NEW resource, NEW word, NEW tokens, resource # "id", word # "id", Len(tokens) \in Nat
    PROVE  MatchesRoute(<<resource, "id", word>>, tokens) <=>
             /\ Len(tokens) = 5 /\ tokens[3] = resource
             /\ tokens[4] \in Ids /\ tokens[5] = word
BY DEF MatchesRoute

LEMMA IdWordNamed ==
    ASSUME NEW resource, NEW word, NEW tokens, resource # "id", word # "id"
    PROVE  NamedIds(<<resource, "id", word>>, tokens) = <<tokens[4]>>
BY DEF NamedIds

LEMMA IdWordServed ==
    ASSUME NEW r, Len(r.tokens) \in Nat, NEW resource, NEW word, NEW operation,
           resource # "id", word # "id",
           <<r.method, <<resource, "id", word>>, operation>> \in Routes
    PROVE  <<r.method, <<resource, "id", word>>, operation>> \in Served(r) <=>
             /\ Len(r.tokens) = 5 /\ r.tokens[3] = resource
             /\ r.tokens[4] \in Ids /\ r.tokens[5] = word
             /\ r.tokens[4] \in There(resource)
<1> DEFINE pattern == <<resource, "id", word>>
           ids == <<r.tokens[4]>>
<1>1. pattern[1] = resource
  OBVIOUS
<1>2. NamedIds(pattern, r.tokens) = ids
  BY IdWordNamed
<1>3. MatchesRoute(pattern, r.tokens) <=>
             /\ Len(r.tokens) = 5 /\ r.tokens[3] = resource
             /\ r.tokens[4] \in Ids /\ r.tokens[5] = word
  BY IdWordMatches
<1>4. Exists(resource, ids, r.tokens) <=> r.tokens[4] \in There(resource)
  BY DEF Exists
<1> HIDE DEF ids, pattern
<1>5. <<r.method, pattern, operation>> \in Routes
  BY DEF pattern
<1>6. <<r.method, pattern, operation>> \in Served(r) <=>
             /\ Len(r.tokens) >= 3
             /\ MatchesRoute(pattern, r.tokens)
             /\ Exists(resource, ids, r.tokens)
  BY <1>1, <1>2, <1>5, ServedMeans, Zenon
<1>7. QED
  BY <1>3, <1>4, <1>6 DEF pattern

LEMMA IdWordIdMatches ==
    ASSUME NEW resource, NEW word, NEW tokens, resource # "id", word # "id", Len(tokens) \in Nat
    PROVE  MatchesRoute(<<resource, "id", word, "id">>, tokens) <=>
             /\ Len(tokens) = 6 \/ (resource = "devices" /\ Len(tokens) > 6)
             /\ tokens[3] = resource /\ tokens[4] \in Ids
             /\ tokens[5] = word /\ tokens[6] \in Ids
BY DEF MatchesRoute

LEMMA IdWordIdNamed ==
    ASSUME NEW resource, NEW word, NEW tokens, resource # "id", word # "id"
    PROVE  NamedIds(<<resource, "id", word, "id">>, tokens) = <<tokens[4], tokens[6]>>
BY DEF NamedIds

LEMMA IdWordIdServed ==
    ASSUME NEW r, Len(r.tokens) \in Nat, NEW resource, NEW word, NEW operation,
           resource # "id", word # "id",
           <<r.method, <<resource, "id", word, "id">>, operation>> \in Routes
    PROVE  <<r.method, <<resource, "id", word, "id">>, operation>> \in Served(r) <=>
             /\ Len(r.tokens) = 6 \/ (resource = "devices" /\ Len(r.tokens) > 6)
             /\ r.tokens[3] = resource /\ r.tokens[4] \in Ids
             /\ r.tokens[5] = word /\ r.tokens[6] \in Ids
             /\ r.tokens[4] \in There(resource)
               /\ r.tokens[6] \in TypesOf(resource, r.tokens[4], word)
<1> DEFINE pattern == <<resource, "id", word, "id">>
           ids == <<r.tokens[4], r.tokens[6]>>
<1>1. pattern[1] = resource
  OBVIOUS
<1>2. NamedIds(pattern, r.tokens) = ids
  BY IdWordIdNamed
<1>3. MatchesRoute(pattern, r.tokens) <=>
             /\ Len(r.tokens) = 6 \/ (resource = "devices" /\ Len(r.tokens) > 6)
             /\ r.tokens[3] = resource /\ r.tokens[4] \in Ids
             /\ r.tokens[5] = word /\ r.tokens[6] \in Ids
  BY IdWordIdMatches
<1>4. Exists(resource, ids, r.tokens) <=> r.tokens[4] \in There(resource)
        /\ r.tokens[6] \in TypesOf(resource, r.tokens[4], r.tokens[5])
  BY DEF Exists
<1> HIDE DEF ids, pattern
<1>5. <<r.method, pattern, operation>> \in Routes
  BY DEF pattern
<1>6. <<r.method, pattern, operation>> \in Served(r) <=>
             /\ Len(r.tokens) >= 3
             /\ MatchesRoute(pattern, r.tokens)
             /\ Exists(resource, ids, r.tokens)
  BY <1>1, <1>2, <1>5, ServedMeans, Zenon
<1>7. QED
  BY <1>3, <1>4, <1>6 DEF pattern

\* Nothing is served on something that is not there.
LEMMA NothingThere ==
    ASSUME NEW r, NEW n \in Nat, n = Len(r.tokens), n >= 4,
           r.tokens[4] \notin There(r.tokens[3]), r.tokens[4] \notin PairingWords
    PROVE  Served(r) = {}
<1> SUFFICES ASSUME NEW route \in Served(r) PROVE FALSE
  OBVIOUS
<1> DEFINE pattern == route[2]
<1>1. MatchesRoute(pattern, r.tokens) /\ Exists(pattern[1], NamedIds(pattern, r.tokens), r.tokens)
  BY DEF Served
<1>2. pattern[1] = r.tokens[3]
  BY ServedRoute
<1>3. \/ Len(pattern) = 1 /\ pattern[1] # "devices"
      \/ Len(pattern) = 1 /\ pattern[1] = "devices"
      \/ Len(pattern) = 2 /\ pattern[2] \in {"pair", "confirmpairing"} /\ 2 \in DOMAIN pattern
      \/ Len(pattern) \in {2, 3, 4} /\ pattern[2] = "id"
  BY ServedRoute DEF Routes
<1> HIDE DEF pattern
<1>4. CASE Len(pattern) = 1
  BY <1>1, <1>4 DEF MatchesRoute
<1>5. CASE Len(pattern) = 2 /\ pattern[2] \in {"pair", "confirmpairing"} /\ 2 \in DOMAIN pattern
  <2>1. r.tokens[2 + 2] = pattern[2]
    BY <1>1, <1>5 DEF MatchesRoute
  <2>2. QED
    BY <1>5, <2>1 DEF PairingWords
<1>6. CASE Len(pattern) \in {2, 3, 4} /\ pattern[2] = "id"
  <2>1. NamedIds(pattern, r.tokens) \in {<<r.tokens[4]>>, <<r.tokens[4], r.tokens[6]>>}
    BY <1>6 DEF NamedIds
  <2>2. Len(NamedIds(pattern, r.tokens)) >= 1 /\ NamedIds(pattern, r.tokens)[1] = r.tokens[4]
    BY <2>1
  <2>3. QED
    BY <1>1, <1>2, <2>2 DEF Exists
<1>7. QED
  BY <1>3, <1>4, <1>5, <1>6

-----------------------------------------------------------------------------
(* Answers *)

\* Answers that are routed: an operation, a refusal, the answer to OPTIONS, a null pointer
LEMMA RoutedTo ==
    ASSUME NEW r, NEW pattern, NEW operation, NEW result,
           <<r.method, pattern, operation>> \in Served(r),
           operation \notin {"none", "cors"},
           result.operation = operation, result.on = NamedIds(pattern, r.tokens)
    PROVE  Routed(r, result)
<1>1. <<r.method, pattern, operation>>[2] = pattern
        /\ <<r.method, pattern, operation>>[3] = operation
  OBVIOUS
<1>2. result # Undefined
  BY DEF Undefined
<1>3. \E route \in Served(r) : /\ result.operation = route[3]
                               /\ result.on = NamedIds(route[2], r.tokens)
  BY <1>1, Zenon
<1>4. QED
  BY <1>2, <1>3, Zenon DEF Routed

LEMMA RoutedAnswer ==
    ASSUME NEW r, NEW status \in {"BadRequest", "NotFound", "NotImplemented"},
           status = "BadRequest" \/ r.query = "null" \/ Served(r) = {}
    PROVE  Routed(r, Answer(status))
BY DEF Routed, Answer, Undefined, Status

LEMMA RoutedCors ==
    ASSUME NEW r
    PROVE  Routed(r, Cors)
BY DEF Routed, Cors, Done, Undefined

LEMMA RoutedUndefined ==
    ASSUME NEW r, Served(r) = {}, r.tokens[4] \in PairingWords
    PROVE  Routed(r, Undefined)
BY DEF Routed, Undefined

\* An operation that succeeds, fails or is finished later is the same operation.
LEMMA Tries ==
    ASSUME NEW operation, NEW on, NEW errors, NEW result,
           \/ result = Done(operation, on)
           \/ result \in Tried(operation, on, errors)
           \/ result \in TriedLater(operation, on, errors)
    PROVE  result.operation = operation /\ result.on = on
BY DEF Tried, TriedLater, Done, Failed, Later

LEMMA PlainRouted ==
    ASSUME NEW r, NEW resource, NEW operation, NEW result,
           <<r.method, <<resource>>, operation>> \in Routes,
           Len(r.tokens) = 3, r.tokens[3] = resource,
           result.operation = operation, result.on = <<>>
    PROVE  Routed(r, result)
<1>1. resource # "id" /\ operation \notin {"none", "cors"}
  BY DEF Routes
<1>2. Len(r.tokens) \in Nat
  OBVIOUS
<1>3. <<r.method, <<resource>>, operation>> \in Served(r)
  BY <1>1, <1>2, PlainServed
<1>4. NamedIds(<<resource>>, r.tokens) = <<>>
  BY <1>1, PlainNamed
<1>5. QED
  BY <1>1, <1>3, <1>4, RoutedTo

LEMMA WordRouted ==
    ASSUME NEW r, NEW resource, NEW word, NEW operation, NEW result,
           <<r.method, <<resource, word>>, operation>> \in Routes,
           Len(r.tokens) = 4, r.tokens[3] = resource, r.tokens[4] = word, word # "id",
           result.operation = operation, result.on = <<>>
    PROVE  Routed(r, result)
<1>1. resource # "id" /\ operation \notin {"none", "cors"}
  BY DEF Routes
<1>2. Len(r.tokens) \in Nat
  OBVIOUS
<1>3. <<r.method, <<resource, word>>, operation>> \in Served(r)
  BY <1>1, <1>2, WordServed
<1>4. NamedIds(<<resource, word>>, r.tokens) = <<>>
  BY <1>1, WordNamed
<1>5. QED
  BY <1>1, <1>3, <1>4, RoutedTo

LEMMA IdRouted ==
    ASSUME NEW r, NEW resource, NEW operation, NEW result,
           <<r.method, <<resource, "id">>, operation>> \in Routes,
           Len(r.tokens) = 4, r.tokens[3] = resource,
           r.tokens[4] \in Ids, r.tokens[4] \in There(resource),
           result.operation = operation, result.on = <<r.tokens[4]>>
    PROVE  Routed(r, result)
<1>1. resource # "id" /\ operation \notin {"none", "cors"}
  BY DEF Routes
<1>2. Len(r.tokens) \in Nat
  OBVIOUS
<1>3. <<r.method, <<resource, "id">>, operation>> \in Served(r)
  BY <1>1, <1>2, IdServed
<1>4. NamedIds(<<resource, "id">>, r.tokens) = <<r.tokens[4]>>
  BY <1>1, IdNamed
<1>5. QED
  BY <1>1, <1>3, <1>4, RoutedTo

LEMMA IdWordRouted ==
    ASSUME NEW r, NEW resource, NEW word, NEW operation, NEW result,
           <<r.method, <<resource, "id", word>>, operation>> \in Routes,
           Len(r.tokens) = 5, r.tokens[3] = resource,
           r.tokens[4] \in Ids, r.tokens[4] \in There(resource), r.tokens[5] = word,
           result.operation = operation, result.on = <<r.tokens[4]>>
    PROVE  Routed(r, result)
<1>1. resource # "id" /\ operation \notin {"none", "cors"} /\ word # "id"
  BY DEF Routes
<1>2. Len(r.tokens) \in Nat
  OBVIOUS
<1>3. <<r.method, <<resource, "id", word>>, operation>> \in Served(r)
  BY <1>1, <1>2, IdWordServed
<1>4. NamedIds(<<resource, "id", word>>, r.tokens) = <<r.tokens[4]>>
  BY <1>1 DEF NamedIds
<1>5. QED
  BY <1>1, <1>3, <1>4, RoutedTo

LEMMA IdWordIdRouted ==
    ASSUME NEW r, NEW resource, NEW word, NEW operation, NEW result,
           <<r.method, <<resource, "id", word, "id">>, operation>> \in Routes,
           Len(r.tokens) \in Nat, Len(r.tokens) = 6
             \/ (resource = "devices" /\ Len(r.tokens) > 6), r.tokens[3] = resource,
           r.tokens[4] \in Ids, r.tokens[4] \in There(resource), r.tokens[5] = word,
           r.tokens[6] \in Ids, r.tokens[6] \in TypesOf(resource, r.tokens[4], word),
           result.operation = operation, result.on = <<r.tokens[4], r.tokens[6]>>
    PROVE  Routed(r, result)
<1>1. resource # "id" /\ operation \notin {"none", "cors"} /\ word # "id"
  BY DEF Routes
<1>3. <<r.method, <<resource, "id", word, "id">>, operation>> \in Served(r)
  BY <1>1, IdWordIdServed
<1>4. NamedIds(<<resource, "id", word, "id">>, r.tokens) = <<r.tokens[4], r.tokens[6]>>
  BY <1>1, IdWordIdNamed, ZenonT(40)
<1>5. QED
  BY <1>1, <1>3, <1>4, RoutedTo

-----------------------------------------------------------------------------
(* The methods of the resources *)

\* Lengths of paths
LEMMA AtLeastSix ==
    ASSUME NEW n \in Nat, n >= 6
    PROVE  n = 6 \/ n > 6
OBVIOUS

LEMMA LengthCases ==
    ASSUME NEW n \in Nat, n >= 3
    PROVE  (n = 3 \/ n = 4 \/ (n = 5 /\ ~(n >= 6))) \/ (n >= 6 /\ (n = 6 \/ n > 6))
OBVIOUS

LEMMA ThreeOrMore ==
    ASSUME NEW n \in Nat, n >= 3
    PROVE  n = 3 \/ (n >= 4 /\ ~(n < 4))
OBVIOUS

LEMMA SectionsAre ==
    \A x : x \in Sections <=> x = "actiontypes" \/ x = "statetypes" \/ x = "eventtypes"
BY DEF Sections

\* What each method of each resource serves: the conditions of its routes
LEMMA VendorsGetServed ==
    ASSUME NEW r, NEW n \in Nat, n = Len(r.tokens), r.method = "GET",
           r.tokens[3] = "vendors", Served(r) # {}
    PROVE  \/ n = 3
           \/ n = 4 /\ r.tokens[4] \in KnownVendors
<1>1. PICK route \in Served(r) : TRUE
  OBVIOUS
<1>2. route \in Routes /\ route[1] = "GET" /\ route[2][1] = "vendors"
  BY ServedRoute
<1>3. There("vendors") = KnownVendors
  BY DEF There
<1>4. \/ route = <<r.method, <<"vendors">>, "getVendors">>
      \/ route = <<r.method, <<"vendors", "id">>, "getVendor">>
  BY <1>2 DEF Routes
<1>5. CASE route = <<r.method, <<"vendors">>, "getVendors">>
  <2>1. n = 3
    BY <1>2, <1>3, <1>5, PlainServed
  <2>2. QED
    BY <2>1, Zenon
<1>6. CASE route = <<r.method, <<"vendors", "id">>, "getVendor">>
  <2>1. n = 4 /\ r.tokens[4] \in KnownVendors
    BY <1>2, <1>3, <1>6, IdServed
  <2>2. QED
    BY <2>1, Zenon
<1>7. QED
  BY <1>4, <1>5, <1>6, Zenon

LEMMA PluginsGetServed ==
    ASSUME NEW r, NEW n \in Nat, n = Len(r.tokens), r.method = "GET",
           r.tokens[3] = "plugins", Served(r) # {}
    PROVE  \/ n = 3
           \/ n = 4 /\ r.tokens[4] \in KnownPlugins
           \/ n = 5 /\ r.tokens[4] \in KnownPlugins /\ r.tokens[5] = "configuration"
<1>1. PICK route \in Served(r) : TRUE
  OBVIOUS
<1>2. route \in Routes /\ route[1] = "GET" /\ route[2][1] = "plugins"
  BY ServedRoute
<1>3. There("plugins") = KnownPlugins
  BY DEF There
<1>4. \/ route = <<r.method, <<"plugins">>, "getPlugins">>
      \/ route = <<r.method, <<"plugins", "id">>, "getPlugin">>
      \/ route = <<r.method, <<"plugins", "id", "configuration">>, "getPluginConfiguration">>
  BY <1>2 DEF Routes
<1>5. CASE route = <<r.method, <<"plugins">>, "getPlugins">>
  <2>1. n = 3
    BY <1>2, <1>3, <1>5, PlainServed
  <2>2. QED
    BY <2>1, Zenon
<1>6. CASE route = <<r.method, <<"plugins", "id">>, "getPlugin">>
  <2>1. n = 4 /\ r.tokens[4] \in KnownPlugins
    BY <1>2, <1>3, <1>6, IdServed
  <2>2. QED
    BY <2>1, Zenon
<1>7. CASE route = <<r.method, <<"plugins", "id", "configuration">>, "getPluginConfiguration">>
  <2>1. n = 5 /\ r.tokens[4] \in KnownPlugins /\ r.tokens[5] = "configuration"
    BY <1>2, <1>3, <1>7, IdWordServed
  <2>2. QED
    BY <2>1, Zenon
<1>8. QED
  BY <1>4, <1>5, <1>6, <1>7, Zenon

LEMMA PluginsPutServed ==
    ASSUME NEW r, NEW n \in Nat, n = Len(r.tokens), r.method = "PUT",
           r.tokens[3] = "plugins", Served(r) # {}
    PROVE  \/ n = 5 /\ r.tokens[4] \in KnownPlugins /\ r.tokens[5] = "configuration"
<1>1. PICK route \in Served(r) : TRUE
  OBVIOUS
<1>2. route \in Routes /\ route[1] = "PUT" /\ route[2][1] = "plugins"
  BY ServedRoute
<1>3. There("plugins") = KnownPlugins
  BY DEF There
<1>4. \/ route = <<r.method, <<"plugins", "id", "configuration">>, "setPluginConfiguration">>
  BY <1>2 DEF Routes
<1>5. CASE route = <<r.method, <<"plugins", "id", "configuration">>, "setPluginConfiguration">>
  <2>1. n = 5 /\ r.tokens[4] \in KnownPlugins /\ r.tokens[5] = "configuration"
    BY <1>2, <1>3, <1>5, IdWordServed
  <2>2. QED
    BY <2>1, Zenon
<1>6. QED
  BY <1>4, <1>5, Zenon

LEMMA RulesGetServed ==
    ASSUME NEW r, NEW n \in Nat, n = Len(r.tokens), r.method = "GET",
           r.tokens[3] = "rules", Served(r) # {}
    PROVE  \/ n = 3
           \/ n = 4 /\ r.tokens[4] \in stored
<1>1. PICK route \in Served(r) : TRUE
  OBVIOUS
<1>2. route \in Routes /\ route[1] = "GET" /\ route[2][1] = "rules"
  BY ServedRoute
<1>3. There("rules") = stored
  BY DEF There
<1>4. \/ route = <<r.method, <<"rules">>, "getRules">>
      \/ route = <<r.method, <<"rules", "id">>, "getRuleDetails">>
  BY <1>2 DEF Routes
<1>5. CASE route = <<r.method, <<"rules">>, "getRules">>
  <2>1. n = 3
    BY <1>2, <1>3, <1>5, PlainServed
  <2>2. QED
    BY <2>1, Zenon
<1>6. CASE route = <<r.method, <<"rules", "id">>, "getRuleDetails">>
  <2>1. n = 4 /\ r.tokens[4] \in stored
    BY <1>2, <1>3, <1>6, IdServed
  <2>2. QED
    BY <2>1, Zenon
<1>7. QED
  BY <1>4, <1>5, <1>6, Zenon

LEMMA RulesDeleteServed ==
    ASSUME NEW r, NEW n \in Nat, n = Len(r.tokens), r.method = "DELETE",
           r.tokens[3] = "rules", Served(r) # {}
    PROVE  \/ n = 4 /\ r.tokens[4] \in stored
<1>1. PICK route \in Served(r) : TRUE
  OBVIOUS
<1>2. route \in Routes /\ route[1] = "DELETE" /\ route[2][1] = "rules"
  BY ServedRoute
<1>3. There("rules") = stored
  BY DEF There
<1>4. \/ route = <<r.method, <<"rules", "id">>, "removeRule">>
  BY <1>2 DEF Routes
<1>5. CASE route = <<r.method, <<"rules", "id">>, "removeRule">>
  <2>1. n = 4 /\ r.tokens[4] \in stored
    BY <1>2, <1>3, <1>5, IdServed
  <2>2. QED
    BY <2>1, Zenon
<1>6. QED
  BY <1>4, <1>5, Zenon

LEMMA RulesPutServed ==
    ASSUME NEW r, NEW n \in Nat, n = Len(r.tokens), r.method = "PUT",
           r.tokens[3] = "rules", Served(r) # {}
    PROVE  \/ n = 4 /\ r.tokens[4] \in stored
<1>1. PICK route \in Served(r) : TRUE
  OBVIOUS
<1>2. route \in Routes /\ route[1] = "PUT" /\ route[2][1] = "rules"
  BY ServedRoute
<1>3. There("rules") = stored
  BY DEF There
<1>4. \/ route = <<r.method, <<"rules", "id">>, "editRule">>
  BY <1>2 DEF Routes
<1>5. CASE route = <<r.method, <<"rules", "id">>, "editRule">>
  <2>1. n = 4 /\ r.tokens[4] \in stored
    BY <1>2, <1>3, <1>5, IdServed
  <2>2. QED
    BY <2>1, Zenon
<1>6. QED
  BY <1>4, <1>5, Zenon

LEMMA RulesPostServed ==
    ASSUME NEW r, NEW n \in Nat, n = Len(r.tokens), r.method = "POST",
           r.tokens[3] = "rules", Served(r) # {}
    PROVE  \/ n = 3
           \/ n = 5 /\ r.tokens[4] \in stored /\ r.tokens[5] = "enable"
           \/ n = 5 /\ r.tokens[4] \in stored /\ r.tokens[5] = "disable"
           \/ n = 5 /\ r.tokens[4] \in stored /\ r.tokens[5] = "executeactions"
           \/ n = 5 /\ r.tokens[4] \in stored /\ r.tokens[5] = "executeexitactions"
<1>1. PICK route \in Served(r) : TRUE
  OBVIOUS
<1>2. route \in Routes /\ route[1] = "POST" /\ route[2][1] = "rules"
  BY ServedRoute
<1>3. There("rules") = stored
  BY DEF There
<1>4. \/ route = <<r.method, <<"rules">>, "addRule">>
      \/ route = <<r.method, <<"rules", "id", "enable">>, "enableRule">>
      \/ route = <<r.method, <<"rules", "id", "disable">>, "disableRule">>
      \/ route = <<r.method, <<"rules", "id", "executeactions">>, "executeActions">>
      \/ route = <<r.method, <<"rules", "id", "executeexitactions">>, "executeExitActions">>
  BY <1>2 DEF Routes
<1>5. CASE route = <<r.method, <<"rules">>, "addRule">>
  <2>1. n = 3
    BY <1>2, <1>3, <1>5, PlainServed
  <2>2. QED
    BY <2>1, Zenon
<1>6. CASE route = <<r.method, <<"rules", "id", "enable">>, "enableRule">>
  <2>1. n = 5 /\ r.tokens[4] \in stored /\ r.tokens[5] = "enable"
    BY <1>2, <1>3, <1>6, IdWordServed
  <2>2. QED
    BY <2>1, Zenon
<1>7. CASE route = <<r.method, <<"rules", "id", "disable">>, "disableRule">>
  <2>1. n = 5 /\ r.tokens[4] \in stored /\ r.tokens[5] = "disable"
    BY <1>2, <1>3, <1>7, IdWordServed
  <2>2. QED
    BY <2>1, Zenon
<1>8. CASE route = <<r.method, <<"rules", "id", "executeactions">>, "executeActions">>
  <2>1. n = 5 /\ r.tokens[4] \in stored /\ r.tokens[5] = "executeactions"
    BY <1>2, <1>3, <1>8, IdWordServed
  <2>2. QED
    BY <2>1, Zenon
<1>9. CASE route = <<r.method, <<"rules", "id", "executeexitactions">>, "executeExitActions">>
  <2>1. n = 5 /\ r.tokens[4] \in stored /\ r.tokens[5] = "executeexitactions"
    BY <1>2, <1>3, <1>9, IdWordServed
  <2>2. QED
    BY <2>1, Zenon
<1>10. QED
  BY <1>4, <1>5, <1>6, <1>7, <1>8, <1>9, Zenon

LEMMA DeviceClassesGetServed ==
    ASSUME NEW r, NEW n \in Nat, n = Len(r.tokens), r.method = "GET",
           r.tokens[3] = "deviceclasses", Served(r) # {}
    PROVE  \/ n = 3
           \/ n = 4 /\ r.tokens[4] \in DeviceClasses
           \/ n = 5 /\ r.tokens[4] \in DeviceClasses /\ r.tokens[5] = "discover"
           \/ n = 5 /\ r.tokens[4] \in DeviceClasses /\ r.tokens[5] = "actiontypes"
           \/ n = 6 /\ r.tokens[4] \in DeviceClasses /\ r.tokens[5] = "actiontypes"
              /\ r.tokens[6] \in Members[r.tokens[4]].actiontypes
           \/ n = 5 /\ r.tokens[4] \in DeviceClasses /\ r.tokens[5] = "statetypes"
           \/ n = 6 /\ r.tokens[4] \in DeviceClasses /\ r.tokens[5] = "statetypes"
              /\ r.tokens[6] \in Members[r.tokens[4]].statetypes
           \/ n = 5 /\ r.tokens[4] \in DeviceClasses /\ r.tokens[5] = "eventtypes"
           \/ n = 6 /\ r.tokens[4] \in DeviceClasses /\ r.tokens[5] = "eventtypes"
              /\ r.tokens[6] \in Members[r.tokens[4]].eventtypes
<1>1. PICK route \in Served(r) : TRUE
  OBVIOUS
<1>2. route \in Routes /\ route[1] = "GET" /\ route[2][1] = "deviceclasses"
  BY ServedRoute
<1>3. There("deviceclasses") = DeviceClasses
  BY DEF There
<1>4. \/ route = <<r.method, <<"deviceclasses">>, "getDeviceClasses">>
      \/ route = <<r.method, <<"deviceclasses", "id">>, "getDeviceClass">>
      \/ route = <<r.method, <<"deviceclasses", "id", "discover">>, "getDiscoverdDevices">>
      \/ route = <<r.method, <<"deviceclasses", "id", "actiontypes">>, "getActionTypes">>
      \/ route = <<r.method, <<"deviceclasses", "id", "actiontypes", "id">>, "getActionType">>
      \/ route = <<r.method, <<"deviceclasses", "id", "statetypes">>, "getStateTypes">>
      \/ route = <<r.method, <<"deviceclasses", "id", "statetypes", "id">>, "getStateType">>
      \/ route = <<r.method, <<"deviceclasses", "id", "eventtypes">>, "getEventTypes">>
      \/ route = <<r.method, <<"deviceclasses", "id", "eventtypes", "id">>, "getEventType">>
  BY <1>2 DEF Routes
<1>5. CASE route = <<r.method, <<"deviceclasses">>, "getDeviceClasses">>
  <2>1. n = 3
    BY <1>2, <1>3, <1>5, PlainServed
  <2>2. QED
    BY <2>1, Zenon
<1>6. CASE route = <<r.method, <<"deviceclasses", "id">>, "getDeviceClass">>
  <2>1. n = 4 /\ r.tokens[4] \in DeviceClasses
    BY <1>2, <1>3, <1>6, IdServed
  <2>2. QED
    BY <2>1, Zenon
<1>7. CASE route = <<r.method, <<"deviceclasses", "id", "discover">>, "getDiscoverdDevices">>
  <2>1. n = 5 /\ r.tokens[4] \in DeviceClasses /\ r.tokens[5] = "discover"
    BY <1>2, <1>3, <1>7, IdWordServed
  <2>2. QED
    BY <2>1, Zenon
<1>8. CASE route = <<r.method, <<"deviceclasses", "id", "actiontypes">>, "getActionTypes">>
  <2>1. n = 5 /\ r.tokens[4] \in DeviceClasses /\ r.tokens[5] = "actiontypes"
    BY <1>2, <1>3, <1>8, IdWordServed
  <2>2. QED
    BY <2>1, Zenon
<1>9. CASE route = <<r.method, <<"deviceclasses", "id", "actiontypes", "id">>, "getActionType">>
  <2>1. n = 6 /\ r.tokens[4] \in DeviceClasses /\ r.tokens[5] = "actiontypes"
              /\ r.tokens[6] \in Members[r.tokens[4]].actiontypes
    BY <1>2, <1>3, <1>9, IdWordIdServed DEF TypesOf
  <2>2. QED
    BY <2>1, Zenon
<1>10. CASE route = <<r.method, <<"deviceclasses", "id", "statetypes">>, "getStateTypes">>
  <2>1. n = 5 /\ r.tokens[4] \in DeviceClasses /\ r.tokens[5] = "statetypes"
    BY <1>2, <1>3, <1>10, IdWordServed
  <2>2. QED
    BY <2>1, Zenon
<1>11. CASE route = <<r.method, <<"deviceclasses", "id", "statetypes", "id">>, "getStateType">>
  <2>1. n = 6 /\ r.tokens[4] \in DeviceClasses /\ r.tokens[5] = "statetypes"
              /\ r.tokens[6] \in Members[r.tokens[4]].statetypes
    BY <1>2, <1>3, <1>11, IdWordIdServed, SMTT(30) DEF TypesOf
  <2>2. QED
    BY <2>1, Zenon
<1>12. CASE route = <<r.method, <<"deviceclasses", "id", "eventtypes">>, "getEventTypes">>
  <2>1. n = 5 /\ r.tokens[4] \in DeviceClasses /\ r.tokens[5] = "eventtypes"
    BY <1>2, <1>3, <1>12, IdWordServed
  <2>2. QED
    BY <2>1, Zenon
<1>13. CASE route = <<r.method, <<"deviceclasses", "id", "eventtypes", "id">>, "getEventType">>
  <2>1. n = 6 /\ r.tokens[4] \in DeviceClasses /\ r.tokens[5] = "eventtypes"
              /\ r.tokens[6] \in Members[r.tokens[4]].eventtypes
    BY <1>2, <1>3, <1>13, IdWordIdServed, SMTT(30) DEF TypesOf
  <2>2. QED
    BY <2>1, Zenon
<1>14. QED
  BY <1>4, <1>5, <1>6, <1>7, <1>8, <1>9, <1>10, <1>11, <1>12, <1>13, Zenon

LEMMA DevicesGetServed ==
    ASSUME NEW r, NEW n \in Nat, n = Len(r.tokens), r.method = "GET",
           r.tokens[3] = "devices", Served(r) # {}
    PROVE  \/ n = 3
           \/ n = 4 /\ r.tokens[4] \in Ids /\ r.tokens[4] \in configured
           \/ n = 5 /\ r.tokens[4] \in Ids /\ r.tokens[4] \in configured /\ r.tokens[5] = "states"
           \/ (n = 6 \/ n > 6) /\ r.tokens[4] \in Ids /\ r.tokens[4] \in configured
                /\ r.tokens[5] = "states"
              /\ r.tokens[6] \in Members[ClassOf[r.tokens[4]]].statetypes
<1>1. PICK route \in Served(r) : TRUE
  OBVIOUS
<1>2. route \in Routes /\ route[1] = "GET" /\ route[2][1] = "devices"
  BY ServedRoute
<1>3. There("devices") = configured
  BY DEF There
<1>4. \/ route = <<r.method, <<"devices">>, "getConfiguredDevices">>
      \/ route = <<r.method, <<"devices", "id">>, "getConfiguredDevice">>
      \/ route = <<r.method, <<"devices", "id", "states">>, "getDeviceStateValues">>
      \/ route = <<r.method, <<"devices", "id", "states", "id">>, "getDeviceStateValue">>
  BY <1>2 DEF Routes
<1>5. CASE route = <<r.method, <<"devices">>, "getConfiguredDevices">>
  <2>1. n = 3
    BY <1>2, <1>3, <1>5, PlainServed
  <2>2. QED
    BY <2>1, Zenon
<1>6. CASE route = <<r.method, <<"devices", "id">>, "getConfiguredDevice">>
  <2>1. n = 4 /\ r.tokens[4] \in Ids /\ r.tokens[4] \in configured
    BY <1>2, <1>3, <1>6, IdServed
  <2>2. QED
    BY <2>1, Zenon
<1>7. CASE route = <<r.method, <<"devices", "id", "states">>, "getDeviceStateValues">>
  <2>1. n = 5 /\ r.tokens[4] \in Ids /\ r.tokens[4] \in configured /\ r.tokens[5] = "states"
    BY <1>2, <1>3, <1>7, IdWordServed
  <2>2. QED
    BY <2>1, Zenon
<1>8. CASE route = <<r.method, <<"devices", "id", "states", "id">>, "getDeviceStateValue">>
  <2>1. (n = 6 \/ n > 6) /\ r.tokens[4] \in Ids /\ r.tokens[4] \in configured
          /\ r.tokens[5] = "states"
              /\ r.tokens[6] \in Members[ClassOf[r.tokens[4]]].statetypes
    BY <1>2, <1>3, <1>8, IdWordIdServed DEF TypesOf
  <2>2. QED
    BY <2>1, Zenon
<1>9. QED
  BY <1>4, <1>5, <1>6, <1>7, <1>8, Zenon

LEMMA DevicesDeleteServed ==
    ASSUME NEW r, NEW n \in Nat, n = Len(r.tokens), r.method = "DELETE",
           r.tokens[3] = "devices", Served(r) # {}
    PROVE  \/ n = 4 /\ r.tokens[4] \in Ids /\ r.tokens[4] \in configured
<1>1. PICK route \in Served(r) : TRUE
  OBVIOUS
<1>2. route \in Routes /\ route[1] = "DELETE" /\ route[2][1] = "devices"
  BY ServedRoute
<1>3. There("devices") = configured
  BY DEF There
<1>4. \/ route = <<r.method, <<"devices", "id">>, "removeDevice">>
  BY <1>2 DEF Routes
<1>5. CASE route = <<r.method, <<"devices", "id">>, "removeDevice">>
  <2>1. n = 4 /\ r.tokens[4] \in Ids /\ r.tokens[4] \in configured
    BY <1>2, <1>3, <1>5, IdServed
  <2>2. QED
    BY <2>1, Zenon
<1>6. QED
  BY <1>4, <1>5, Zenon

LEMMA DevicesPutServed ==
    ASSUME NEW r, NEW n \in Nat, n = Len(r.tokens), r.method = "PUT",
           r.tokens[3] = "devices", Served(r) # {}
    PROVE  \/ n = 4 /\ r.tokens[4] \in Ids /\ r.tokens[4] \in configured
<1>1. PICK route \in Served(r) : TRUE
  OBVIOUS
<1>2. route \in Routes /\ route[1] = "PUT" /\ route[2][1] = "devices"
  BY ServedRoute
<1>3. There("devices") = configured
  BY DEF There
<1>4. \/ route = <<r.method, <<"devices", "id">>, "reconfigureDevice">>
  BY <1>2 DEF Routes
<1>5. CASE route = <<r.method, <<"devices", "id">>, "reconfigureDevice">>
  <2>1. n = 4 /\ r.tokens[4] \in Ids /\ r.tokens[4] \in configured
    BY <1>2, <1>3, <1>5, IdServed
  <2>2. QED
    BY <2>1, Zenon
<1>6. QED
  BY <1>4, <1>5, Zenon

LEMMA DevicesPostServed ==
    ASSUME NEW r, NEW n \in Nat, n = Len(r.tokens), r.method = "POST",
           r.tokens[3] = "devices", Served(r) # {}
    PROVE  \/ n = 3
           \/ n = 4 /\ r.tokens[4] = "pair"
           \/ n = 4 /\ r.tokens[4] = "confirmpairing"
           \/ n = 4 /\ r.tokens[4] \in Ids /\ r.tokens[4] \in configured
           \/ (n = 6 \/ n > 6) /\ r.tokens[4] \in Ids /\ r.tokens[4] \in configured
                /\ r.tokens[5] = "execute"
              /\ r.tokens[6] \in Members[ClassOf[r.tokens[4]]].actiontypes
<1>1. PICK route \in Served(r) : TRUE
  OBVIOUS
<1>2. route \in Routes /\ route[1] = "POST" /\ route[2][1] = "devices"
  BY ServedRoute
<1>3. There("devices") = configured
  BY DEF There
<1>4. \/ route = <<r.method, <<"devices">>, "addConfiguredDevice">>
      \/ route = <<r.method, <<"devices", "pair">>, "pairDevice">>
      \/ route = <<r.method, <<"devices", "confirmpairing">>, "confirmPairDevice">>
      \/ route = <<r.method, <<"devices", "id">>, "editDevice">>
      \/ route = <<r.method, <<"devices", "id", "execute", "id">>, "executeAction">>
  BY <1>2 DEF Routes
<1>5. CASE route = <<r.method, <<"devices">>, "addConfiguredDevice">>
  <2>1. n = 3
    BY <1>2, <1>3, <1>5, PlainServed
  <2>2. QED
    BY <2>1, Zenon
<1>6. CASE route = <<r.method, <<"devices", "pair">>, "pairDevice">>
  <2>1. n = 4 /\ r.tokens[4] = "pair"
    BY <1>2, <1>3, <1>6, WordServed
  <2>2. QED
    BY <2>1, Zenon
<1>7. CASE route = <<r.method, <<"devices", "confirmpairing">>, "confirmPairDevice">>
  <2>1. n = 4 /\ r.tokens[4] = "confirmpairing"
    BY <1>2, <1>3, <1>7, WordServed
  <2>2. QED
    BY <2>1, Zenon
<1>8. CASE route = <<r.method, <<"devices", "id">>, "editDevice">>
  <2>1. n = 4 /\ r.tokens[4] \in Ids /\ r.tokens[4] \in configured
    BY <1>2, <1>3, <1>8, IdServed
  <2>2. QED
    BY <2>1, Zenon
<1>9. CASE route = <<r.method, <<"devices", "id", "execute", "id">>, "executeAction">>
  <2>1. (n = 6 \/ n > 6) /\ r.tokens[4] \in Ids /\ r.tokens[4] \in configured
          /\ r.tokens[5] = "execute"
              /\ r.tokens[6] \in Members[ClassOf[r.tokens[4]]].actiontypes
    BY <1>2, <1>3, <1>9, IdWordIdServed DEF TypesOf
  <2>2. QED
    BY <2>1, Zenon
<1>10. QED
  BY <1>4, <1>5, <1>6, <1>7, <1>8, <1>9, Zenon

\* What each method of each resource answers is routed.
LEMMA VendorsGetRouted ==
    ASSUME NEW r, NEW entity, NEW result, NEW n \in Nat, n = Len(r.tokens), n >= 3,
           r.tokens[3] = "vendors", r.method = "GET",
           n # 3 => entity = r.tokens[4] /\ r.tokens[4] \in Ids,
           result \in VendorsGet(r, n, entity)
    PROVE  Routed(r, result)
<1>1. CASE n = 3
  <2>1. result = Done("getVendors", <<>>)
    BY <1>1 DEF VendorsGet
  <2>2. result.operation = "getVendors" /\ result.on = <<>>
    BY <2>1 DEF Done
  <2>3. <<r.method, <<"vendors">>, "getVendors">> \in Routes
    BY <1>1 DEF Routes
  <2>4. QED
    BY <1>1, <2>2, <2>3, PlainRouted
<1>2. CASE n = 4 /\ r.tokens[4] \in KnownVendors
  <2>1. result = Done("getVendor", <<r.tokens[4]>>)
    BY <1>2 DEF VendorsGet, IfThere
  <2>2. result.operation = "getVendor" /\ result.on = <<r.tokens[4]>>
    BY <2>1 DEF Done
  <2>3. <<r.method, <<"vendors", "id">>, "getVendor">> \in Routes
    BY <1>2 DEF Routes
  <2>4. r.tokens[4] \in Ids /\ r.tokens[4] \in There("vendors")
    BY <1>2 DEF There
  <2>5. QED
    BY <1>2, <2>2, <2>3, <2>4, IdRouted
<1>3. CASE n = 4 /\ r.tokens[4] \notin KnownVendors
  <2>1. result = Answer("NotFound")
    BY <1>3 DEF VendorsGet, IfThere
  <2>2. Served(r) # {} =>
           \/ n = 3
           \/ n = 4 /\ r.tokens[4] \in KnownVendors
    BY VendorsGetServed
  <2>3. Served(r) = {}
    BY <1>3, <2>2
  <2>4. QED
    BY <2>1, <2>3, RoutedAnswer
<1>4. CASE n \notin {3, 4}
  <2>1. result = Answer("NotImplemented")
    BY <1>4 DEF VendorsGet, NotThere
  <2>2. Served(r) # {} =>
           \/ n = 3
           \/ n = 4 /\ r.tokens[4] \in KnownVendors
    BY VendorsGetServed
  <2>3. Served(r) = {}
    BY <1>4, <2>2
  <2>4. QED
    BY <2>1, <2>3, RoutedAnswer
<1>5. \/ n = 3
      \/ n = 4 /\ r.tokens[4] \in KnownVendors
      \/ n = 4 /\ r.tokens[4] \notin KnownVendors
      \/ n \notin {3, 4}
  OBVIOUS
<1>6. QED
  BY <1>1, <1>2, <1>3, <1>4, <1>5, Zenon

LEMMA PluginsGetRouted ==
    ASSUME NEW r, NEW entity, NEW result, NEW n \in Nat, n = Len(r.tokens), n >= 3,
           r.tokens[3] = "plugins", r.method = "GET",
           n # 3 => entity = r.tokens[4] /\ r.tokens[4] \in Ids,
           result \in PluginsGet(r, n, entity)
    PROVE  Routed(r, result)
<1>1. CASE n = 3
  <2>1. result = Done("getPlugins", <<>>)
    BY <1>1 DEF PluginsGet
  <2>2. result.operation = "getPlugins" /\ result.on = <<>>
    BY <2>1 DEF Done
  <2>3. <<r.method, <<"plugins">>, "getPlugins">> \in Routes
    BY <1>1 DEF Routes
  <2>4. QED
    BY <1>1, <2>2, <2>3, PlainRouted
<1>2. CASE n = 4 /\ r.tokens[4] \in KnownPlugins
  <2>1. result = Done("getPlugin", <<r.tokens[4]>>)
    BY <1>2 DEF PluginsGet, IfThere
  <2>2. result.operation = "getPlugin" /\ result.on = <<r.tokens[4]>>
    BY <2>1 DEF Done
  <2>3. <<r.method, <<"plugins", "id">>, "getPlugin">> \in Routes
    BY <1>2 DEF Routes
  <2>4. r.tokens[4] \in Ids /\ r.tokens[4] \in There("plugins")
    BY <1>2 DEF There
  <2>5. QED
    BY <1>2, <2>2, <2>3, <2>4, IdRouted
<1>3. CASE n = 5 /\ r.tokens[5] = "configuration" /\ r.tokens[4] \in KnownPlugins
  <2>1. result = Done("getPluginConfiguration", <<r.tokens[4]>>)
    BY <1>3 DEF PluginsGet, IfThere
  <2>2. result.operation = "getPluginConfiguration" /\ result.on = <<r.tokens[4]>>
    BY <2>1 DEF Done
  <2>3. <<r.method, <<"plugins", "id", "configuration">>, "getPluginConfiguration">> \in Routes
    BY <1>3 DEF Routes
  <2>4. r.tokens[4] \in Ids /\ r.tokens[4] \in There("plugins")
    BY <1>3 DEF There
  <2>5. QED
    BY <1>3, <2>2, <2>3, <2>4, IdWordRouted
<1>4. CASE (n = 4 \/ (n = 5 /\ r.tokens[5] = "configuration")) /\ r.tokens[4] \notin KnownPlugins
  <2>1. result = Answer("NotFound")
    BY <1>4 DEF PluginsGet, IfThere
  <2>2. Served(r) # {} =>
           \/ n = 3
           \/ n = 4 /\ r.tokens[4] \in KnownPlugins
           \/ n = 5 /\ r.tokens[4] \in KnownPlugins /\ r.tokens[5] = "configuration"
    BY PluginsGetServed
  <2>3. Served(r) = {}
    BY <1>4, <2>2
  <2>4. QED
    BY <2>1, <2>3, RoutedAnswer
<1>5. CASE n \notin {3, 4} /\ ~(n = 5 /\ r.tokens[5] = "configuration")
  <2>1. result = Answer("NotImplemented")
    BY <1>5 DEF PluginsGet, NotThere
  <2>2. Served(r) # {} =>
           \/ n = 3
           \/ n = 4 /\ r.tokens[4] \in KnownPlugins
           \/ n = 5 /\ r.tokens[4] \in KnownPlugins /\ r.tokens[5] = "configuration"
    BY PluginsGetServed
  <2>3. Served(r) = {}
    BY <1>5, <2>2
  <2>4. QED
    BY <2>1, <2>3, RoutedAnswer
<1>6. \/ n = 3
      \/ n = 4 /\ r.tokens[4] \in KnownPlugins
      \/ n = 5 /\ r.tokens[5] = "configuration" /\ r.tokens[4] \in KnownPlugins
      \/ (n = 4 \/ (n = 5 /\ r.tokens[5] = "configuration")) /\ r.tokens[4] \notin KnownPlugins
      \/ n \notin {3, 4} /\ ~(n = 5 /\ r.tokens[5] = "configuration")
  OBVIOUS
<1>7. QED
  BY <1>1, <1>2, <1>3, <1>4, <1>5, <1>6, Zenon

LEMMA PluginsPutRouted ==
    ASSUME NEW r, NEW entity, NEW result, NEW n \in Nat, n = Len(r.tokens), n >= 3,
           r.tokens[3] = "plugins", r.method = "PUT",
           n # 3 => entity = r.tokens[4] /\ r.tokens[4] \in Ids,
           result \in PluginsPut(r, n, entity)
    PROVE  Routed(r, result)
<1>1. CASE n = 5 /\ r.tokens[5] = "configuration" /\ r.tokens[4] \in KnownPlugins
  <2>1. result \in Tried("setPluginConfiguration", <<r.tokens[4]>>, "BadRequest")
    BY <1>1 DEF PluginsPut, IfThere
  <2>2. result.operation = "setPluginConfiguration" /\ result.on = <<r.tokens[4]>>
    BY <2>1, Tries
  <2>3. <<r.method, <<"plugins", "id", "configuration">>, "setPluginConfiguration">> \in Routes
    BY <1>1 DEF Routes
  <2>4. r.tokens[4] \in Ids /\ r.tokens[4] \in There("plugins")
    BY <1>1 DEF There
  <2>5. QED
    BY <1>1, <2>2, <2>3, <2>4, IdWordRouted
<1>2. CASE n = 5 /\ r.tokens[5] = "configuration" /\ r.tokens[4] \notin KnownPlugins
  <2>1. result = Answer("NotFound")
    BY <1>2 DEF PluginsPut, IfThere
  <2>2. Served(r) # {} =>
           \/ n = 5 /\ r.tokens[4] \in KnownPlugins /\ r.tokens[5] = "configuration"
    BY PluginsPutServed
  <2>3. Served(r) = {}
    BY <1>2, <2>2
  <2>4. QED
    BY <2>1, <2>3, RoutedAnswer
<1>3. CASE ~(n = 5 /\ r.tokens[5] = "configuration")
  <2>1. result = Answer("NotImplemented")
    BY <1>3 DEF PluginsPut, NotThere
  <2>2. Served(r) # {} =>
           \/ n = 5 /\ r.tokens[4] \in KnownPlugins /\ r.tokens[5] = "configuration"
    BY PluginsPutServed
  <2>3. Served(r) = {}
    BY <1>3, <2>2
  <2>4. QED
    BY <2>1, <2>3, RoutedAnswer
<1>4. \/ n = 5 /\ r.tokens[5] = "configuration" /\ r.tokens[4] \in KnownPlugins
      \/ n = 5 /\ r.tokens[5] = "configuration" /\ r.tokens[4] \notin KnownPlugins
      \/ ~(n = 5 /\ r.tokens[5] = "configuration")
  OBVIOUS
<1>5. QED
  BY <1>1, <1>2, <1>3, <1>4, Zenon

LEMMA RulesGetRouted ==
    ASSUME NEW r, NEW entity, NEW result, NEW n \in Nat, n = Len(r.tokens), n >= 3,
           r.tokens[3] = "rules", r.method = "GET",
           n # 3 => entity = r.tokens[4] /\ r.tokens[4] \in Ids /\ r.tokens[4] \in stored,
           result \in RulesGet(r, n, entity)
    PROVE  Routed(r, result)
<1>1. CASE n = 3 /\ r.query # "null"
  <2>1. result = Done("getRules", <<>>)
    BY <1>1 DEF RulesGet
  <2>2. result.operation = "getRules" /\ result.on = <<>>
    BY <2>1 DEF Done
  <2>3. <<r.method, <<"rules">>, "getRules">> \in Routes
    BY <1>1 DEF Routes
  <2>4. QED
    BY <1>1, <2>2, <2>3, PlainRouted
<1>2. CASE n = 3 /\ r.query = "null"
  <2>1. result = Answer("NotFound")
    BY <1>2 DEF RulesGet
  <2>2. QED
    BY <1>2, <2>1, RoutedAnswer
<1>3. CASE n = 4
  <2>1. result = Done("getRuleDetails", <<r.tokens[4]>>)
    BY <1>3 DEF RulesGet
  <2>2. result.operation = "getRuleDetails" /\ result.on = <<r.tokens[4]>>
    BY <2>1 DEF Done
  <2>3. <<r.method, <<"rules", "id">>, "getRuleDetails">> \in Routes
    BY <1>3 DEF Routes
  <2>4. r.tokens[4] \in Ids /\ r.tokens[4] \in There("rules")
    BY <1>3 DEF There
  <2>5. QED
    BY <1>3, <2>2, <2>3, <2>4, IdRouted
<1>4. CASE n \notin {3, 4}
  <2>1. result = Answer("NotImplemented")
    BY <1>4 DEF RulesGet, NotThere
  <2>2. Served(r) # {} =>
           \/ n = 3
           \/ n = 4 /\ r.tokens[4] \in stored
    BY RulesGetServed
  <2>3. Served(r) = {}
    BY <1>4, <2>2
  <2>4. QED
    BY <2>1, <2>3, RoutedAnswer
<1>5. \/ n = 3 /\ r.query # "null"
      \/ n = 3 /\ r.query = "null"
      \/ n = 4
      \/ n \notin {3, 4}
  OBVIOUS
<1>6. QED
  BY <1>1, <1>2, <1>3, <1>4, <1>5, Zenon

LEMMA RulesDeleteRouted ==
    ASSUME NEW r, NEW entity, NEW result, NEW n \in Nat, n = Len(r.tokens), n >= 3,
           r.tokens[3] = "rules", r.method = "DELETE",
           n # 3 => entity = r.tokens[4] /\ r.tokens[4] \in Ids /\ r.tokens[4] \in stored,
           result \in RulesChange(r, n, entity)
    PROVE  Routed(r, result)
<1>1. CASE n = 3
  <2>1. result = Answer("BadRequest")
    BY <1>1 DEF RulesChange, Refused
  <2>2. QED
    BY <2>1, RoutedAnswer
<1>2. CASE n = 4
  <2>1. result \in Tried("removeRule", <<r.tokens[4]>>, "InternalServerError")
    BY <1>2 DEF RulesChange
  <2>2. result.operation = "removeRule" /\ result.on = <<r.tokens[4]>>
    BY <2>1, Tries
  <2>3. <<r.method, <<"rules", "id">>, "removeRule">> \in Routes
    BY <1>2 DEF Routes
  <2>4. r.tokens[4] \in Ids /\ r.tokens[4] \in There("rules")
    BY <1>2 DEF There
  <2>5. QED
    BY <1>2, <2>2, <2>3, <2>4, IdRouted
<1>3. CASE n \notin {3, 4}
  <2>1. result = Answer("NotImplemented")
    BY <1>3 DEF RulesChange, NotThere
  <2>2. Served(r) # {} =>
           \/ n = 4 /\ r.tokens[4] \in stored
    BY RulesDeleteServed
  <2>3. Served(r) = {}
    BY <1>3, <2>2
  <2>4. QED
    BY <2>1, <2>3, RoutedAnswer
<1>4. \/ n = 3
      \/ n = 4
      \/ n \notin {3, 4}
  OBVIOUS
<1>5. QED
  BY <1>1, <1>2, <1>3, <1>4, Zenon

LEMMA RulesPutRouted ==
    ASSUME NEW r, NEW entity, NEW result, NEW n \in Nat, n = Len(r.tokens), n >= 3,
           r.tokens[3] = "rules", r.method = "PUT",
           n # 3 => entity = r.tokens[4] /\ r.tokens[4] \in Ids /\ r.tokens[4] \in stored,
           result \in RulesChange(r, n, entity)
    PROVE  Routed(r, result)
<1>1. CASE n = 3
  <2>1. result = Answer("BadRequest")
    BY <1>1 DEF RulesChange, Refused
  <2>2. QED
    BY <2>1, RoutedAnswer
<1>2. CASE n = 4 /\ r.payload # "full"
  <2>1. result = Answer("BadRequest")
    BY <1>2 DEF RulesChange, Refused
  <2>2. QED
    BY <2>1, RoutedAnswer
<1>3. CASE n = 4 /\ r.payload = "full"
  <2>1. result \in Tried("editRule", <<r.tokens[4]>>, "BadRequest")
    BY <1>3 DEF RulesChange
  <2>2. result.operation = "editRule" /\ result.on = <<r.tokens[4]>>
    BY <2>1, Tries
  <2>3. <<r.method, <<"rules", "id">>, "editRule">> \in Routes
    BY <1>3 DEF Routes
  <2>4. r.tokens[4] \in Ids /\ r.tokens[4] \in There("rules")
    BY <1>3 DEF There
  <2>5. QED
    BY <1>3, <2>2, <2>3, <2>4, IdRouted
<1>4. CASE n \notin {3, 4}
  <2>1. result = Answer("NotImplemented")
    BY <1>4 DEF RulesChange, NotThere
  <2>2. Served(r) # {} =>
           \/ n = 4 /\ r.tokens[4] \in stored
    BY RulesPutServed
  <2>3. Served(r) = {}
    BY <1>4, <2>2
  <2>4. QED
    BY <2>1, <2>3, RoutedAnswer
<1>5. \/ n = 3
      \/ n = 4 /\ r.payload # "full"
      \/ n = 4 /\ r.payload = "full"
      \/ n \notin {3, 4}
  OBVIOUS
<1>6. QED
  BY <1>1, <1>2, <1>3, <1>4, <1>5, Zenon

LEMMA RulesPostRouted ==
    ASSUME NEW r, NEW entity, NEW result, NEW n \in Nat, n = Len(r.tokens), n >= 3,
           r.tokens[3] = "rules", r.method = "POST",
           n # 3 => entity = r.tokens[4] /\ r.tokens[4] \in Ids /\ r.tokens[4] \in stored,
           result \in RulesPost(r, n, entity)
    PROVE  Routed(r, result)
<1>1. CASE n = 3 /\ r.payload # "full"
  <2>1. result = Answer("BadRequest")
    BY <1>1 DEF RulesPost, Refused
  <2>2. QED
    BY <2>1, RoutedAnswer
<1>2. CASE n = 3 /\ r.payload = "full"
  <2>1. result \in Tried("addRule", <<>>, "BadRequest")
    BY <1>2 DEF RulesPost
  <2>2. result.operation = "addRule" /\ result.on = <<>>
    BY <2>1, Tries
  <2>3. <<r.method, <<"rules">>, "addRule">> \in Routes
    BY <1>2 DEF Routes
  <2>4. QED
    BY <1>2, <2>2, <2>3, PlainRouted
<1>3. CASE n = 5 /\ r.tokens[5] = "enable"
  <2>1. result \in Tried("enableRule", <<r.tokens[4]>>, "InternalServerError")
    BY <1>3 DEF RulesPost, RuleOperations
  <2>2. result.operation = "enableRule" /\ result.on = <<r.tokens[4]>>
    BY <2>1, Tries
  <2>3. <<r.method, <<"rules", "id", "enable">>, "enableRule">> \in Routes
    BY <1>3 DEF Routes
  <2>4. r.tokens[4] \in Ids /\ r.tokens[4] \in There("rules")
    BY <1>3 DEF There
  <2>5. QED
    BY <1>3, <2>2, <2>3, <2>4, IdWordRouted
<1>4. CASE n = 5 /\ r.tokens[5] = "disable"
  <2>1. result \in Tried("disableRule", <<r.tokens[4]>>, "InternalServerError")
    BY <1>4 DEF RulesPost, RuleOperations
  <2>2. result.operation = "disableRule" /\ result.on = <<r.tokens[4]>>
    BY <2>1, Tries
  <2>3. <<r.method, <<"rules", "id", "disable">>, "disableRule">> \in Routes
    BY <1>4 DEF Routes
  <2>4. r.tokens[4] \in Ids /\ r.tokens[4] \in There("rules")
    BY <1>4 DEF There
  <2>5. QED
    BY <1>4, <2>2, <2>3, <2>4, IdWordRouted
<1>5. CASE n = 5 /\ r.tokens[5] = "executeactions"
  <2>1. result \in Tried("executeActions", <<r.tokens[4]>>, "InternalServerError")
    BY <1>5 DEF RulesPost, RuleOperations
  <2>2. result.operation = "executeActions" /\ result.on = <<r.tokens[4]>>
    BY <2>1, Tries
  <2>3. <<r.method, <<"rules", "id", "executeactions">>, "executeActions">> \in Routes
    BY <1>5 DEF Routes
  <2>4. r.tokens[4] \in Ids /\ r.tokens[4] \in There("rules")
    BY <1>5 DEF There
  <2>5. QED
    BY <1>5, <2>2, <2>3, <2>4, IdWordRouted
<1>6. CASE n = 5 /\ r.tokens[5] = "executeexitactions"
  <2>1. result \in Tried("executeExitActions", <<r.tokens[4]>>, "InternalServerError")
    BY <1>6 DEF RulesPost, RuleOperations
  <2>2. result.operation = "executeExitActions" /\ result.on = <<r.tokens[4]>>
    BY <2>1, Tries
  <2>3. <<r.method, <<"rules", "id", "executeexitactions">>, "executeExitActions">> \in Routes
    BY <1>6 DEF Routes
  <2>4. r.tokens[4] \in Ids /\ r.tokens[4] \in There("rules")
    BY <1>6 DEF There
  <2>5. QED
    BY <1>6, <2>2, <2>3, <2>4, IdWordRouted
<1>7. CASE n # 3 /\ ~(n = 5 /\ r.tokens[5] \in DOMAIN RuleOperations)
  <2>1. result = Answer("NotImplemented")
    BY <1>7 DEF RulesPost, NotThere
  <2>2. Served(r) # {} =>
           \/ n = 3
           \/ n = 5 /\ r.tokens[4] \in stored /\ r.tokens[5] = "enable"
           \/ n = 5 /\ r.tokens[4] \in stored /\ r.tokens[5] = "disable"
           \/ n = 5 /\ r.tokens[4] \in stored /\ r.tokens[5] = "executeactions"
           \/ n = 5 /\ r.tokens[4] \in stored /\ r.tokens[5] = "executeexitactions"
    BY RulesPostServed
  <2>3. Served(r) = {}
    BY <1>7, <2>2 DEF RuleOperations
  <2>4. QED
    BY <2>1, <2>3, RoutedAnswer
<1>8. \/ n = 3 /\ r.payload # "full"
      \/ n = 3 /\ r.payload = "full"
      \/ n = 5 /\ r.tokens[5] = "enable"
      \/ n = 5 /\ r.tokens[5] = "disable"
      \/ n = 5 /\ r.tokens[5] = "executeactions"
      \/ n = 5 /\ r.tokens[5] = "executeexitactions"
      \/ n # 3 /\ ~(n = 5 /\ r.tokens[5] \in DOMAIN RuleOperations)
  BY DEF RuleOperations
<1>9. QED
  BY <1>1, <1>2, <1>3, <1>4, <1>5, <1>6, <1>7, <1>8, Zenon

LEMMA DeviceClassesGetRouted ==
    ASSUME NEW r, NEW entity, NEW result, NEW n \in Nat, n = Len(r.tokens), n >= 3,
           r.tokens[3] = "deviceclasses", r.method = "GET",
           n # 3 => entity = r.tokens[4] /\ r.tokens[4] \in Ids /\ r.tokens[4] \in DeviceClasses,
           result \in DeviceClassesGet(r, n, entity)
    PROVE  Routed(r, result)
<1>1. CASE n = 3 /\ r.query = "null"
  <2>1. result = Answer("BadRequest")
    BY <1>1 DEF DeviceClassesGet, WithType, Refused
  <2>2. QED
    BY <2>1, RoutedAnswer
<1>2. CASE n = 3 /\ r.query # "null"
  <2>1. result = Done("getDeviceClasses", <<>>)
    BY <1>2 DEF DeviceClassesGet, WithType
  <2>2. result.operation = "getDeviceClasses" /\ result.on = <<>>
    BY <2>1 DEF Done
  <2>3. <<r.method, <<"deviceclasses">>, "getDeviceClasses">> \in Routes
    BY <1>2 DEF Routes
  <2>4. QED
    BY <1>2, <2>2, <2>3, PlainRouted
<1>3. CASE n = 4
  <2>1. result = Done("getDeviceClass", <<r.tokens[4]>>)
    BY <1>3 DEF DeviceClassesGet, WithType
  <2>2. result.operation = "getDeviceClass" /\ result.on = <<r.tokens[4]>>
    BY <2>1 DEF Done
  <2>3. <<r.method, <<"deviceclasses", "id">>, "getDeviceClass">> \in Routes
    BY <1>3 DEF Routes
  <2>4. r.tokens[4] \in Ids /\ r.tokens[4] \in There("deviceclasses")
    BY <1>3 DEF There
  <2>5. QED
    BY <1>3, <2>2, <2>3, <2>4, IdRouted
<1>4. CASE n = 5 /\ r.tokens[5] = "actiontypes"
  <2>1. result = Done("getActionTypes", <<r.tokens[4]>>)
    BY <1>4 DEF DeviceClassesGet, Sections, GetTypes, WithType
  <2>2. result.operation = "getActionTypes" /\ result.on = <<r.tokens[4]>>
    BY <2>1 DEF Done
  <2>3. <<r.method, <<"deviceclasses", "id", "actiontypes">>, "getActionTypes">> \in Routes
    BY <1>4 DEF Routes
  <2>4. r.tokens[4] \in Ids /\ r.tokens[4] \in There("deviceclasses")
    BY <1>4 DEF There
  <2>5. QED
    BY <1>4, <2>2, <2>3, <2>4, IdWordRouted
<1>5. CASE n = 6 /\ r.tokens[5] = "actiontypes" /\ r.tokens[6] \in Ids
             /\ r.tokens[6] \in Members[r.tokens[4]].actiontypes
  <2>1. result = Done("getActionType", <<r.tokens[4], r.tokens[6]>>)
    BY <1>5 DEF DeviceClassesGet, Sections, GetType, WithType
  <2>2. result.operation = "getActionType" /\ result.on = <<r.tokens[4], r.tokens[6]>>
    BY <2>1 DEF Done
  <2>3. <<r.method, <<"deviceclasses", "id", "actiontypes", "id">>, "getActionType">> \in Routes
    BY <1>5 DEF Routes
  <2>4. r.tokens[4] \in Ids /\ r.tokens[4] \in There("deviceclasses")
          /\ r.tokens[6] \in TypesOf("deviceclasses", r.tokens[4], "actiontypes")
    BY <1>5 DEF There, TypesOf
  <2>5. QED
    BY <1>5, <2>2, <2>3, <2>4, IdWordIdRouted
<1>6. CASE n = 6 /\ r.tokens[5] = "actiontypes" /\ r.tokens[6] \in Ids
             /\ r.tokens[6] \notin Members[r.tokens[4]].actiontypes
  <2>1. result = Answer("NotFound")
    BY <1>6 DEF DeviceClassesGet, Sections, WithType
  <2>2. Served(r) # {} =>
           \/ n = 3
           \/ n = 4 /\ r.tokens[4] \in DeviceClasses
           \/ n = 5 /\ r.tokens[4] \in DeviceClasses /\ r.tokens[5] = "discover"
           \/ n = 5 /\ r.tokens[4] \in DeviceClasses /\ r.tokens[5] = "actiontypes"
           \/ n = 6 /\ r.tokens[4] \in DeviceClasses /\ r.tokens[5] = "actiontypes"
              /\ r.tokens[6] \in Members[r.tokens[4]].actiontypes
           \/ n = 5 /\ r.tokens[4] \in DeviceClasses /\ r.tokens[5] = "statetypes"
           \/ n = 6 /\ r.tokens[4] \in DeviceClasses /\ r.tokens[5] = "statetypes"
              /\ r.tokens[6] \in Members[r.tokens[4]].statetypes
           \/ n = 5 /\ r.tokens[4] \in DeviceClasses /\ r.tokens[5] = "eventtypes"
           \/ n = 6 /\ r.tokens[4] \in DeviceClasses /\ r.tokens[5] = "eventtypes"
              /\ r.tokens[6] \in Members[r.tokens[4]].eventtypes
    BY DeviceClassesGetServed
  <2>3. Served(r) = {}
    BY <1>6, <2>2
  <2>4. QED
    BY <2>1, <2>3, RoutedAnswer
<1>7. CASE n = 5 /\ r.tokens[5] = "statetypes"
  <2>1. result = Done("getStateTypes", <<r.tokens[4]>>)
    BY <1>7 DEF DeviceClassesGet, Sections, GetTypes, WithType
  <2>2. result.operation = "getStateTypes" /\ result.on = <<r.tokens[4]>>
    BY <2>1 DEF Done
  <2>3. <<r.method, <<"deviceclasses", "id", "statetypes">>, "getStateTypes">> \in Routes
    BY <1>7 DEF Routes
  <2>4. r.tokens[4] \in Ids /\ r.tokens[4] \in There("deviceclasses")
    BY <1>7 DEF There
  <2>5. QED
    BY <1>7, <2>2, <2>3, <2>4, IdWordRouted
<1>8. CASE n = 6 /\ r.tokens[5] = "statetypes" /\ r.tokens[6] \in Ids
             /\ r.tokens[6] \in Members[r.tokens[4]].statetypes
  <2>1. result = Done("getStateType", <<r.tokens[4], r.tokens[6]>>)
    BY <1>8 DEF DeviceClassesGet, Sections, GetType, WithType
  <2>2. result.operation = "getStateType" /\ result.on = <<r.tokens[4], r.tokens[6]>>
    BY <2>1 DEF Done
  <2>3. <<r.method, <<"deviceclasses", "id", "statetypes", "id">>, "getStateType">> \in Routes
    BY <1>8 DEF Routes
  <2>4. r.tokens[4] \in Ids /\ r.tokens[4] \in There("deviceclasses")
          /\ r.tokens[6] \in TypesOf("deviceclasses", r.tokens[4], "statetypes")
    BY <1>8 DEF There, TypesOf
  <2>5. QED
    BY <1>8, <2>2, <2>3, <2>4, IdWordIdRouted
<1>9. CASE n = 6 /\ r.tokens[5] = "statetypes" /\ r.tokens[6] \in Ids
             /\ r.tokens[6] \notin Members[r.tokens[4]].statetypes
  <2>1. result = Answer("NotFound")
    BY <1>9 DEF DeviceClassesGet, Sections, WithType
  <2>2. Served(r) # {} =>
           \/ n = 3
           \/ n = 4 /\ r.tokens[4] \in DeviceClasses
           \/ n = 5 /\ r.tokens[4] \in DeviceClasses /\ r.tokens[5] = "discover"
           \/ n = 5 /\ r.tokens[4] \in DeviceClasses /\ r.tokens[5] = "actiontypes"
           \/ n = 6 /\ r.tokens[4] \in DeviceClasses /\ r.tokens[5] = "actiontypes"
              /\ r.tokens[6] \in Members[r.tokens[4]].actiontypes
           \/ n = 5 /\ r.tokens[4] \in DeviceClasses /\ r.tokens[5] = "statetypes"
           \/ n = 6 /\ r.tokens[4] \in DeviceClasses /\ r.tokens[5] = "statetypes"
              /\ r.tokens[6] \in Members[r.tokens[4]].statetypes
           \/ n = 5 /\ r.tokens[4] \in DeviceClasses /\ r.tokens[5] = "eventtypes"
           \/ n = 6 /\ r.tokens[4] \in DeviceClasses /\ r.tokens[5] = "eventtypes"
              /\ r.tokens[6] \in Members[r.tokens[4]].eventtypes
    BY DeviceClassesGetServed
  <2>3. Served(r) = {}
    BY <1>9, <2>2
  <2>4. QED
    BY <2>1, <2>3, RoutedAnswer
<1>10. CASE n = 5 /\ r.tokens[5] = "eventtypes"
  <2>1. result = Done("getEventTypes", <<r.tokens[4]>>)
    BY <1>10 DEF DeviceClassesGet, Sections, GetTypes, WithType
  <2>2. result.operation = "getEventTypes" /\ result.on = <<r.tokens[4]>>
    BY <2>1 DEF Done
  <2>3. <<r.method, <<"deviceclasses", "id", "eventtypes">>, "getEventTypes">> \in Routes
    BY <1>10 DEF Routes
  <2>4. r.tokens[4] \in Ids /\ r.tokens[4] \in There("deviceclasses")
    BY <1>10 DEF There
  <2>5. QED
    BY <1>10, <2>2, <2>3, <2>4, IdWordRouted
<1>11. CASE n = 6 /\ r.tokens[5] = "eventtypes" /\ r.tokens[6] \in Ids
              /\ r.tokens[6] \in Members[r.tokens[4]].eventtypes
  <2>1. result = Done("getEventType", <<r.tokens[4], r.tokens[6]>>)
    BY <1>11 DEF DeviceClassesGet, Sections, GetType, WithType
  <2>2. result.operation = "getEventType" /\ result.on = <<r.tokens[4], r.tokens[6]>>
    BY <2>1 DEF Done
  <2>3. <<r.method, <<"deviceclasses", "id", "eventtypes", "id">>, "getEventType">> \in Routes
    BY <1>11 DEF Routes
  <2>4. r.tokens[4] \in Ids /\ r.tokens[4] \in There("deviceclasses")
          /\ r.tokens[6] \in TypesOf("deviceclasses", r.tokens[4], "eventtypes")
    BY <1>11 DEF There, TypesOf
  <2>5. QED
    BY <1>11, <2>2, <2>3, <2>4, IdWordIdRouted
<1>12. CASE n = 6 /\ r.tokens[5] = "eventtypes" /\ r.tokens[6] \in Ids
              /\ r.tokens[6] \notin Members[r.tokens[4]].eventtypes
  <2>1. result = Answer("NotFound")
    BY <1>12 DEF DeviceClassesGet, Sections, WithType
  <2>2. Served(r) # {} =>
           \/ n = 3
           \/ n = 4 /\ r.tokens[4] \in DeviceClasses
           \/ n = 5 /\ r.tokens[4] \in DeviceClasses /\ r.tokens[5] = "discover"
           \/ n = 5 /\ r.tokens[4] \in DeviceClasses /\ r.tokens[5] = "actiontypes"
           \/ n = 6 /\ r.tokens[4] \in DeviceClasses /\ r.tokens[5] = "actiontypes"
              /\ r.tokens[6] \in Members[r.tokens[4]].actiontypes
           \/ n = 5 /\ r.tokens[4] \in DeviceClasses /\ r.tokens[5] = "statetypes"
           \/ n = 6 /\ r.tokens[4] \in DeviceClasses /\ r.tokens[5] = "statetypes"
              /\ r.tokens[6] \in Members[r.tokens[4]].statetypes
           \/ n = 5 /\ r.tokens[4] \in DeviceClasses /\ r.tokens[5] = "eventtypes"
           \/ n = 6 /\ r.tokens[4] \in DeviceClasses /\ r.tokens[5] = "eventtypes"
              /\ r.tokens[6] \in Members[r.tokens[4]].eventtypes
    BY DeviceClassesGetServed
  <2>3. Served(r) = {}
    BY <1>12, <2>2
  <2>4. QED
    BY <2>1, <2>3, RoutedAnswer
<1>13. CASE n = 6 /\ r.tokens[5] \in Sections /\ r.tokens[6] \notin Ids
  <2>1. result = Answer("BadRequest")
    BY <1>13 DEF DeviceClassesGet, WithType
  <2>2. QED
    BY <2>1, RoutedAnswer
<1>14. CASE n = 5 /\ r.tokens[5] = "discover"
  <2>1. result \in TriedLater("getDiscoverdDevices", <<r.tokens[4]>>, "InternalServerError")
    BY <1>14 DEF DeviceClassesGet, Sections, WithType
  <2>2. result.operation = "getDiscoverdDevices" /\ result.on = <<r.tokens[4]>>
    BY <2>1, Tries
  <2>3. <<r.method, <<"deviceclasses", "id", "discover">>, "getDiscoverdDevices">> \in Routes
    BY <1>14 DEF Routes
  <2>4. r.tokens[4] \in Ids /\ r.tokens[4] \in There("deviceclasses")
    BY <1>14 DEF There
  <2>5. QED
    BY <1>14, <2>2, <2>3, <2>4, IdWordRouted
<1>15. CASE n \notin {3, 4}
              /\ ~(n = 5 /\ (r.tokens[5] \in Sections \/ r.tokens[5] = "discover"))
                /\ ~(n = 6 /\ r.tokens[5] \in Sections)
  <2>1. result = Answer("BadRequest")
    BY <1>15 DEF DeviceClassesGet, WithType, Refused
  <2>2. QED
    BY <2>1, RoutedAnswer
<1>16. CASE n = 5
  BY <1>4, <1>7, <1>10, <1>14, <1>15, <1>16, SectionsAre
<1>17. CASE n = 6
  BY <1>5, <1>6, <1>8, <1>9, <1>11, <1>12, <1>13, <1>15, <1>17, SectionsAre
<1>18. CASE n \notin {5, 6}
  BY <1>1, <1>2, <1>3, <1>15, <1>18
<1>19. QED
  BY <1>16, <1>17, <1>18

LEMMA DevicesGetRouted ==
    ASSUME NEW r, NEW device, NEW result, NEW n \in Nat, n = Len(r.tokens), n >= 3,
           r.tokens[3] = "devices", r.method = "GET",
           n # 3 => /\ device = r.tokens[4] /\ device # NoId
                     /\ device \in Ids /\ device \in configured /\ device \notin PairingWords,
           result \in DevicesGet(r, n, device)
    PROVE  Routed(r, result)
<1>1. CASE n = 3
  <2>1. result = Done("getConfiguredDevices", <<>>)
    BY <1>1 DEF DevicesGet, WithType
  <2>2. result.operation = "getConfiguredDevices" /\ result.on = <<>>
    BY <2>1 DEF Done
  <2>3. <<r.method, <<"devices">>, "getConfiguredDevices">> \in Routes
    BY <1>1 DEF Routes
  <2>4. QED
    BY <1>1, <2>2, <2>3, PlainRouted
<1>2. CASE n = 4
  <2>1. result = Done("getConfiguredDevice", <<r.tokens[4]>>)
    BY <1>2 DEF DevicesGet, OnDevice, WithType
  <2>2. result.operation = "getConfiguredDevice" /\ result.on = <<r.tokens[4]>>
    BY <2>1 DEF Done
  <2>3. <<r.method, <<"devices", "id">>, "getConfiguredDevice">> \in Routes
    BY <1>2 DEF Routes
  <2>4. r.tokens[4] \in Ids /\ r.tokens[4] \in There("devices")
    BY <1>2 DEF There
  <2>5. QED
    BY <1>2, <2>2, <2>3, <2>4, IdRouted
<1>3. CASE n = 5 /\ r.tokens[5] = "states"
  <2>1. result = Done("getDeviceStateValues", <<r.tokens[4]>>)
    BY <1>3 DEF DevicesGet, OnDevice, WithType
  <2>2. result.operation = "getDeviceStateValues" /\ result.on = <<r.tokens[4]>>
    BY <2>1 DEF Done
  <2>3. <<r.method, <<"devices", "id", "states">>, "getDeviceStateValues">> \in Routes
    BY <1>3 DEF Routes
  <2>4. r.tokens[4] \in Ids /\ r.tokens[4] \in There("devices")
    BY <1>3 DEF There
  <2>5. QED
    BY <1>3, <2>2, <2>3, <2>4, IdWordRouted
<1>4. CASE n >= 6 /\ r.tokens[5] = "states" /\ r.tokens[6] \in Ids
             /\ r.tokens[6] \in Members[ClassOf[r.tokens[4]]].statetypes
  <2>1. result = Done("getDeviceStateValue", <<r.tokens[4], r.tokens[6]>>)
    BY <1>4, SMTT(30) DEF DevicesGet, WithType
  <2>2. result.operation = "getDeviceStateValue" /\ result.on = <<r.tokens[4], r.tokens[6]>>
    BY <2>1 DEF Done
  <2>3. <<r.method, <<"devices", "id", "states", "id">>, "getDeviceStateValue">> \in Routes
    BY <1>4 DEF Routes
  <2>4. r.tokens[4] \in Ids /\ r.tokens[4] \in There("devices")
          /\ r.tokens[6] \in TypesOf("devices", r.tokens[4], "states")
    BY <1>4 DEF There, TypesOf
  <2>5. n = 6 \/ n > 6
    BY <1>4, AtLeastSix, Zenon
  <2>6. Len(r.tokens) \in Nat /\ (Len(r.tokens) = 6 \/ Len(r.tokens) > 6)
    BY <2>5
  <2>7. QED
    BY <1>4, <2>2, <2>3, <2>4, <2>6, IdWordIdRouted
<1>5. CASE n >= 6 /\ r.tokens[5] = "states" /\ r.tokens[6] \in Ids
             /\ r.tokens[6] \notin Members[ClassOf[r.tokens[4]]].statetypes
  <2>1. result = Answer("NotFound")
    BY <1>5 DEF DevicesGet, WithType
  <2>2. Served(r) # {} =>
           \/ n = 3
           \/ n = 4 /\ r.tokens[4] \in Ids /\ r.tokens[4] \in configured
           \/ n = 5 /\ r.tokens[4] \in Ids /\ r.tokens[4] \in configured /\ r.tokens[5] = "states"
           \/ (n = 6 \/ n > 6) /\ r.tokens[4] \in Ids /\ r.tokens[4] \in configured
                /\ r.tokens[5] = "states"
              /\ r.tokens[6] \in Members[ClassOf[r.tokens[4]]].statetypes
    BY DevicesGetServed
  <2>3. Served(r) = {}
    BY <1>5, <2>2
  <2>4. QED
    BY <2>1, <2>3, RoutedAnswer
<1>6. CASE n >= 6 /\ r.tokens[5] = "states" /\ r.tokens[6] \notin Ids
  <2>1. result = Answer("BadRequest")
    BY <1>6 DEF DevicesGet, WithType
  <2>2. QED
    BY <2>1, RoutedAnswer
<1>7. CASE n \notin {3, 4} /\ r.tokens[5] # "states"
  <2>1. result = Answer("NotImplemented")
    BY <1>7 DEF DevicesGet, WithType, NotThere
  <2>2. Served(r) # {} =>
           \/ n = 3
           \/ n = 4 /\ r.tokens[4] \in Ids /\ r.tokens[4] \in configured
           \/ n = 5 /\ r.tokens[4] \in Ids /\ r.tokens[4] \in configured /\ r.tokens[5] = "states"
           \/ (n = 6 \/ n > 6) /\ r.tokens[4] \in Ids /\ r.tokens[4] \in configured
                /\ r.tokens[5] = "states"
              /\ r.tokens[6] \in Members[ClassOf[r.tokens[4]]].statetypes
    BY DevicesGetServed
  <2>3. Served(r) = {}
    BY <1>7, <2>2
  <2>4. QED
    BY <2>1, <2>3, RoutedAnswer
<1>8. \/ n = 3
      \/ n = 4
      \/ n = 5 /\ r.tokens[5] = "states"
      \/ n >= 6 /\ r.tokens[5] = "states" /\ r.tokens[6] \in Ids
           /\ r.tokens[6] \in Members[ClassOf[r.tokens[4]]].statetypes
      \/ n >= 6 /\ r.tokens[5] = "states" /\ r.tokens[6] \in Ids
           /\ r.tokens[6] \notin Members[ClassOf[r.tokens[4]]].statetypes
      \/ n >= 6 /\ r.tokens[5] = "states" /\ r.tokens[6] \notin Ids
      \/ n \notin {3, 4} /\ r.tokens[5] # "states"
  BY LengthCases
<1>9. QED
  BY <1>1, <1>2, <1>3, <1>4, <1>5, <1>6, <1>7, <1>8, Zenon

LEMMA DevicesDeleteRouted ==
    ASSUME NEW r, NEW device, NEW result, NEW n \in Nat, n = Len(r.tokens), n >= 3,
           r.tokens[3] = "devices", r.method = "DELETE",
           n # 3 => /\ device = r.tokens[4] /\ device # NoId
                     /\ device \in Ids /\ device \in configured /\ device \notin PairingWords,
           result \in DevicesDelete(r, n, device)
    PROVE  Routed(r, result)
<1>1. CASE n = 3
  <2>1. result = Answer("BadRequest")
    BY <1>1 DEF DevicesDelete, Refused
  <2>2. QED
    BY <2>1, RoutedAnswer
<1>2. CASE n = 4
  <2>1. result \in Tried("removeDevice", <<r.tokens[4]>>,
                        IF r.query = "known" THEN "Ok" ELSE "BadRequest")
    BY <1>2 DEF DevicesDelete, OnDevice
  <2>2. result.operation = "removeDevice" /\ result.on = <<r.tokens[4]>>
    BY <2>1, Tries
  <2>3. <<r.method, <<"devices", "id">>, "removeDevice">> \in Routes
    BY <1>2 DEF Routes
  <2>4. r.tokens[4] \in Ids /\ r.tokens[4] \in There("devices")
    BY <1>2 DEF There
  <2>5. QED
    BY <1>2, <2>2, <2>3, <2>4, IdRouted
<1>3. CASE n \notin {3, 4}
  <2>1. result = Answer("NotImplemented")
    BY <1>3 DEF DevicesDelete, NotThere
  <2>2. Served(r) # {} =>
           \/ n = 4 /\ r.tokens[4] \in Ids /\ r.tokens[4] \in configured
    BY DevicesDeleteServed
  <2>3. Served(r) = {}
    BY <1>3, <2>2
  <2>4. QED
    BY <2>1, <2>3, RoutedAnswer
<1>4. \/ n = 3
      \/ n = 4
      \/ n \notin {3, 4}
  OBVIOUS
<1>5. QED
  BY <1>1, <1>2, <1>3, <1>4, Zenon

LEMMA DevicesPutRouted ==
    ASSUME NEW r, NEW device, NEW result, NEW n \in Nat, n = Len(r.tokens), n >= 3,
           r.tokens[3] = "devices", r.method = "PUT",
           n # 3 => /\ device = r.tokens[4] /\ device # NoId
                     /\ device \in Ids /\ device \in configured /\ device \notin PairingWords,
           result \in DevicesPut(r, n, device)
    PROVE  Routed(r, result)
<1>1. CASE n = 3
  <2>1. result = Answer("BadRequest")
    BY <1>1 DEF DevicesPut, Refused
  <2>2. QED
    BY <2>1, RoutedAnswer
<1>2. CASE n = 4
  <2>1. result \in TriedLater("reconfigureDevice", <<r.tokens[4]>>, "InternalServerError")
    BY <1>2 DEF DevicesPut, OnDevice
  <2>2. result.operation = "reconfigureDevice" /\ result.on = <<r.tokens[4]>>
    BY <2>1, Tries
  <2>3. <<r.method, <<"devices", "id">>, "reconfigureDevice">> \in Routes
    BY <1>2 DEF Routes
  <2>4. r.tokens[4] \in Ids /\ r.tokens[4] \in There("devices")
    BY <1>2 DEF There
  <2>5. QED
    BY <1>2, <2>2, <2>3, <2>4, IdRouted
<1>3. CASE n \notin {3, 4}
  <2>1. result = Answer("NotImplemented")
    BY <1>3 DEF DevicesPut, NotThere
  <2>2. Served(r) # {} =>
           \/ n = 4 /\ r.tokens[4] \in Ids /\ r.tokens[4] \in configured
    BY DevicesPutServed
  <2>3. Served(r) = {}
    BY <1>3, <2>2
  <2>4. QED
    BY <2>1, <2>3, RoutedAnswer
<1>4. \/ n = 3
      \/ n = 4
      \/ n \notin {3, 4}
  OBVIOUS
<1>5. QED
  BY <1>1, <1>2, <1>3, <1>4, Zenon

LEMMA DevicesPostRouted ==
    ASSUME NEW r, NEW device, NEW result, NEW n \in Nat, n = Len(r.tokens), n >= 3,
           r.tokens[3] = "devices", r.method = "POST",
           n # 3 => /\ device = r.tokens[4] /\ device # NoId
                     /\ device \in Ids /\ device \in configured /\ device \notin PairingWords,
           result \in DevicesPost(r, n, device)
    PROVE  Routed(r, result)
<1>1. CASE n = 3 /\ ~Has(r.payload, "deviceClassId")
  <2>1. result = Answer("BadRequest")
    BY <1>1 DEF DevicesPost, WithType, Refused
  <2>2. QED
    BY <2>1, RoutedAnswer
<1>2. CASE n = 3 /\ Has(r.payload, "deviceClassId")
  <2>1. result \in TriedLater("addConfiguredDevice", <<>>, "InternalServerError")
    BY <1>2 DEF DevicesPost, WithType
  <2>2. result.operation = "addConfiguredDevice" /\ result.on = <<>>
    BY <2>1, Tries
  <2>3. <<r.method, <<"devices">>, "addConfiguredDevice">> \in Routes
    BY <1>2 DEF Routes
  <2>4. QED
    BY <1>2, <2>2, <2>3, PlainRouted
<1>3. CASE n = 4
  <2>1. result \in Tried("editDevice", <<r.tokens[4]>>, "BadRequest")
    BY <1>3 DEF DevicesPost, PairingWords, WithType
  <2>2. result.operation = "editDevice" /\ result.on = <<r.tokens[4]>>
    BY <2>1, Tries
  <2>3. <<r.method, <<"devices", "id">>, "editDevice">> \in Routes
    BY <1>3 DEF Routes
  <2>4. r.tokens[4] \in Ids /\ r.tokens[4] \in There("devices")
    BY <1>3 DEF There
  <2>5. QED
    BY <1>3, <2>2, <2>3, <2>4, IdRouted
<1>4. CASE n >= 6 /\ r.tokens[5] = "execute" /\ r.tokens[6] \in Ids
             /\ r.tokens[6] \in Members[ClassOf[r.tokens[4]]].actiontypes
               /\ Has(r.payload, "params")
  <2>1. result \in TriedLater("executeAction", <<r.tokens[4], r.tokens[6]>>, "InternalServerError")
    BY <1>4, SMTT(30) DEF DevicesPost, WithType
  <2>2. result.operation = "executeAction" /\ result.on = <<r.tokens[4], r.tokens[6]>>
    BY <2>1, Tries
  <2>3. <<r.method, <<"devices", "id", "execute", "id">>, "executeAction">> \in Routes
    BY <1>4 DEF Routes
  <2>4. r.tokens[4] \in Ids /\ r.tokens[4] \in There("devices")
          /\ r.tokens[6] \in TypesOf("devices", r.tokens[4], "execute")
    BY <1>4 DEF There, TypesOf
  <2>5. n = 6 \/ n > 6
    BY <1>4, AtLeastSix, Zenon
  <2>6. Len(r.tokens) \in Nat /\ (Len(r.tokens) = 6 \/ Len(r.tokens) > 6)
    BY <2>5
  <2>7. QED
    BY <1>4, <2>2, <2>3, <2>4, <2>6, IdWordIdRouted
<1>5. CASE n >= 6 /\ r.tokens[5] = "execute" /\ r.tokens[6] \in Ids
             /\ r.tokens[6] \notin Members[ClassOf[r.tokens[4]]].actiontypes
  <2>1. result = Answer("NotFound")
    BY <1>5 DEF DevicesPost, WithType
  <2>2. Served(r) # {} =>
           \/ n = 3
           \/ n = 4 /\ r.tokens[4] = "pair"
           \/ n = 4 /\ r.tokens[4] = "confirmpairing"
           \/ n = 4 /\ r.tokens[4] \in Ids /\ r.tokens[4] \in configured
           \/ (n = 6 \/ n > 6) /\ r.tokens[4] \in Ids /\ r.tokens[4] \in configured
                /\ r.tokens[5] = "execute"
              /\ r.tokens[6] \in Members[ClassOf[r.tokens[4]]].actiontypes
    BY DevicesPostServed
  <2>3. Served(r) = {}
    BY <1>5, <2>2
  <2>4. QED
    BY <2>1, <2>3, RoutedAnswer
<1>6. CASE n >= 6 /\ r.tokens[5] = "execute" /\ r.tokens[6] \notin Ids
  <2>1. result = Answer("BadRequest")
    BY <1>6 DEF DevicesPost, WithType
  <2>2. QED
    BY <2>1, RoutedAnswer
<1>7. CASE n >= 6 /\ r.tokens[5] = "execute" /\ r.tokens[6] \in Ids
             /\ r.tokens[6] \in Members[ClassOf[r.tokens[4]]].actiontypes
               /\ ~Has(r.payload, "params")
  <2>1. result = Answer("BadRequest")
    BY <1>7 DEF DevicesPost, WithType, Refused
  <2>2. QED
    BY <2>1, RoutedAnswer
<1>8. CASE n \notin {3, 4} /\ ~(n >= 6 /\ r.tokens[5] = "execute")
  <2>1. result = Answer("NotImplemented")
    BY <1>8 DEF DevicesPost, WithType, NotThere
  <2>2. Served(r) # {} =>
           \/ n = 3
           \/ n = 4 /\ r.tokens[4] = "pair"
           \/ n = 4 /\ r.tokens[4] = "confirmpairing"
           \/ n = 4 /\ r.tokens[4] \in Ids /\ r.tokens[4] \in configured
           \/ (n = 6 \/ n > 6) /\ r.tokens[4] \in Ids /\ r.tokens[4] \in configured
                /\ r.tokens[5] = "execute"
              /\ r.tokens[6] \in Members[ClassOf[r.tokens[4]]].actiontypes
    BY DevicesPostServed
  <2>3. Served(r) = {}
    BY <1>8, <2>2
  <2>4. QED
    BY <2>1, <2>3, RoutedAnswer
<1>9. \/ n = 3 /\ ~Has(r.payload, "deviceClassId")
      \/ n = 3 /\ Has(r.payload, "deviceClassId")
      \/ n = 4
      \/ n >= 6 /\ r.tokens[5] = "execute" /\ r.tokens[6] \in Ids
           /\ r.tokens[6] \in Members[ClassOf[r.tokens[4]]].actiontypes
             /\ Has(r.payload, "params")
      \/ n >= 6 /\ r.tokens[5] = "execute" /\ r.tokens[6] \in Ids
           /\ r.tokens[6] \notin Members[ClassOf[r.tokens[4]]].actiontypes
      \/ n >= 6 /\ r.tokens[5] = "execute" /\ r.tokens[6] \notin Ids
      \/ n >= 6 /\ r.tokens[5] = "execute" /\ r.tokens[6] \in Ids
           /\ r.tokens[6] \in Members[ClassOf[r.tokens[4]]].actiontypes
             /\ ~Has(r.payload, "params")
      \/ n \notin {3, 4} /\ ~(n >= 6 /\ r.tokens[5] = "execute")
  OBVIOUS
<1>10. QED
  BY <1>1, <1>2, <1>3, <1>4, <1>5, <1>6, <1>7, <1>8, <1>9, Zenon

-----------------------------------------------------------------------------
(* Requests *)

\* A word of pairing in the place of a device: there is no device.
LEMMA PairingRouted ==
    ASSUME NEW r, NEW result, NEW n \in Nat, n = Len(r.tokens), n >= 4, r.tokens[3] = "devices",
           r.tokens[4] \in PairingWords, IdsAssumption, result \in DevicesReplies(r, n, NoId)
    PROVE  Routed(r, result)
<1>1. r.tokens[4] \notin Ids
  BY DEF IdsAssumption
<1>2. CASE r.method = "GET"
  <2>1. Served(r) = {}
    <3>1. Served(r) # {} => n = 3 \/ r.tokens[4] \in Ids
      BY <1>2, DevicesGetServed, Zenon
    <3>2. QED
      BY <1>1, <3>1
  <2>2. result \in {Undefined, Answer("BadRequest"), Answer("NotImplemented")}
    BY <1>2 DEF DevicesReplies, DevicesGet, OnDevice, WithType, NotThere
  <2>3. QED
    BY <2>1, <2>2, RoutedUndefined, RoutedAnswer
<1>3. CASE r.method = "DELETE"
  <2>1. Served(r) = {}
    <3>1. Served(r) # {} => r.tokens[4] \in Ids
      BY <1>3, DevicesDeleteServed, Zenon
    <3>2. QED
      BY <1>1, <3>1
  <2>2. result \in {Undefined, Answer("NotImplemented")}
    BY <1>3 DEF DevicesReplies, DevicesDelete, OnDevice, NotThere
  <2>3. QED
    BY <2>1, <2>2, RoutedUndefined, RoutedAnswer
<1>4. CASE r.method = "PUT"
  <2>1. Served(r) = {}
    <3>1. Served(r) # {} => r.tokens[4] \in Ids
      BY <1>4, DevicesPutServed, Zenon
    <3>2. QED
      BY <1>1, <3>1
  <2>2. result \in {Undefined, Answer("NotImplemented")}
    BY <1>4 DEF DevicesReplies, DevicesPut, OnDevice, NotThere
  <2>3. QED
    BY <2>1, <2>2, RoutedUndefined, RoutedAnswer
<1>5. CASE r.method = "POST" /\ n = 4 /\ r.tokens[4] = "pair"
  <2>1. result \in Tried("pairDevice", <<>>, "BadRequest") \/ result = Answer("BadRequest")
    BY <1>5 DEF DevicesReplies, DevicesPost, WithType, Refused
  <2>2. CASE result \in Tried("pairDevice", <<>>, "BadRequest")
    <3>1. result.operation = "pairDevice" /\ result.on = <<>>
      BY <2>2, Tries
    <3>2. <<r.method, <<"devices", "pair">>, "pairDevice">> \in Routes
      BY <1>5 DEF Routes
    <3>3. QED
      BY <1>5, <3>1, <3>2, WordRouted
  <2>3. QED
    BY <2>1, <2>2, RoutedAnswer
<1>6. CASE r.method = "POST" /\ n = 4 /\ r.tokens[4] = "confirmpairing"
  <2>1. result \in TriedLater("confirmPairDevice", <<>>, "InternalServerError")
    BY <1>6 DEF DevicesReplies, DevicesPost, WithType
  <2>2. result.operation = "confirmPairDevice" /\ result.on = <<>>
    BY <2>1, Tries
  <2>3. <<r.method, <<"devices", "confirmpairing">>, "confirmPairDevice">> \in Routes
    BY <1>6 DEF Routes
  <2>4. QED
    BY <1>6, <2>2, <2>3, WordRouted
<1>7. CASE r.method = "POST" /\ n # 4
  <2>1. Served(r) = {}
    <3>1. Served(r) # {} => n = 3 \/ n = 4 \/ r.tokens[4] \in Ids
      BY <1>7, DevicesPostServed, Zenon
    <3>2. QED
      BY <1>1, <1>7, <3>1
  <2>2. result \in {Undefined, Answer("BadRequest"), Answer("NotImplemented")}
    BY <1>7 DEF DevicesReplies, DevicesPost, WithType, NotThere
  <2>3. QED
    BY <2>1, <2>2, RoutedUndefined, RoutedAnswer
<1>8. CASE r.method \notin {"GET", "DELETE", "PUT", "POST"}
  <2>1. result = Cors \/ result = Answer("BadRequest")
    BY <1>8 DEF DevicesReplies, Refused
  <2>2. QED
    BY <2>1, RoutedCors, RoutedAnswer
<1>9. r.tokens[4] = "pair" \/ r.tokens[4] = "confirmpairing"
  BY DEF PairingWords
<1>10. QED
  BY <1>2, <1>3, <1>4, <1>5, <1>6, <1>7, <1>8, <1>9

\* Each resource looks up what the path names, and keeps it or the null id.
LEMMA DevicesRouted ==
    ASSUME NEW r, NEW n \in Nat, n = Len(r.tokens), n >= 3, r.tokens[3] = "devices",
           IdsAssumption, DevicesRequest(r)
    PROVE  Routed(r, reply')
<1> DEFINE named == n >= 4 /\ r.tokens[4] \notin PairingWords
           found == IF named /\ r.tokens[4] \in configured THEN r.tokens[4] ELSE NoId
<1>1. reply' \in IF named /\ r.tokens[4] \notin Ids THEN {Answer("BadRequest")}
                 ELSE IF named /\ found = NoId THEN {Answer("NotFound")}
                 ELSE DevicesReplies(r, n, found)
  BY DEF DevicesRequest
<1>2. CASE named /\ r.tokens[4] \notin Ids
  BY <1>1, <1>2, RoutedAnswer
<1>3. CASE named /\ r.tokens[4] \in Ids /\ r.tokens[4] \notin configured
  <2>1. reply' = Answer("NotFound")
    BY <1>1, <1>3
  <2>2. r.tokens[4] \notin There(r.tokens[3])
    BY <1>3 DEF There
  <2>3. Served(r) = {}
    BY <1>3, <2>2, NothingThere
  <2>4. QED
    BY <2>1, <2>3, RoutedAnswer
<1>4. CASE n = 3 \/ (named /\ r.tokens[4] \in Ids /\ r.tokens[4] \in configured)
  <2>1. n # 3 => /\ found = r.tokens[4] /\ found # NoId
                 /\ found \in Ids /\ found \in configured /\ found \notin PairingWords
    BY <1>4 DEF IdsAssumption
  <2>2. reply' \in DevicesReplies(r, n, found)
    BY <1>1, <1>4, <2>1
  <2> HIDE DEF found
  <2>3. CASE r.method = "GET"
    BY <2>1, <2>2, <2>3, DevicesGetRouted DEF DevicesReplies
  <2>4. CASE r.method = "DELETE"
    BY <2>1, <2>2, <2>4, DevicesDeleteRouted DEF DevicesReplies
  <2>5. CASE r.method = "PUT"
    BY <2>1, <2>2, <2>5, DevicesPutRouted DEF DevicesReplies
  <2>6. CASE r.method = "POST"
    BY <2>1, <2>2, <2>6, DevicesPostRouted DEF DevicesReplies
  <2>7. CASE r.method \notin {"GET", "DELETE", "PUT", "POST"}
    BY <2>2, <2>7, RoutedCors, RoutedAnswer DEF DevicesReplies, Refused
  <2>8. QED
    BY <2>3, <2>4, <2>5, <2>6, <2>7
<1>5. CASE n >= 4 /\ r.tokens[4] \in PairingWords
  <2>1. reply' \in DevicesReplies(r, n, NoId)
    BY <1>1, <1>5
  <2>2. QED
    BY <1>5, <2>1, PairingRouted
<1>6. n = 3 \/ n >= 4
  BY ThreeOrMore, Zenon
<1>7. QED
  BY <1>2, <1>3, <1>4, <1>5, <1>6, Zenon

LEMMA RulesRouted ==
    ASSUME NEW r, NEW n \in Nat, n = Len(r.tokens), n >= 3, r.tokens[3] = "rules",
           IdsAssumption, RulesRequest(r)
    PROVE  Routed(r, reply')
<1> DEFINE rule == IF n < 4 THEN m_ruleId ELSE IF r.tokens[4] \in Ids THEN r.tokens[4] ELSE NoId
<1>1. reply' \in IF n >= 4 /\ rule = NoId THEN {Answer("BadRequest")}
                 ELSE IF n >= 4 /\ rule \notin stored THEN {Answer("NotFound")}
                 ELSE CASE r.method = "GET" -> RulesGet(r, n, rule)
                        [] r.method \in {"DELETE", "PUT"} -> RulesChange(r, n, rule)
                        [] r.method = "POST" -> RulesPost(r, n, rule)
                        [] r.method = "OPTIONS" -> {Cors}
                        [] OTHER -> Refused
  BY DEF RulesRequest
<1>2. n = 3 \/ (n >= 4 /\ ~(n < 4))
  BY ThreeOrMore, Zenon
<1>3. CASE n # 3 /\ r.tokens[4] \notin Ids
  BY <1>1, <1>2, <1>3, RoutedAnswer
<1>4. CASE n # 3 /\ r.tokens[4] \in Ids /\ r.tokens[4] \notin stored
  <2>1. reply' = Answer("NotFound")
    BY <1>1, <1>2, <1>4 DEF IdsAssumption
  <2>2. r.tokens[4] \notin There(r.tokens[3]) /\ r.tokens[4] \notin PairingWords
    BY <1>4 DEF There, IdsAssumption
  <2>3. Served(r) = {}
    BY <1>2, <1>4, <2>2, NothingThere
  <2>4. QED
    BY <2>1, <2>3, RoutedAnswer
<1>5. CASE n # 3 => r.tokens[4] \in Ids /\ r.tokens[4] \in stored
  <2>1. PICK entity : /\ n # 3 => entity = r.tokens[4]
                      /\ reply' \in CASE r.method = "GET" -> RulesGet(r, n, entity)
                                      [] r.method \in {"DELETE", "PUT"} -> RulesChange(r, n, entity)
                                      [] r.method = "POST" -> RulesPost(r, n, entity)
                                      [] r.method = "OPTIONS" -> {Cors}
                                      [] OTHER -> Refused
    BY <1>1, <1>2, <1>5 DEF IdsAssumption
  <2>2. CASE r.method = "GET"
    BY <1>5, <2>1, <2>2, RulesGetRouted
  <2>3. CASE r.method = "DELETE"
    BY <1>5, <2>1, <2>3, RulesDeleteRouted
  <2>4. CASE r.method = "PUT"
    BY <1>5, <2>1, <2>4, RulesPutRouted
  <2>5. CASE r.method = "POST"
    BY <1>5, <2>1, <2>5, RulesPostRouted
  <2>6. CASE r.method \notin {"GET", "DELETE", "PUT", "POST"}
    BY <2>1, <2>6, RoutedCors, RoutedAnswer DEF Refused
  <2>7. QED
    BY <2>2, <2>3, <2>4, <2>5, <2>6
<1>6. QED
  BY <1>3, <1>4, <1>5

LEMMA DeviceClassesRouted ==
    ASSUME NEW r, NEW n \in Nat, n = Len(r.tokens), n >= 3, r.tokens[3] = "deviceclasses",
           IdsAssumption, DeviceClassesRequest(r)
    PROVE  Routed(r, reply')
<1> DEFINE class == IF n < 4 \/ r.tokens[4] \notin Ids THEN m_deviceClass
                    ELSE IF r.tokens[4] \in DeviceClasses THEN r.tokens[4] ELSE NoId
<1>1. reply' \in IF n >= 4 /\ r.tokens[4] \notin Ids THEN {Answer("BadRequest")}
                 ELSE IF n >= 4 /\ class = NoId THEN {Answer("NotFound")}
                 ELSE IF r.method = "GET" THEN DeviceClassesGet(r, n, class)
                 ELSE Refused
  BY DEF DeviceClassesRequest
<1>2. n = 3 \/ (n >= 4 /\ ~(n < 4))
  BY ThreeOrMore, Zenon
<1>3. CASE n # 3 /\ r.tokens[4] \notin Ids
  BY <1>1, <1>2, <1>3, RoutedAnswer
<1>4. CASE n # 3 /\ r.tokens[4] \in Ids /\ r.tokens[4] \notin DeviceClasses
  <2>1. reply' = Answer("NotFound")
    BY <1>1, <1>2, <1>4
  <2>2. r.tokens[4] \notin There(r.tokens[3]) /\ r.tokens[4] \notin PairingWords
    BY <1>4 DEF There, IdsAssumption
  <2>3. Served(r) = {}
    BY <1>2, <1>4, <2>2, NothingThere
  <2>4. QED
    BY <2>1, <2>3, RoutedAnswer
<1>5. CASE n # 3 => r.tokens[4] \in Ids /\ r.tokens[4] \in DeviceClasses
  <2>1. PICK entity : /\ n # 3 => entity = r.tokens[4]
                      /\ \/ r.method = "GET" /\ reply' \in DeviceClassesGet(r, n, entity)
                         \/ reply' = Answer("BadRequest")
    BY <1>1, <1>2, <1>5 DEF IdsAssumption, Refused
  <2>2. CASE r.method = "GET" /\ reply' \in DeviceClassesGet(r, n, entity)
    BY <1>5, <2>1, <2>2, DeviceClassesGetRouted
  <2>3. QED
    BY <2>1, <2>2, RoutedAnswer
<1>6. QED
  BY <1>3, <1>4, <1>5

LEMMA PluginsRouted ==
    ASSUME NEW r, NEW n \in Nat, n = Len(r.tokens), n >= 3, r.tokens[3] = "plugins",
           IdsAssumption, PluginsRequest(r)
    PROVE  Routed(r, reply')
<1> DEFINE plugin == IF n < 4 THEN m_pluginId
                     ELSE IF r.tokens[4] \in Ids THEN r.tokens[4] ELSE NoId
<1>1. reply' \in IF n >= 4 /\ plugin = NoId THEN {Answer("BadRequest")}
                 ELSE CASE r.method = "GET" -> PluginsGet(r, n, plugin)
                        [] r.method = "PUT" -> PluginsPut(r, n, plugin)
                        [] r.method = "OPTIONS" -> {Cors}
                        [] OTHER -> Refused
  BY DEF PluginsRequest
<1>2. n = 3 \/ (n >= 4 /\ ~(n < 4))
  BY ThreeOrMore, Zenon
<1>3. CASE n # 3 /\ r.tokens[4] \notin Ids
  BY <1>1, <1>2, <1>3, RoutedAnswer
<1>4. CASE n # 3 => r.tokens[4] \in Ids
  <2>1. PICK entity : /\ n # 3 => entity = r.tokens[4]
                      /\ reply' \in CASE r.method = "GET" -> PluginsGet(r, n, entity)
                                      [] r.method = "PUT" -> PluginsPut(r, n, entity)
                                      [] r.method = "OPTIONS" -> {Cors}
                                      [] OTHER -> Refused
    BY <1>1, <1>2, <1>4 DEF IdsAssumption
  <2>2. CASE r.method = "GET"
    BY <1>4, <2>1, <2>2, PluginsGetRouted
  <2>3. CASE r.method = "PUT"
    BY <1>4, <2>1, <2>3, PluginsPutRouted
  <2>4. CASE r.method \notin {"GET", "PUT"}
    BY <2>1, <2>4, RoutedCors, RoutedAnswer DEF Refused
  <2>5. QED
    BY <2>2, <2>3, <2>4
<1>5. QED
  BY <1>3, <1>4

LEMMA VendorsRouted ==
    ASSUME NEW r, NEW n \in Nat, n = Len(r.tokens), n >= 3, r.tokens[3] = "vendors",
           IdsAssumption, VendorsRequest(r)
    PROVE  Routed(r, reply')
<1> DEFINE vendor == IF n < 4 THEN m_vendorId
                     ELSE IF r.tokens[4] \in Ids THEN r.tokens[4] ELSE NoId
<1>1. reply' \in IF n >= 4 /\ vendor = NoId THEN {Answer("BadRequest")}
                 ELSE IF r.method = "GET" THEN VendorsGet(r, n, vendor)
                 ELSE Refused
  BY DEF VendorsRequest
<1>2. n = 3 \/ (n >= 4 /\ ~(n < 4))
  BY ThreeOrMore, Zenon
<1>3. CASE n # 3 /\ r.tokens[4] \notin Ids
  BY <1>1, <1>2, <1>3, RoutedAnswer
<1>4. CASE n # 3 => r.tokens[4] \in Ids
  <2>1. PICK entity : /\ n # 3 => entity = r.tokens[4]
                      /\ \/ r.method = "GET" /\ reply' \in VendorsGet(r, n, entity)
                         \/ reply' = Answer("BadRequest")
    BY <1>1, <1>2, <1>4 DEF IdsAssumption, Refused
  <2>2. CASE r.method = "GET" /\ reply' \in VendorsGet(r, n, entity)
    BY <1>4, <2>1, <2>2, VendorsGetRouted
  <2>3. QED
    BY <2>1, <2>2, RoutedAnswer
<1>5. QED
  BY <1>3, <1>4

LEMMA LogsRouted ==
    ASSUME NEW r, NEW n \in Nat, n = Len(r.tokens), n >= 3, r.tokens[3] = "logs", LogsRequest(r)
    PROVE  Routed(r, reply')
<1>1. CASE r.method # "GET"
  BY <1>1, RoutedAnswer DEF LogsRequest
<1>2. CASE r.method = "GET" /\ n = 3
  <2>1. reply'.operation = "getLogEntries" /\ reply'.on = <<>>
    BY <1>2 DEF LogsRequest, Done
  <2>2. <<r.method, <<"logs">>, "getLogEntries">> \in Routes
    BY <1>2 DEF Routes
  <2>3. QED
    BY <1>2, <2>1, <2>2, PlainRouted
<1>3. CASE r.method = "GET" /\ n # 3
  <2>1. reply' = Answer("NotImplemented")
    BY <1>3 DEF LogsRequest
  <2>2. Served(r) = {}
    <3> SUFFICES ASSUME NEW route \in Served(r) PROVE FALSE
      OBVIOUS
    <3>1. route[2][1] = "logs" /\ route \in Routes /\ route[1] = "GET"
      BY <1>3, ServedRoute
    <3>2. route = <<r.method, <<"logs">>, "getLogEntries">>
      BY <1>3, <3>1 DEF Routes
    <3>3. QED
      BY <1>3, <3>1, <3>2, PlainServed
  <2>3. QED
    BY <2>1, <2>2, RoutedAnswer
<1>4. QED
  BY <1>1, <1>2, <1>3

LEMMA RequestRouted ==
    ASSUME NEW r, NEW n \in Nat, n = Len(r.tokens), IdsAssumption, ProcessRequest(r)
    PROVE  Routed(r, reply')
<1>1. CASE n < 3 \/ r.tokens[3] \notin Resources
  <2>1. reply' = Answer("BadRequest")
    BY <1>1 DEF ProcessRequest
  <2>2. QED
    BY <2>1, RoutedAnswer
<1>2. CASE n = 3 /\ r.tokens[3] \in Resources /\ r.method = "OPTIONS"
  <2>1. reply' = Cors
    BY <1>2 DEF ProcessRequest
  <2>2. QED
    BY <2>1, RoutedCors
<1>3. CASE n >= 3 /\ r.tokens[3] \in Resources /\ ~(n = 3 /\ r.method = "OPTIONS")
  <2>1. \/ r.tokens[3] = "devices" /\ DevicesRequest(r)
        \/ r.tokens[3] = "rules" /\ RulesRequest(r)
        \/ r.tokens[3] = "deviceclasses" /\ DeviceClassesRequest(r)
        \/ r.tokens[3] = "plugins" /\ PluginsRequest(r)
        \/ r.tokens[3] = "vendors" /\ VendorsRequest(r)
        \/ r.tokens[3] = "logs" /\ LogsRequest(r)
    BY <1>3 DEF ProcessRequest
  <2>2. QED
    BY <1>3, <2>1, DevicesRouted, RulesRouted, DeviceClassesRouted, PluginsRouted, VendorsRouted,
       LogsRouted
<1>4. QED
  BY <1>1, <1>2, <1>3

\* A request does what the comments of the resources say of its path, on what its own
\* path names (RestServer::processHttpRequest() and the resources it calls): nothing
\* that an earlier request left in a member is used.
THEOREM RequestsRoutedCorrect == RestResourcesSpec => RequestsRouted
<1> USE IdsAssumption
<1>1. ASSUME [RestResourcesNext(RestRequests)]_restVars
      PROVE  [request = NoId /\ request' # NoId => Routed(request', reply')]_restVars
  <2> SUFFICES ASSUME request = NoId, request' # NoId
               PROVE  Routed(request', reply')
    OBVIOUS
  <2>1. PICK r \in RestRequests : Serve(r)
    BY <1>1 DEF RestResourcesNext, restVars, Answered
  <2>2. request' = r /\ ProcessRequest(r)
    BY <2>1 DEF Serve
  <2>3. Len(r.tokens) \in Nat
    BY PathsAssumption
  <2>4. QED
    BY <2>2, <2>3, RequestRouted
<1>2. QED
  BY <1>1, PTL DEF RestResourcesSpec, RequestsRouted
=============================================================================
