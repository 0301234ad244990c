----------------------------- MODULE RestServer -----------------------------
(***************************************************************************)
(* The REST server and the web server below it.                            *)
(*                                                                         *)
(* Web server: connections grouped by the address of their client, at most *)
(* MaxConnections for each, closed when idle for ConnectionTimeout, and    *)
(* requests that arrive in one packet or in several.                       *)
(*                                                                         *)
(* REST server: a request is answered at once or by an HttpReply that the  *)
(* resources keep until the device manager reports the result or the       *)
(* reply's timer fires.  Replies are found by the connection they came on, *)
(* the resources' pointers to them become null when they are deleted       *)
(* (QPointer).                                                             *)
(*                                                                         *)
(* Time advances in ticks; a timer that is due fires before the next tick. *)
(***************************************************************************)
EXTENDS Naturals, FiniteSets

CONSTANTS
    Connections,
    AddressOf,           \* the address of the client that makes a connection
    MaxConnections,      \* of one address: 50
    ConnectionTimeout,   \* ticks an unused connection stays open: 12 s
    Packets,             \* what may arrive on a connection, see PacketOK
    None

Addresses == {AddressOf[c] : c \in Connections}

\* A packet holds a whole header or a part of one, and a part of a body:
\* `length` is the Content-Length of the header, `body` the number of bytes
\* after it, `blank` how many of those are at the ends or in runs of white space.
\* `wants` tells what the request asks for.
PacketOK(p) ==
    /\ p.head \in BOOLEAN
    /\ p.length \in Nat /\ p.body \in Nat /\ p.blank \in 0..p.body

ASSUME WebServerAssumption ==
    /\ DOMAIN AddressOf = Connections
    /\ MaxConnections \in Nat \ {0} /\ ConnectionTimeout \in Nat \ {0}
    /\ \A p \in Packets : PacketOK(p) /\ p # None
    /\ None \notin Nat \cup Connections

VARIABLES
    m_useSsl,               \* a setting, read at the start
    socket,                 \* "unused", "encrypting", "open", "closed" or "lost"
    m_webServerClients,     \* the addresses that have a WebServerClient
    m_connections,          \* address -> the connections of its WebServerClient
    m_runningConnections,   \* connection -> age of its timer, None: stopped or deleted
    m_clientList,           \* the connections the server knows
    m_incompleteRequests    \* connection -> what has come of a request, or None

listVars == <<m_webServerClients, m_connections, m_runningConnections, m_clientList>>
webVars == <<m_useSsl, socket, listVars, m_incompleteRequests>>

WebInit ==
    /\ m_useSsl \in BOOLEAN
    /\ socket = [c \in Connections |-> "unused"]
    /\ m_webServerClients = {}
    /\ m_connections = [a \in Addresses |-> {}]
    /\ m_runningConnections = [c \in Connections |-> None]
    /\ m_clientList = {}
    /\ m_incompleteRequests = [c \in Connections |-> None]

-----------------------------------------------------------------------------
(* HttpRequest *)

\* appendData()
Appended(request, p) ==
    [request EXCEPT !.body = @ + p.body + (IF p.head THEN 1 ELSE 0), !.blank = @ + p.blank]

\* validate(): the payload that is compared with the Content-Length is
\* simplified(), so white space in it does not count.
PayloadSize(request) == request.body - request.blank

IsComplete(request) == request.head => PayloadSize(request) >= request.length

IsValid(request) == request.head /\ PayloadSize(request) = request.length

-----------------------------------------------------------------------------
(* Connections *)

\* addConnection() and removeConnection() of the WebServerClient
Occupied(a) == Cardinality(m_connections[a])

\* incomingConnection(): with SSL the server waits for the handshake, and nothing
\* is connected to the socket before it.
IncomingConnection(c) ==
    /\ socket[c] = "unused"
    /\ AddressOf[c] \in m_webServerClients => Occupied(AddressOf[c]) < MaxConnections
    /\ socket' = [socket EXCEPT ![c] = IF m_useSsl THEN "encrypting" ELSE "open"]
    /\ m_webServerClients' = m_webServerClients \cup {AddressOf[c]}
    /\ m_connections' = [m_connections EXCEPT ![AddressOf[c]] = @ \cup {c}]
    /\ m_runningConnections' = [m_runningConnections EXCEPT ![c] = 0]
    /\ m_clientList' = m_clientList \cup {c}
    /\ UNCHANGED <<m_useSsl, m_incompleteRequests>>

\* The socket is closed before it is used: too many connections.
RejectConnection(c) ==
    /\ socket[c] = "unused"
    /\ AddressOf[c] \in m_webServerClients /\ Occupied(AddressOf[c]) >= MaxConnections
    /\ socket' = [socket EXCEPT ![c] = "closed"]
    /\ UNCHANGED <<m_useSsl, listVars, m_incompleteRequests>>

\* onEncrypted()
OnEncrypted(c) ==
    /\ socket[c] = "encrypting"
    /\ socket' = [socket EXCEPT ![c] = "open"]
    /\ UNCHANGED <<m_useSsl, listVars, m_incompleteRequests>>

\* Mutant of OnDisconnected.
OnDisconnected_KeepsClient(c) ==
    LET a == AddressOf[c] IN
    /\ socket[c] = "open"
    /\ socket' = [socket EXCEPT ![c] = "closed"]
    /\ m_connections' = [m_connections EXCEPT ![a] = @ \ {c}]
    /\ m_runningConnections' = [m_runningConnections EXCEPT ![c] = None]
    /\ m_clientList' = m_clientList \ {c}
    /\ m_incompleteRequests' = [m_incompleteRequests EXCEPT ![c] = None]
    /\ UNCHANGED <<m_useSsl, m_webServerClients>>

\* onDisconnected()
OnDisconnected(c) ==
    LET a == AddressOf[c] IN
    /\ socket[c] = "open"
    /\ socket' = [socket EXCEPT ![c] = "closed"]
    /\ m_connections' = [m_connections EXCEPT ![a] = @ \ {c}]
    /\ m_webServerClients' = IF m_connections[a] = {c} THEN m_webServerClients \ {a}
                             ELSE m_webServerClients
    /\ m_runningConnections' = [m_runningConnections EXCEPT ![c] = None]
    /\ m_clientList' = m_clientList \ {c}
    /\ m_incompleteRequests' = [m_incompleteRequests EXCEPT ![c] = None]
    /\ UNCHANGED m_useSsl

\* A connection ends before it is encrypted: no slot is connected to it.
HandshakeFails(c) ==
    /\ socket[c] = "encrypting"
    /\ socket' = [socket EXCEPT ![c] = "lost"]
    /\ UNCHANGED <<m_useSsl, listVars, m_incompleteRequests>>

IdleFor(c, n) == m_runningConnections[c] # None /\ m_runningConnections[c] >= n

\* onTimout() of the WebServerClient closes the socket, which is then
\* disconnected.
IdleTimeout(c) ==
    /\ IdleFor(c, ConnectionTimeout)
    /\ IF socket[c] = "open" THEN OnDisconnected(c)
       ELSE /\ socket' = [socket EXCEPT ![c] = "lost"]
            /\ m_runningConnections' = [m_runningConnections EXCEPT ![c] = None]
            /\ UNCHANGED <<m_useSsl, m_webServerClients, m_connections, m_clientList,
                           m_incompleteRequests>>

-----------------------------------------------------------------------------
(* readClient() *)

Arrived(c, p) ==
    IF m_incompleteRequests[c] = None THEN p ELSE Appended(m_incompleteRequests[c], p)

ReadIncomplete(c, p) ==
    /\ socket[c] = "open"
    /\ ~IsComplete(Arrived(c, p))
    /\ m_incompleteRequests' = [m_incompleteRequests EXCEPT ![c] = Arrived(c, p)]
    /\ UNCHANGED <<m_useSsl, socket, listVars>>

\* Bad Request, or an HTTP version that is not supported.
ReadInvalid(c, p) ==
    /\ socket[c] = "open"
    /\ IsComplete(Arrived(c, p))
    /\ ~IsValid(Arrived(c, p)) \/ Arrived(c, p).wants = "version"
    /\ m_incompleteRequests' = [m_incompleteRequests EXCEPT ![c] = None]
    /\ UNCHANGED <<m_useSsl, socket, listVars>>

\* Mutant of ReadValid.
ReadValid_NoReset(c, p) ==
    /\ socket[c] = "open"
    /\ IsComplete(Arrived(c, p)) /\ IsValid(Arrived(c, p)) /\ Arrived(c, p).wants # "version"
    /\ m_incompleteRequests' = [m_incompleteRequests EXCEPT ![c] = None]
    /\ UNCHANGED <<m_useSsl, socket, listVars>>

\* resetTimout() and whatever the request asks for: a method that is not allowed,
\* an icon, server.xml or a file are answered at once, the rest is the RestServer's.
ReadValid(c, p) ==
    /\ socket[c] = "open"
    /\ IsComplete(Arrived(c, p)) /\ IsValid(Arrived(c, p)) /\ Arrived(c, p).wants # "version"
    /\ m_incompleteRequests' = [m_incompleteRequests EXCEPT ![c] = None]
    /\ m_runningConnections' = [m_runningConnections EXCEPT ![c] = 0]
    /\ UNCHANGED <<m_useSsl, socket, m_webServerClients, m_connections, m_clientList>>

\* Time passes for the connections.
Older ==
    /\ \A c \in Connections : ~IdleFor(c, ConnectionTimeout)
    /\ m_runningConnections' =
          [c \in Connections |-> IF m_runningConnections[c] = None THEN None
                                 ELSE m_runningConnections[c] + 1]
    /\ UNCHANGED <<m_useSsl, socket, m_webServerClients, m_connections, m_clientList,
                   m_incompleteRequests>>

-----------------------------------------------------------------------------
(* Properties of the web server *)

\* "If all connections of a WebServerClient are closed, the client will be
\* removed from system" (WebServerClient), and with it the places it held.
ClientsHaveConnections ==
    \A a \in m_webServerClients :
        \E c \in m_connections[a] : socket[c] \in {"open", "encrypting"}

\* The lists agree: the server knows the connections that hold a place of a
\* client, no client holds more than its limit, every open connection can time
\* out, a request is kept only for an open connection, and without SSL nobody
\* holds places with closed connections only.
ListsAgree ==
    /\ m_clientList = UNION {m_connections[a] : a \in Addresses}
    /\ \A a \in Addresses :
          /\ Occupied(a) <= MaxConnections
          /\ \A c \in m_connections[a] : AddressOf[c] = a
          /\ m_connections[a] # {} => a \in m_webServerClients
    /\ \A c \in Connections :
          /\ socket[c] = "open" => c \in m_clientList /\ m_runningConnections[c] # None
          /\ m_incompleteRequests[c] # None => socket[c] = "open"
    /\ m_useSsl \/ ClientsHaveConnections

-----------------------------------------------------------------------------
(* The REST server *)

CONSTANTS
    MaxReplies,     \* bound: how many asynchronous replies are made
    ReplyTimeout,   \* ticks a reply waits: 10 s
    SharedKeys      \* kind -> the device classes, devices or pairings its requests name

Replies == 1..MaxReplies

\* What a reply waits for: the set up of a new device or the execution of an
\* action, found by a fresh id; the reconfiguration of a device or the discovery of
\* a class, found by an id that requests share; a pairing transaction.
Kinds == {"add", "edit", "pair"}

ASSUME RestServerAssumption ==
    /\ MaxReplies \in Nat
    /\ ReplyTimeout \in Nat \ {0} /\ ReplyTimeout < ConnectionTimeout
    /\ DOMAIN SharedKeys = {"edit", "pair"}

VARIABLES
    m_restClients,   \* RestServer::m_clientList
    m_asyncReplies,  \* connection -> the reply to its last asynchronous request
    connection,      \* reply -> the connection it answers, None before it is made
    age,             \* reply -> ticks since startWait(), None once it is deleted
    waiting,         \* kind -> key -> the reply in the resource's hash
    superseded,      \* replies whose connection sent another request meanwhile
    answer           \* reply -> "result", "timeout", or None

replyVars == <<m_restClients, m_asyncReplies, connection, age, waiting, superseded, answer>>
vars == <<webVars, replyVars>>

Keys == Replies \cup UNION {SharedKeys[k] : k \in DOMAIN SharedKeys}

Init ==
    /\ WebInit
    /\ m_restClients = {}
    /\ m_asyncReplies = [c \in Connections |-> None]
    /\ connection = [r \in Replies |-> None]
    /\ age = [r \in Replies |-> None]
    /\ waiting = [k \in Kinds |-> [x \in Keys |-> None]]
    /\ superseded = {}
    /\ answer = [r \in Replies |-> None]

-----------------------------------------------------------------------------
(* Connections: clientConnected() and clientDisconnected() *)

ClientConnects(c) ==
    /\ \/ IncomingConnection(c) /\ m_restClients' = IF m_useSsl THEN m_restClients
                                                    ELSE m_restClients \cup {c}
       \/ OnEncrypted(c) /\ m_restClients' = m_restClients \cup {c}
    /\ UNCHANGED <<m_asyncReplies, connection, age, waiting, superseded, answer>>

ClientGoes(c) ==
    /\ OnDisconnected(c) \/ IdleTimeout(c)
    /\ m_restClients' = m_restClients \ {c}
    /\ UNCHANGED <<m_asyncReplies, connection, age, waiting, superseded, answer>>

ConnectionFails(c) ==
    /\ RejectConnection(c) \/ HandshakeFails(c)
    /\ UNCHANGED replyVars

-----------------------------------------------------------------------------
(* Requests *)

\* Everything that readClient() and processHttpRequest() answer at once.
AnsweredAtOnce(c, p) ==
    /\ ReadIncomplete(c, p) \/ ReadInvalid(c, p) \/ ReadValid(c, p)
    /\ UNCHANGED replyVars

\* processHttpRequest() of a request for which the resource gets DeviceErrorAsync.
ProcessHttpRequest(c, p, r, kind, key) ==
    /\ connection[r] = None
    /\ \A q \in 1..(r - 1) : connection[q] # None
    /\ key \in IF kind \in DOMAIN SharedKeys THEN SharedKeys[kind] ELSE {r}
    /\ ReadValid(c, p)
    /\ Arrived(c, p).wants = "rest"
    /\ connection' = [connection EXCEPT ![r] = c]
    /\ age' = [age EXCEPT ![r] = 0]
    /\ waiting' = [waiting EXCEPT ![kind][key] = r]
    /\ m_asyncReplies' = [m_asyncReplies EXCEPT ![c] = r]
    /\ superseded' = IF m_asyncReplies[c] = None THEN superseded
                     ELSE superseded \cup {m_asyncReplies[c]}
    /\ UNCHANGED <<m_restClients, answer>>

-----------------------------------------------------------------------------
(* Answers *)

\* Mutant of AsyncReplyFinished.
AsyncReplyFinished_AnyOf(r, what) ==
    LET c == connection[r] IN
    /\ age' = [age EXCEPT ![r] = None]
    /\ m_asyncReplies' = [m_asyncReplies EXCEPT ![c] = None]
    /\ answer' = IF m_asyncReplies[c] = r /\ c \in m_restClients
                 THEN [answer EXCEPT ![r] = what] ELSE answer

\* asyncReplyFinished() of reply r
AsyncReplyFinished(r, what) ==
    LET c == connection[r] IN
    /\ age' = [age EXCEPT ![r] = None]
    /\ IF m_asyncReplies[c] = r
       THEN /\ m_asyncReplies' = [m_asyncReplies EXCEPT ![c] = None]
            /\ answer' = IF c \in m_restClients THEN [answer EXCEPT ![r] = what] ELSE answer
       ELSE UNCHANGED <<m_asyncReplies, answer>>

Due(r) == age[r] # None /\ age[r] >= ReplyTimeout

\* HttpReply::timeout()
Timeout(r) ==
    /\ Due(r)
    /\ AsyncReplyFinished(r, "timeout")
    /\ UNCHANGED <<webVars, m_restClients, connection, waiting, superseded>>

\* devicesDiscovered(), deviceSetupFinished(), deviceReconfigurationFinished() and
\* actionExecuted() of the resources: nothing is done for a reply that is gone.
Result(kind, key) ==
    LET r == waiting[kind][key] IN
    /\ r # None /\ age[r] # None
    /\ waiting' = [waiting EXCEPT ![kind][key] = None]
    /\ AsyncReplyFinished(r, "result")
    /\ UNCHANGED <<webVars, m_restClients, connection, superseded>>

\* pairingFinished() with success: the reply waits for the set up of the device.
PairingFinished(key) ==
    LET r == waiting["pair"][key] IN
    /\ r # None /\ age[r] # None
    /\ waiting' = [waiting EXCEPT !["pair"][key] = None, !["add"][r] = r]
    /\ UNCHANGED <<webVars, m_restClients, m_asyncReplies, connection, age, superseded, answer>>

Tick ==
    /\ \A r \in Replies : ~Due(r)
    /\ Older
    /\ age' = [r \in Replies |-> IF age[r] = None THEN None ELSE age[r] + 1]
    /\ UNCHANGED <<m_restClients, m_asyncReplies, connection, waiting, superseded, answer>>

Next ==
    \/ \E c \in Connections :
        \/ ClientConnects(c) \/ ClientGoes(c) \/ ConnectionFails(c)
        \/ \E p \in Packets : AnsweredAtOnce(c, p)
        \/ \E r \in Replies, kind \in Kinds : \E key \in Keys : \E p \in Packets :
               ProcessHttpRequest(c, p, r, kind, key)
    \/ \E r \in Replies : Timeout(r)
    \/ \E kind \in Kinds : \E key \in Keys : Result(kind, key)
    \/ \E key \in SharedKeys["pair"] : PairingFinished(key)
    \/ Tick

\* Time passes, and timers that are due fire before it does.
Clock ==
    \/ Tick
    \/ \E r \in Replies : Timeout(r)
    \/ \E c \in Connections : IdleFor(c, ConnectionTimeout) /\ ClientGoes(c)

Spec == Init /\ [][Next]_vars
FairSpec == Spec /\ WF_vars(Clock)

-----------------------------------------------------------------------------
(* Properties *)

\* The lists of the two servers agree, and whatever waits for a connection was
\* asked on it.
RestListsAgree ==
    /\ ListsAgree
    /\ m_restClients = {c \in Connections : socket[c] = "open"}
    /\ \A c \in Connections : m_asyncReplies[c] # None =>
          /\ connection[m_asyncReplies[c]] = c
          /\ age[m_asyncReplies[c]] # None

\* The idle timer never closes a connection that waits for an answer: the 10 s of
\* a reply end before the 12 s of the connection, which began anew with the
\* request (HttpReply::startWait, WebServerClient::resetTimout).
WaitingIsNotIdle ==
    [][\A c \in Connections :
        m_runningConnections[c] # None /\ m_runningConnections[c] >= ConnectionTimeout
        /\ m_runningConnections'[c] = None
        => m_asyncReplies[c] = None]_vars

\* Every asynchronous request is answered, with its result or a timeout, unless
\* its client closed the connection or sent another one on it meanwhile
\* (RestServer::m_asyncReplies).
RequestsAnswered ==
    \A r \in Replies :
        connection[r] # None
        ~> \/ answer[r] # None \/ r \in superseded
           \/ \E c \in Connections : connection[r] = c /\ socket[c] = "closed"
=============================================================================
