----------------------------- MODULE Transports -----------------------------
(***************************************************************************)
(* The two transports of the JSON-RPC server: a TCP server for each        *)
(* address of the network interfaces that are configured, kept up with the *)
(* interfaces by a timer, and a web socket server.  What is said over them *)
(* is in JsonRpc.                                                          *)
(***************************************************************************)
EXTENDS Naturals, FiniteSets

CONSTANTS
    None,
    Addresses,     \* addresses that interfaces of the host may have
    InterfaceOf,   \* address -> name of the interface
    ProtocolOf,    \* address -> "IPv4" or "IPv6"
    InterfaceList, \* settings: "interfaces", {"all"} or names
    IpVersions,    \* settings: "ip", {"any"} or versions
    Clients        \* bound: the clients that ever connect

VARIABLES
    addresses,            \* those the interfaces have now
    taken,                \* addresses whose port another program listens on
    m_networkInterfaces,  \* the addresses of the interfaces when last (re)loaded
    m_timer,              \* the timer runs: the server has been started
    m_serverList,         \* addresses that TCP servers listen on
    m_server,             \* the web socket server: "none", "listening" or "failed"
    socket,               \* client -> address, "web" or None: where its socket is
    m_clientList,         \* clients of both transports
    undefined             \* a deleted or null object has been used

transportVars == <<addresses, taken, m_networkInterfaces, m_timer, m_serverList, m_server,
                   socket, m_clientList, undefined>>

-----------------------------------------------------------------------------
(* TcpServer: its servers *)

Configured(present) ==
    {a \in present : "all" \in InterfaceList \/ InterfaceOf[a] \in InterfaceList}

OfVersion(loaded) ==
    {a \in loaded : "any" \in IpVersions \/ ProtocolOf[a] \in IpVersions}

\* Where it can listen: the address is still there and the port free.
Listening(wanted) == {a \in wanted : a \in addresses /\ a \notin taken}

\* The constructors have loaded the interfaces before.
StartServer ==
    /\ ~m_timer
    /\ m_serverList' = Listening(OfVersion(m_networkInterfaces))
    /\ m_timer' = TRUE
    /\ UNCHANGED <<addresses, taken, m_networkInterfaces, m_server, socket, m_clientList,
                   undefined>>

\* A server is the parent of its sockets: when it is deleted, they are, and each
\* reports its end to onClientDisconnected(), which finds no QTcpSocket in its sender.
Close(servers) ==
    undefined' = (\E c \in m_clientList : socket[c] \in servers)

\* Mutant of OnTimeout.
OnTimeout_StartInterfaces ==
    /\ m_timer
    /\ LET allAddresses == OfVersion(m_networkInterfaces)
       IN  /\ m_serverList' = (m_serverList \cap allAddresses)
                                  \cup Listening(allAddresses \ m_serverList)
           /\ Close(m_serverList \ allAddresses)
    /\ UNCHANGED <<addresses, taken, m_networkInterfaces, m_timer, m_server, socket,
                   m_clientList>>

\* Every five seconds: servers without address go, addresses without server get one.
OnTimeout ==
    /\ m_timer
    /\ m_networkInterfaces' = Configured(addresses)
    /\ LET allAddresses == OfVersion(m_networkInterfaces')
       IN  /\ m_serverList' = (m_serverList \cap allAddresses)
                                  \cup Listening(allAddresses \ m_serverList)
           /\ Close(m_serverList \ allAddresses)
    /\ UNCHANGED <<addresses, taken, m_timer, m_server, socket, m_clientList>>

-----------------------------------------------------------------------------
(* TcpServer: its clients *)

TcpClientConnected(client, address) ==
    /\ client \notin m_clientList /\ socket[client] = None
    /\ address \in m_serverList \cap addresses
    /\ socket' = [socket EXCEPT ![client] = address]
    /\ m_clientList' = m_clientList \cup {client}
    /\ UNCHANGED <<addresses, taken, m_networkInterfaces, m_timer, m_serverList, m_server,
                   undefined>>

\* The JSON-RPC server is not told: clientDisconnected() is never emitted.
ClientDisconnected(client) ==
    /\ client \in m_clientList
    /\ m_clientList' = m_clientList \ {client}
    /\ socket' = [socket EXCEPT ![client] = None]
    /\ UNCHANGED <<addresses, taken, m_networkInterfaces, m_timer, m_serverList, m_server,
                   undefined>>

-----------------------------------------------------------------------------
(* WebSocketServer *)

\* A server that could not listen stays, and keeps a later start from trying again.
StartWebSocketServer(listens) ==
    /\ m_server = "none"
    /\ m_server' = IF listens THEN "listening" ELSE "failed"
    /\ UNCHANGED <<addresses, taken, m_networkInterfaces, m_timer, m_serverList, socket,
                   m_clientList, undefined>>

\* Clients of another version than 13 are closed and deleted at once.
WebClientConnected(client, version) ==
    /\ m_server = "listening"
    /\ client \notin m_clientList /\ socket[client] = None
    /\ version = 13
    /\ socket' = [socket EXCEPT ![client] = "web"]
    /\ m_clientList' = m_clientList \cup {client}
    /\ UNCHANGED <<addresses, taken, m_networkInterfaces, m_timer, m_serverList, m_server,
                   undefined>>

-----------------------------------------------------------------------------
(* The host *)

\* An address comes or goes, with its interface or by itself.  The sockets do not learn
\* of it.
AddressChanges(address) ==
    /\ addresses' = IF address \in addresses THEN addresses \ {address}
                                             ELSE addresses \cup {address}
    /\ UNCHANGED <<taken, m_networkInterfaces, m_timer, m_serverList, m_server, socket,
                   m_clientList, undefined>>

PortChanges(address) ==
    /\ address \notin m_serverList
    /\ taken' = IF address \in taken THEN taken \ {address} ELSE taken \cup {address}
    /\ UNCHANGED <<addresses, m_networkInterfaces, m_timer, m_serverList, m_server, socket,
                   m_clientList, undefined>>

Init ==
    /\ addresses \in SUBSET Addresses
    /\ taken = {}
    /\ m_networkInterfaces = Configured(addresses)
    /\ m_timer = FALSE
    /\ m_serverList = {}
    /\ m_server = "none"
    /\ socket = [c \in Clients |-> None]
    /\ m_clientList = {}
    /\ undefined = FALSE

Next ==
    /\ ~undefined
    /\ \/ StartServer
       \/ OnTimeout
       \/ \E client \in Clients, address \in Addresses : TcpClientConnected(client, address)
       \/ \E client \in Clients : ClientDisconnected(client)
       \/ \E listens \in BOOLEAN : StartWebSocketServer(listens)
       \/ \E client \in Clients, version \in {8, 13} : WebClientConnected(client, version)
       \/ \E address \in Addresses : AddressChanges(address) \/ PortChanges(address)

-----------------------------------------------------------------------------
(* Properties *)

\* A client that is listed has a socket, of a server that runs: tcpserver.cpp,
\* onClientConnected(), onClientDisconnected(), onTimeout().  Otherwise an answer or a
\* notification would be written to a socket that is gone.
ClientsHaveSockets ==
    undefined \/ \A client \in m_clientList :
        socket[client] \in m_serverList \/ (socket[client] = "web" /\ m_server = "listening")

\* The address is there for clients: of an interface and version that is configured.
ToServe(address) ==
    /\ address \in OfVersion(Configured(addresses))
    /\ address \notin taken
=============================================================================
