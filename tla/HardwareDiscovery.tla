------------------------- MODULE HardwareDiscovery -------------------------
(***************************************************************************)
(* The hardware resources that look for devices on behalf of plugins.      *)
(*                                                                         *)
(* UPnP: plugins search the network, the devices answer with a datagram,   *)
(* their descriptions are fetched, and after five seconds the plugin gets  *)
(* the devices found.  The resource also announces this server and answers *)
(* the searches of others.                                                 *)
(*                                                                         *)
(* Bluetooth: one discovery agent and one timer that the plugins share.    *)
(* The timer ends a discovery, unless an error does.                       *)
(***************************************************************************)
EXTENDS Naturals, FiniteSets

CONSTANTS
    None,
    Searches,      \* bound: the searches that plugins make
    Devices,       \* the UPnP devices of the network
    AnswerTo,      \* search -> the devices that answer its search target
    UuidOf,        \* device -> the UDN of its description
    Uuids,         \* bound: the uuids that this server may create for itself
    MaxFetches,    \* bound: fetches of one description at once
    MaxRestarts,   \* bound: restarts of the server
    Plugins,       \* plugins that may use Bluetooth
    Nearby         \* the Bluetooth devices that can be found

VARIABLES
    \* UpnpDiscovery
    socket,                    \* "closed", "ready", "deaf": not in the group, "unbound"
    m_discoverRequests,        \* running search -> devices found (m_deviceList)
    finished,                  \* search -> devices the plugin got, or None
    air,                       \* datagrams on their way: the devices that answer
    datagram,                  \* the last one that waits in the socket, or None
    m_informationRequestList,  \* device -> descriptions of it that are being fetched
    uuid,                      \* settings: "guhd/uuid", or None
    announced,                 \* the uuids under which others know this server
    restarts,
    \* BluetoothScanner
    m_available,     \* there is an adapter, and no error has been seen
    agentActive,     \* QBluetoothDeviceDiscoveryAgent::isActive()
    m_timer,         \* the timer runs
    m_pluginId,      \* the plugin of the discovery, or None
    m_deviceInfos,   \* the devices found: set of [device, for]
    asked,           \* plugins whose discoverBluetooth() has returned true and that wait
    failed           \* an error ended a discovery, or the agent another's

upnpVars == <<socket, m_discoverRequests, finished, air, datagram,
              m_informationRequestList, uuid, announced, restarts>>

Running == DOMAIN m_discoverRequests
Asked(search) == search \in Running \/ finished[search] # None

scannerVars ==
    <<m_available, agentActive, m_timer, m_pluginId, m_deviceInfos, asked, failed>>

-----------------------------------------------------------------------------
(* UPnP: this server, its settings and announcements *)

\* A uuid is created and stored where there is none yet.
WithUuid(id) == IF uuid = None THEN id \in Uuids \ announced ELSE id = uuid

\* Mutant of SendAliveMessage.
SendAliveMessage_StoresNoUuid(id) ==
    /\ WithUuid(id)
    /\ announced' = announced \cup {id}
    /\ UNCHANGED uuid

SendAliveMessage(id) ==
    /\ WithUuid(id)
    /\ uuid' = id
    /\ announced' = announced \cup {id}

SendByeByeMessage(id) ==
    /\ WithUuid(id)
    /\ uuid' = id
    /\ announced' = announced \ {id}

\* With any message the sender tells its uuid; only those of the same /24 net are
\* answered, once for each address of this server there.
RespondToSearchRequest ==
    \E id \in Uuids :
        /\ WithUuid(id)
        /\ uuid' = id
        /\ announced' \in {announced, announced \cup {id}}

-----------------------------------------------------------------------------
(* UPnP: searches *)

\* discoverDevices() returns false when the socket is not bound; upnpDiscover() does
\* not tell its plugin.
DiscoverDevices(search) ==
    /\ ~Asked(search) /\ socket \notin {"closed", "unbound"}
    /\ m_discoverRequests' =
           [s \in Running \cup {search} |->
               IF s = search THEN {} ELSE m_discoverRequests[s]]
    /\ air' = air \cup AnswerTo[search]
    /\ UNCHANGED <<socket, finished, datagram, m_informationRequestList, uuid, announced,
                   restarts>>

\* An answer arrives, and may arrive again, or gets lost.
Answer(device) ==
    /\ device \in air /\ socket = "ready"
    /\ datagram' = [kind |-> "ok", from |-> device]
    /\ air' \in {air, air \ {device}}
    /\ UNCHANGED <<socket, m_discoverRequests, finished, m_informationRequestList, uuid,
                   announced, restarts>>

\* Others search and notify, too.
Foreign(kind) ==
    /\ socket = "ready"
    /\ datagram' = [kind |-> kind, from |-> None]
    /\ UNCHANGED <<socket, m_discoverRequests, finished, air, m_informationRequestList, uuid,
                   announced, restarts>>

\* readyRead is connected when the socket is ready; a deaf one piles up what arrives.
\* All datagrams that wait are read, and all but the last forgotten.  The description is
\* fetched once for each running search.
ReadData ==
    /\ datagram # None
    /\ datagram' = None
    /\ \/ /\ datagram.kind = "search"
          /\ RespondToSearchRequest
          /\ UNCHANGED m_informationRequestList
       \/ /\ datagram.kind = "notify"    \* upnpNotify()
          /\ UNCHANGED <<m_informationRequestList, uuid, announced>>
       \/ /\ datagram.kind = "ok"
          /\ m_informationRequestList[datagram.from] + Cardinality(Running) <= MaxFetches
          /\ m_informationRequestList' =
                 [m_informationRequestList EXCEPT ![datagram.from] =
                     @ + Cardinality(Running)]
          /\ UNCHANGED <<uuid, announced>>
    /\ UNCHANGED <<socket, m_discoverRequests, finished, air, restarts>>

AddDeviceDescriptor(list, device) ==
    IF \E other \in list : UuidOf[other] = UuidOf[device] THEN list ELSE list \cup {device}

\* Whichever search it was fetched for, the description is added to all of them.
ReplyFinished(device, status) ==
    /\ m_informationRequestList[device] > 0
    /\ m_informationRequestList' = [m_informationRequestList EXCEPT ![device] = @ - 1]
    /\ m_discoverRequests' =
           IF status = 200
           THEN [s \in Running |-> AddDeviceDescriptor(m_discoverRequests[s], device)]
           ELSE m_discoverRequests
    /\ UNCHANGED <<socket, finished, air, datagram, uuid, announced, restarts>>

DiscoverTimeout(search) ==
    /\ search \in Running
    /\ finished' = [finished EXCEPT ![search] = m_discoverRequests[search]]
    /\ m_discoverRequests' = [s \in Running \ {search} |-> m_discoverRequests[s]]
    /\ UNCHANGED <<socket, air, datagram, m_informationRequestList, uuid, announced, restarts>>

\* The timer runs only where the constructor got to its end.
NotificationTimeout ==
    /\ socket = "ready"
    /\ \E id \in Uuids : SendAliveMessage(id)
    /\ UNCHANGED <<socket, m_discoverRequests, finished, air, datagram,
                   m_informationRequestList, restarts>>

\* The constructor: two alive messages, if the socket could be bound and has joined.
Start(result) ==
    /\ socket = "closed"
    /\ socket' = result
    /\ IF result = "ready" THEN \E id \in Uuids : SendAliveMessage(id)
       ELSE UNCHANGED <<uuid, announced>>
    /\ UNCHANGED <<m_discoverRequests, finished, air, datagram, m_informationRequestList,
                   restarts>>

\* The server ends, in order or not; what runs is lost.
End(inOrder) ==
    /\ socket # "closed" /\ restarts < MaxRestarts
    /\ socket' = "closed"
    /\ IF inOrder THEN \E id \in Uuids : SendByeByeMessage(id)
       ELSE UNCHANGED <<uuid, announced>>
    /\ m_discoverRequests' = [s \in {} |-> {}]
    /\ datagram' = None
    /\ m_informationRequestList' = [d \in Devices |-> 0]
    /\ restarts' = restarts + 1
    /\ UNCHANGED <<finished, air>>

UpnpInit ==
    /\ socket = "closed"
    /\ m_discoverRequests = [s \in {} |-> {}]
    /\ finished = [s \in Searches |-> None]
    /\ air = {}
    /\ datagram = None
    /\ m_informationRequestList = [d \in Devices |-> 0]
    /\ uuid = None
    /\ announced = {}
    /\ restarts = 0

UpnpNext ==
    \/ \E search \in Searches : DiscoverDevices(search)
    \/ \E device \in Devices : Answer(device)
    \/ \E kind \in {"search", "notify"} : Foreign(kind)
    \/ ReadData
    \/ \E device \in Devices, status \in {200, 404} : ReplyFinished(device, status)
    \/ \E search \in Searches : DiscoverTimeout(search)
    \/ NotificationTimeout
    \/ \E result \in {"ready", "deaf", "unbound"} : Start(result)
    \/ \E inOrder \in BOOLEAN : End(inOrder)

-----------------------------------------------------------------------------
(* Bluetooth *)

\* When the agent has ended before the timer, the discovery that the timer was to end
\* is forgotten: its plugin is never called.
Discover(plugin) ==
    /\ m_available /\ ~agentActive
    /\ m_pluginId' = plugin
    /\ m_deviceInfos' = {}
    /\ agentActive' = TRUE
    /\ m_timer' = TRUE
    /\ asked' = asked \cup {plugin}
    /\ failed' = (failed \/ m_timer)
    /\ UNCHANGED m_available

DeviceDiscovered(device) ==
    /\ agentActive
    /\ m_deviceInfos' = m_deviceInfos \cup {[device |-> device, for |-> m_pluginId]}
    /\ UNCHANGED <<m_available, agentActive, m_timer, m_pluginId, asked, failed>>

\* The agent has been through its inquiry.  Nothing is connected to its finished().
AgentFinished ==
    /\ agentActive
    /\ agentActive' = FALSE
    /\ UNCHANGED <<m_available, m_timer, m_pluginId, m_deviceInfos, asked, failed>>

\* The timer is stopped and nobody told; there is no discovery any more until a restart.
OnError ==
    /\ agentActive
    /\ m_available' = FALSE
    /\ m_timer' = FALSE
    /\ agentActive' = FALSE
    /\ failed' = TRUE
    /\ UNCHANGED <<m_pluginId, m_deviceInfos, asked>>

\* Mutant of DiscoveryTimeout.
DiscoveryTimeout_OnlyWithDevices ==
    /\ m_timer
    /\ m_timer' = FALSE
    /\ agentActive' = FALSE
    /\ asked' = IF m_deviceInfos # {} THEN asked \ {m_pluginId} ELSE asked
    /\ UNCHANGED <<m_available, m_pluginId, m_deviceInfos, failed>>

\* The device manager hands the devices to the plugin with the id.
DiscoveryTimeout ==
    /\ m_timer
    /\ m_timer' = FALSE
    /\ agentActive' = FALSE
    /\ asked' = asked \ {m_pluginId}
    /\ UNCHANGED <<m_available, m_pluginId, m_deviceInfos, failed>>

BluetoothInit ==
    /\ m_available \in BOOLEAN
    /\ agentActive = FALSE
    /\ m_timer = FALSE
    /\ m_pluginId = None
    /\ m_deviceInfos = {}
    /\ asked = {}
    /\ failed = FALSE

BluetoothNext ==
    \/ \E plugin \in Plugins : Discover(plugin)
    \/ \E device \in Nearby : DeviceDiscovered(device)
    \/ AgentFinished
    \/ OnError
    \/ DiscoveryTimeout

-----------------------------------------------------------------------------
(* Properties *)

\* The plugin that searches hears of each device once, also when descriptions are
\* fetched several times because several plugins search: upnpdiscoveryrequest.cpp,
\* addDeviceDescriptor().
FoundOnce ==
    \A search \in Running : \A d, e \in m_discoverRequests[search] :
        UuidOf[d] = UuidOf[e] => d = e

\* Over all restarts, the server is known under one uuid: the three messages that carry
\* it create it where it is missing and store it.
KnownUnderOneUuid == \A one, other \in announced : one = other

\* The plugin gets what was found for it, not what an earlier discovery had found:
\* bluetoothscanner.cpp, discover().
FoundForThePlugin == m_timer => \A info \in m_deviceInfos : info.for = m_pluginId

\* What is discovered is right: a plugin gets what was found for it, and once, and others
\* find this server under one uuid.
DiscoveriesRight == FoundOnce /\ KnownUnderOneUuid /\ FoundForThePlugin
=============================================================================
