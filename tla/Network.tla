------------------------------ MODULE Network ------------------------------
(***************************************************************************)
(* What watches the network.  A behaviour is one of:                       *)
(*   "hue", "cube"  the plugins whose devices are behind a gateway;        *)
(*   "upnp", "bluetooth", "wifi"                                           *)
(*                  discoveries, two or more of them at once;              *)
(*   "transports"   the TCP and web socket servers, as interfaces come and *)
(*                  go.                                                    *)
(***************************************************************************)
EXTENDS Naturals, TLC

\* The modules say what these are.
CONSTANTS
    None,
    Bridges, Lights, Remotes, BridgeOf, Pairings, BridgeAt, HueActions,
    MaxRequests,                                                     \* PhilipsHue
    Cubes, Thermostats, CubeOf, KindOf, CubeActions, MaxMetadata,
    MaxQueued,                                                       \* MaxCube
    Searches, UpnpDevices, AnswerTo, UuidOf, Uuids, MaxFetches,
    MaxRestarts,                                                     \* UpnpDiscovery
    BluetoothPlugins, Nearby,                                        \* BluetoothScanner
    Macs, Interfaces, NetOf, MaxScans,                               \* WifiDetector
    Addresses, InterfaceOf, ProtocolOf, InterfaceList, IpVersions,
    Clients,                                                         \* Transports
    Followed    \* the searches, plugins and addresses that liveness is asked of

VARIABLES
    which,    \* the part
    \* PhilipsHue
    myDevices, m_unconfiguredBridges, reachable, pairing, requests,
    m_bridgeRefreshRequests, stale, m_asyncActions, undefined, disturbed,
    \* MaxCube
    device, socket, m_cubeInitialized, m_lists, appeared, configured, m_actionId,
    commands, waiting, answers, overlapped,
    \* UpnpDiscovery
    upnpSocket, m_discoverRequests, finished, air, datagram, m_informationRequestList,
    uuid, announced, restarts,
    \* BluetoothScanner
    m_available, agentActive, m_timer, m_pluginId, m_deviceInfos, asked, failed,
    \* WifiDetector
    installed, macs, inRange, scans, m_discoveryProcesses, m_deviceDescriptors, discovering,
    scanFailed,
    \* Transports
    addresses, taken, m_networkInterfaces, started, m_serverList, m_server, sockets,
    m_clientList, deletedUsed

hueVars == <<myDevices, m_unconfiguredBridges, reachable, pairing, requests,
             m_bridgeRefreshRequests, stale, m_asyncActions, undefined, disturbed>>
cubeVars == <<device, socket, m_cubeInitialized, m_lists, appeared, configured, m_actionId,
              commands, waiting, answers, overlapped>>
upnpVars == <<upnpSocket, m_discoverRequests, finished, air, datagram,
              m_informationRequestList, uuid, announced, restarts>>
bluetoothVars == <<m_available, agentActive, m_timer, m_pluginId, m_deviceInfos, asked, failed>>
wifiVars == <<installed, macs, inRange, scans, m_discoveryProcesses, m_deviceDescriptors,
              discovering, scanFailed>>
transportVars == <<addresses, taken, m_networkInterfaces, started, m_serverList, m_server,
                   sockets, m_clientList, deletedUsed>>
vars == <<which, hueVars, cubeVars, upnpVars, bluetoothVars, wifiVars, transportVars>>

Hue == INSTANCE PhilipsHue WITH Actions <- HueActions
Cube == INSTANCE MaxCube WITH Actions <- CubeActions
Hardware == INSTANCE HardwareDiscovery WITH Devices <- UpnpDevices, socket <- upnpSocket,
                Plugins <- BluetoothPlugins
Wifi == INSTANCE WifiDetector WITH myDevices <- macs
Transport == INSTANCE Transports WITH m_timer <- started, socket <- sockets,
                 undefined <- deletedUsed

\* A device is a bridge or is at one; uuids are not null; what executeAction() keeps of an
\* action is a device, None, or that the device is gone.
ASSUME NetworkAssumption ==
    /\ Bridges \cap Hue!Children = {}
    /\ "gone" \notin Hue!Devices \cup {None}
    /\ None \notin Uuids

Init ==
    /\ which \in {"hue", "cube", "upnp", "bluetooth", "wifi", "transports"}
    /\ Hue!Init /\ Cube!Init /\ Hardware!UpnpInit /\ Hardware!BluetoothInit
    /\ Wifi!Init /\ Transport!Init
    /\ which # "hue" => myDevices = {}
    /\ which # "bluetooth" => m_available
    /\ which # "wifi" => installed
    /\ which # "transports" => addresses = {}

Next ==
    \/ /\ which = "hue" /\ Hue!Next
       /\ UNCHANGED <<which, cubeVars, upnpVars, bluetoothVars, wifiVars, transportVars>>
    \/ /\ which = "cube" /\ Cube!Next
       /\ UNCHANGED <<which, hueVars, upnpVars, bluetoothVars, wifiVars, transportVars>>
    \/ /\ which = "upnp" /\ Hardware!UpnpNext
       /\ UNCHANGED <<which, hueVars, cubeVars, bluetoothVars, wifiVars, transportVars>>
    \/ /\ which = "bluetooth" /\ Hardware!BluetoothNext
       /\ UNCHANGED <<which, hueVars, cubeVars, upnpVars, wifiVars, transportVars>>
    \/ /\ which = "wifi" /\ Wifi!Next
       /\ UNCHANGED <<which, hueVars, cubeVars, upnpVars, bluetoothVars, transportVars>>
    \/ /\ which = "transports" /\ Transport!Next
       /\ UNCHANGED <<which, hueVars, cubeVars, upnpVars, bluetoothVars, wifiVars>>

\* Requests and commands end; timers that run fire; scans end.
Fairness ==
    /\ \A a \in HueActions : WF_hueVars(which = "hue" /\ Hue!ActionProgress(a))
    /\ \A c \in Cubes : WF_cubeVars(which = "cube" /\ Cube!DeviceProgress(c))
    /\ \A s \in Searches : WF_upnpVars(which = "upnp" /\ Hardware!DiscoverTimeout(s))
    /\ WF_bluetoothVars(which = "bluetooth" /\ Hardware!DiscoveryTimeout)
    /\ WF_wifiVars(which = "wifi" /\ Wifi!ScansEnd)
    /\ WF_transportVars(which = "transports" /\ ~deletedUsed /\ Transport!OnTimeout)

Spec == Init /\ [][Next]_vars /\ Fairness

-----------------------------------------------------------------------------
(* Properties *)

\* Deleted objects are used only where the modules say: see PhilipsHue; and the TCP
\* clients in the list have their sockets, see Transports.
DeletedOnlyUsedIfDisturbed == Hue!UndefinedOnlyIfDisturbed /\ Transport!ClientsHaveSockets

\* See MaxCube.
CubeAnswersMatch == Cube!CubeAnswersMatch

\* See HardwareDiscovery.
DiscoveriesRight == Hardware!DiscoveriesRight

\* Someone waits for an answer that only a request, a timer or a scan brings: a client
\* for the action of a light, unless the plugin has come to use a deleted object; the
\* device manager for the set up of a cube; a plugin for its UPnP search; one for its
\* Bluetooth discovery, unless an error or a second discovery has taken the timer; a
\* client for the Wi-Fi detector's discovery, unless a scan has failed.
Waiting ==
    \/ which = "hue" /\ ~undefined /\ \E a \in HueActions : Hue!Waits(a)
    \/ which = "cube" /\ \E c \in Cubes : device[c] = "waiting"
    \/ which = "upnp" /\ Hardware!Running \cap Followed # {}
    \/ which = "bluetooth" /\ asked \cap Followed # {} /\ ~failed
    \/ which = "wifi" /\ discovering /\ ~scanFailed

\* Nobody waits for ever, unless discoveries of the Wi-Fi detector are started again and
\* again: devicepluginphilipshue.cpp, networkManagerReplyReady(); maxcube.cpp,
\* connectionChanged(); upnpdiscovery.cpp and bluetoothscanner.cpp, discoverTimeout() and
\* discoveryTimeout(); devicepluginwifidetector.cpp, discoveryProcessFinished().
NobodyWaitsForEver ==
    \/ []<><<which = "wifi" /\ Wifi!DiscoverDevices>>_wifiVars
    \/ Waiting ~> ~Waiting

\* The TCP servers follow the interfaces: an address that stays is served, whatever else
\* comes and goes, and one that is gone for good is not: tcpserver.cpp, onTimeout().
ServersFollowInterfaces ==
    \A address \in Addresses \cap Followed :
        /\ <>[](started /\ Transport!ToServe(address))
               => <>(deletedUsed \/ []<>(address \in m_serverList))
        /\ <>[](started /\ address \notin addresses)
               => <>(deletedUsed \/ [](address \notin m_serverList))

-----------------------------------------------------------------------------
(* The instance that TLC checks *)

\* one bridge and one cube, with wall thermostats
MCBridgeOf == [d \in Lights \cup Remotes |-> CHOOSE b \in Bridges : TRUE]
MCBridgeAt == [p \in Pairings |-> CHOOSE b \in Bridges : TRUE]
MCCubeOf == [t \in Thermostats |-> CHOOSE c \in Cubes : TRUE]
MCKindOf == [t \in Thermostats |-> "wall"]

\* two searches with one device in common; two of the devices have one UDN
MCAnswerTo == "hue" :> {"d1"} @@ "wemo" :> {"d1", "d2"}
MCUuidOf == [d \in UpnpDevices |-> "udn"]

\* an address in each net
MCNetOf == "m1" :> "eth0" @@ "m2" :> "wlan0"

\* an interface with an address of each version, and one that is not configured
MCInterfaceOf == "10.0.0.2" :> "eth0" @@ "fe80::2" :> "eth0" @@ "192.168.0.2" :> "wlan0"
MCProtocolOf == "10.0.0.2" :> "IPv4" @@ "fe80::2" :> "IPv6" @@ "192.168.0.2" :> "IPv4"
=============================================================================
