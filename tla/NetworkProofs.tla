---------------------------- MODULE NetworkProofs ----------------------------
(***************************************************************************)
(* Safety of what watches the network, for all bridges, cubes, requests,   *)
(* uuids, plugins and addresses.                                           *)
(***************************************************************************)
EXTENDS Network, Sequences, FiniteSetTheorems, TLAPS

\* A step is one of each part, or leaves it alone.
LEMMA OnePart ==
    ASSUME [Next]_vars
    PROVE  /\ [Cube!Next]_(Cube!vars)
           /\ [Hardware!UpnpNext]_(Hardware!upnpVars)
           /\ [Hardware!BluetoothNext]_(Hardware!scannerVars)
           /\ [Transport!Next]_(Transport!transportVars)
           /\ [Hue!Next]_(Hue!vars)
<1>1. [Cube!Next]_(Cube!vars)
  BY DEF Next, vars, Cube!vars, Cube!cubeVars, Cube!foundVars, Cube!actionVars, cubeVars
<1>2. [Hardware!UpnpNext]_(Hardware!upnpVars)
  BY DEF Next, vars, Hardware!upnpVars, upnpVars
<1>3. [Hardware!BluetoothNext]_(Hardware!scannerVars)
  BY DEF Next, vars, Hardware!scannerVars, bluetoothVars
<1>4. [Transport!Next]_(Transport!transportVars)
  BY DEF Next, vars, Transport!transportVars, transportVars
<1>5. [Hue!Next]_(Hue!vars)
  BY DEF Next, vars, Hue!vars, hueVars
<1>6. QED
  BY <1>1, <1>2, <1>3, <1>4, <1>5

-----------------------------------------------------------------------------
(***************************************************************************)
(* eQ-3 MAX!                                                               *)
(***************************************************************************)

\* Commands are sent to a cube that is connected and has told about itself.  While they
\* do not overlap a cube owes the answer to the last command, nothing else was told of
\* the action of that one, and no other cube works for it.
OneCommandEach ==
    /\ \A c \in Cubes : /\ commands[c] \in {<<>>, <<m_actionId[c]>>}
                        /\ commands[c] # <<>> => /\ m_actionId[c] \in waiting
                                                 /\ answers[m_actionId[c]] = <<>>
    /\ \A c, e \in Cubes : commands[c] # <<>> /\ commands[e] # <<>>
                               => c = e \/ m_actionId[c] # m_actionId[e]
    /\ \A a \in CubeActions : a \notin waiting => answers[a] = <<>>

CubeInv ==
    /\ waiting \subseteq CubeActions
    /\ DOMAIN socket = Cubes /\ DOMAIN m_cubeInitialized = Cubes
    /\ DOMAIN commands = Cubes /\ DOMAIN m_actionId = Cubes
    /\ DOMAIN answers = CubeActions
    /\ DOMAIN device = Cubes
    /\ \A c \in Cubes : commands[c] # <<>> => /\ device[c] # "none" /\ socket[c] = "connected"
                                             /\ m_cubeInitialized[c]
    /\ overlapped \/ OneCommandEach
    /\ Cube!CubeAnswersMatch

LEMMA CubeInvariance == Spec => []CubeInv
<1>1. Cube!Init => CubeInv
  BY DEF Cube!Init, CubeInv, OneCommandEach, Cube!CubeAnswersMatch
<1>2. CubeInv /\ [Cube!Next]_(Cube!vars) => CubeInv'
  <2> SUFFICES ASSUME CubeInv, [Cube!Next]_(Cube!vars) PROVE CubeInv'
    OBVIOUS
  <2>1. ASSUME UNCHANGED <<device, socket, m_cubeInitialized, m_actionId, commands, waiting,
                           answers, overlapped>>
        PROVE  CubeInv'
    BY <2>1 DEF CubeInv, OneCommandEach, Cube!CubeAnswersMatch
  <2>2. ASSUME NEW c \in Cubes, Cube!SetupDevice(c) PROVE CubeInv'
    BY <2>2 DEF Cube!SetupDevice, Cube!actionVars, CubeInv, OneCommandEach,
           Cube!CubeAnswersMatch
  <2>3. ASSUME NEW c \in Cubes, Cube!Connected(c) PROVE CubeInv'
    BY <2>3 DEF Cube!Connected, Cube!ConnectionStateChanged, Cube!SetupFinished, Cube!actionVars, CubeInv,
           OneCommandEach, Cube!CubeAnswersMatch
  <2>4. ASSUME NEW c \in Cubes, Cube!Disconnected(c) PROVE CubeInv'
    BY <2>4 DEF Cube!Disconnected, Cube!ConnectionStateChanged, Cube!SetupFinished, CubeInv, OneCommandEach,
           Cube!CubeAnswersMatch
  <2>5. ASSUME NEW c \in Cubes, Cube!DeviceRemoved(c) PROVE CubeInv'
    BY <2>5 DEF Cube!DeviceRemoved, CubeInv, OneCommandEach, Cube!CubeAnswersMatch
  <2>6. ASSUME NEW c \in Cubes, NEW ts \in SUBSET Thermostats, Cube!Metadata(c, ts)
        PROVE  CubeInv'
    BY <2>6 DEF Cube!Metadata, Cube!actionVars, CubeInv, OneCommandEach,
           Cube!CubeAnswersMatch
  <2>7. ASSUME NEW c \in Cubes, NEW n \in 1..Len(commands[c]), NEW first \in BOOLEAN,
               Cube!AnswersRead(c, n, first)
        PROVE  CubeInv'
    <3>0. commands[c] # <<>>
      BY <2>7
    <3>1. /\ \/ answers' = [answers EXCEPT ![m_actionId[c]] = Append(@, Head(commands[c]))]
             \/ UNCHANGED answers
          /\ commands' = [commands EXCEPT ![c] = SubSeq(@, n + 1, Len(@))]
          /\ UNCHANGED <<device, socket, m_cubeInitialized, m_actionId, waiting, overlapped>>
      BY <2>7 DEF Cube!AnswersRead, Cube!Answer, Cube!cubeVars
    <3>2. /\ \A e \in Cubes \ {c} : commands'[e] = commands[e]
          /\ DOMAIN commands' = Cubes /\ DOMAIN answers' = CubeActions
      BY <3>1 DEF CubeInv
    <3>3. CASE overlapped
      BY <3>0, <3>1, <3>2, <3>3 DEF CubeInv, Cube!CubeAnswersMatch
    <3>4. CASE ~overlapped
      <4>1. commands[c] = <<m_actionId[c]>> /\ answers[m_actionId[c]] = <<>>
        BY <3>0, <3>4 DEF CubeInv, OneCommandEach
      <4>2. m_actionId[c] \in CubeActions /\ m_actionId[c] \in waiting
        BY <3>0, <3>4 DEF CubeInv, OneCommandEach
      <4>3. commands'[c] = <<>>
        <5>1. n = 1 /\ Len(commands[c]) = 1
          BY <4>1
        <5>2. SubSeq(<<m_actionId[c]>>, 2, 1) = <<>>
          OBVIOUS
        <5>3. QED
          BY <3>1, <4>1, <5>1, <5>2 DEF CubeInv
      <4>4. /\ answers'[m_actionId[c]] \in {<<>>, <<m_actionId[c]>>}
            /\ \A a \in CubeActions \ {m_actionId[c]} : answers'[a] = answers[a]
        BY <3>1, <4>1, <4>2 DEF CubeInv
      <4>5. Cube!CubeAnswersMatch'
        BY <4>4, <3>4 DEF CubeInv, Cube!CubeAnswersMatch
      <4>6. OneCommandEach'
        BY <3>1, <3>2, <3>4, <4>2, <4>3, <4>4 DEF CubeInv, OneCommandEach
      <4>7. QED
        BY <3>1, <3>2, <4>3, <4>5, <4>6 DEF CubeInv
    <3>5. QED
      BY <3>3, <3>4
  <2>8. ASSUME NEW a \in CubeActions, NEW t \in Thermostats, Cube!SendCommand(a, t)
        PROVE  CubeInv'
    <3> DEFINE c == CubeOf[t]
    <3>1. /\ a \notin waiting /\ device[c] # "none"
          /\ socket[c] = "connected" /\ m_cubeInitialized[c]
          /\ m_actionId' = [m_actionId EXCEPT ![c] = a]
          /\ commands' = [commands EXCEPT ![c] = Append(@, a)]
          /\ waiting' = waiting \cup {a}
          /\ overlapped' = (overlapped \/ commands[c] # <<>>)
          /\ UNCHANGED <<device, socket, m_cubeInitialized, answers>>
      BY <2>8 DEF Cube!SendCommand, Cube!cubeVars
    <3> HIDE DEF c
    <3>2. /\ \A e \in Cubes \ {c} : commands'[e] = commands[e] /\ m_actionId'[e] = m_actionId[e]
          /\ DOMAIN commands' = Cubes /\ DOMAIN m_actionId' = Cubes
      BY <3>1 DEF CubeInv
    <3>3. CASE overlapped'
      BY <3>1, <3>2, <3>3 DEF CubeInv, Cube!CubeAnswersMatch
    <3>4. CASE ~overlapped'
      <4>1. ~overlapped /\ commands[c] = <<>>
        BY <3>1, <3>4
      <4>2. c \in Cubes => commands'[c] = <<a>> /\ m_actionId'[c] = a
        BY <3>1, <4>1 DEF CubeInv
      <4>3. OneCommandEach'
        BY <3>1, <3>2, <4>1, <4>2 DEF CubeInv, OneCommandEach
      <4>4. QED
        BY <3>1, <3>2, <4>1, <4>3 DEF CubeInv, Cube!CubeAnswersMatch
    <3>5. QED
      BY <3>3, <3>4
  <2>9. ASSUME NEW a \in CubeActions, NEW t \in Thermostats, Cube!RefuseCommand(a, t)
        PROVE  CubeInv'
    <3> DEFINE c == CubeOf[t]
    <3>1. /\ a \notin waiting
          /\ ~(socket[c] = "connected" /\ m_cubeInitialized[c])
          /\ m_actionId' = [m_actionId EXCEPT ![c] = a]
          /\ answers' = [answers EXCEPT ![a] = Append(@, a)]
          /\ waiting' = waiting \cup {a}
          /\ UNCHANGED <<device, socket, m_cubeInitialized, commands, overlapped>>
      BY <2>9 DEF Cube!RefuseCommand, Cube!cubeVars
    <3> HIDE DEF c
    <3>2. /\ \A e \in Cubes \ {c} : m_actionId'[e] = m_actionId[e]
          /\ DOMAIN m_actionId' = Cubes /\ DOMAIN answers' = CubeActions
          /\ c \in Cubes => commands[c] = <<>>
      BY <3>1 DEF CubeInv
    <3>3. CASE overlapped
      BY <3>1, <3>2, <3>3 DEF CubeInv, Cube!CubeAnswersMatch
    <3>4. CASE ~overlapped
      <4>1. answers[a] = <<>>
        BY <3>1, <3>4 DEF CubeInv, OneCommandEach
      <4>2. answers'[a] = <<a>> /\ \A b \in CubeActions \ {a} : answers'[b] = answers[b]
        BY <3>1, <4>1 DEF CubeInv
      <4>3. Cube!CubeAnswersMatch'
        BY <3>4, <4>2 DEF CubeInv, Cube!CubeAnswersMatch
      <4>4. OneCommandEach'
        BY <3>1, <3>2, <3>4, <4>2 DEF CubeInv, OneCommandEach
      <4>5. QED
        BY <3>1, <3>2, <4>3, <4>4 DEF CubeInv
    <3>5. QED
      BY <3>3, <3>4
  <2>10. ASSUME \/ Cube!AutoDevicesAppeared
                \/ \E t \in Thermostats : Cube!ThermostatRemoved(t)
                \/ \E c \in Cubes, kind \in {"wall", "radiator"}, ts \in SUBSET Thermostats :
                       Cube!Config(c, kind, ts)
                \/ UNCHANGED Cube!vars
         PROVE  CubeInv'
    BY <2>1, <2>10 DEF Cube!AutoDevicesAppeared, Cube!ThermostatRemoved, Cube!Config,
           Cube!cubeVars, Cube!actionVars, Cube!vars
  <2>11. QED
    BY <2>2, <2>3, <2>4, <2>5, <2>6, <2>7, <2>8, <2>9, <2>10 DEF Cube!Next
<1>3. Init => CubeInv
  BY <1>1 DEF Init
<1>4. CubeInv /\ [Next]_vars => (CubeInv)'
  BY <1>2, OnePart
<1>5. QED
  BY <1>3, <1>4, PTL DEF Spec

\* As long as commands do not overlap an action is answered at most once, and with the
\* answer to its own command, over all connections and removals of the cubes.
THEOREM CubeAnswersMatchCorrect == Spec => []CubeAnswersMatch
<1>1. CubeInv => CubeAnswersMatch
  BY DEF CubeInv, CubeAnswersMatch
<1>2. QED
  BY <1>1, CubeInvariance, PTL

-----------------------------------------------------------------------------
(***************************************************************************)
(* Discovery with UPnP and Bluetooth                                       *)
(***************************************************************************)

\* Others know this server by the uuid that it has stored, if by any.
UuidStored == announced \subseteq {uuid} /\ (uuid = None => announced = {})

\* The messages that carry the uuid store it first.
LEMMA MessagesStoreUuid ==
    ASSUME UuidStored, NEW id \in Uuids, Hardware!WithUuid(id),
           uuid' = id, announced' \subseteq announced \cup {id}
    PROVE  UuidStored'
BY NetworkAssumption DEF UuidStored, Hardware!WithUuid

LEMMA UpnpInvariance == Spec => [](Hardware!FoundOnce /\ UuidStored)
<1>1. Hardware!UpnpInit => Hardware!FoundOnce /\ UuidStored
  BY DEF Hardware!UpnpInit, Hardware!FoundOnce, Hardware!Running, UuidStored
<1>2. Hardware!FoundOnce /\ [Hardware!UpnpNext]_(Hardware!upnpVars) => Hardware!FoundOnce'
  <2> SUFFICES ASSUME Hardware!FoundOnce, [Hardware!UpnpNext]_(Hardware!upnpVars)
               PROVE  Hardware!FoundOnce'
    OBVIOUS
  <2>. USE DEF Hardware!FoundOnce, Hardware!Running
  <2>1. ASSUME NEW search \in Searches, Hardware!DiscoverDevices(search)
        PROVE  Hardware!FoundOnce'
    BY <2>1 DEF Hardware!DiscoverDevices
  <2>2. ASSUME NEW search \in Searches, Hardware!DiscoverTimeout(search)
        PROVE  Hardware!FoundOnce'
    BY <2>2 DEF Hardware!DiscoverTimeout
  <2>3. ASSUME NEW d \in UpnpDevices, NEW status \in {200, 404}, Hardware!ReplyFinished(d, status)
        PROVE  Hardware!FoundOnce'
    BY <2>3 DEF Hardware!ReplyFinished, Hardware!AddDeviceDescriptor
  <2>4. ASSUME NEW inOrder \in BOOLEAN, Hardware!End(inOrder) PROVE Hardware!FoundOnce'
    BY <2>4 DEF Hardware!End
  <2>5. CASE UNCHANGED m_discoverRequests
    BY <2>5
  <2>6. QED
    BY <2>1, <2>2, <2>3, <2>4, <2>5
    DEF Hardware!UpnpNext, Hardware!upnpVars, Hardware!Answer, Hardware!Foreign,
        Hardware!ReadData, Hardware!NotificationTimeout, Hardware!Start
<1>3. UuidStored /\ [Hardware!UpnpNext]_(Hardware!upnpVars) => UuidStored'
  <2> SUFFICES ASSUME UuidStored, [Hardware!UpnpNext]_(Hardware!upnpVars) PROVE UuidStored'
    OBVIOUS
  <2>1. CASE UNCHANGED <<uuid, announced>>
    BY <2>1 DEF UuidStored
  <2>2. ASSUME NEW id \in Uuids, Hardware!SendAliveMessage(id) PROVE UuidStored'
    BY <2>2, MessagesStoreUuid DEF Hardware!SendAliveMessage
  <2>3. ASSUME NEW id \in Uuids, Hardware!SendByeByeMessage(id) PROVE UuidStored'
    BY <2>3, MessagesStoreUuid DEF Hardware!SendByeByeMessage
  <2>4. CASE Hardware!RespondToSearchRequest
    BY <2>4, MessagesStoreUuid DEF Hardware!RespondToSearchRequest
  <2>5. QED
    BY <2>1, <2>2, <2>3, <2>4
    DEF Hardware!UpnpNext, Hardware!upnpVars, Hardware!Answer, Hardware!Foreign,
        Hardware!ReadData, Hardware!NotificationTimeout, Hardware!Start,
        Hardware!DiscoverDevices, Hardware!DiscoverTimeout, Hardware!ReplyFinished,
        Hardware!End
<1>4. Init => Hardware!FoundOnce /\ UuidStored
  BY <1>1 DEF Init
<1>5. Hardware!FoundOnce /\ UuidStored /\ [Next]_vars => (Hardware!FoundOnce /\ UuidStored)'
  BY <1>2, <1>3, OnePart
<1>6. QED
  BY <1>4, <1>5, PTL DEF Spec

LEMMA BluetoothInvariance == Spec => []Hardware!FoundForThePlugin
<1>1. Hardware!BluetoothInit => Hardware!FoundForThePlugin
  BY DEF Hardware!BluetoothInit, Hardware!FoundForThePlugin
<1>2. Hardware!FoundForThePlugin /\ [Hardware!BluetoothNext]_(Hardware!scannerVars)
          => Hardware!FoundForThePlugin'
  <2> SUFFICES ASSUME Hardware!FoundForThePlugin,
                      [Hardware!BluetoothNext]_(Hardware!scannerVars)
               PROVE  Hardware!FoundForThePlugin'
    OBVIOUS
  <2>. USE DEF Hardware!FoundForThePlugin
  <2>1. ASSUME NEW plugin \in BluetoothPlugins, Hardware!Discover(plugin)
        PROVE  Hardware!FoundForThePlugin'
    BY <2>1 DEF Hardware!Discover
  <2>2. ASSUME NEW d \in Nearby, Hardware!DeviceDiscovered(d)
        PROVE  Hardware!FoundForThePlugin'
    BY <2>2 DEF Hardware!DeviceDiscovered
  <2>3. CASE /\ m_timer' = FALSE \/ m_timer' = m_timer
             /\ UNCHANGED <<m_pluginId, m_deviceInfos>>
    BY <2>3
  <2>4. QED
    BY <2>1, <2>2, <2>3
    DEF Hardware!BluetoothNext, Hardware!scannerVars, Hardware!AgentFinished,
        Hardware!OnError, Hardware!DiscoveryTimeout
<1>3. Init => Hardware!FoundForThePlugin
  BY <1>1 DEF Init
<1>4. Hardware!FoundForThePlugin /\ [Next]_vars => (Hardware!FoundForThePlugin)'
  BY <1>2, OnePart
<1>5. QED
  BY <1>3, <1>4, PTL DEF Spec

\* Plugins get what was found for them, and once, and others know this server under one
\* uuid, over all restarts: the three messages that carry it store it where it is missing.
THEOREM DiscoveriesRightCorrect == Spec => []DiscoveriesRight
<1>1. UuidStored => Hardware!KnownUnderOneUuid
  BY DEF UuidStored, Hardware!KnownUnderOneUuid
<1>2. Hardware!FoundOnce /\ UuidStored /\ Hardware!FoundForThePlugin => DiscoveriesRight
  BY <1>1 DEF DiscoveriesRight, Hardware!DiscoveriesRight
<1>3. QED
  BY <1>2, UpnpInvariance, BluetoothInvariance, PTL

-----------------------------------------------------------------------------
(***************************************************************************)
(* The transports of the JSON-RPC server                                   *)
(***************************************************************************)

\* Before it is started nothing is listened on.
TransportInv ==
    /\ DOMAIN sockets = Clients
    /\ m_clientList \subseteq Clients
    /\ ~started => m_serverList = {}
    /\ Transport!ClientsHaveSockets

LEMMA TransportInvariance == Spec => []TransportInv
<1>. USE DEF TransportInv, Transport!ClientsHaveSockets
<1>1. Transport!Init => TransportInv
  BY DEF Transport!Init
<1>2. TransportInv /\ [Transport!Next]_(Transport!transportVars) => TransportInv'
  <2> SUFFICES ASSUME TransportInv, [Transport!Next]_(Transport!transportVars)
               PROVE  TransportInv'
    OBVIOUS
  <2>1. CASE UNCHANGED <<started, m_serverList, m_server, sockets, m_clientList, deletedUsed>>
    BY <2>1
  <2>2. CASE ~deletedUsed /\ Transport!StartServer
    BY <2>2 DEF Transport!StartServer
  <2>3. CASE ~deletedUsed /\ Transport!OnTimeout
    BY <2>3 DEF Transport!OnTimeout, Transport!Close
  <2>4. ASSUME NEW client \in Clients, NEW address \in Addresses,
               Transport!TcpClientConnected(client, address)
        PROVE  TransportInv'
    BY <2>4 DEF Transport!TcpClientConnected
  <2>5. ASSUME NEW client \in Clients, Transport!ClientDisconnected(client)
        PROVE  TransportInv'
    BY <2>5 DEF Transport!ClientDisconnected
  <2>6. ASSUME NEW listens \in BOOLEAN, Transport!StartWebSocketServer(listens)
        PROVE  TransportInv'
    BY <2>6 DEF Transport!StartWebSocketServer
  <2>7. ASSUME NEW client \in Clients, NEW version \in {8, 13},
               Transport!WebClientConnected(client, version)
        PROVE  TransportInv'
    BY <2>7 DEF Transport!WebClientConnected
  <2>8. QED
    BY <2>1, <2>2, <2>3, <2>4, <2>5, <2>6, <2>7
    DEF Transport!Next, Transport!transportVars, Transport!AddressChanges,
        Transport!PortChanges
<1>3. Init => TransportInv
  BY <1>1 DEF Init
<1>4. TransportInv /\ [Next]_vars => (TransportInv)'
  BY <1>2, OnePart
<1>5. QED
  BY <1>3, <1>4, PTL DEF Spec

-----------------------------------------------------------------------------
(***************************************************************************)
(* Philips hue                                                             *)
(***************************************************************************)

\* The bridge of an undisturbed start is the only one, what is asked is asked of it, and
\* no request is left of a device that is deleted.
OneBridge ==
    /\ \A b, c \in Hue!bridges : b = c
    /\ m_bridgeRefreshRequests \subseteq Hue!bridges
    /\ m_unconfiguredBridges = {}
    /\ stale = {}
    /\ \A a \in HueActions : m_asyncActions[a] # "gone"

HueInv ==
    /\ undefined => disturbed
    /\ DOMAIN m_asyncActions = HueActions
    /\ disturbed \/ OneBridge

\* The timer refreshes one bridge.
LEMMA OneFolded ==
    ASSUME NEW base, NEW order, DOMAIN order = {1}
    PROVE  Hue!FoldLeft(Hue!RefreshBridge, base, order) = Hue!RefreshBridge(base, order[1])
<1> DEFINE R(s, b) == Hue!RefreshBridge(s, b)
           h == [s \in SUBSET {1} |-> IF s = {} THEN base ELSE R(base, order[1])]
           iter == CHOOSE g : g = [s \in SUBSET {1} |->
                       IF s = {} THEN base
                       ELSE R(g[s \ {Hue!Max(s)}], order[Hue!Max(s)])]
<1> HIDE DEF R
<1>1. Hue!Max({1}) = 1
  BY DEF Hue!Max
<1>2. \A s \in SUBSET {1} : s = {} \/ s = {1}
  OBVIOUS
<1>3. h = [s \in SUBSET {1} |-> IF s = {} THEN base
                                ELSE R(h[s \ {Hue!Max(s)}], order[Hue!Max(s)])]
  <2>1. h[{}] = base
    OBVIOUS
  <2>2. {1} \ {1} = {}
    OBVIOUS
  <2>3. ASSUME NEW s \in SUBSET {1}
        PROVE  (IF s = {} THEN base ELSE R(base, order[1]))
                   = IF s = {} THEN base ELSE R(h[s \ {Hue!Max(s)}], order[Hue!Max(s)])
    BY <1>1, <1>2, <2>1, <2>2
  <2> HIDE DEF h
  <2>4. QED
    BY <2>3 DEF h
<1>4. iter = [s \in SUBSET {1} |-> IF s = {} THEN base
                                   ELSE R(iter[s \ {Hue!Max(s)}], order[Hue!Max(s)])]
  BY <1>3
<1>5. iter[{1}] = R(base, order[1])
  <2>1. iter[{}] = base
    BY <1>4
  <2>2. {1} \ {1} = {}
    OBVIOUS
  <2>3. iter[{1}] = R(iter[{1} \ {Hue!Max({1})}], order[Hue!Max({1})])
    BY <1>4
  <2>4. QED
    BY <1>1, <2>1, <2>2, <2>3
<1>6. Hue!FoldLeft(Hue!RefreshBridge, base, order) = iter[{1}]
  BY DEF Hue!FoldLeft, Hue!MapThenFoldSet, iter, R
<1>7. QED
  BY <1>5, <1>6 DEF R

\* The timer without a bridge
LEMMA NoneFolded ==
    ASSUME NEW base, NEW order, DOMAIN order = {}
    PROVE  Hue!FoldLeft(Hue!RefreshBridge, base, order) = base
<1> DEFINE R(s, b) == Hue!RefreshBridge(s, b)
           h == [s \in SUBSET {} |-> base]
           iter == CHOOSE g : g = [s \in SUBSET {} |->
                       IF s = {} THEN base
                       ELSE R(g[s \ {Hue!Max(s)}], order[Hue!Max(s)])]
<1> HIDE DEF R
<1>1. h = [s \in SUBSET {} |-> IF s = {} THEN base
                               ELSE R(h[s \ {Hue!Max(s)}], order[Hue!Max(s)])]
  OBVIOUS
<1>2. iter = [s \in SUBSET {} |-> IF s = {} THEN base
                                  ELSE R(iter[s \ {Hue!Max(s)}], order[Hue!Max(s)])]
  BY <1>1
<1>3. iter[{}] = base
  BY <1>2
<1>4. Hue!FoldLeft(Hue!RefreshBridge, base, order) = iter[{}]
  BY DEF Hue!FoldLeft, Hue!MapThenFoldSet, iter, R
<1>5. QED
  BY <1>3, <1>4

\* The orders in which the timer may meet the bridges, if there is one at most
LEMMA OrderOfOne ==
    ASSUME \A b, c \in Hue!bridges : b = c, NEW order \in Hue!SetToSeqs(Hue!bridges)
    PROVE  \/ DOMAIN order = {} /\ Hue!bridges = {}
           \/ DOMAIN order = {1} /\ order[1] \in Hue!bridges
<1>1. \A S : Hue!Cardinality(S) = Cardinality(S)
  BY DEF Hue!Cardinality, Cardinality
<1>2. order \in [1..Cardinality(Hue!bridges) -> Hue!bridges]
  BY <1>1 DEF Hue!SetToSeqs
<1>3. CASE Hue!bridges = {}
  BY <1>2, <1>3, FS_EmptySet
<1>4. ASSUME NEW b \in Hue!bridges PROVE DOMAIN order = {1} /\ order[1] \in Hue!bridges
  <2>1. Hue!bridges = {b}
    OBVIOUS
  <2>2. Cardinality(Hue!bridges) = 1
    BY <2>1, FS_Singleton
  <2>3. 1..1 = {1}
    OBVIOUS
  <2>4. QED
    BY <1>2, <2>2, <2>3
<1>5. QED
  BY <1>3, <1>4

LEMMA HueInvariance == Spec => []HueInv
<1>1. ASSUME Hue!Init PROVE HueInv
  <2>1. ~disturbed => \A b, c \in Hue!bridges : b = c
    BY <1>1 DEF Hue!Init, Hue!bridges
  <2>2. /\ m_bridgeRefreshRequests = {} /\ m_unconfiguredBridges = {} /\ stale = {}
        /\ m_asyncActions = [a \in HueActions |-> None] /\ ~undefined
    BY <1>1 DEF Hue!Init
  <2>3. QED
    BY <2>1, <2>2, NetworkAssumption DEF HueInv, OneBridge
<1>2. HueInv /\ [Hue!Next]_(Hue!vars) => HueInv'
  <2> SUFFICES ASSUME HueInv, [Hue!Next]_(Hue!vars) PROVE HueInv'
    OBVIOUS
  <2>. USE DEF HueInv, OneBridge, Hue!bridges
  <2>1. CASE UNCHANGED <<myDevices, m_unconfiguredBridges, m_bridgeRefreshRequests, stale,
                         m_asyncActions, undefined, disturbed>>
    BY <2>1
  <2>2. ASSUME NEW t \in Pairings, Hue!AlreadyAdded(t) PROVE HueInv'
    BY <2>2 DEF Hue!AlreadyAdded
  <2>3. ASSUME NEW t \in Pairings, ~undefined, Hue!SetupBridge(t) PROVE HueInv'
    <3>1. /\ UNCHANGED <<m_unconfiguredBridges, m_bridgeRefreshRequests, stale, m_asyncActions>>
          /\ \/ m_unconfiguredBridges # {} /\ UNCHANGED <<myDevices, disturbed>>
             \/ /\ myDevices' = myDevices \cup {BridgeAt[t]}
                /\ disturbed' = (disturbed \/ Hue!bridges # {})
                /\ UNCHANGED undefined
      BY <2>3 DEF Hue!SetupBridge
    <3>2. CASE m_unconfiguredBridges # {} /\ UNCHANGED <<myDevices, disturbed>>
      BY <3>1, <3>2
    <3>3. CASE /\ myDevices' = myDevices \cup {BridgeAt[t]}
               /\ disturbed' = (disturbed \/ Hue!bridges # {})
               /\ UNCHANGED undefined
      <4>1. Hue!bridges = {} => \A b \in Hue!bridges' : b = BridgeAt[t]
        BY <3>3
      <4>2. ~disturbed' => ~disturbed /\ Hue!bridges = {}
        BY <3>3
      <4>3. Hue!bridges = {} => m_bridgeRefreshRequests = {} \/ disturbed
        OBVIOUS
      <4>4. ~undefined'
        BY <2>3, <3>3
      <4>5. disturbed' \/ OneBridge'
        BY <3>1, <4>1, <4>2, <4>3
      <4>6. QED
        BY <3>1, <4>4, <4>5
    <3>4. QED
      BY <3>1, <3>2, <3>3
  <2>4. ASSUME NEW d \in Hue!Devices, Hue!DeviceRemoved(d) PROVE HueInv'
    <3> DEFINE left == (IF d \in m_bridgeRefreshRequests THEN {"refresh"} ELSE {})
                           \cup (IF {r \in requests : r[2] = d} = {} THEN {} ELSE {"other"})
               actions == {a \in HueActions : m_asyncActions[a] = d}
    <3>1. /\ myDevices' = myDevices \ {d}
          /\ m_bridgeRefreshRequests' = m_bridgeRefreshRequests \ {d}
          /\ stale' = stale \cup left
          /\ m_asyncActions' = [a \in HueActions |-> IF a \in actions THEN "gone"
                                                  ELSE m_asyncActions[a]]
          /\ disturbed' = (disturbed \/ left # {} \/ actions # {})
          /\ UNCHANGED <<m_unconfiguredBridges, undefined>>
      BY <2>4 DEF Hue!DeviceRemoved
    <3> HIDE DEF left, actions
    <3>2. QED
      BY <3>1
  <2>5. ASSUME NEW kind \in {"lights discovery", "sensors discovery"}, NEW b \in Bridges,
               NEW found \in SUBSET Hue!Children, Hue!DiscoveryReply(kind, b, found)
        PROVE  HueInv'
    <3>1. /\ myDevices' = myDevices \cup (found \ myDevices)
          /\ UNCHANGED <<m_unconfiguredBridges, m_bridgeRefreshRequests, stale, m_asyncActions,
                         undefined, disturbed>>
      BY <2>5 DEF Hue!DiscoveryReply
    <3>2. myDevices' \cap Bridges = myDevices \cap Bridges
      BY <3>1, NetworkAssumption
    <3>3. QED
      BY <3>1, <3>2
  <2>6. ASSUME NEW b \in Bridges, NEW o \in Hue!Outcomes, Hue!BridgeReply(b, o) PROVE HueInv'
    BY <2>6 DEF Hue!BridgeReply
  <2>7. ASSUME NEW kind \in {"refresh", "other"}, ~undefined, Hue!StaleReply(kind)
        PROVE  HueInv'
    BY <2>7 DEF Hue!StaleReply
  <2>8. ASSUME NEW a \in HueActions, NEW d \in Hue!Devices, Hue!ExecuteAction(a, d) PROVE HueInv'
    BY <2>8, NetworkAssumption DEF Hue!ExecuteAction
  <2>9. ASSUME NEW a \in HueActions, Hue!ActionAnswered(a) PROVE HueInv'
    BY <2>9 DEF Hue!ActionAnswered, Hue!ActionReply, Hue!StaleActionReply
  <2>10. ASSUME ~undefined, Hue!OnTimeout PROVE HueInv'
    <3> DEFINE s0 == [asked |-> m_bridgeRefreshRequests, reachable |-> reachable,
                      undefined |-> undefined]
    <3>1. PICK order \in Hue!SetToSeqs(Hue!bridges) :
              LET s == Hue!FoldLeft(Hue!RefreshBridge, s0, order)
              IN m_bridgeRefreshRequests' = s.asked /\ undefined' = s.undefined
      BY <2>10 DEF Hue!OnTimeout
    <3>2. UNCHANGED <<myDevices, m_unconfiguredBridges, stale, m_asyncActions, disturbed>>
      BY <2>10 DEF Hue!OnTimeout
    <3>3. CASE disturbed
      BY <3>2, <3>3
    <3>4. CASE ~disturbed
      <4>1. \A b, c \in Hue!bridges : b = c
        BY <3>4
      <4>2. CASE DOMAIN order = {}
        <5>1. m_bridgeRefreshRequests' = s0.asked /\ undefined' = s0.undefined
          BY <3>1, <4>2, NoneFolded
        <5>2. QED
          BY <3>2, <5>1
      <4>3. CASE DOMAIN order = {1} /\ order[1] \in Hue!bridges
        <5>1. /\ m_bridgeRefreshRequests' = Hue!RefreshBridge(s0, order[1]).asked
              /\ undefined' = Hue!RefreshBridge(s0, order[1]).undefined
          BY <3>1, <4>3, OneFolded
        <5>2. m_bridgeRefreshRequests # {} => order[1] \in m_bridgeRefreshRequests
          BY <3>4, <4>3
        <5>3. /\ undefined' = FALSE
              /\ m_bridgeRefreshRequests' \subseteq {order[1]}
          BY <2>10, <3>4, <4>3, <5>1, <5>2 DEF Hue!RefreshBridge
        <5>4. QED
          BY <3>2, <3>4, <4>3, <5>3
      <4>4. QED
        BY <4>1, <4>2, <4>3, OrderOfOne
    <3>5. QED
      BY <3>3, <3>4
  <2>11. QED
    BY <2>1, <2>2, <2>3, <2>4, <2>5, <2>6, <2>7, <2>8, <2>9, <2>10
    DEF Hue!Next, Hue!RepliesReady, Hue!vars, Hue!ConfirmPairing, Hue!PairingReply,
        Hue!InformationFails, Hue!SearchReply, Hue!LightReply, Hue!LightsReply,
        Hue!SensorsReply, Hue!NameReply, Hue!ReplyFails, Hue!SearchNewDevices
<1>3. Init => HueInv
  BY <1>1 DEF Init
<1>4. HueInv /\ [Next]_vars => (HueInv)'
  BY <1>2, OnePart
<1>5. QED
  BY <1>3, <1>4, PTL DEF Spec

\* With one bridge that is paired with once, and devices that are not removed while they
\* are asked something, no reply and no tick of the timer meets an object that is gone
\* (networkManagerReplyReady(), refreshBridge()); and no client of the JSON-RPC server is
\* listed without a socket of a server that runs (onTimeout(), onClientDisconnected()).
THEOREM DeletedOnlyUsedCorrect == Spec => []DeletedOnlyUsedIfDisturbed
<1>1. HueInv /\ TransportInv => DeletedOnlyUsedIfDisturbed
  BY DEF HueInv, TransportInv, DeletedOnlyUsedIfDisturbed, Hue!UndefinedOnlyIfDisturbed
<1>2. QED
  BY <1>1, HueInvariance, TransportInvariance, PTL
=============================================================================
