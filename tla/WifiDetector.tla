---------------------------- MODULE WifiDetector ----------------------------
(***************************************************************************)
(* The Wi-Fi detector plugin: devices are in range when a scan of the      *)
(* network finds their MAC address.  Each tick of the plugin timer starts  *)
(* a scan, an external program, for each interface; so does a discovery.   *)
(***************************************************************************)
EXTENDS Naturals, FiniteSets

CONSTANTS
    Macs,       \* MAC addresses in the nets
    Interfaces, \* interfaces of the host with an IPv4 address
    NetOf,      \* MAC address -> the interface whose net it is in
    MaxScans    \* bound: scans of one kind of one interface at once

VARIABLES
    installed,             \* the program that scans can be started
    myDevices,             \* configured devices: their MAC addresses
    inRange,               \* MAC address -> the state
    scans,                 \* interface -> running scans of guhTimer()
    m_discoveryProcesses,  \* interface -> running scans of discoveries
    m_deviceDescriptors,   \* MAC addresses found by discoveries
    discovering,           \* a client waits for devicesDiscovered()
    scanFailed             \* a scan failed, or could not start, while it waits

detectorVars == <<installed, myDevices, inRange, scans, m_discoveryProcesses,
                  m_deviceDescriptors, discovering, scanFailed>>

\* What a scan of the interface may find.
Finds(interface) == SUBSET {mac \in Macs : NetOf[mac] = interface}

-----------------------------------------------------------------------------
(* The state "in range" *)

\* A program that does not start never finishes: its process object stays.
GuhTimer ==
    /\ installed /\ \A i \in Interfaces : scans[i] < MaxScans
    /\ scans' = [i \in Interfaces |-> scans[i] + 1]
    /\ UNCHANGED <<installed, myDevices, inRange, m_discoveryProcesses, m_deviceDescriptors,
                   discovering, scanFailed>>

\* All devices are in range or not by the scan of one interface.
ProcessFinished(interface, exitCode, foundDevices) ==
    /\ scans[interface] > 0
    /\ scans' = [scans EXCEPT ![interface] = @ - 1]
    /\ inRange' = IF exitCode # 0 THEN inRange
                  ELSE [mac \in Macs |-> IF mac \in myDevices THEN mac \in foundDevices
                                                              ELSE inRange[mac]]
    /\ UNCHANGED <<installed, myDevices, m_discoveryProcesses, m_deviceDescriptors,
                   discovering, scanFailed>>

-----------------------------------------------------------------------------
(* Discoveries *)

DiscoverDevices ==
    /\ \A i \in Interfaces : m_discoveryProcesses[i] < MaxScans
    /\ m_deviceDescriptors' = {}
    /\ m_discoveryProcesses' = [i \in Interfaces |-> m_discoveryProcesses[i] + 1]
    /\ discovering' = TRUE
    /\ scanFailed' = ~installed
    /\ UNCHANGED <<installed, myDevices, inRange, scans>>

\* The last scan answers, unless it failed: its result is never looked at then.
DiscoveryProcessFinished(interface, exitCode, found) ==
    /\ installed /\ m_discoveryProcesses[interface] > 0
    /\ m_discoveryProcesses' = [m_discoveryProcesses EXCEPT ![interface] = @ - 1]
    /\ IF exitCode # 0
       THEN /\ scanFailed' = TRUE
            /\ UNCHANGED <<m_deviceDescriptors, discovering>>
       ELSE /\ m_deviceDescriptors' = m_deviceDescriptors \cup found
            /\ discovering' =
                   (discovering /\ \E i \in Interfaces : m_discoveryProcesses'[i] > 0)
            /\ UNCHANGED scanFailed
    /\ UNCHANGED <<installed, myDevices, inRange, scans>>

-----------------------------------------------------------------------------

\* The core sets devices up and removes them; the plugin keeps nothing of its own.
Configure(mac) ==
    /\ myDevices' = IF mac \in myDevices THEN myDevices \ {mac} ELSE myDevices \cup {mac}
    /\ inRange' = [inRange EXCEPT ![mac] = FALSE]
    /\ UNCHANGED <<installed, scans, m_discoveryProcesses, m_deviceDescriptors, discovering,
                   scanFailed>>

Init ==
    /\ installed \in BOOLEAN
    /\ myDevices = {}
    /\ inRange = [mac \in Macs |-> FALSE]
    /\ scans = [i \in Interfaces |-> 0]
    /\ m_discoveryProcesses = [i \in Interfaces |-> 0]
    /\ m_deviceDescriptors = {}
    /\ discovering = FALSE
    /\ scanFailed = FALSE

Next ==
    \/ GuhTimer
    \/ \E interface \in Interfaces, exitCode \in {0, 1} : \E found \in Finds(interface) :
           \/ ProcessFinished(interface, exitCode, found)
           \/ DiscoveryProcessFinished(interface, exitCode, found)
    \/ DiscoverDevices
    \/ \E mac \in Macs : Configure(mac)

-----------------------------------------------------------------------------

\* The scans of a discovery end.
ScansEnd == \E interface \in Interfaces, exitCode \in {0, 1} : \E found \in Finds(interface) :
    DiscoveryProcessFinished(interface, exitCode, found)
=============================================================================
