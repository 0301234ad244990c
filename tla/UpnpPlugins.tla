---------------------------- MODULE UpnpPlugins -----------------------------
(***************************************************************************)
(* The plugins of devices that UPnP finds: Kodi media centres, LG smart    *)
(* TVs and WeMo switches.                                                  *)
(***************************************************************************)
EXTENDS PluginHost

-----------------------------------------------------------------------------
(***************************************************************************)
(* Kodi.  A media centre is connected over TCP and answers numbered        *)
(* requests.  The first connection of a device asks for the version and    *)
(* then for its properties, which ends the set up.                         *)
(***************************************************************************)

VARIABLES
    kodiLink,          \* device -> "none", "off", "connecting" or "on"
    kodiSetups,        \* the devices that were not connected yet
    m_replys           \* device -> what it is asked: "version", "update" or an action

kodiVars == <<kodiLink, kodiSetups, m_replys>>

KodiInit ==
    /\ kodiLink = [d \in Devices |-> "none"]
    /\ kodiSetups = {}
    /\ m_replys = [d \in Devices |-> {}]

\* Each command of a media centre is a request with a number of its own.
Requested(d, requests) == m_replys' = [m_replys EXCEPT ![d] = @ \cup requests]

\* What is lost with the requests that are not answered
Waiting(d, requests) ==
    (requests \cap Actions)
    \cup (IF requests \cap {"version", "update"} # {} THEN {d} ELSE {})

-----------------------------------------------------------------------------

\* setupDevice()
KodiSetupDevice(d) ==
    /\ NotSetUp(d)
    /\ SetupAsync(d)
    /\ kodiLink' = [kodiLink EXCEPT ![d] = "connecting"]
    /\ kodiSetups' = kodiSetups \cup {d}
    /\ UNCHANGED <<acts, lost, disturbed, undefined, m_replys>>

\* onConnected() and onConnectionChanged(): checkVersion() the first time
Connected(d) ==
    /\ kodiLink[d] = "connecting"
    /\ kodiLink' = [kodiLink EXCEPT ![d] = "on"]
    /\ kodiSetups' = kodiSetups \ {d}
    /\ Requested(d, IF d \in kodiSetups THEN {"version"} ELSE {})
    /\ UNCHANGED hostVars

\* onError(): the plugin is not told.  It tries again when its timer runs, which needs
\* another device.
ConnectFails(d) ==
    /\ kodiLink[d] = "connecting"
    /\ kodiLink' = [kodiLink EXCEPT ![d] = "off"]
    /\ lost' = lost \cup (kodiSetups \cap {d})
    /\ UNCHANGED <<host, acts, disturbed, undefined, kodiSetups, m_replys>>

\* onDisconnected(): nobody is told of the requests, which keep their numbers, and
\* the next connection is not the first.
Disconnected(d) ==
    /\ kodiLink[d] = "on"
    /\ kodiLink' = [kodiLink EXCEPT ![d] = "off"]
    /\ m_replys' = [m_replys EXCEPT ![d] = {}]
    /\ lost' = lost \cup Waiting(d, m_replys[d])
    /\ UNCHANGED <<host, acts, disturbed, undefined, kodiSetups>>

\* guhTimer(): the timer runs once a device is set up.
KodiGuhTimer ==
    /\ \E d \in Devices : Configured(d)
    /\ \E d \in Devices : kodiLink[d] = "off"
    /\ kodiLink' = [d \in Devices |-> IF kodiLink[d] = "off" THEN "connecting" ELSE kodiLink[d]]
    /\ UNCHANGED <<hostVars, kodiSetups, m_replys>>

\* deviceRemoved(): the Kodi is deleted.
KodiDeviceRemoved(d) ==
    /\ Configured(d)
    /\ Removed(d)
    /\ kodiLink' = [kodiLink EXCEPT ![d] = "none"]
    /\ kodiSetups' = kodiSetups \ {d}
    /\ m_replys' = [m_replys EXCEPT ![d] = {}]
    /\ lost' = lost \cup Waiting(d, m_replys[d])
    /\ UNCHANGED <<acts, disturbed, undefined>>

\* executeAction()
KodiExecuteAction(a, d) ==
    /\ CanExecute(a, d)
    /\ \/ /\ kodiLink[d] # "on"
          /\ ExecuteReturns(a)
          /\ UNCHANGED m_replys
       \/ /\ kodiLink[d] = "on"
          /\ ExecuteAsync(a)
          /\ Requested(d, {a})
    /\ UNCHANGED <<host, lost, disturbed, undefined, kodiLink, kodiSetups>>

\* processResponse() of the answer to a request of an action
KodiActionResponse(d, a) ==
    /\ a \in m_replys[d]
    /\ m_replys' = [m_replys EXCEPT ![d] = @ \ {a}]
    /\ ActionFinished(a)
    /\ UNCHANGED <<host, lost, disturbed, undefined, kodiLink, kodiSetups>>

\* versionDataReceived(): an answer that is an error counts as version 0.
VersionResponse(d, compatible) ==
    /\ "version" \in m_replys[d]
    /\ IF compatible
       THEN /\ m_replys' = [m_replys EXCEPT ![d] = (@ \ {"version"}) \cup {"update"}]
            /\ UNCHANGED host
       ELSE /\ m_replys' = [m_replys EXCEPT ![d] = @ \ {"version"}]
            /\ SetupFinished(d, FALSE)
    /\ UNCHANGED <<acts, lost, disturbed, undefined, kodiLink, kodiSetups>>

\* onSetupFinished()
UpdateResponse(d) ==
    /\ "update" \in m_replys[d]
    /\ m_replys' = [m_replys EXCEPT ![d] = @ \ {"update"}]
    /\ SetupFinished(d, TRUE)
    /\ UNCHANGED <<acts, lost, disturbed, undefined, kodiLink, kodiSetups>>

\* readData(): an answer that comes in two packets is no JSON, either half of it.
ResponseCut(d, request) ==
    /\ request \in m_replys[d]
    /\ m_replys' = [m_replys EXCEPT ![d] = @ \ {request}]
    /\ lost' = lost \cup Waiting(d, {request})
    /\ UNCHANGED <<host, acts, disturbed, undefined, kodiLink, kodiSetups>>

Responds(d) ==
    \/ \E a \in Actions : KodiActionResponse(d, a)
    \/ \E compatible \in BOOLEAN : VersionResponse(d, compatible)
    \/ UpdateResponse(d)
    \/ \E request \in {"version", "update"} \cup Actions : ResponseCut(d, request)

KodiNext ==
    \/ \E d \in Devices :
        \/ KodiSetupDevice(d) \/ Connected(d) \/ ConnectFails(d) \/ Disconnected(d)
        \/ KodiDeviceRemoved(d) \/ Responds(d)
        \/ \E a \in Actions : KodiExecuteAction(a, d)
    \/ KodiGuhTimer

\* Attempts to connect end, and a media centre answers what it is asked or the
\* connection ends (fair).
KodiLinkProgress(d) == Connected(d) \/ ConnectFails(d)
KodiDeviceProgress(d) == Responds(d) \/ Disconnected(d)

-----------------------------------------------------------------------------
(***************************************************************************)
(* LG smart TVs.  A TV shows a key, is paired with it and paired again by  *)
(* each set up; then it is asked for its volume and channel whenever the   *)
(* timer runs.  Requests are kept with the device, the TV is looked up     *)
(* when they are answered.                                                 *)
(***************************************************************************)

CONSTANT MaxInfo    \* bound: requests for information of a TV that wait

VARIABLES
    tvPairing,      \* TV -> "none", "shown", "hello" or "byebye" is asked for
    m_tvList,       \* the devices that have a TV
    paired,         \* the TVs that are paired
    tvReachable,
    m_asyncSetup,   \* the devices whose set up waits for the TV
    infoRequests,   \* device -> requests in m_volumeInfoRequests and m_channelInfoRequests
    tvActions       \* the actions whose requests wait

tvVars == <<tvPairing, m_tvList, paired, tvReachable, m_asyncSetup, infoRequests, tvActions>>

LgSmartTvInit ==
    /\ tvPairing = [d \in Devices |-> "none"]
    /\ m_tvList = {} /\ paired = {} /\ tvReachable = {}
    /\ m_asyncSetup = {}
    /\ infoRequests = [d \in Devices |-> 0]
    /\ tvActions = {}

-----------------------------------------------------------------------------
(* Pairing and set up *)

\* displayPin()
DisplayPin(d) ==
    /\ host[d] = "none" /\ tvPairing[d] = "none"
    /\ tvPairing' = [tvPairing EXCEPT ![d] = "shown"]
    /\ UNCHANGED <<hostVars, m_tvList, paired, tvReachable, m_asyncSetup, infoRequests,
                   tvActions>>

\* confirmPairing(): the key is kept for the set up.
ConfirmPairing(d) ==
    /\ tvPairing[d] = "shown"
    /\ tvPairing' = [tvPairing EXCEPT ![d] = "hello"]
    /\ UNCHANGED <<hostVars, m_tvList, paired, tvReachable, m_asyncSetup, infoRequests,
                   tvActions>>

\* setupDevice(): the TV of a stored device has its key, that of a paired one is kept.
TvSetupDevice(d) ==
    /\ SetupAsync(d)
    /\ m_tvList' = m_tvList \cup {d}
    /\ m_asyncSetup' = m_asyncSetup \cup {d}

SetupStoredDevice(d) ==
    /\ host[d] = "stored"
    /\ TvSetupDevice(d)
    /\ UNCHANGED <<acts, lost, disturbed, undefined, tvPairing, paired, tvReachable, infoRequests,
                   tvActions>>

\* networkManagerReplyReady() of the requests of a pairing: the one that succeeds
\* adds the device.
PairingReply(d, ok) ==
    /\ tvPairing[d] \in {"hello", "byebye"}
    /\ tvPairing' = [tvPairing EXCEPT ![d] = IF tvPairing[d] = "hello" /\ ok THEN "byebye" ELSE "none"]
    /\ IF tvPairing[d] = "byebye" /\ ok THEN TvSetupDevice(d)
       ELSE UNCHANGED <<host, m_tvList, m_asyncSetup>>
    /\ UNCHANGED <<acts, lost, disturbed, undefined, paired, tvReachable, infoRequests,
                   tvActions>>

\* ... of the pairing request of a set up
SetupReply(d, ok) ==
    /\ d \in m_asyncSetup
    /\ m_asyncSetup' = m_asyncSetup \ {d}
    /\ IF d \notin m_tvList
       THEN undefined' = TRUE /\ UNCHANGED <<host, paired, infoRequests>>
       ELSE /\ SetupFinished(d, ok)
            /\ paired' = IF ok THEN paired \cup {d} ELSE paired \ {d}
            /\ infoRequests' = [infoRequests EXCEPT ![d] = IF ok THEN @ + 2 ELSE @]
            /\ UNCHANGED undefined
    /\ UNCHANGED <<acts, lost, disturbed, tvPairing, m_tvList, tvReachable, tvActions>>

\* deviceRemoved(): the requests keep the device.
TvDeviceRemoved(d) ==
    /\ Configured(d)
    /\ Removed(d)
    /\ m_tvList' = m_tvList \ {d}
    /\ paired' = paired \ {d}
    /\ tvReachable' = tvReachable \ {d}
    /\ disturbed' = (disturbed \/ d \in m_asyncSetup \/ infoRequests[d] > 0)
    /\ UNCHANGED <<acts, lost, undefined, tvPairing, m_asyncSetup, infoRequests, tvActions>>

-----------------------------------------------------------------------------
(* The TV *)

\* guhTimer() and refreshTv(): the answers of the TVs that are not paired are ignored.
TvGuhTimer ==
    /\ \E d \in Devices : Configured(d)
    /\ \A d \in paired : infoRequests[d] + 2 <= MaxInfo
    /\ infoRequests' = [d \in Devices |-> infoRequests[d] + IF d \in paired THEN 2 ELSE 0]
    /\ UNCHANGED <<hostVars, tvPairing, m_tvList, paired, tvReachable, m_asyncSetup, tvActions>>

\* networkManagerReplyReady() of a request for the volume or the channel
InfoReply(d, ok) ==
    /\ infoRequests[d] > 0
    /\ infoRequests' = [infoRequests EXCEPT ![d] = @ - 1]
    /\ IF d \notin m_tvList THEN undefined' = TRUE /\ UNCHANGED tvReachable
       ELSE /\ tvReachable' = IF ok THEN tvReachable \cup {d} ELSE tvReachable \ {d}
            /\ UNCHANGED undefined
    /\ UNCHANGED <<host, acts, lost, disturbed, tvPairing, m_tvList, paired, m_asyncSetup,
                   tvActions>>

\* eventOccured(): the TV is switched off.
ByeBye(d) ==
    /\ d \in m_tvList
    /\ paired' = paired \ {d}
    /\ tvReachable' = tvReachable \ {d}
    /\ UNCHANGED <<hostVars, tvPairing, m_tvList, m_asyncSetup, infoRequests, tvActions>>

-----------------------------------------------------------------------------
(* Actions *)

\* executeAction(): each of the actions is a key of the remote control.
TvExecuteAction(a, d) ==
    /\ CanExecute(a, d)
    /\ IF d \in tvReachable
       THEN ExecuteAsync(a) /\ tvActions' = tvActions \cup {a}
       ELSE ExecuteReturns(a) /\ UNCHANGED tvActions
    /\ UNCHANGED <<host, lost, disturbed, undefined, tvPairing, m_tvList, paired, tvReachable,
                   m_asyncSetup, infoRequests>>

\* networkManagerReplyReady() of an action
TvActionReply(a) ==
    /\ a \in tvActions
    /\ tvActions' = tvActions \ {a}
    /\ ActionFinished(a)
    /\ UNCHANGED <<host, lost, disturbed, undefined, tvPairing, m_tvList, paired, tvReachable,
                   m_asyncSetup, infoRequests>>

Replies(d) == \E ok \in BOOLEAN : SetupReply(d, ok)

TvNext ==
    /\ ~undefined
    /\ \/ \E d \in Devices :
           \/ DisplayPin(d) \/ ConfirmPairing(d) \/ SetupStoredDevice(d) \/ TvDeviceRemoved(d)
           \/ ByeBye(d) \/ Replies(d)
           \/ \E ok \in BOOLEAN : PairingReply(d, ok) \/ InfoReply(d, ok)
           \/ \E a \in Actions : TvExecuteAction(a, d)
       \/ \E a \in Actions : TvActionReply(a)
       \/ TvGuhTimer

\* The network answers every request, with an error if need be (fair).
TvDeviceProgress(d) == ~undefined /\ Replies(d)
TvActionProgress(a) == ~undefined /\ TvActionReply(a)

-----------------------------------------------------------------------------
(***************************************************************************)
(* WeMo switches.  A switch is asked for its power whenever the timer runs *)
(* and after it was set.                                                   *)
(***************************************************************************)

CONSTANT MaxRefreshs    \* bound: refresh requests of a switch that wait

VARIABLES
    power, wemoReachable,  \* the switches that are on, and those that are reachable
    m_refreshReplies,  \* switch -> its refresh requests
    m_setPowerReplies  \* action -> the switch it sets, or None

wemoVars == <<power, wemoReachable, m_refreshReplies, m_setPowerReplies>>

WemoInit ==
    /\ power = {} /\ wemoReachable = {}
    /\ m_refreshReplies = [d \in Devices |-> 0]
    /\ m_setPowerReplies = [a \in Actions |-> None]

Set(states, d, on) == IF on THEN states \cup {d} ELSE states \ {d}

\* refresh()
Refresh(ds) ==
    /\ \A d \in ds : m_refreshReplies[d] < MaxRefreshs
    /\ m_refreshReplies' = [d \in Devices |-> m_refreshReplies[d] + IF d \in ds THEN 1 ELSE 0]

-----------------------------------------------------------------------------

\* setupDevice()
WemoSetupDevice(d) ==
    /\ NotSetUp(d)
    /\ SetupReturns(d, TRUE)
    /\ Refresh({d})
    /\ UNCHANGED <<acts, lost, disturbed, undefined, power, wemoReachable, m_setPowerReplies>>

\* guhTimer()
WemoGuhTimer ==
    /\ {d \in Devices : Configured(d)} # {}
    /\ Refresh({d \in Devices : Configured(d)})
    /\ UNCHANGED <<hostVars, power, wemoReachable, m_setPowerReplies>>

\* deviceRemoved(): the replies are forgotten, and so are the actions.
WemoDeviceRemoved(d) ==
    LET waiting == {a \in Actions : m_setPowerReplies[a] = d} IN
    /\ Configured(d)
    /\ Removed(d)
    /\ m_refreshReplies' = [m_refreshReplies EXCEPT ![d] = 0]
    /\ m_setPowerReplies' = [a \in Actions |-> IF a \in waiting THEN None
                                               ELSE m_setPowerReplies[a]]
    /\ lost' = lost \cup waiting
    /\ power' = power \ {d} /\ wemoReachable' = wemoReachable \ {d}
    /\ UNCHANGED <<acts, disturbed, undefined>>

\* executeAction() and setPower(): nothing is sent when the power would not change.
SetPower(a, d, on) ==
    /\ CanExecute(a, d)
    /\ IF d \in wemoReachable /\ on # (d \in power)
       THEN /\ ExecuteAsync(a)
            /\ m_setPowerReplies' = [m_setPowerReplies EXCEPT ![a] = d]
       ELSE ExecuteReturns(a) /\ UNCHANGED <<m_setPowerReplies>>
    /\ UNCHANGED <<host, lost, disturbed, undefined, power, wemoReachable, m_refreshReplies>>

\* networkManagerReplyReady() and processRefreshData(): an error or another answer
\* says nothing of the power.
RefreshReply(d, ok, on) ==
    /\ m_refreshReplies[d] > 0
    /\ m_refreshReplies' = [m_refreshReplies EXCEPT ![d] = @ - 1]
    /\ wemoReachable' = Set(wemoReachable, d, ok)
    /\ power' = IF ok THEN Set(power, d, on) ELSE power
    /\ UNCHANGED <<hostVars, m_setPowerReplies>>

\* networkManagerReplyReady() with an error: the action is forgotten.
SetPowerError(a) ==
    LET d == m_setPowerReplies[a] IN
    /\ d # None
    /\ m_setPowerReplies' = [m_setPowerReplies EXCEPT ![a] = None]
    /\ wemoReachable' = wemoReachable \ {d}
    /\ lost' = lost \cup {a}
    /\ UNCHANGED <<host, acts, disturbed, undefined, power, m_refreshReplies>>

\* processSetPowerData()
SetPowerReply(a, ok) ==
    LET d == m_setPowerReplies[a] IN
    /\ d # None
    /\ m_setPowerReplies' = [m_setPowerReplies EXCEPT ![a] = None]
    /\ ActionFinished(a)
    /\ wemoReachable' = Set(wemoReachable, d, ok)
    /\ IF ok THEN Refresh({d}) ELSE UNCHANGED m_refreshReplies
    /\ UNCHANGED <<host, lost, disturbed, undefined, power>>

WemoAnswered(a) == SetPowerError(a) \/ \E ok \in BOOLEAN : SetPowerReply(a, ok)

WemoNext ==
    \/ \E d \in Devices :
        \/ WemoSetupDevice(d) \/ WemoDeviceRemoved(d)
        \/ \E ok, on \in BOOLEAN : RefreshReply(d, ok, on)
        \/ \E a \in Actions, on \in BOOLEAN : SetPower(a, d, on)
    \/ WemoGuhTimer
    \/ \E a \in Actions : WemoAnswered(a)

\* The network answers every request, with an error if need be (fair).
WemoActionProgress(a) == WemoAnswered(a)
=============================================================================
