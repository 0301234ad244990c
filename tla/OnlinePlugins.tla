--------------------------- MODULE OnlinePlugins ----------------------------
(***************************************************************************)
(* The plugins of services on the internet: Netatmo weather stations,      *)
(* OpenWeatherMap and the aWATTar electricity tariff.                      *)
(***************************************************************************)
EXTENDS PluginHost

-----------------------------------------------------------------------------
(***************************************************************************)
(* Netatmo and the OAuth2 client of its connections.  The set up of a      *)
(* connection ends with its first authentication; then it is asked for its *)
(* stations, which appear by themselves.  The token is refreshed by a      *)
(* timer that goes on until an authentication fails.                       *)
(***************************************************************************)

CONSTANT MaxRequests    \* bound: requests of one kind of a connection that wait

VARIABLES
    station,               \* the devices that are stations, the others are connections
    m_authentications,     \* the connections that have an OAuth2 client
    m_authenticated,
    m_asyncSetups,
    tokenTimer,            \* the connections whose token is refreshed
    m_tokenRequests,       \* connection -> requests that wait
    m_refreshTokenRequests,
    m_refreshRequest       \* ... for its stations

netatmoVars == <<station, m_authentications, m_authenticated, m_asyncSetups, tokenTimer,
                 m_tokenRequests, m_refreshTokenRequests, m_refreshRequest>>

NetatmoInit ==
    /\ station \in SUBSET Devices
    /\ m_authentications = {} /\ m_authenticated = {}
    /\ m_asyncSetups = {} /\ tokenTimer = {}
    /\ m_tokenRequests = [d \in Devices |-> 0]
    /\ m_refreshTokenRequests = [d \in Devices |-> 0]
    /\ m_refreshRequest = [d \in Devices |-> 0]

More(requests, ds) == [d \in Devices |-> requests[d] + IF d \in ds THEN 1 ELSE 0]
Less(requests, d) == [requests EXCEPT ![d] = @ - 1]

-----------------------------------------------------------------------------
(* Devices *)

\* setupDevice() of a connection, and startAuthentication()
SetupConnection(d) ==
    /\ NotSetUp(d) /\ d \notin station
    /\ SetupAsync(d)
    /\ m_authentications' = m_authentications \cup {d}
    /\ m_asyncSetups' = m_asyncSetups \cup {d}
    /\ m_tokenRequests' = More(m_tokenRequests, {d})
    /\ UNCHANGED <<acts, lost, disturbed, undefined, station, m_authenticated, tokenTimer,
                   m_refreshTokenRequests, m_refreshRequest>>

\* setupDevice() of a station of the settings
SetupStation(d) ==
    /\ host[d] = "stored" /\ d \in station
    /\ SetupReturns(d, TRUE)
    /\ UNCHANGED <<acts, lost, disturbed, undefined, netatmoVars>>

\* deviceRemoved(): the requests for the stations keep the device.
NetatmoDeviceRemoved(d) ==
    /\ Configured(d)
    /\ Removed(d)
    /\ m_authentications' = m_authentications \ {d}
    /\ m_authenticated' = m_authenticated \ {d}
    /\ tokenTimer' = tokenTimer \ {d}
    /\ m_tokenRequests' = [m_tokenRequests EXCEPT ![d] = 0]
    /\ m_refreshTokenRequests' = [m_refreshTokenRequests EXCEPT ![d] = 0]
    /\ disturbed' = (disturbed \/ m_refreshRequest[d] > 0)
    /\ UNCHANGED <<acts, lost, undefined, station, m_asyncSetups, m_refreshRequest>>

\* executeAction() does nothing.
NetatmoExecuteAction(a, d) ==
    /\ CanExecute(a, d)
    /\ ExecuteReturns(a)
    /\ UNCHANGED <<host, lost, disturbed, undefined, netatmoVars>>

\* guhTimer(): the stations are asked for, or a new authentication is started.
NetatmoGuhTimer ==
    LET asked == m_authentications \cap m_authenticated
        started == m_authentications \ m_authenticated
    IN
    /\ \E d \in Devices : Configured(d)
    /\ \A d \in asked : m_refreshRequest[d] < MaxRequests
    /\ \A d \in started : m_tokenRequests[d] < MaxRequests
    /\ m_refreshRequest' = More(m_refreshRequest, asked)
    /\ m_tokenRequests' = More(m_tokenRequests, started)
    /\ UNCHANGED <<hostVars, station, m_authentications, m_authenticated, m_asyncSetups,
                   tokenTimer, m_refreshTokenRequests>>

-----------------------------------------------------------------------------
(* Authentication *)

\* setAuthenticated() and onAuthenticationChanged(): a set up that failed is still
\* waited for, and the stations are asked for when one succeeds.
AuthenticationChanged(d, ok) ==
    /\ m_authenticated' = IF ok THEN m_authenticated \cup {d} ELSE m_authenticated \ {d}
    /\ IF d \in m_asyncSetups
       THEN /\ SetupFinished(d, ok)
            /\ m_asyncSetups' = IF ok THEN m_asyncSetups \ {d} ELSE m_asyncSetups
            /\ m_refreshRequest' = IF ok THEN More(m_refreshRequest, {d}) ELSE m_refreshRequest
       ELSE UNCHANGED <<host, m_asyncSetups, m_refreshRequest>>

\* The timer starts when the token expires and can be refreshed, and stops with an
\* authentication that fails.
Timer(d, ok, expires) ==
    tokenTimer' = IF ~ok THEN tokenTimer \ {d} ELSE IF expires THEN tokenTimer \cup {d} ELSE tokenTimer

\* replyFinished() of a token request
TokenReply(d, ok, expires) ==
    /\ m_tokenRequests[d] > 0
    /\ m_tokenRequests' = Less(m_tokenRequests, d)
    /\ AuthenticationChanged(d, ok)
    /\ Timer(d, ok, expires)
    /\ UNCHANGED <<acts, lost, disturbed, undefined, station, m_authentications,
                   m_refreshTokenRequests>>

\* refreshTimeout(): the timer is no single shot.
RefreshTimeout(d) ==
    /\ d \in tokenTimer /\ m_refreshTokenRequests[d] < MaxRequests
    /\ m_refreshTokenRequests' = More(m_refreshTokenRequests, {d})
    /\ UNCHANGED <<hostVars, station, m_authentications, m_authenticated, m_asyncSetups,
                   tokenTimer, m_tokenRequests, m_refreshRequest>>

\* replyFinished() of a refresh: nothing is told when nothing changes.
RefreshTokenReply(d, ok, expires) ==
    /\ m_refreshTokenRequests[d] > 0
    /\ m_refreshTokenRequests' = Less(m_refreshTokenRequests, d)
    /\ IF ok /\ d \in m_authenticated
       THEN UNCHANGED <<host, m_authenticated, m_asyncSetups, m_refreshRequest>>
       ELSE AuthenticationChanged(d, ok)
    /\ Timer(d, ok, expires)
    /\ UNCHANGED <<acts, lost, disturbed, undefined, station, m_authentications,
                   m_tokenRequests>>

-----------------------------------------------------------------------------
(* Stations *)

\* networkManagerReplyReady(): only an answer that is no JSON leaves the device alone.
\* processRefreshData(): stations that are not there appear and are set up.
NetatmoRefreshReply(d, answer, stations) ==
    /\ m_refreshRequest[d] > 0
    /\ m_refreshRequest' = Less(m_refreshRequest, d)
    /\ undefined' = (host[d] = "gone" /\ answer # "no JSON")
    /\ host' = [e \in Devices |->
                  IF answer = "data" /\ host[d] # "gone" /\ e \in stations \cap station
                     /\ host[e] = "none"
                  THEN "configured" ELSE host[e]]
    /\ UNCHANGED <<acts, lost, disturbed, station, m_authentications, m_authenticated,
                   m_asyncSetups, tokenTimer, m_tokenRequests, m_refreshTokenRequests>>

Authenticates(d) ==
    \E ok, expires \in BOOLEAN : TokenReply(d, ok, expires) \/ RefreshTokenReply(d, ok, expires)

NetatmoNext ==
    /\ ~undefined
    /\ \/ \E d \in Devices :
           \/ SetupConnection(d) \/ SetupStation(d) \/ NetatmoDeviceRemoved(d)
           \/ \E a \in Actions : NetatmoExecuteAction(a, d)
           \/ Authenticates(d) \/ RefreshTimeout(d)
           \/ \E answer \in {"error", "no JSON", "data"}, stations \in SUBSET Devices :
                NetatmoRefreshReply(d, answer, stations)
       \/ NetatmoGuhTimer

\* The service answers every request, with an error if need be (fair).
NetatmoDeviceProgress(d) == ~undefined /\ Authenticates(d)

-----------------------------------------------------------------------------
(***************************************************************************)
(* OpenWeatherMap: a device is the weather of a place, which a discovery   *)
(* finds by its name or by where the host seems to be.                     *)
(***************************************************************************)

CONSTANT MaxReplies    \* bound: weather requests of a device that wait

VARIABLES
    searches,         \* discovery -> the request it waits for, or "none"
    m_weatherReplies, \* device -> its requests that wait
    deleted           \* the devices that have an entry of a deleted reply, too

weatherVars == <<searches, m_weatherReplies, deleted>>

OpenWeatherMapInit ==
    /\ searches = [s \in Actions |-> "none"]
    /\ m_weatherReplies = [d \in Devices |-> 0]
    /\ deleted = {}

\* update()
Update(ds) ==
    /\ \A d \in ds : m_weatherReplies[d] < MaxReplies
    /\ m_weatherReplies' = [d \in Devices |-> m_weatherReplies[d] + IF d \in ds THEN 1 ELSE 0]

-----------------------------------------------------------------------------
(* Devices *)

\* setupDevice()
WeatherSetupDevice(d) ==
    /\ NotSetUp(d)
    /\ SetupReturns(d, TRUE)
    /\ Update({d})
    /\ UNCHANGED <<acts, lost, disturbed, undefined, searches, deleted>>

\* executeAction()
RefreshWeather(a, d) ==
    /\ CanExecute(a, d)
    /\ ExecuteReturns(a)
    /\ Update({d})
    /\ UNCHANGED <<host, lost, disturbed, undefined, searches, deleted>>

\* onTimeout()
OnTimeout ==
    /\ {d \in Devices : Configured(d)} # {}
    /\ Update({d \in Devices : Configured(d)})
    /\ UNCHANGED <<hostVars, searches, deleted>>

\* Mutant of WeatherReply.
WeatherReply_KeepsEntry(d, ok) ==
    /\ m_weatherReplies[d] > 0
    /\ m_weatherReplies' = [m_weatherReplies EXCEPT ![d] = @ - 1]
    /\ deleted' = deleted \cup {d}
    /\ disturbed' = (disturbed \/ ~ok)
    /\ UNCHANGED <<host, acts, lost, undefined, searches>>

\* networkManagerReplyReady() and processWeatherData().  The entry of a reply that is
\* an error is not removed, while the reply is deleted.
WeatherReply(d, ok) ==
    /\ m_weatherReplies[d] > 0
    /\ m_weatherReplies' = [m_weatherReplies EXCEPT ![d] = @ - 1]
    /\ deleted' = IF ok THEN deleted ELSE deleted \cup {d}
    /\ disturbed' = (disturbed \/ ~ok)
    /\ UNCHANGED <<host, acts, lost, undefined, searches>>

\* deviceRemoved(): the replies of the device are deleted.
WeatherDeviceRemoved(d) ==
    /\ Configured(d)
    /\ Removed(d)
    /\ m_weatherReplies' = [m_weatherReplies EXCEPT ![d] = 0]
    /\ undefined' = (d \in deleted)
    /\ deleted' = deleted \ {d}
    /\ UNCHANGED <<acts, lost, disturbed, searches>>

-----------------------------------------------------------------------------
(* Discovery *)

\* discoverDevices(), with a name to search for or not
DiscoverDevices(s, request) ==
    /\ CanDiscover(s)
    /\ ExecuteAsync(s)
    /\ searches' = [searches EXCEPT ![s] = request]
    /\ UNCHANGED <<host, lost, disturbed, undefined, m_weatherReplies, deleted>>

\* networkManagerReplyReady() with an error: nobody is told.
SearchError(s) ==
    /\ searches[s] # "none"
    /\ searches' = [searches EXCEPT ![s] = "none"]
    /\ lost' = lost \cup {s}
    /\ UNCHANGED <<host, acts, disturbed, undefined, m_weatherReplies, deleted>>

\* processAutodetectResponse() with a place, which is searched next, with an answer
\* that says nothing of the place, or with one that is no JSON
AutodetectResponse(s, place) ==
    /\ searches[s] = "autodetect"
    /\ searches' = [searches EXCEPT ![s] = IF place = "known" THEN "geo" ELSE "none"]
    /\ lost' = IF place = "unknown" THEN lost \cup {s} ELSE lost
    /\ ActionsFinished(IF place = "no JSON" THEN {s} ELSE {})
    /\ UNCHANGED <<host, disturbed, undefined, m_weatherReplies, deleted>>

\* processSearchResponse() and processGeoSearchResponse()
SearchResponse(s) ==
    /\ searches[s] \in {"search", "geo"}
    /\ searches' = [searches EXCEPT ![s] = "none"]
    /\ ActionFinished(s)
    /\ UNCHANGED <<host, lost, disturbed, undefined, m_weatherReplies, deleted>>

SearchAnswered(s) ==
    \/ SearchError(s)
    \/ \E place \in {"known", "unknown", "no JSON"} : AutodetectResponse(s, place)
    \/ SearchResponse(s)

WeatherNext ==
    /\ ~undefined
    /\ \/ \E d \in Devices :
           \/ WeatherSetupDevice(d) \/ WeatherDeviceRemoved(d)
           \/ \E ok \in BOOLEAN : WeatherReply(d, ok)
           \/ \E a \in Actions : RefreshWeather(a, d)
       \/ OnTimeout
       \/ \E s \in Actions :
           \/ \E request \in {"autodetect", "search"} : DiscoverDevices(s, request)
           \/ SearchAnswered(s)

\* The network answers every request, with an error if need be (fair).
WeatherActionProgress(s) == ~undefined /\ SearchAnswered(s)

-----------------------------------------------------------------------------
(***************************************************************************)
(* aWATTar.  Its one device shows the price of electricity and a smart     *)
(* grid mode, which it sets on the heat pumps found in a 6LoWPAN network;  *)
(* prices, user data and pumps are asked for one after another and         *)
(* whenever the timer runs.                                                *)
(***************************************************************************)

CONSTANTS
    Pumps,
    Modes,        \* the valid smart grid modes; 0 is not
    MaxTariffRequests   \* bound: requests of one kind that wait

VARIABLES
    m_device,
    prices, userData, pumpSearches,  \* requests that wait
    syncMode, sgMode, reachable,     \* states of the device
    m_autoSgMode, m_manualSgMode,    \* None: not initialised
    m_heatPumps,
    reachablePumps,
    pumpReplies                      \* pump -> its CoAP replies

awattarVars == <<m_device, prices, userData, pumpSearches, syncMode, sgMode, reachable,
                 m_autoSgMode, m_manualSgMode, m_heatPumps, reachablePumps, pumpReplies>>

AwattarInit ==
    /\ m_device = None
    /\ prices = 0 /\ userData = 0 /\ pumpSearches = 0
    /\ syncMode = "auto" /\ sgMode = 0 /\ reachable = FALSE
    /\ m_autoSgMode = None /\ m_manualSgMode = None
    /\ m_heatPumps = {} /\ reachablePumps = {}
    /\ pumpReplies = [p \in Pumps |-> 0]

tariffRequests == <<prices, userData, pumpSearches>>
pumpVars == <<m_heatPumps, reachablePumps>>
stateVars == <<syncMode, sgMode, reachable>>
modeVars == <<m_autoSgMode, m_manualSgMode>>

\* updateData() and searchHeatPumps()
Ask ==
    /\ prices < MaxTariffRequests /\ pumpSearches < MaxTariffRequests
    /\ prices' = prices + 1 /\ pumpSearches' = pumpSearches + 1
    /\ UNCHANGED userData

\* setSgMode(): a mode that is not valid is shown and not sent.
SetSgMode(mode) ==
    /\ sgMode' = IF mode \in Modes THEN mode ELSE 0
    /\ \A p \in Pumps : pumpReplies[p] < MaxTariffRequests
    /\ pumpReplies' = [p \in Pumps |-> pumpReplies[p] +
                         IF mode \in Modes /\ p \in m_heatPumps THEN 1 ELSE 0]

\* A mode that was never set is read.
ReadUnset == /\ undefined' = TRUE /\ disturbed' = TRUE
             /\ UNCHANGED <<sgMode, pumpReplies>>

-----------------------------------------------------------------------------
(* The device *)

\* setupDevice() and postSetupDevice(): there is one device, and it has a token.  A
\* stored one without a token is used all the same.
AwattarSetupDevice(d, token) ==
    LET only == ~ \E e \in Devices : Configured(e)
        ok == token /\ only
    IN
    /\ NotSetUp(d)
    /\ SetupReturns(d, ok)
    /\ m_device' = IF only /\ (ok \/ host[d] = "stored") THEN d ELSE m_device
    /\ IF ok
       THEN /\ Ask
            /\ syncMode' = "auto" /\ sgMode' = 0 /\ reachable' = FALSE
       ELSE UNCHANGED <<tariffRequests, stateVars>>
    /\ UNCHANGED <<acts, lost, disturbed, undefined, modeVars, pumpVars, pumpReplies>>

\* deviceRemoved(): whatever the device
AwattarDeviceRemoved(d) ==
    /\ Configured(d)
    /\ Removed(d)
    /\ m_device' = None
    /\ m_heatPumps' = {} /\ reachablePumps' = {}
    /\ pumpReplies' = [p \in Pumps |-> 0]
    /\ UNCHANGED <<acts, lost, disturbed, undefined, tariffRequests, stateVars, modeVars>>

\* guhTimer()
AwattarGuhTimer ==
    /\ m_device # None
    /\ Ask
    /\ UNCHANGED <<hostVars, m_device, stateVars, modeVars, pumpVars, pumpReplies>>

\* executeAction() that sets the sync mode
SetSyncMode(a, d, mode) ==
    /\ CanExecute(a, d)
    /\ ExecuteReturns(a)
    /\ IF m_device # d THEN UNCHANGED <<disturbed, undefined, syncMode, sgMode, pumpReplies>>
       ELSE /\ syncMode' = mode
            /\ IF mode = "manual" THEN UNCHANGED <<disturbed, undefined, sgMode, pumpReplies>>
               ELSE IF m_autoSgMode = None THEN ReadUnset
               ELSE SetSgMode(m_autoSgMode) /\ UNCHANGED <<disturbed, undefined>>
    /\ UNCHANGED <<host, lost, m_device, tariffRequests, reachable, modeVars, pumpVars>>

\* executeAction() that sets the mode
SetManualSgMode(a, d, mode) ==
    /\ CanExecute(a, d)
    /\ ExecuteReturns(a)
    /\ IF m_device # d \/ ~reachable
       THEN UNCHANGED <<syncMode, sgMode, m_manualSgMode, pumpReplies>>
       ELSE /\ syncMode' = "manual"
            /\ m_manualSgMode' = mode
            /\ SetSgMode(mode)
    /\ UNCHANGED <<host, lost, disturbed, undefined, m_device, tariffRequests, reachable,
                   m_autoSgMode, pumpVars>>

-----------------------------------------------------------------------------
(* Answers of the service *)

\* networkManagerReplyReady() of the prices: the user data is asked for next.
\* processPriceData() divides by the number of the prices, and by the distance of the
\* current or the highest price from their average: without prices and with equal ones
\* it rounds no number.
PriceReply(ok, differ) ==
    /\ prices > 0 /\ userData < MaxTariffRequests
    /\ prices' = prices - 1
    /\ userData' = userData + IF ok THEN 1 ELSE 0
    /\ undefined' = (ok /\ ~differ /\ m_device # None)
    /\ disturbed' = (disturbed \/ undefined')
    /\ UNCHANGED <<host, acts, lost, m_device, pumpSearches, stateVars, modeVars, pumpVars,
                   pumpReplies>>

\* processUserData(): the mode of the current interval, which may have none
UserDataReply(mode) ==
    /\ m_device # None
    /\ m_autoSgMode' = mode
    /\ IF syncMode = "auto" THEN SetSgMode(mode) /\ UNCHANGED <<disturbed, undefined>>
       ELSE IF m_manualSgMode = None THEN ReadUnset
       ELSE SetSgMode(m_manualSgMode) /\ UNCHANGED <<disturbed, undefined>>

\* ... or an error, or no interval is the current one
UserDataUseless ==
    UNCHANGED <<disturbed, undefined, sgMode, m_autoSgMode, pumpReplies>>

ReadUserData ==
    /\ userData > 0
    /\ userData' = userData - 1
    /\ UserDataUseless \/ \E mode \in Modes \cup {0} : UserDataReply(mode)
    /\ UNCHANGED <<host, acts, lost, m_device, prices, pumpSearches, syncMode, reachable,
                   m_manualSgMode, pumpVars>>

-----------------------------------------------------------------------------
(* Heat pumps *)

\* processPumpSearchData() and the constructor of a HeatPump, which asks for its
\* resources, with a device or without
PumpsFound(found) ==
    LET new == found \ m_heatPumps IN
    /\ pumpSearches > 0
    /\ pumpSearches' = pumpSearches - 1
    /\ m_heatPumps' = m_heatPumps \cup found
    /\ pumpReplies' = [p \in Pumps |-> pumpReplies[p] + IF p \in new THEN 1 ELSE 0]
    /\ UNCHANGED <<hostVars, m_device, prices, userData, stateVars, modeVars, reachablePumps>>

\* onHeatPumpReachableChanged()
ReachableChanged(now) ==
    reachable' = IF now # reachablePumps /\ m_device # None THEN now # {} ELSE reachable

\* onReplyFinished() of a pump
PumpReply(p, ok) ==
    LET now == IF ok THEN reachablePumps \cup {p} ELSE reachablePumps \ {p} IN
    /\ pumpReplies[p] > 0
    /\ pumpReplies' = [pumpReplies EXCEPT ![p] = @ - 1]
    /\ reachablePumps' = now
    /\ ReachableChanged(now)
    /\ UNCHANGED <<hostVars, m_device, tariffRequests, syncMode, sgMode, modeVars, m_heatPumps>>

AwattarNext ==
    /\ ~undefined
    /\ \/ \E d \in Devices :
           \/ AwattarDeviceRemoved(d)
           \/ \E token \in BOOLEAN : AwattarSetupDevice(d, token)
           \/ \E a \in Actions :
               \/ \E mode \in {"auto", "manual"} : SetSyncMode(a, d, mode)
               \/ \E mode \in Modes : SetManualSgMode(a, d, mode)
       \/ AwattarGuhTimer
       \/ \E ok, differ \in BOOLEAN : PriceReply(ok, differ)
       \/ ReadUserData
       \/ \E found \in SUBSET Pumps : PumpsFound(found)
       \/ \E p \in Pumps, ok \in BOOLEAN : PumpReply(p, ok)
=============================================================================
