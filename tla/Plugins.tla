------------------------------- MODULE Plugins -------------------------------
(***************************************************************************)
(* The plugins: a behaviour is one of one plugin with the device manager.  *)
(* Plugins share nothing but the device manager, which answers each of     *)
(* them alone, so that the behaviours of several at a time show nothing    *)
(* more.                                                                   *)
(***************************************************************************)
EXTENDS PluginHost

\* The modules of the plugins say what these are.
CONSTANTS
    Colours,                        \* Avea
    MaxInfo, MaxRefreshs,           \* LG smart TVs, Wemo
    Tls, Unencrypted, Plain,        \* Mail
    Minute, Hour, Day, Week, MaxTime, MaxTimeReplies, AlarmAt, Weekdays, Offset, DuskAt,
    Seconds, Repeating,             \* DateTime
    TodayDevices,                   \* devices that are of the class today
    MaxRequests,                    \* Netatmo
    MaxReplies,                     \* OpenWeatherMap
    Pumps, Modes, MaxTariffRequests \* Awattar

VARIABLES
    which,    \* the plugin
    \* Avea
    aveaLink, m_isAvailable, m_commandQueue, m_currentRequest, m_actions, writes,
    \* Kodi
    kodiLink, kodiSetups, m_replys,
    \* LG smart TVs
    tvPairing, m_tvList, paired, tvReachable, m_asyncSetup, infoRequests, tvActions,
    \* Mail
    m_clients, m_state, m_testLogin, m_actionId, asked, accepted,
    \* DateTime
    kind, now, m_currentDateTime, m_timer, m_todayDevice, m_dusk, m_duskOffset,
    m_locationReplies, m_timeReplies, m_currentTime, m_running, events,
    \* CommandLauncher
    process, deviceOf, m_startingApplications, m_killingApplications,
    \* Wemo
    power, wemoReachable, m_refreshReplies, m_setPowerReplies,
    \* OpenWeatherMap
    searches, m_weatherReplies, deleted,
    \* Netatmo
    station, m_authentications, m_authenticated, m_asyncSetups, tokenTimer,
    m_tokenRequests, m_refreshTokenRequests, m_refreshRequest,
    \* Awattar
    m_device, prices, userData, pumpSearches, syncMode, sgMode, reachable,
    m_autoSgMode, m_manualSgMode, m_heatPumps, reachablePumps, pumpReplies

aveaVars == <<aveaLink, m_isAvailable, m_commandQueue, m_currentRequest, m_actions, writes>>
kodiVars == <<kodiLink, kodiSetups, m_replys>>
tvVars == <<tvPairing, m_tvList, paired, tvReachable, m_asyncSetup, infoRequests, tvActions>>
mailVars == <<m_clients, m_state, m_testLogin, m_actionId, asked, accepted>>
timeVars == <<kind, now, m_currentDateTime, m_timer, m_todayDevice, m_dusk, m_duskOffset,
              m_locationReplies, m_timeReplies, m_currentTime, m_running, events>>
launcherVars == <<process, deviceOf, m_startingApplications, m_killingApplications>>
wemoVars == <<power, wemoReachable, m_refreshReplies, m_setPowerReplies>>
weatherVars == <<searches, m_weatherReplies, deleted>>
netatmoVars == <<station, m_authentications, m_authenticated, m_asyncSetups, tokenTimer,
                 m_tokenRequests, m_refreshTokenRequests, m_refreshRequest>>
awattarVars == <<m_device, prices, userData, pumpSearches, syncMode, sgMode, reachable,
                 m_autoSgMode, m_manualSgMode, m_heatPumps, reachablePumps, pumpReplies>>

vars == <<which, hostVars, aveaVars, kodiVars, tvVars, mailVars, timeVars, launcherVars,
          wemoVars, weatherVars, netatmoVars, awattarVars>>

Avea == INSTANCE Avea WITH link <- aveaLink
Upnp == INSTANCE UpnpPlugins
Mail == INSTANCE Mail
Time == INSTANCE DateTime WITH MaxReplies <- MaxTimeReplies
Launcher == INSTANCE CommandLauncher
Online == INSTANCE OnlinePlugins

\* The client knows the answer to a mail by the id of its action.
ASSUME PluginsAssumption == Actions \cap Mail!Commands = {}

Init ==
    /\ which \in {"avea", "kodi", "tv", "mail", "time", "launcher", "wemo", "weather",
                  "netatmo", "awattar"}
    /\ HostInit
    /\ Avea!AveaInit /\ Upnp!KodiInit /\ Upnp!LgSmartTvInit /\ Mail!MailInit
    /\ Time!DateTimeInit /\ Launcher!CommandLauncherInit /\ Upnp!WemoInit
    /\ Online!OpenWeatherMapInit /\ Online!NetatmoInit /\ Online!AwattarInit
    /\ \A d \in TodayDevices : kind[d] = "today"
    \* what another plugin starts with does not matter
    /\ which # "time" => kind = [d \in Devices |-> "today"]
    /\ which # "netatmo" => station = {}

\* The plugins that are not chosen do nothing.
OthersUnchanged ==
    /\ UNCHANGED which
    /\ which # "avea" => UNCHANGED aveaVars
    /\ which # "kodi" => UNCHANGED kodiVars
    /\ which # "tv" => UNCHANGED tvVars
    /\ which # "mail" => UNCHANGED mailVars
    /\ which # "time" => UNCHANGED timeVars
    /\ which # "launcher" => UNCHANGED launcherVars
    /\ which # "wemo" => UNCHANGED wemoVars
    /\ which # "weather" => UNCHANGED weatherVars
    /\ which # "netatmo" => UNCHANGED netatmoVars
    /\ which # "awattar" => UNCHANGED awattarVars

Next ==
    \/ which = "avea" /\ Avea!Next /\ OthersUnchanged
    \/ which = "kodi" /\ Upnp!KodiNext /\ OthersUnchanged
    \/ which = "tv" /\ Upnp!TvNext /\ OthersUnchanged
    \/ which = "mail" /\ Mail!Next /\ OthersUnchanged
    \/ which = "time" /\ Time!Next /\ OthersUnchanged
    \/ which = "launcher" /\ Launcher!Next /\ OthersUnchanged
    \/ which = "wemo" /\ Upnp!WemoNext /\ OthersUnchanged
    \/ which = "weather" /\ Online!WeatherNext /\ OthersUnchanged
    \/ which = "netatmo" /\ Online!NetatmoNext /\ OthersUnchanged
    \/ which = "awattar" /\ Online!AwattarNext /\ OthersUnchanged

\* What the devices, networks and services a plugin waits for do in the end: the
\* modules of the plugins say what and why.
Fairness ==
    /\ \A d \in Devices :
        /\ WF_<<hostVars, aveaVars>>(which = "avea" /\ Avea!DeviceProgress(d))
        /\ WF_<<hostVars, kodiVars>>(which = "kodi" /\ Upnp!KodiDeviceProgress(d))
        /\ WF_<<hostVars, tvVars>>(which = "tv" /\ Upnp!TvDeviceProgress(d))
        /\ WF_<<hostVars, mailVars>>(which = "mail" /\ Mail!DeviceProgress(d))
        /\ WF_<<hostVars, netatmoVars>>(which = "netatmo" /\ Online!NetatmoDeviceProgress(d))
        /\ WF_<<hostVars, kodiVars>>(which = "kodi" /\ Upnp!KodiLinkProgress(d))
    /\ \A a \in Actions :
        /\ WF_<<hostVars, tvVars>>(which = "tv" /\ Upnp!TvActionProgress(a))
        /\ WF_<<hostVars, launcherVars>>(which = "launcher" /\ Launcher!ActionProgress(a))
        /\ WF_<<hostVars, wemoVars>>(which = "wemo" /\ Upnp!WemoActionProgress(a))
        /\ WF_<<hostVars, weatherVars>>(which = "weather" /\ Online!WeatherActionProgress(a))
        /\ WF_<<hostVars, launcherVars>>(which = "launcher" /\ Launcher!KillProgress(a))

Spec == Init /\ [][Next]_vars /\ Fairness

-----------------------------------------------------------------------------
(* Properties *)

\* Every action and every discovery a plugin works on is answered, unless the plugin
\* has lost track of it, which its module says when it happens, or has used an object
\* that is gone.
ActionsAnswered ==
    \A a \in Actions :
        acts[a] = "running" ~> (acts[a] # "running" \/ a \in lost \/ undefined)

\* Every asynchronous set up is answered, with the same exceptions.
SetupsAnswered ==
    \A d \in Devices :
        host[d] = "waiting" ~> (host[d] # "waiting" \/ d \in lost \/ undefined)

\* Whatever a plugin leaves to a request, a program or a connection ends.
PluginsAnswer == ActionsAnswered /\ SetupsAnswered

\* See Mail.
MailDelivered == which = "mail" => Mail!MailDelivered

\* See DateTime.
AlarmsKnowTimes == which = "time" => Time!AlarmsKnowTimes
=============================================================================
