------------------------------ MODULE DateTime ------------------------------
(***************************************************************************)
(* The date and time plugin.  Each second it looks what has changed since  *)
(* the last one: alarms ring in a minute of the week or at an offset from  *)
(* the dusk, which a service computes for the place another one finds.     *)
(* The dusk stands for the dawn and the other times of the sun.            *)
(***************************************************************************)
EXTENDS PluginHost

CONSTANTS
    Minute, Hour, Day,    \* their seconds
    Week,                 \* its days
    MaxTime,              \* bound: the last second
    MaxReplies,           \* bound: requests for the place or for the dusk that wait
    AlarmAt, Weekdays,    \* time of day and days of each alarm
    Offset,               \* seconds an alarm is later
    DuskAt,               \* time of day
    Seconds, Repeating    \* of each countdown

VARIABLES
    kind,              \* device -> "today", "alarm", "dusk alarm" or "countdown"
    now,
    m_currentDateTime, \* the last second onSecondChanged() has looked at
    m_timer,           \* runs
    m_todayDevice,
    m_dusk,
    m_duskOffset,      \* alarm -> the dusk it was told, later by the offset
    m_locationReplies,
    m_timeReplies,
    m_currentTime,     \* countdown -> seconds left
    m_running,         \* the countdowns that run
    events             \* what the last step has emitted

timeVars == <<kind, now, m_currentDateTime, m_timer, m_todayDevice, m_dusk, m_duskOffset,
              m_locationReplies, m_timeReplies, m_currentTime, m_running, events>>
vars == <<hostVars, timeVars>>

\* The plugin is loaded at second 0.
DateTimeInit ==
    /\ kind \in [Devices -> {"today", "alarm", "dusk alarm", "countdown"}]
    /\ now = 0 /\ m_currentDateTime = 0
    /\ m_timer = FALSE
    /\ m_todayDevice = None
    /\ m_dusk = None
    /\ m_duskOffset = [d \in Devices |-> None]
    /\ m_locationReplies = 0 /\ m_timeReplies = 0
    /\ m_currentTime = [d \in Devices |-> Seconds]
    /\ m_running = {}
    /\ events = {}

Init == HostInit /\ DateTimeInit

\* The devices in m_alarms
m_alarms == {d \in Devices : Configured(d) /\ kind[d] \in {"alarm", "dusk alarm"}}

CalculateOffsetTime(dusk) == IF dusk = None THEN None ELSE dusk + Offset

\* validate(): the hour and the minute of today's alert time, the offset included, and
\* the day of the week of the moment
Rings(d, t) ==
    /\ kind[d] = "alarm"
    /\ (t \div Day) % Week \in Weekdays
    /\ (t % Day) \div Minute = ((AlarmAt + Offset) % Day) \div Minute

\* onMinuteChanged()
MinuteAlarms(t) == {d \in m_alarms : Rings(d, t)}

\* validateTimeTypes(): without a today device no alarm of the dusk rings.
DuskEvents(t) ==
    IF m_todayDevice = None THEN {}
    ELSE (IF t = m_dusk THEN {m_todayDevice} ELSE {})
         \cup {d \in m_alarms : kind[d] = "dusk alarm" /\ t = m_duskOffset[d]}

-----------------------------------------------------------------------------
(* Devices *)

\* setupDevice() and postSetupDevice(): a new today device looks at the alarms of the
\* minute again and asks for the place.
SetupDevice(d) ==
    LET ok == ~ (kind[d] = "today" /\ m_todayDevice # None) IN
    /\ NotSetUp(d)
    /\ SetupReturns(d, ok)
    /\ m_timer' = (m_timer \/ ok)
    /\ IF kind[d] = "today" /\ ok
       THEN /\ m_locationReplies < MaxReplies
            /\ m_todayDevice' = d
            /\ m_locationReplies' = m_locationReplies + 1
            /\ events' = MinuteAlarms(now)
       ELSE events' = {} /\ UNCHANGED <<m_todayDevice, m_locationReplies>>
    /\ m_duskOffset' = [m_duskOffset EXCEPT ![d] = CalculateOffsetTime(m_dusk)]
    /\ m_currentTime' = [m_currentTime EXCEPT ![d] = Seconds]
    /\ UNCHANGED <<acts, lost, disturbed, undefined, kind, now, m_currentDateTime, m_dusk,
                   m_timeReplies, m_running>>

\* deviceRemoved(): the timer stops with the last device.  A reply with the place
\* finds no today device.
DeviceRemoved(d) ==
    /\ Configured(d)
    /\ Removed(d)
    /\ m_timer' = (m_timer /\ \E e \in Devices \ {d} : Configured(e))
    /\ m_todayDevice' = IF kind[d] = "today" THEN None ELSE m_todayDevice
    /\ disturbed' = (disturbed \/ (kind[d] = "today" /\ m_locationReplies > 0))
    /\ m_running' = m_running \ {d}
    /\ events' = {}
    /\ UNCHANGED <<acts, lost, undefined, kind, now, m_currentDateTime, m_dusk, m_duskOffset,
                   m_locationReplies, m_timeReplies, m_currentTime>>

\* executeAction(): start, restart and stop of a countdown
ExecuteAction(a, d) ==
    /\ CanExecute(a, d)
    /\ ExecuteReturns(a)
    /\ \/ kind[d] # "countdown" /\ UNCHANGED <<m_running, m_currentTime>>
       \/ /\ kind[d] = "countdown"
          /\ m_running' = m_running \cup {d}
          /\ m_currentTime' = [m_currentTime EXCEPT ![d] = Seconds]
       \/ /\ kind[d] = "countdown"
          /\ m_running' = m_running \ {d}
          /\ UNCHANGED m_currentTime
    /\ events' = {}
    /\ UNCHANGED <<host, lost, disturbed, undefined, kind, now, m_currentDateTime, m_timer,
                   m_todayDevice, m_dusk, m_duskOffset, m_locationReplies, m_timeReplies>>

-----------------------------------------------------------------------------
(* Time *)

\* The machine sleeps, or no timer runs.
TimePasses ==
    /\ now < MaxTime
    /\ now' = now + 1
    /\ events' = {}
    /\ UNCHANGED <<hostVars, kind, m_currentDateTime, m_timer, m_todayDevice, m_dusk,
                   m_duskOffset, m_locationReplies, m_timeReplies, m_currentTime, m_running>>

\* onSecondChanged(): hours and minutes are compared without the day and the hour.
OnSecondChanged ==
    LET t == now + 1
        Changed(unit, whole) == (t % whole) \div unit # (m_currentDateTime % whole) \div unit
        asks == Changed(Hour, Day) /\ m_todayDevice # None
    IN
    /\ m_timer /\ now < MaxTime
    /\ now' = t /\ m_currentDateTime' = t
    /\ asks => m_locationReplies < MaxReplies
    /\ m_locationReplies' = m_locationReplies + IF asks THEN 1 ELSE 0
    /\ events' = DuskEvents(t) \cup (IF Changed(Minute, Hour) THEN MinuteAlarms(t) ELSE {})
    /\ UNCHANGED <<hostVars, kind, m_timer, m_todayDevice, m_dusk, m_duskOffset, m_timeReplies,
                   m_currentTime, m_running>>

\* onTimeout() of a countdown: a time of 0 lasts until midnight comes round again.
OnTimeout(d) ==
    LET left == (m_currentTime[d] - 1) % Day IN
    /\ d \in m_running
    /\ m_currentTime' = [m_currentTime EXCEPT ![d] = IF left = 0 /\ Repeating THEN Seconds
                                                     ELSE left]
    /\ m_running' = IF left = 0 /\ ~Repeating THEN m_running \ {d} ELSE m_running
    /\ events' = IF left = 0 THEN {d} ELSE {}
    /\ UNCHANGED <<hostVars, kind, now, m_currentDateTime, m_timer, m_todayDevice, m_dusk,
                   m_duskOffset, m_locationReplies, m_timeReplies>>

-----------------------------------------------------------------------------
(* Answers of the services *)

\* processGeoLocationData() and getTimes(), or an error
LocationReply(ok) ==
    /\ m_locationReplies > 0 /\ m_timeReplies < MaxReplies
    /\ m_locationReplies' = m_locationReplies - 1
    /\ undefined' = (ok /\ m_todayDevice = None)
    /\ m_timeReplies' = m_timeReplies + IF ok THEN 1 ELSE 0
    /\ events' = {}
    /\ UNCHANGED <<host, acts, lost, disturbed, kind, now, m_currentDateTime, m_timer,
                   m_todayDevice, m_dusk, m_duskOffset, m_currentTime, m_running>>

\* updateTimes(): the alarms are told, then the today device if there is one.
UpdateTimes(dusk) ==
    m_duskOffset' = [d \in Devices |-> IF d \in m_alarms THEN CalculateOffsetTime(dusk)
                                       ELSE m_duskOffset[d]]

\* Mutant of TimeReply.
TimeReply_TodayFirst(ok) ==
    /\ m_timeReplies > 0
    /\ m_timeReplies' = m_timeReplies - 1
    /\ IF ok THEN LET dusk == (now \div Day) * Day + DuskAt IN
                  /\ m_dusk' = dusk
                  /\ IF m_todayDevice = None THEN UNCHANGED m_duskOffset ELSE UpdateTimes(dusk)
       ELSE UNCHANGED <<m_dusk, m_duskOffset>>
    /\ events' = {}
    /\ UNCHANGED <<hostVars, kind, now, m_currentDateTime, m_timer, m_todayDevice,
                   m_locationReplies, m_currentTime, m_running>>

\* processTimesData(): the time of day of the answer, on the current date
TimeReply(ok) ==
    /\ m_timeReplies > 0
    /\ m_timeReplies' = m_timeReplies - 1
    /\ IF ok THEN LET dusk == (now \div Day) * Day + DuskAt IN
                  m_dusk' = dusk /\ UpdateTimes(dusk)
       ELSE UNCHANGED <<m_dusk, m_duskOffset>>
    /\ events' = {}
    /\ UNCHANGED <<hostVars, kind, now, m_currentDateTime, m_timer, m_todayDevice,
                   m_locationReplies, m_currentTime, m_running>>

Next ==
    /\ ~undefined
    /\ \/ \E d \in Devices :
           \/ SetupDevice(d) \/ DeviceRemoved(d) \/ OnTimeout(d)
           \/ \E a \in Actions : ExecuteAction(a, d)
       \/ TimePasses
       \/ OnSecondChanged
       \/ \E ok \in BOOLEAN : LocationReply(ok) \/ TimeReply(ok)

-----------------------------------------------------------------------------

\* Whatever the order in which alarms and today devices come and go and the services
\* answer, each alarm counts from the dusk the plugin knows.
AlarmsKnowTimes == \A d \in m_alarms : m_duskOffset[d] = CalculateOffsetTime(m_dusk)
=============================================================================
