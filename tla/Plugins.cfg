\* Two devices of the plugin, and two actions.  Mail: one account with SSL and AUTH LOGIN,
\* one with STARTTLS and AUTH PLAIN.  DateTime: minutes of two seconds, hours of two
\* minutes, days of two hours; an alarm in the middle of the day with an offset of a
\* minute, dusk after it.
SPECIFICATION Spec
CONSTANTS
    Devices = {d1, d2}
    Actions = {a1, a2}
    None = None
    Colours = {"red", "off"}
    MaxInfo = 2
    MaxRefreshs = 2
    Tls = {d2}
    Unencrypted = {}
    Plain = {d2}
    Minute = 2
    Hour = 4
    Day = 8
    Week = 2
    MaxTime = 7
    MaxTimeReplies = 1
    AlarmAt = 4
    Weekdays = {0}
    Offset = 2
    DuskAt = 5
    Seconds = 2
    Repeating = TRUE
    TodayDevices = {d1}
    MaxRequests = 1
    MaxReplies = 2
    Pumps = {pump}
    Modes = {1}
    MaxTariffRequests = 1
INVARIANTS
    UndefinedOnlyIfDisturbed
    MailDelivered
    AlarmsKnowTimes
PROPERTIES
    PluginsAnswer
CHECK_DEADLOCK FALSE
