---------------------------- MODULE JsonHandlers ----------------------------
(***************************************************************************)
(* The methods and notifications of the JSON-RPC handlers: what they say   *)
(* they take and return, and what they do return.  The core's answers are  *)
(* any status with any of the objects given.  AddRule, EditRule and        *)
(* GetRuleDetails are in JsonRules.                                        *)
(***************************************************************************)
EXTENDS JsonTypes

CONSTANTS
    \* objects of the core
    ParamTypes, StateTypes, Params, Vendors, DeviceClasses, Plugins, Devices,
    DeviceDescriptors, Events, LogEntries,
    Calls     \* pairs of a method and params that a client sends

VARIABLES
    method,   \* what was called or notified last
    data,     \* what the client was sent
    asked,    \* the params of a call
    accepted  \* whether they passed

handlerVars == <<method, data, asked, accepted>>

Bare(id) == MapWith(id, None)
Returning(must) == MapWith(must, None)

Error == [deviceError |-> Ref("DeviceError")]
RuleError == [ruleError |-> Ref("RuleError")]
DeviceParams == [deviceClassId |-> Basic("Uuid"), name |-> Basic("String")]
DescribedBy == [deviceDescriptorId |-> Basic("Uuid"), deviceParams |-> ListWith(Ref("Param"))]
Policy == MapWith([ruleId |-> Basic("Uuid"), policy |-> Ref("RemovePolicy")], None)

\* setParams() of the device handler: methods that only ask
DeviceQueryParams == [
    GetSupportedVendors |-> Bare(None),
    GetSupportedDevices |-> MapWith(None, [vendorId |-> Basic("Uuid")]),
    GetPlugins |-> Bare(None),
    GetPluginConfiguration |-> Bare([pluginId |-> Basic("Uuid")]),
    GetConfiguredDevices |-> Bare(None),
    GetEventTypes |-> Bare([deviceClassId |-> Basic("Uuid")]),
    GetActionTypes |-> Bare([deviceClassId |-> Basic("Uuid")]),
    GetStateTypes |-> Bare([deviceClassId |-> Basic("Uuid")]),
    GetStateValue |-> Bare([deviceId |-> Basic("Uuid"), stateTypeId |-> Basic("Uuid")]),
    GetStateValues |-> Bare([deviceId |-> Basic("Uuid")])]

\* and those that change something
DeviceChangeParams == [
    SetPluginConfiguration |->
        Bare([pluginId |-> Basic("Uuid"), configuration |-> ListWith(Ref("Param"))]),
    AddConfiguredDevice |-> MapWith(DeviceParams, DescribedBy),
    PairDevice |-> MapWith(DeviceParams, DescribedBy),
    ConfirmPairing |-> MapWith([pairingTransactionId |-> Basic("Uuid")],
                               [secret |-> Basic("String")]),
    GetDiscoveredDevices |-> MapWith([deviceClassId |-> Basic("Uuid")],
                                     [discoveryParams |-> ListWith(Ref("Param"))]),
    ReconfigureDevice |-> MapWith([deviceId |-> Basic("Uuid")], DescribedBy),
    EditDevice |-> Bare([deviceId |-> Basic("Uuid"), name |-> Basic("String")]),
    RemoveConfiguredDevice |-> MapWith([deviceId |-> Basic("Uuid")],
        [removePolicy |-> Ref("RemovePolicy"), removePolicyList |-> ListWith(Policy)])]

\* of the rules handler, without AddRule and EditRule
OfRule == Bare([ruleId |-> Basic("Uuid")])
RulesParams == [
    GetRules |-> Bare(None), FindRules |-> Bare([deviceId |-> Basic("Uuid")]),
    RemoveRule |-> OfRule, EnableRule |-> OfRule, DisableRule |-> OfRule,
    ExecuteActions |-> OfRule, ExecuteExitActions |-> OfRule]

\* of the handlers for logs, actions, events, states and the server itself
OtherParams == [
    GetLogEntries |-> MapWith(None,
        [timeFilters |-> ListWith(MapWith(None, [startDate |-> Basic("Int"),
                                                 endDate |-> Basic("Int")])),
         loggingSources |-> ListWith(Ref("LoggingSource")),
         loggingLevels |-> ListWith(Ref("LoggingLevel")),
         eventTypes |-> ListWith(Ref("LoggingEventType")),
         typeIds |-> ListWith(Basic("Uuid")), deviceIds |-> ListWith(Basic("Uuid")),
         values |-> ListWith(Basic("Variant"))]),
    ExecuteAction |-> RuleTypes.Action,
    GetActionType |-> Bare([actionTypeId |-> Basic("Uuid")]),
    GetEventType |-> Bare([eventTypeId |-> Basic("Uuid")]),
    GetStateType |-> Bare([stateTypeId |-> Basic("Uuid")]),
    Version |-> Bare(None),
    SetNotificationStatus |-> Bare([enabled |-> Basic("Bool")])]

\* setReturns() of the device handler
DeviceReturns == [
    GetSupportedVendors |-> Returning([vendors |-> ListWith(Ref("Vendor"))]),
    GetSupportedDevices |-> Returning([deviceClasses |-> ListWith(Ref("DeviceClass"))]),
    GetPlugins |-> Returning([plugins |-> ListWith(Ref("Plugin"))]),
    GetPluginConfiguration |-> MapWith(Error, [configuration |-> ListWith(Ref("Param"))]),
    SetPluginConfiguration |-> Returning(Error),
    AddConfiguredDevice |-> MapWith(Error, [deviceId |-> Basic("Uuid")]),
    PairDevice |-> MapWith(Error, [pairingTransactionId |-> Basic("Uuid"),
        displayMessage |-> Basic("String"), setupMethod |-> Ref("SetupMethod")]),
    ConfirmPairing |-> MapWith(Error, [deviceId |-> Basic("Uuid")]),
    GetConfiguredDevices |-> Returning([devices |-> ListWith(Ref("Device"))]),
    GetDiscoveredDevices |->
        MapWith(Error, [deviceDescriptors |-> ListWith(Ref("DeviceDescriptor"))]),
    ReconfigureDevice |-> Returning(Error),
    EditDevice |-> Returning(Error),
    RemoveConfiguredDevice |-> MapWith(Error, [ruleIds |-> ListWith(Basic("Uuid"))]),
    GetEventTypes |-> Returning([eventTypes |-> ListWith(Ref("EventType"))]),
    GetActionTypes |-> Returning([actionTypes |-> ListWith(Ref("ActionType"))]),
    GetStateTypes |-> Returning([stateTypes |-> ListWith(Ref("StateType"))]),
    GetStateValue |-> MapWith(Error, [value |-> Basic("Variant")]),
    GetStateValues |-> MapWith(Error, [values |-> ListWith(StateValue)])]

\* setReturns() of the other handlers
OtherReturns == [
    Version |-> MapWith([k \in {"version", "protocol version"} |-> Basic("String")], None),
    SetNotificationStatus |-> Returning([enabled |-> Basic("Bool")]),
    ExecuteAction |-> Returning(Error),
    GetActionType |-> MapWith(Error, [actionType |-> RuleTypes.ActionType]),
    GetEventType |-> MapWith(Error, [eventType |-> Ref("EventType")]),
    GetStateType |-> MapWith(Error, [stateType |-> Ref("StateType")]),
    GetRules |-> Returning([ruleDescriptions |-> ListWith(Ref("RuleDescription"))]),
    RemoveRule |-> Returning(RuleError), EnableRule |-> Returning(RuleError),
    DisableRule |-> Returning(RuleError), ExecuteActions |-> Returning(RuleError),
    ExecuteExitActions |-> Returning(RuleError),
    FindRules |-> Returning([ruleIds |-> ListWith(Basic("Uuid"))]),
    GetLogEntries |-> MapWith([loggingError |-> Ref("LoggingError")],
                              [logEntries |-> ListWith(Ref("LogEntry"))])]

\* setParams() of the notifications; those of rules are packed in JsonRules.
Notifications == [
    StateChanged |-> Bare([deviceId |-> Basic("Uuid"), stateTypeId |-> Basic("Uuid"),
                           value |-> Basic("Variant")]),
    DeviceRemoved |-> Bare([deviceId |-> Basic("Uuid")]),
    DeviceAdded |-> Bare([device |-> Ref("Device")]),
    DeviceChanged |-> Bare([device |-> Ref("Device")]),
    EventTriggered |-> Bare([event |-> Ref("Event")]),
    RuleRemoved |-> Bare([ruleId |-> Basic("Uuid")]),
    RuleActiveChanged |-> Bare([ruleId |-> Basic("Uuid"), active |-> Basic("Bool")]),
    LogEntryAdded |-> Bare([logEntry |-> Ref("LogEntry")]),
    LogDatabaseUpdated |-> Bare(None)]

\* m_params of a method
ParamsOf(m) ==
    CASE m \in DOMAIN DeviceQueryParams -> DeviceQueryParams[m]
      [] m \in DOMAIN DeviceChangeParams -> DeviceChangeParams[m]
      [] m \in DOMAIN RulesParams -> RulesParams[m]
      [] OTHER -> OtherParams[m]

\* m_params of a notification, m_returns of a method
TemplateOf(m) ==
    CASE m \in DOMAIN Notifications -> Notifications[m]
      [] m \in DOMAIN DeviceReturns -> DeviceReturns[m]
      [] OTHER -> OtherReturns[m]

-----------------------------------------------------------------------------
(* What is returned *)

\* statusToReply()
Status(key, error) == [k \in {key} |-> Text(error)]
Fails == {Status("deviceError", "DeviceErrorDeviceNotFound")}
Succeeds == Status("deviceError", "DeviceErrorNoError")
Succeeding(key, values) == {With(Succeeds, key, v) : v \in values}
Either(key, values) == Fails \cup Succeeding(key, values)

Only(key, values) == {[k \in {key} |-> v] : v \in values}
Lists(Pack(_), objects) == {ListOf(Pack, seq) : seq \in {<<>>} \cup {<<o>> : o \in objects}}

Types == {[id |-> "t", name |-> "n", paramTypes |-> seq] :
             seq \in {<<>>} \cup {<<p>> : p \in ParamTypes}}

SomeId == {Uuid("i")}
RuleDescriptions ==
    {Map([id |-> Uuid("r"), name |-> Text("n"), enabled |-> Flag(e), active |-> Flag(a),
          executable |-> Flag(TRUE)]) : e, a \in BOOLEAN}

\* The device handler: what plugins support
SupportReplies(m) ==
    CASE m = "GetSupportedVendors" -> Only("vendors", Lists(PackVendor, Vendors))
      [] m = "GetSupportedDevices" -> Only("deviceClasses", Lists(PackDeviceClass, DeviceClasses))
      [] m = "GetPlugins" -> Only("plugins", Lists(PackPlugin, Plugins))
      [] m = "GetPluginConfiguration" -> Either("configuration", Lists(PackParam, Params))

\* The device handler: devices are added, paired, changed and removed.
ChangeReplies(m) ==
    CASE m \in {"SetPluginConfiguration", "EditDevice"} -> Fails \cup {Succeeds}
      [] m = "PairDevice" ->
             Fails \cup {With(With(With(Succeeds, "displayMessage", Text("m")),
                                   "pairingTransactionId", Text("i")),
                              "setupMethod", Nth("SetupMethod", c.setupMethod)) :
                         c \in DeviceClasses}
      [] m = "GetConfiguredDevices" -> Only("devices", Lists(PackDevice, Devices))
      [] m = "RemoveConfiguredDevice" ->
             Fails \cup {Succeeds} \cup {With(f, "ruleIds", List(<<Text("i")>>)) : f \in Fails}

\* The device handler: types of a device class, values of a device
TypeReplies(m) ==
    CASE m = "GetEventTypes" -> Only("eventTypes", Lists(PackType, Types))
      [] m = "GetActionTypes" -> Only("actionTypes", Lists(PackType, Types))
      [] m = "GetStateTypes" -> Only("stateTypes", Lists(PackStateType, StateTypes))
      [] m = "GetStateValue" -> Either("value", {p.value : p \in Params})
      [] m = "GetStateValues" -> Either("values", {PackDeviceStates(d) : d \in Devices})

\* The device handler's slots: what the core tells later is also told at once.
LaterReplies(m) ==
    CASE m = "GetDiscoveredDevices" ->
             Either("deviceDescriptors", Lists(PackDeviceDescriptor, DeviceDescriptors))
      [] m = "AddConfiguredDevice" -> Either("deviceId", SomeId)
      [] m = "ConfirmPairing" -> Either("deviceId", SomeId) \cup {Succeeds}
      [] m = "ReconfigureDevice" -> Fails \cup {Succeeds}

DeviceReplies(m) ==
    CASE m \in {"GetSupportedVendors", "GetSupportedDevices", "GetPlugins",
                "GetPluginConfiguration"} -> SupportReplies(m)
      [] m \in {"GetEventTypes", "GetActionTypes", "GetStateTypes", "GetStateValue",
                "GetStateValues"} -> TypeReplies(m)
      [] m \in {"GetDiscoveredDevices", "AddConfiguredDevice", "ConfirmPairing",
                "ReconfigureDevice"} -> LaterReplies(m)
      [] OTHER -> ChangeReplies(m)

\* The methods of the other handlers
OtherReplies(m) ==
    CASE m = "Version" -> {[k \in {"version", "protocol version"} |-> Text("0")]}
      [] m = "SetNotificationStatus" -> Only("enabled", {Flag(b) : b \in BOOLEAN})
      [] m = "ExecuteAction" -> Fails \cup {Succeeds}
      [] m = "GetActionType" -> Either("actionType", {PackType(t) : t \in Types})
      [] m = "GetEventType" -> Either("eventType", {PackType(t) : t \in Types})
      [] m = "GetStateType" -> Either("stateType", {PackStateType(t) : t \in StateTypes})
      [] m = "GetRules" -> Only("ruleDescriptions", {List(<<d>>) : d \in RuleDescriptions})
      [] m \in {"RemoveRule", "EnableRule", "DisableRule", "ExecuteActions",
                "ExecuteExitActions"} -> {Status("ruleError", e) : e \in Names("RuleError")}
      [] m = "FindRules" -> Only("ruleIds", {List(<<>>), List(<<Uuid("i")>>)})
      [] m = "GetLogEntries" ->
             {With(Status("loggingError", "LoggingErrorNoError"), "logEntries", list) :
              list \in Lists(PackLogEntry, LogEntries)}

\* The slots that make the params of notifications
Notified(m) ==
    CASE m = "StateChanged" ->
             {[deviceId |-> Uuid("d"), stateTypeId |-> Uuid("s"), value |-> p.value] :
              p \in Params}
      [] m = "DeviceRemoved" -> Only("deviceId", SomeId)
      [] m \in {"DeviceAdded", "DeviceChanged"} -> Only("device", {PackDevice(d) : d \in Devices})
      [] m = "EventTriggered" -> Only("event", {PackEvent(e) : e \in Events})
      [] m = "RuleRemoved" -> Only("ruleId", SomeId)
      [] m = "RuleActiveChanged" ->
             {[ruleId |-> Uuid("r"), active |-> Flag(b)] : b \in BOOLEAN}
      [] m = "LogEntryAdded" -> Only("logEntry", {PackLogEntry(e) : e \in LogEntries})
      [] m = "LogDatabaseUpdated" -> {Empty}

-----------------------------------------------------------------------------

HandlersInit ==
    /\ method = "none"
    /\ data = Empty
    /\ asked = Empty
    /\ accepted = TRUE

\* processData() up to validateParams()
Call(m, params) ==
    /\ method = "none"
    /\ method' = m
    /\ asked' = params
    /\ accepted' = ValidateMap(ParamsOf(m), Map(params))
    /\ UNCHANGED data

\* The reply of a method whose params passed, at once or by asyncReplyFinished()
Reply(m) ==
    /\ method = "none"
    /\ data' \in IF m \in DOMAIN DeviceReturns THEN DeviceReplies(m) ELSE OtherReplies(m)
    /\ method' = m
    /\ UNCHANGED <<asked, accepted>>

\* sendNotification()
Notify(m) ==
    /\ method = "none"
    /\ data' \in Notified(m)
    /\ method' = m
    /\ UNCHANGED <<asked, accepted>>

HandlersNext ==
    \/ \E call \in Calls : Call(call[1], call[2])
    \/ \E m \in DOMAIN DeviceReturns \cup DOMAIN OtherReturns : Reply(m)
    \/ \E m \in DOMAIN Notifications : Notify(m)

-----------------------------------------------------------------------------
(* Properties *)

\* The descriptions as the handlers take them.  What they return is not what the
\* descriptions say in three places: the params of a plugin are their types
\* (packPlugin()), the name of an action type is no id, and a param whose value was
\* never set has none.
Returned ==
    [Described EXCEPT !.Plugin[2].params = ListWith(Ref("ParamType")),
                      !.ActionType[2].name = Basic("String"),
                      !.Param[2].value = Basic("Variant")]

\* GetActionType describes its action type in place.
ReturnedBy(m) ==
    IF m = "GetActionType" THEN MapWith(Error, [actionType |-> Ref("ActionType")])
    ELSE TemplateOf(m)

\* What a handler returns or notifies passes the checks ("validating return value",
\* Q_ASSERT_X in processData() and asyncReplyFinished()), and more: it is what a reader
\* of the descriptions expects, but for the three places of Returned.
ReturnsValid ==
    method # "none" /\ data # Empty =>
        /\ ValidateMap(TemplateOf(method), Map(data))
        /\ Fits(Returned, ReturnedBy(method), Map(data))

\* A call that is what the description says is accepted.
DescribedCallsAccepted ==
    asked # Empty /\ Fits(Described, ParamsOf(method), Map(asked)) => accepted

\* It is, unless it names a removal policy; and a call with a key too many or too
\* few is not.
CallsAccepted ==
    asked # Empty =>
        /\ Fits(Described, ParamsOf(method), Map(asked)) =>
               accepted \/ DOMAIN asked \cap {"removePolicy", "removePolicyList"} # {}
        /\ accepted => /\ DOMAIN ParamsOf(method)[2] \subseteq DOMAIN asked
                       /\ DOMAIN asked \subseteq
                              DOMAIN ParamsOf(method)[2] \cup DOMAIN ParamsOf(method)[3]
=============================================================================
