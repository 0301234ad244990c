--------------------------- MODULE RestResources ---------------------------
(***************************************************************************)
(* What the REST resources make of a request: the tokens of its path       *)
(* choose a resource, an entity and an operation.  A resource looks the    *)
(* entity up, keeps it in a member, and answers with a status.             *)
(***************************************************************************)
EXTENDS Integers, Sequences

CONSTANTS
    NoId,
    ClassOf,       \* device -> its device class: the devices there may be
    AllRules,      \* the rules there may be
    KnownVendors,  \* the vendors the server knows
    KnownPlugins,  \* the plugins the server has
    Members,       \* device class -> "actiontypes", "statetypes", "eventtypes" -> its ids
    UnknownIds,    \* ids of nothing; other tokens are no ids
    RestRequests   \* what clients send: [method, tokens, query, payload]; the query and
                   \* the payload are known by what the resource finds in them

Devices == DOMAIN ClassOf
DeviceClasses == DOMAIN Members
Sections == {"actiontypes", "statetypes", "eventtypes"}
TypeIds == UNION {Members[c][s] : c \in DeviceClasses, s \in Sections}
Ids ==
    Devices \cup AllRules \cup KnownVendors \cup KnownPlugins \cup DeviceClasses \cup TypeIds
    \cup UnknownIds

PairingWords == {"pair", "confirmpairing"}

\* Ids are UUIDs: no word of a path is one, and NoId is the null id.
ASSUME IdsAssumption == NoId \notin Ids /\ PairingWords \cap Ids = {}

ASSUME ClassesAssumption == ClassOf \in [Devices -> DeviceClasses]

ASSUME PathsAssumption ==
    \A r \in RestRequests : r.tokens \in Seq({r.tokens[i] : i \in DOMAIN r.tokens})

VARIABLES
    configured,    \* the devices that the device manager has
    stored,        \* the rules that the rule engine has
    m_device,      \* DevicesResource
    m_ruleId,      \* RulesResource
    m_deviceClass, \* DeviceClassesResource
    m_pluginId,    \* PluginsResource
    m_vendorId,    \* VendorsResource
    request,       \* the request being served, NoId between requests
    reply          \* its answer

members == <<m_device, m_ruleId, m_deviceClass, m_pluginId, m_vendorId>>
restVars == <<configured, stored, members, request, reply>>

Resources == {"devices", "deviceclasses", "vendors", "plugins", "rules", "logs"}

-----------------------------------------------------------------------------
(* Answers: a status and what was done, on which entities *)

Status == [Ok |-> 200, BadRequest |-> 400, NotFound |-> 404, InternalServerError |-> 500,
           NotImplemented |-> 501]

Answer(status) == [status |-> Status[status], operation |-> "none", on |-> <<>>]
Done(operation, on) == [status |-> Status.Ok, operation |-> operation, on |-> on]
Failed(operation, on, status) == [status |-> Status[status], operation |-> operation, on |-> on]
Later(operation, on) == [status |-> 0, operation |-> operation, on |-> on]

\* The member that names the device is a null pointer.
Undefined == [status |-> -1, operation |-> "none", on |-> <<>>]

\* An operation succeeds or fails, with the status that its resource gives to errors;
\* some are finished later, by an asynchronous reply.
Tried(operation, on, errors) == {Done(operation, on), Failed(operation, on, errors)}
TriedLater(operation, on, errors) == Tried(operation, on, errors) \cup {Later(operation, on)}

Cors == Done("cors", <<>>)
NotThere == {Answer("NotImplemented")}
Refused == {Answer("BadRequest")}

\* verifyPayload(): what cannot be parsed is taken like no payload.
Has(payload, part) == payload = "full" \/ payload = part

\* A type named by the sixth token, among those that there are
WithType(token, there, Operation(_)) ==
    IF token \notin Ids THEN {Answer("BadRequest")}
    ELSE IF token \notin there THEN {Answer("NotFound")}
    ELSE Operation(token)

-----------------------------------------------------------------------------
(* DevicesResource: m_device is null where the path has a word for it *)

OnDevice(device, replies) == IF device = NoId THEN {Undefined} ELSE replies

DevicesGet(r, n, device) ==
    CASE n = 3 -> {Done("getConfiguredDevices", <<>>)}
      [] n = 4 -> OnDevice(device, {Done("getConfiguredDevice", <<device>>)})
      [] n = 5 /\ r.tokens[5] = "states" ->
           OnDevice(device, {Done("getDeviceStateValues", <<device>>)})
      [] n >= 6 /\ r.tokens[5] = "states" ->
           IF device = NoId /\ r.tokens[6] \in Ids THEN {Undefined}
           ELSE LET has == IF device = NoId THEN {} ELSE Members[ClassOf[device]].statetypes
                    Get(type) == {Done("getDeviceStateValue", <<device, type>>)}
                IN  WithType(r.tokens[6], has, Get)
      [] OTHER -> NotThere

\* With a policy for all rules the status is Ok whatever the result is.
DevicesDelete(r, n, device) ==
    CASE n = 3 -> Refused
      [] n = 4 -> OnDevice(device, Tried("removeDevice", <<device>>,
                               IF r.query = "known" THEN "Ok" ELSE "BadRequest"))
      [] OTHER -> NotThere

DevicesPut(r, n, device) ==
    CASE n = 3 -> Refused
      [] n = 4 -> OnDevice(device,
                      TriedLater("reconfigureDevice", <<device>>, "InternalServerError"))
      [] OTHER -> NotThere

\* executeAction() needs the params, addConfiguredDevice() and pairDevice() the class.
DevicesPost(r, n, device) ==
    CASE n = 3 ->
           IF Has(r.payload, "deviceClassId")
           THEN TriedLater("addConfiguredDevice", <<>>, "InternalServerError") ELSE Refused
      [] n = 4 /\ r.tokens[4] = "pair" ->
           IF Has(r.payload, "deviceClassId") THEN Tried("pairDevice", <<>>, "BadRequest")
           ELSE Refused
      [] n = 4 /\ r.tokens[4] = "confirmpairing" ->
           TriedLater("confirmPairDevice", <<>>, "InternalServerError")
      [] n = 4 /\ r.tokens[4] \notin PairingWords ->
           Tried("editDevice", <<device>>, "BadRequest")
      [] n >= 6 /\ r.tokens[5] = "execute" ->
           IF device = NoId /\ r.tokens[6] \in Ids THEN {Undefined}
           ELSE LET has == IF device = NoId THEN {} ELSE Members[ClassOf[device]].actiontypes
                    Execute(type) ==
                        IF Has(r.payload, "params")
                        THEN TriedLater("executeAction", <<device, type>>, "InternalServerError")
                        ELSE Refused
                IN  WithType(r.tokens[6], has, Execute)
      [] OTHER -> NotThere

DevicesReplies(r, n, device) ==
    CASE r.method = "GET" -> DevicesGet(r, n, device)
      [] r.method = "POST" -> DevicesPost(r, n, device)
      [] r.method = "PUT" -> DevicesPut(r, n, device)
      [] r.method = "DELETE" -> DevicesDelete(r, n, device)
      [] r.method = "OPTIONS" -> {Cors}
      [] OTHER -> Refused

\* Mutant of DevicesRequest.
DevicesRequest_NoReset(r) ==
    LET n == Len(r.tokens)
        named == n >= 4 /\ r.tokens[4] \notin PairingWords
        found == IF named /\ r.tokens[4] \in configured THEN r.tokens[4]
                 ELSE IF named THEN NoId ELSE m_device
    IN  /\ m_device' = found
        /\ reply' \in
              IF named /\ r.tokens[4] \notin Ids THEN {Answer("BadRequest")}
              ELSE IF named /\ found = NoId THEN {Answer("NotFound")}
              ELSE DevicesReplies(r, n, found)
        /\ UNCHANGED <<m_ruleId, m_deviceClass, m_pluginId, m_vendorId>>

DevicesRequest(r) ==
    LET n == Len(r.tokens)
        named == n >= 4 /\ r.tokens[4] \notin PairingWords
        found == IF named /\ r.tokens[4] \in configured THEN r.tokens[4] ELSE NoId
    IN  /\ m_device' = found
        /\ reply' \in
              IF named /\ r.tokens[4] \notin Ids THEN {Answer("BadRequest")}
              ELSE IF named /\ found = NoId THEN {Answer("NotFound")}
              ELSE DevicesReplies(r, n, found)
        /\ UNCHANGED <<m_ruleId, m_deviceClass, m_pluginId, m_vendorId>>

-----------------------------------------------------------------------------
(* RulesResource *)

RulesGet(r, n, rule) ==
    CASE n = 3 -> IF r.query = "null" THEN {Answer("NotFound")} ELSE {Done("getRules", <<>>)}
      [] n = 4 -> {Done("getRuleDetails", <<rule>>)}
      [] OTHER -> NotThere

\* removeRule(), editRule(): rules that the request has looked up are there.
RulesChange(r, n, rule) ==
    CASE n = 3 -> Refused
      [] n = 4 /\ r.method = "DELETE" ->
           Tried("removeRule", <<rule>>, "InternalServerError")
      [] n = 4 /\ r.method = "PUT" ->
           IF r.payload = "full" THEN Tried("editRule", <<rule>>, "BadRequest") ELSE Refused
      [] OTHER -> NotThere

RuleOperations ==
    [enable |-> "enableRule", disable |-> "disableRule", executeactions |-> "executeActions",
     executeexitactions |-> "executeExitActions"]

RulesPost(r, n, rule) ==
    CASE n = 3 ->
           IF r.payload = "full" THEN Tried("addRule", <<>>, "BadRequest") ELSE Refused
      [] n = 5 /\ r.tokens[5] \in DOMAIN RuleOperations ->
           Tried(RuleOperations[r.tokens[5]], <<rule>>, "InternalServerError")
      [] OTHER -> NotThere

RulesRequest(r) ==
    LET n == Len(r.tokens)
        rule == IF n < 4 THEN m_ruleId ELSE IF r.tokens[4] \in Ids THEN r.tokens[4] ELSE NoId
    IN  /\ m_ruleId' = rule
        /\ reply' \in
              IF n >= 4 /\ rule = NoId THEN {Answer("BadRequest")}
              ELSE IF n >= 4 /\ rule \notin stored THEN {Answer("NotFound")}
              ELSE CASE r.method = "GET" -> RulesGet(r, n, rule)
                     [] r.method \in {"DELETE", "PUT"} -> RulesChange(r, n, rule)
                     [] r.method = "POST" -> RulesPost(r, n, rule)
                     [] r.method = "OPTIONS" -> {Cors}
                     [] OTHER -> Refused
        /\ UNCHANGED <<m_device, m_deviceClass, m_pluginId, m_vendorId>>

-----------------------------------------------------------------------------
(* DeviceClassesResource *)

GetTypes ==
    [actiontypes |-> "getActionTypes", statetypes |-> "getStateTypes",
     eventtypes |-> "getEventTypes"]
GetType ==
    [actiontypes |-> "getActionType", statetypes |-> "getStateType",
     eventtypes |-> "getEventType"]

DeviceClassesGet(r, n, class) ==
    CASE n = 3 -> IF r.query = "null" THEN Refused ELSE {Done("getDeviceClasses", <<>>)}
      [] n = 4 -> {Done("getDeviceClass", <<class>>)}
      [] n = 5 /\ r.tokens[5] \in Sections -> {Done(GetTypes[r.tokens[5]], <<class>>)}
      [] n = 6 /\ r.tokens[5] \in Sections ->
           LET Get(type) == {Done(GetType[r.tokens[5]], <<class, type>>)}
           IN  WithType(r.tokens[6], Members[class][r.tokens[5]], Get)
      [] n = 5 /\ r.tokens[5] = "discover" ->
           TriedLater("getDiscoverdDevices", <<class>>, "InternalServerError")
      [] OTHER -> Refused

\* A class that is not found is kept too: it is not valid.
DeviceClassesRequest(r) ==
    LET n == Len(r.tokens)
        class == IF n < 4 \/ r.tokens[4] \notin Ids THEN m_deviceClass
                 ELSE IF r.tokens[4] \in DeviceClasses THEN r.tokens[4] ELSE NoId
    IN  /\ m_deviceClass' = class
        /\ reply' \in
              IF n >= 4 /\ r.tokens[4] \notin Ids THEN {Answer("BadRequest")}
              ELSE IF n >= 4 /\ class = NoId THEN {Answer("NotFound")}
              ELSE IF r.method = "GET" THEN DeviceClassesGet(r, n, class)
              ELSE Refused
        /\ UNCHANGED <<m_device, m_ruleId, m_pluginId, m_vendorId>>

-----------------------------------------------------------------------------
(* PluginsResource, VendorsResource, LogsResource *)

IfThere(id, set, replies) == IF id \in set THEN replies ELSE {Answer("NotFound")}

PluginsGet(r, n, plugin) ==
    CASE n = 3 -> {Done("getPlugins", <<>>)}
      [] n = 4 -> IfThere(plugin, KnownPlugins, {Done("getPlugin", <<plugin>>)})
      [] n = 5 /\ r.tokens[5] = "configuration" ->
           IfThere(plugin, KnownPlugins, {Done("getPluginConfiguration", <<plugin>>)})
      [] OTHER -> NotThere

PluginsPut(r, n, plugin) ==
    IF n = 5 /\ r.tokens[5] = "configuration"
    THEN IfThere(plugin, KnownPlugins, Tried("setPluginConfiguration", <<plugin>>, "BadRequest"))
    ELSE NotThere

PluginsRequest(r) ==
    LET n == Len(r.tokens)
        plugin == IF n < 4 THEN m_pluginId ELSE IF r.tokens[4] \in Ids THEN r.tokens[4] ELSE NoId
    IN  /\ m_pluginId' = plugin
        /\ reply' \in
              IF n >= 4 /\ plugin = NoId THEN {Answer("BadRequest")}
              ELSE CASE r.method = "GET" -> PluginsGet(r, n, plugin)
                     [] r.method = "PUT" -> PluginsPut(r, n, plugin)
                     [] r.method = "OPTIONS" -> {Cors}
                     [] OTHER -> Refused
        /\ UNCHANGED <<m_device, m_ruleId, m_deviceClass, m_vendorId>>

VendorsGet(r, n, vendor) ==
    CASE n = 3 -> {Done("getVendors", <<>>)}
      [] n = 4 -> IfThere(vendor, KnownVendors, {Done("getVendor", <<vendor>>)})
      [] OTHER -> NotThere

VendorsRequest(r) ==
    LET n == Len(r.tokens)
        vendor == IF n < 4 THEN m_vendorId ELSE IF r.tokens[4] \in Ids THEN r.tokens[4] ELSE NoId
    IN  /\ m_vendorId' = vendor
        /\ reply' \in
              IF n >= 4 /\ vendor = NoId THEN {Answer("BadRequest")}
              ELSE IF r.method = "GET" THEN VendorsGet(r, n, vendor)
              ELSE Refused
        /\ UNCHANGED <<m_device, m_ruleId, m_deviceClass, m_pluginId>>

LogsRequest(r) ==
    /\ reply' = IF r.method # "GET" THEN Answer("BadRequest")
                ELSE IF Len(r.tokens) = 3 THEN Done("getLogEntries", <<>>)
                ELSE Answer("NotImplemented")
    /\ UNCHANGED members

-----------------------------------------------------------------------------
(* RestServer::processHttpRequest() *)

ProcessRequest(r) ==
    CASE Len(r.tokens) < 3 -> reply' = Answer("BadRequest") /\ UNCHANGED members
      [] Len(r.tokens) >= 3 /\ r.tokens[3] \notin Resources ->
           reply' = Answer("BadRequest") /\ UNCHANGED members
      [] Len(r.tokens) = 3 /\ r.tokens[3] \in Resources /\ r.method = "OPTIONS" ->
           reply' = Cors /\ UNCHANGED members
      [] OTHER ->
           \/ r.tokens[3] = "devices" /\ DevicesRequest(r)
           \/ r.tokens[3] = "rules" /\ RulesRequest(r)
           \/ r.tokens[3] = "deviceclasses" /\ DeviceClassesRequest(r)
           \/ r.tokens[3] = "plugins" /\ PluginsRequest(r)
           \/ r.tokens[3] = "vendors" /\ VendorsRequest(r)
           \/ r.tokens[3] = "logs" /\ LogsRequest(r)

\* What the operations do to the devices and rules there are, as far as a later
\* request sees it: device manager and rule engine have modules of their own.
Serve(r) ==
    /\ request = NoId
    /\ request' = r
    /\ ProcessRequest(r)
    /\ \/ /\ reply'.operation = "removeDevice"
          /\ \/ reply'.status = Status.Ok /\ configured' = configured \ {reply'.on[1]}
             \/ reply'.status # Status.Ok /\ UNCHANGED configured
             \/ r.query = "known" /\ UNCHANGED configured
          /\ UNCHANGED stored
       \/ /\ reply'.operation = "removeRule"
          /\ stored' = IF reply'.status = Status.Ok THEN stored \ {reply'.on[1]} ELSE stored
          /\ UNCHANGED configured
       \/ /\ reply'.operation \in {"addConfiguredDevice", "confirmPairDevice"}
          /\ \/ reply'.status = Status.Ok /\ \E d \in Devices : configured' = configured \cup {d}
             \/ reply'.status # Status.Ok /\ UNCHANGED configured
          /\ UNCHANGED stored
       \/ /\ reply'.operation = "addRule"
          /\ \/ reply'.status = Status.Ok /\ \E x \in AllRules : stored' = stored \cup {x}
             \/ reply'.status # Status.Ok /\ UNCHANGED stored
          /\ UNCHANGED configured
       \/ /\ reply'.operation \notin {"removeDevice", "removeRule", "addConfiguredDevice",
                                      "confirmPairDevice", "addRule"}
          /\ UNCHANGED <<configured, stored>>

Answered ==
    /\ request # NoId
    /\ request' = NoId
    /\ reply' = NoId
    /\ UNCHANGED <<configured, stored, members>>

RestResourcesInit ==
    /\ configured = Devices
    /\ stored = AllRules
    /\ m_device = NoId /\ m_ruleId = NoId /\ m_deviceClass = NoId
    /\ m_pluginId = NoId /\ m_vendorId = NoId
    /\ request = NoId
    /\ reply = NoId

RestResourcesNext(requests) == (\E r \in requests : Serve(r)) \/ Answered

RestResourcesSpec == RestResourcesInit /\ [][RestResourcesNext(RestRequests)]_restVars

-----------------------------------------------------------------------------
(* The routes that the comments of the resources document, with "id" for an id *)

Routes ==
    {<<"GET", <<"devices">>, "getConfiguredDevices">>,
     <<"GET", <<"devices", "id">>, "getConfiguredDevice">>,
     <<"GET", <<"devices", "id", "states">>, "getDeviceStateValues">>,
     <<"GET", <<"devices", "id", "states", "id">>, "getDeviceStateValue">>,
     <<"DELETE", <<"devices", "id">>, "removeDevice">>,
     <<"PUT", <<"devices", "id">>, "reconfigureDevice">>,
     <<"POST", <<"devices">>, "addConfiguredDevice">>,
     <<"POST", <<"devices", "pair">>, "pairDevice">>,
     <<"POST", <<"devices", "confirmpairing">>, "confirmPairDevice">>,
     <<"POST", <<"devices", "id">>, "editDevice">>,
     <<"POST", <<"devices", "id", "execute", "id">>, "executeAction">>,
     <<"GET", <<"rules">>, "getRules">>,
     <<"GET", <<"rules", "id">>, "getRuleDetails">>,
     <<"DELETE", <<"rules", "id">>, "removeRule">>,
     <<"PUT", <<"rules", "id">>, "editRule">>,
     <<"POST", <<"rules">>, "addRule">>,
     <<"POST", <<"rules", "id", "enable">>, "enableRule">>,
     <<"POST", <<"rules", "id", "disable">>, "disableRule">>,
     <<"POST", <<"rules", "id", "executeactions">>, "executeActions">>,
     <<"POST", <<"rules", "id", "executeexitactions">>, "executeExitActions">>,
     <<"GET", <<"deviceclasses">>, "getDeviceClasses">>,
     <<"GET", <<"deviceclasses", "id">>, "getDeviceClass">>,
     <<"GET", <<"deviceclasses", "id", "actiontypes">>, "getActionTypes">>,
     <<"GET", <<"deviceclasses", "id", "actiontypes", "id">>, "getActionType">>,
     <<"GET", <<"deviceclasses", "id", "statetypes">>, "getStateTypes">>,
     <<"GET", <<"deviceclasses", "id", "statetypes", "id">>, "getStateType">>,
     <<"GET", <<"deviceclasses", "id", "eventtypes">>, "getEventTypes">>,
     <<"GET", <<"deviceclasses", "id", "eventtypes", "id">>, "getEventType">>,
     <<"GET", <<"deviceclasses", "id", "discover">>, "getDiscoverdDevices">>,
     <<"GET", <<"plugins">>, "getPlugins">>,
     <<"GET", <<"plugins", "id">>, "getPlugin">>,
     <<"GET", <<"plugins", "id", "configuration">>, "getPluginConfiguration">>,
     <<"PUT", <<"plugins", "id", "configuration">>, "setPluginConfiguration">>,
     <<"GET", <<"vendors">>, "getVendors">>,
     <<"GET", <<"vendors", "id">>, "getVendor">>,
     <<"GET", <<"logs">>, "getLogEntries">>}

\* The tokens of a path are as in a pattern, with ids in the places of "id".  Tokens that
\* follow the sixth do not count for devices.
MatchesRoute(pattern, tokens) ==
    /\ \/ Len(tokens) = Len(pattern) + 2
       \/ pattern[1] = "devices" /\ Len(pattern) = 4 /\ Len(tokens) > 6
    /\ \A i \in DOMAIN pattern :
          IF pattern[i] = "id" THEN tokens[i + 2] \in Ids ELSE tokens[i + 2] = pattern[i]

\* The ids at the places of a pattern that stand for ids: its second and its fourth
NamedIds(pattern, tokens) ==
    CASE Len(pattern) < 2 -> <<>>
      [] Len(pattern) \in 2..3 -> IF pattern[2] = "id" THEN <<tokens[4]>> ELSE <<>>
      [] OTHER -> <<tokens[4], tokens[6]>>

There(resource) ==
    CASE resource = "devices" -> configured
      [] resource = "rules" -> stored
      [] resource = "deviceclasses" -> DeviceClasses
      [] resource = "plugins" -> KnownPlugins
      [] resource = "vendors" -> KnownVendors

TypesOf(resource, id, section) ==
    LET class == IF resource = "devices" THEN ClassOf[id] ELSE id
        types == IF section = "states" THEN "statetypes"
                 ELSE IF section = "execute" THEN "actiontypes" ELSE section
    IN  Members[class][types]

Exists(resource, ids, tokens) ==
    /\ Len(ids) >= 1 => ids[1] \in There(resource)
    /\ Len(ids) = 2 => ids[2] \in TypesOf(resource, ids[1], tokens[5])

\* The routes that a request is on, with everything there that it names
Served(r) ==
    {route \in Routes :
        /\ route[1] = r.method
        /\ Len(r.tokens) >= 3
        /\ MatchesRoute(route[2], r.tokens)
        /\ Exists(route[2][1], NamedIds(route[2], r.tokens), r.tokens)}

\* What an answer has to do with its request
Routed(r, answer) ==
    /\ answer.operation \notin {"none", "cors"} =>
          \E route \in Served(r) : /\ answer.operation = route[3]
                                   /\ answer.on = NamedIds(route[2], r.tokens)
    /\ Served(r) # {} /\ answer.operation = "none" =>
          answer.status = Status.BadRequest \/ r.query = "null"
    /\ answer = Undefined => r.tokens[4] \in PairingWords

\* A request does what the comments say of its path, on the things that its own path
\* names, and only if they are there; nothing else does anything.  Requests
\* documented on things that are there are refused for their contents only.
\* The exception: the words of pairing in the place of a device.
RequestsRouted ==
    [][request = NoId /\ request' # NoId => Routed(request', reply')]_restVars

\* "Returns false and an invalid QVariant if the payload could not be parsed": such a
\* request is refused.
BrokenPayloadsRefused ==
    request # NoId /\ request.payload = "broken" /\ request.method \in {"PUT", "POST"} =>
        reply.status # Status.Ok
=============================================================================
