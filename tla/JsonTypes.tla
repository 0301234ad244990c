----------------------------- MODULE JsonTypes -----------------------------
(***************************************************************************)
(* The types of the JSON-RPC API: their descriptions, how values are       *)
(* checked against them, and how objects of the core become values.        *)
(*                                                                         *)
(* A value is <<type, content>>, as a QVariant is; the content of a map is *)
(* a function, of a list a sequence.  What a String holds matters only for *)
(* enumerations and ids, whose names are taken as they are.                *)
(***************************************************************************)
EXTENDS Integers, Sequences

CONSTANT Ids  \* the strings that are ids

Invalid == <<"Invalid", "">>
Text(string) == <<"String", string>>
Uuid(id) == <<"Uuid", id>>
Number(n) == <<"Int", n>>
Flag(b) == <<"Bool", b>>
List(seq) == <<"List", seq>>
Map(function) == <<"Map", function>>

TypeOf(value) == value[1]

\* toMap(), toList(), toString(): other types give empty ones.
Empty == [key \in {} |-> Invalid]
AsMap(value) == IF TypeOf(value) = "Map" THEN value[2] ELSE Empty
AsList(value) == IF TypeOf(value) = "List" THEN value[2] ELSE <<>>
AsText(value) == IF TypeOf(value) \in {"String", "Uuid"} THEN value[2] ELSE ""

\* The value of a key of a map
At(map, key) == IF key \in DOMAIN map THEN map[key] ELSE Invalid

With(map, key, value) == [k \in DOMAIN map \cup {key} |-> IF k = key THEN value ELSE map[k]]
WithIf(condition, map, key, value) == IF condition THEN With(map, key, value) ELSE map

ListOf(Pack(_), seq) == List([i \in DOMAIN seq |-> Pack(seq[i])])

-----------------------------------------------------------------------------
(* Descriptions: what a value has to be.  Keys marked "o:" are those that may be missing. *)

Basic(type) == <<"basic", type>>
Ref(type) == <<"ref", type>>
ListWith(template) == <<"list", template>>
MapWith(must, may) == <<"map", must, may>>
None == [key \in {} |-> 0]

\* The names of the enumerations; of the long ones a few.
Enums == [
    StateOperator |-> <<"StateOperatorAnd", "StateOperatorOr">>,
    ValueOperator |-> <<"ValueOperatorEquals", "ValueOperatorLess">>,
    InputType |-> <<"InputTypeNone", "InputTypeMail">>,
    Unit |-> <<"UnitNone", "UnitSeconds">>,
    CreateMethod |-> <<"CreateMethodUser", "CreateMethodAuto", "CreateMethodDiscovery">>,
    SetupMethod |-> <<"SetupMethodJustAdd", "SetupMethodDisplayPin">>,
    BasicTag |-> <<"BasicTagService", "BasicTagDevice">>,
    DeviceIcon |-> <<"DeviceIconNone", "DeviceIconBed">>,
    RemovePolicy |-> <<"RemovePolicyCascade", "RemovePolicyUpdate">>,
    DeviceError |-> <<"DeviceErrorNoError", "DeviceErrorDeviceNotFound">>,
    RuleError |-> <<"RuleErrorNoError", "RuleErrorRuleNotFound">>,
    LoggingError |-> <<"LoggingErrorNoError">>,
    LoggingSource |-> <<"LoggingSourceSystem", "LoggingSourceEvents", "LoggingSourceActions",
                        "LoggingSourceStates", "LoggingSourceRules">>,
    LoggingLevel |-> <<"LoggingLevelInfo", "LoggingLevelAlert">>,
    LoggingEventType |-> <<"LoggingEventTypeTrigger", "LoggingEventTypeActiveChange",
                           "LoggingEventTypeActionsExecuted",
                           "LoggingEventTypeExitActionsExecuted">>]

Names(type) == {Enums[type][i] : i \in DOMAIN Enums[type]}

\* init(): what rules, states, events and actions are made of
RuleTypes == [
    ParamType |-> MapWith(
        [name |-> Basic("String"), type |-> Ref("BasicType")],
        [defaultValue |-> Basic("Variant"), minValue |-> Basic("Variant"),
         maxValue |-> Basic("Variant"), allowedValues |-> ListWith(Basic("Variant")),
         inputType |-> Ref("InputType"), unit |-> Ref("Unit"), readOnly |-> Basic("Bool")]),
    Param |-> MapWith([name |-> Basic("String"), value |-> Ref("BasicType")], None),
    RuleAction |-> MapWith(
        [actionTypeId |-> Basic("Uuid"), deviceId |-> Basic("Uuid")],
        [ruleActionParams |-> ListWith(Ref("RuleActionParam"))]),
    RuleActionParam |-> MapWith(
        [name |-> Basic("String")],
        [value |-> Ref("BasicType"), eventTypeId |-> Basic("Uuid"),
         eventParamName |-> Basic("String")]),
    ParamDescriptor |-> MapWith(
        [name |-> Basic("String"), value |-> Ref("BasicType"), operator |-> Ref("ValueOperator")],
        None),
    StateType |-> MapWith(
        [id |-> Basic("Uuid"), name |-> Basic("String"), type |-> Ref("BasicType"),
         defaultValue |-> Basic("Variant")],
        [unit |-> Ref("Unit"), minValue |-> Basic("Variant"), maxValue |-> Basic("Variant"),
         possibleValues |-> ListWith(Basic("Variant"))]),
    State |-> MapWith(
        [stateTypeId |-> Basic("Uuid"), deviceId |-> Basic("Uuid"), value |-> Basic("Variant")],
        None),
    StateDescriptor |-> MapWith(
        [stateTypeId |-> Basic("Uuid"), deviceId |-> Basic("Uuid"), value |-> Basic("Variant"),
         operator |-> Ref("ValueOperator")], None),
    StateEvaluator |-> MapWith(None,
        [stateDescriptor |-> Ref("StateDescriptor"),
         childEvaluators |-> ListWith(Ref("StateEvaluator")), operator |-> Ref("StateOperator")]),
    EventType |-> MapWith(
        [id |-> Basic("Uuid"), name |-> Basic("String"),
         paramTypes |-> ListWith(Ref("ParamType"))], None),
    Event |-> MapWith(
        [eventTypeId |-> Basic("Uuid"), deviceId |-> Basic("Uuid")],
        [params |-> ListWith(Ref("Param"))]),
    EventDescriptor |-> MapWith(
        [eventTypeId |-> Basic("Uuid"), deviceId |-> Basic("Uuid")],
        [paramDescriptors |-> ListWith(Ref("ParamDescriptor"))]),
    ActionType |-> MapWith(
        [id |-> Basic("Uuid"), name |-> Basic("Uuid"),
         paramTypes |-> ListWith(Ref("ParamType"))], None),
    Action |-> MapWith(
        [actionTypeId |-> Basic("Uuid"), deviceId |-> Basic("Uuid")],
        [params |-> ListWith(Ref("Param"))])]

StateValue == MapWith([stateTypeId |-> Basic("Uuid"), value |-> Basic("Variant")], None)

\* init(): plugins, devices, rules and log entries
ObjectTypes == [
    Plugin |-> MapWith(
        [id |-> Basic("Uuid"), name |-> Basic("String"), params |-> ListWith(Ref("Param"))], None),
    Vendor |-> MapWith([id |-> Basic("Uuid"), name |-> Basic("String")], None),
    DeviceClass |-> MapWith(
        [id |-> Basic("Uuid"), vendorId |-> Basic("Uuid"), pluginId |-> Basic("Uuid"),
         name |-> Basic("String"), deviceIcon |-> Ref("DeviceIcon"),
         basicTags |-> ListWith(Ref("BasicTag")), stateTypes |-> ListWith(Ref("StateType")),
         eventTypes |-> ListWith(Ref("EventType")), actionTypes |-> ListWith(Ref("ActionType")),
         paramTypes |-> ListWith(Ref("ParamType")),
         discoveryParamTypes |-> ListWith(Ref("ParamType")),
         setupMethod |-> Ref("SetupMethod"), createMethods |-> ListWith(Ref("CreateMethod"))],
        None),
    Device |-> MapWith(
        [id |-> Basic("Uuid"), deviceClassId |-> Basic("Uuid"), name |-> Basic("String"),
         params |-> ListWith(Ref("Param")), states |-> ListWith(StateValue),
         setupComplete |-> Basic("Bool")],
        [parentId |-> Basic("Uuid")]),
    DeviceDescriptor |-> MapWith(
        [id |-> Basic("Uuid"), title |-> Basic("String"), description |-> Basic("String")], None),
    Rule |-> MapWith(
        [id |-> Basic("Uuid"), name |-> Basic("String"), enabled |-> Basic("Bool"),
         executable |-> Basic("Bool"), active |-> Basic("Bool"),
         eventDescriptors |-> ListWith(Ref("EventDescriptor")),
         actions |-> ListWith(Ref("RuleAction")), exitActions |-> ListWith(Ref("RuleAction")),
         stateEvaluator |-> Ref("StateEvaluator")], None),
    RuleDescription |-> MapWith(
        [id |-> Basic("Uuid"), name |-> Basic("String"), enabled |-> Basic("Bool"),
         active |-> Basic("Bool"), executable |-> Basic("Bool")], None),
    LogEntry |-> MapWith(
        [timestamp |-> Basic("Int"), loggingLevel |-> Ref("LoggingLevel"),
         source |-> Ref("LoggingSource")],
        [typeId |-> Basic("Uuid"), deviceId |-> Basic("Uuid"), value |-> Basic("String"),
         active |-> Basic("Bool"), eventType |-> Ref("LoggingEventType"),
         errorCode |-> Basic("String")])]

\* allTypes()
Description(type) == IF type \in DOMAIN RuleTypes THEN RuleTypes[type] ELSE ObjectTypes[type]
MapTypes == DOMAIN RuleTypes \cup DOMAIN ObjectTypes

-----------------------------------------------------------------------------
(* Checking values *)

RECURSIVE ValidateVariant(_, _)

\* Mutant of ValidateMap.
ValidateMap_AnyKey(template, value) ==
    LET map == AsMap(value)
        must == template[2]
        may == template[3]
    IN  /\ DOMAIN must \subseteq DOMAIN map
        /\ \A key \in DOMAIN map \cap DOMAIN must : ValidateVariant(must[key], map[key])
        /\ \A key \in DOMAIN map \cap DOMAIN may : ValidateVariant(may[key], map[key])

\* validateMap(): no key is missing, none is forbidden.
ValidateMap(template, value) ==
    LET map == AsMap(value)
        must == template[2]
        may == template[3]
    IN  /\ DOMAIN must \subseteq DOMAIN map
        /\ DOMAIN map \subseteq DOMAIN must \cup DOMAIN may
        /\ \A key \in DOMAIN map :
               ValidateVariant(IF key \in DOMAIN must THEN must[key] ELSE may[key], map[key])

\* validateProperty(): whether the type can be converted, whatever the value
ValidateProperty(type, value) ==
    CASE type = "Variant" -> TRUE
      [] type = "Uuid" -> TypeOf(value) \in {"Uuid", "String"}
      [] type = "String" -> TypeOf(value) \in {"String", "Uuid", "Int", "Double", "Bool"}
      [] type \in {"Bool", "Int"} -> TypeOf(value) \in {"Bool", "Int", "Double", "String"}
      [] OTHER -> FALSE

ValidateList(template, value) ==
    \A i \in DOMAIN AsList(value) : ValidateVariant(template, AsList(value)[i])

\* validateEnum()
ValidateEnum(type, value) == AsText(value) \in Names(type)

\* validateBasicType(): null passes as well, canConvert() of the last but one
\* condition is asked for the type 0.
ValidateBasicType(value) == TypeOf(value) \notin {"List", "Map"}

\* The branches of validateVariant() for "$ref:"; what is found about params and
\* vendors is not returned, removal policies are not known.
ValidateRef(type, value) ==
    CASE type \in {"Param", "Vendor"} -> TRUE
      [] type = "BasicType" -> ValidateBasicType(value)
      [] type \in DOMAIN Enums \ {"RemovePolicy"} -> ValidateEnum(type, value)
      [] type \in MapTypes \ {"Param", "Vendor"} -> ValidateMap(Description(type), value)
      [] OTHER -> FALSE

ValidateVariant(template, value) ==
    CASE template[1] = "ref" -> ValidateRef(template[2], value)
      [] template[1] = "basic" -> ValidateProperty(template[2], value)
      [] template[1] = "map" -> ValidateMap(template, value)
      [] template[1] = "list" -> ValidateList(template[2], value)

-----------------------------------------------------------------------------
(* What a reader of the descriptions takes a value to be, whatever the checks find *)

BasicTypes == {"Uuid", "String", "Int", "Uint", "Double", "Bool", "Color"}

\* An id may be sent as a string.
FitsBasic(type, value) ==
    \/ type \in {"Variant", TypeOf(value)}
    \/ type = "Uuid" /\ TypeOf(value) = "String" /\ value[2] \in Ids

\* Whether a value is what the template says, where types describes what is referred to.
RECURSIVE Fits(_, _, _)
Fits(types, template, value) ==
    CASE template[1] = "basic" -> FitsBasic(template[2], value)
      [] template[1] = "list" ->
             /\ TypeOf(value) = "List"
             /\ \A i \in DOMAIN value[2] : Fits(types, template[2], value[2][i])
      [] template[1] = "map" ->
             /\ TypeOf(value) = "Map"
             /\ \A key \in DOMAIN template[2] : key \in DOMAIN value[2]
             /\ \A key \in DOMAIN value[2] :
                    \/ key \in DOMAIN template[2] /\ Fits(types, template[2][key], value[2][key])
                    \/ key \in DOMAIN template[3] /\ Fits(types, template[3][key], value[2][key])
      [] template = Ref("BasicType") -> TypeOf(value) \in BasicTypes
      [] template[1] = "ref" /\ template[2] \in DOMAIN Enums ->
             TypeOf(value) = "String" /\ value[2] \in Names(template[2])
      [] template[1] = "ref" /\ template[2] \in MapTypes ->
             Fits(types, types[template[2]], value)

Described == [type \in MapTypes |-> Description(type)]

-----------------------------------------------------------------------------
(* From the core: pack...() *)

\* s_x.at(n): behind the end is undefined, see Packable.
Nth(type, n) == Text(Enums[type][n + 1])

IsValid(value) == value # Invalid

PackParam(param) == Map([name |-> Text(param.name), value |-> param.value])

PackParamType(p) ==
    LET base == [name |-> Text(p.name), type |-> Text(p.type)]
        values == WithIf(IsValid(p.defaultValue), base, "defaultValue", p.defaultValue)
        bounds == WithIf(IsValid(p.maxValue),
                      WithIf(IsValid(p.minValue), values, "minValue", p.minValue),
                      "maxValue", p.maxValue)
        allowed == WithIf(p.allowedValues # <<>>, bounds, "allowedValues", List(p.allowedValues))
        shown == WithIf(p.unit # 0, WithIf(p.inputType # 0, allowed,
                     "inputType", Nth("InputType", p.inputType)), "unit", Nth("Unit", p.unit))
    IN  Map(WithIf(p.readOnly, shown, "readOnly", Flag(TRUE)))

PackStateType(s) ==
    LET base == [id |-> Uuid(s.id), name |-> Text(s.name), type |-> Text(s.type),
                 defaultValue |-> s.defaultValue]
        bounds == WithIf(IsValid(s.maxValue),
                      WithIf(IsValid(s.minValue), base, "minValue", s.minValue),
                      "maxValue", s.maxValue)
        possible == WithIf(s.possibleValues # <<>>, bounds,
                           "possibleValues", List(s.possibleValues))
    IN  Map(WithIf(s.unit # 0, possible, "unit", Nth("Unit", s.unit)))

\* packEventType(), packActionType()
PackType(type) ==
    Map([id |-> Uuid(type.id), name |-> Text(type.name),
         paramTypes |-> ListOf(PackParamType, type.paramTypes)])

PackEvent(event) ==
    Map([eventTypeId |-> Uuid(event.eventTypeId), deviceId |-> Uuid(event.deviceId),
         params |-> ListOf(PackParam, event.params)])

PackVendor(vendor) == Map([id |-> Uuid(vendor.id), name |-> Text(vendor.name)])

PackDeviceClass(class) ==
    LET names(type, numbers) == List([i \in DOMAIN numbers |-> Nth(type, numbers[i])]) IN
    Map([name |-> Text(class.name), id |-> Uuid(class.id), vendorId |-> Uuid(class.vendorId),
         pluginId |-> Uuid(class.pluginId), deviceIcon |-> Nth("DeviceIcon", class.deviceIcon),
         basicTags |-> names("BasicTag", class.basicTags),
         paramTypes |-> ListOf(PackParamType, class.paramTypes),
         discoveryParamTypes |-> ListOf(PackParamType, class.discoveryParamTypes),
         stateTypes |-> ListOf(PackStateType, class.stateTypes),
         eventTypes |-> ListOf(PackType, class.eventTypes),
         actionTypes |-> ListOf(PackType, class.actionTypes),
         createMethods |-> names("CreateMethod", class.createMethods),
         setupMethod |-> Nth("SetupMethod", class.setupMethod)])

\* packPlugin(): "params" are the types of its params.
PackPlugin(plugin) ==
    Map([id |-> Uuid(plugin.id), name |-> Text(plugin.name),
         params |-> ListOf(PackParamType, plugin.configurationDescription)])

\* packDeviceStates(): the states of the device class
PackDeviceStates(device) ==
    List([i \in DOMAIN device.states |->
             Map([stateTypeId |-> Text(device.states[i].id), value |-> device.states[i].value])])

PackDevice(device) ==
    LET base == [id |-> Uuid(device.id), deviceClassId |-> Uuid(device.deviceClassId),
                 name |-> Text(device.name), params |-> ListOf(PackParam, device.params),
                 states |-> PackDeviceStates(device), setupComplete |-> Flag(device.setupComplete)]
    IN  Map(WithIf(device.parentId # "", base, "parentId", Uuid(device.parentId)))

PackDeviceDescriptor(d) ==
    Map([id |-> Uuid(d.id), title |-> Text(d.title), description |-> Text(d.description)])

\* packLogEntry(): what is told depends on the source, and on the level.
PackLogEntry(entry) ==
    LET base == [timestamp |-> Number(entry.timestamp),
                 loggingLevel |-> Nth("LoggingLevel", entry.level),
                 source |-> Nth("LoggingSource", entry.source),
                 eventType |-> Nth("LoggingEventType", entry.eventType)]
        changed == WithIf(entry.eventType = 1 \/ entry.source = 0, base,
                          "active", Flag(entry.active))
        failed == WithIf(entry.level = 1 /\ entry.source # 0, changed, "errorCode",
                      Nth(IF entry.source = 4 THEN "RuleError" ELSE "DeviceError",
                          entry.errorCode))
        typed == WithIf(entry.source # 0, failed, "typeId", Text(entry.typeId))
    IN  Map(IF entry.source \in 1..3
            THEN With(With(typed, "deviceId", Text(entry.deviceId)), "value", Text(entry.value))
            ELSE typed)
=============================================================================
