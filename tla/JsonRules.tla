----------------------------- MODULE JsonRules -----------------------------
(***************************************************************************)
(* Rules through the two APIs: JSON-RPC, which checks the params of a call *)
(* against their description, and REST, which does not.  A client adds a   *)
(* rule, asks for its details and sends them back as an edit of the rule.  *)
(***************************************************************************)
EXTENDS JsonTypes

CONSTANTS
    StateTypes,        \* <<device, state type>> -> the type of the state's value, and the
                       \* values that its bounds and its possible values exclude
    Numerals,          \* the strings that are numbers
    EventParamTypes,   \* event type -> param name -> type
    ActionParamTypes,  \* action type -> param name -> type
    RuleParams         \* what clients send to AddRule: maps

VARIABLES
    rule,    \* the rule in the engine, NoRule before there is one
    via,     \* "rpc" or "rest": how it was added
    details, \* what GetRuleDetails returned
    phase    \* "idle", "added", "shown", "edited", "refused" or "undefined"

NoRule == [id |-> ""]
RuleId == "r"

\* The configured devices; each has a state, and all the events and actions there are.
Devices == {pair[1] : pair \in DOMAIN StateTypes}

-----------------------------------------------------------------------------
(* From values: unpack...() *)

\* A string that is no id makes a null id.
Id(value) == IF AsText(value) \in Ids THEN AsText(value) ELSE ""

\* indexOf() of an enumeration, -1 when there is no such name
IndexOf(type, value) ==
    IF AsText(value) \in Names(type)
    THEN (CHOOSE i \in DOMAIN Enums[type] : Enums[type][i] = AsText(value)) - 1
    ELSE -1

ForAll(Unpack(_), value) == [i \in DOMAIN AsList(value) |-> Unpack(AsMap(AsList(value)[i]))]

UnpackRuleActionParam(map) ==
    [name |-> AsText(At(map, "name")), value |-> At(map, "value"),
     eventTypeId |-> Id(At(map, "eventTypeId")),
     eventParamName |-> AsText(At(map, "eventParamName"))]

\* The params of an action, null where the map has none
UnpackRuleAction(map) ==
    [actionTypeId |-> Id(At(map, "actionTypeId")), deviceId |-> Id(At(map, "deviceId")),
     ruleActionParams |-> ForAll(UnpackRuleActionParam, At(map, "ruleActionParams"))]

UnpackParamDescriptor(map) ==
    [name |-> AsText(At(map, "name")), value |-> At(map, "value"),
     operator |-> IndexOf("ValueOperator", At(map, "operator"))]

UnpackEventDescriptor(map) ==
    [eventTypeId |-> Id(At(map, "eventTypeId")), deviceId |-> Id(At(map, "deviceId")),
     paramDescriptors |-> ForAll(UnpackParamDescriptor, At(map, "paramDescriptors"))]

UnpackStateDescriptor(map) ==
    [stateTypeId |-> Id(At(map, "stateTypeId")), deviceId |-> Id(At(map, "deviceId")),
     value |-> At(map, "value"), operator |-> IndexOf("ValueOperator", At(map, "operator"))]

RECURSIVE UnpackStateEvaluator(_)

UnpackStateEvaluator(map) ==
    [stateDescriptor |-> UnpackStateDescriptor(AsMap(At(map, "stateDescriptor"))),
     operator |-> IF "operator" \in DOMAIN map THEN IndexOf("StateOperator", map["operator"])
                  ELSE 0,
     childEvaluators |-> ForAll(UnpackStateEvaluator, At(map, "childEvaluators"))]

-----------------------------------------------------------------------------
(* To values: packRule() and what it calls *)

DescriptorIsValid(d) == d.deviceId # "" /\ d.stateTypeId # "" /\ IsValid(d.value)

PackParamDescriptor(d) ==
    Map([name |-> Text(d.name), value |-> d.value, operator |-> Nth("ValueOperator", d.operator)])

\* Mutant of PackEventDescriptor.
PackEventDescriptor_WithoutParams(d) ==
    Map([eventTypeId |-> Uuid(d.eventTypeId), deviceId |-> Uuid(d.deviceId)])

PackEventDescriptor(d) ==
    Map([eventTypeId |-> Uuid(d.eventTypeId), deviceId |-> Uuid(d.deviceId),
         paramDescriptors |-> ListOf(PackParamDescriptor, d.paramDescriptors)])

\* Either the value or the event.
PackRuleActionParam(p) ==
    Map(IF p.eventTypeId # ""
        THEN [name |-> Text(p.name), eventTypeId |-> Uuid(p.eventTypeId),
              eventParamName |-> Text(p.eventParamName)]
        ELSE [name |-> Text(p.name), value |-> p.value])

PackRuleAction(a) ==
    Map([actionTypeId |-> Uuid(a.actionTypeId), deviceId |-> Uuid(a.deviceId),
         ruleActionParams |-> ListOf(PackRuleActionParam, a.ruleActionParams)])

PackStateDescriptor(d) ==
    Map([stateTypeId |-> Text(d.stateTypeId), deviceId |-> Text(d.deviceId),
         value |-> d.value, operator |-> Nth("ValueOperator", d.operator)])

RECURSIVE PackStateEvaluator(_)

PackStateEvaluator(e) ==
    LET base == [operator |-> Nth("StateOperator", e.operator)]
        described == IF DescriptorIsValid(e.stateDescriptor)
                     THEN With(base, "stateDescriptor", PackStateDescriptor(e.stateDescriptor))
                     ELSE base
    IN  Map(IF e.childEvaluators # <<>>
            THEN With(described, "childEvaluators", ListOf(PackStateEvaluator, e.childEvaluators))
            ELSE described)

PackRule(r) ==
    Map([id |-> Uuid(r.id), name |-> Text(r.name), enabled |-> Flag(r.enabled),
         active |-> Flag(r.active), executable |-> Flag(r.executable),
         eventDescriptors |-> ListOf(PackEventDescriptor, r.eventDescriptors),
         actions |-> ListOf(PackRuleAction, r.actions),
         exitActions |-> ListOf(PackRuleAction, r.exitActions),
         stateEvaluator |-> PackStateEvaluator(r.stateEvaluator)])

PackRuleDescription(r) ==
    Map([id |-> Uuid(r.id), name |-> Text(r.name), enabled |-> Flag(r.enabled),
         active |-> Flag(r.active), executable |-> Flag(r.executable)])

\* Whether packRule() only takes names that exist: the operators that are packed are
\* not those that indexOf() did not find.
RECURSIVE EvaluatorPackable(_)
EvaluatorPackable(e) ==
    /\ e.operator >= 0
    /\ DescriptorIsValid(e.stateDescriptor) => e.stateDescriptor.operator >= 0
    /\ \A i \in DOMAIN e.childEvaluators : EvaluatorPackable(e.childEvaluators[i])

Packable(r) ==
    /\ \A i \in DOMAIN r.eventDescriptors :
        LET params == r.eventDescriptors[i].paramDescriptors IN
        \A j \in DOMAIN params : params[j].operator >= 0
    /\ EvaluatorPackable(r.stateEvaluator)

-----------------------------------------------------------------------------
(* Checks *)

\* QVariant::canConvert() and convert(): a text is any flag, but a number only if it
\* reads as one.
ConvertsTo(value, type) ==
    IF type = "Int"
    THEN TypeOf(value) \in {"Bool", "Int", "Double"} \/ AsText(value) \in Numerals
    ELSE TypeOf(value) \in {"Bool", "Int", "Double", "String"}

\* The checks isValid() makes on the descriptor.  Only a copy of the value is converted:
\* bounds and possible values are compared with the value as it was sent, texts with a
\* bound as texts.
DescriptorAccepted(d) ==
    /\ <<d.deviceId, d.stateTypeId>> \in DOMAIN StateTypes
    /\ LET stateType == StateTypes[<<d.deviceId, d.stateTypeId>>] IN
          ConvertsTo(d.value, stateType.type) /\ d.value \notin stateType.excluded

\* StateEvaluator::isValid()
RECURSIVE EvaluatorIsValid(_)
EvaluatorIsValid(e) ==
    LET d == e.stateDescriptor
        children == e.childEvaluators
    IN  /\ DescriptorIsValid(d) => DescriptorAccepted(d)
        /\ IF e.operator = 1
           THEN \E i \in DOMAIN children : EvaluatorIsValid(children[i])
           ELSE \A i \in DOMAIN children : EvaluatorIsValid(children[i])

\* verifyRuleConsistency()
RuleConsistent(params) ==
    /\ ~({"eventDescriptor", "eventDescriptorList"} \subseteq DOMAIN params)
    /\ "exitActions" \in DOMAIN params =>
           DOMAIN params \cap {"eventDescriptor", "eventDescriptorList"} = {}
    /\ AsList(At(params, "actions")) # <<>>

\* verifyEventDescriptors()
EventDescriptors(params) ==
    IF "eventDescriptor" \in DOMAIN params
    THEN <<UnpackEventDescriptor(AsMap(params["eventDescriptor"]))>>
    ELSE ForAll(UnpackEventDescriptor, At(params, "eventDescriptorList"))

\* RuleActionParam::isValid()
ParamIsValid(p) ==
    p.name # "" /\ (IF IsValid(p.value) THEN p.eventTypeId = "" /\ p.eventParamName = ""
                    ELSE p.eventTypeId # "" /\ p.eventParamName # "")

IsEventBased(action) ==
    \E i \in DOMAIN action.ruleActionParams : action.ruleActionParams[i].eventTypeId # ""

\* getEventParamType(), getActionParamType(): Invalid when there is none
ParamType(types, id, name) ==
    IF id \in DOMAIN types /\ name \in DOMAIN types[id] THEN types[id][name] ELSE "Invalid"

\* verifyActions()
ActionsVerified(actions, events) ==
    \A i \in DOMAIN actions : \A j \in DOMAIN actions[i].ruleActionParams :
        LET p == actions[i].ruleActionParams[j] IN
        /\ ParamIsValid(p)
        /\ p.eventTypeId # "" =>
              /\ \E k \in DOMAIN events : events[k].eventTypeId = p.eventTypeId
              /\ ParamType(EventParamTypes, p.eventTypeId, p.eventParamName)
                 = ParamType(ActionParamTypes, actions[i].actionTypeId, p.name)

\* RuleEngine::addRule(); params that are missing have defaults, of values only that
\* there is one is asked.
EngineAccepts(events, actions, exitActions) ==
    LET complete(action) ==
            \A j \in DOMAIN action.ruleActionParams :
                LET p == action.ruleActionParams[j] IN
                p.name \in DOMAIN ActionParamTypes[action.actionTypeId] /\ IsValid(p.value)
        known(action) ==
            action.deviceId \in Devices /\ action.actionTypeId \in DOMAIN ActionParamTypes
    IN  /\ \A i \in DOMAIN events :
               events[i].deviceId \in Devices /\ events[i].eventTypeId \in DOMAIN EventParamTypes
        /\ \A i \in DOMAIN actions :
               known(actions[i]) /\ (IsEventBased(actions[i]) \/ complete(actions[i]))
        /\ \A i \in DOMAIN exitActions : known(exitActions[i]) /\ complete(exitActions[i])

\* What AddRule and EditRule make of their params, NoRule when they refuse them.
\* Exit actions are asked whether they are event based before they have params:
\* verifyExitActions() refuses none.
Verified(params) ==
    LET events == EventDescriptors(params)
        evaluator == UnpackStateEvaluator(AsMap(At(params, "stateEvaluator")))
        actions == ForAll(UnpackRuleAction, At(params, "actions"))
        exitActions == ForAll(UnpackRuleAction, At(params, "exitActions"))
        flag(key) == key \in DOMAIN params => params[key] = Flag(TRUE)
    IN  IF /\ RuleConsistent(params)
           /\ EvaluatorIsValid(evaluator)
           /\ ActionsVerified(actions, events)
           /\ EngineAccepts(events, actions, exitActions)
        THEN [id |-> RuleId, name |-> AsText(At(params, "name")),
              enabled |-> flag("enabled"), executable |-> flag("executable"), active |-> FALSE,
              eventDescriptors |-> events, stateEvaluator |-> evaluator,
              actions |-> actions, exitActions |-> exitActions]
        ELSE NoRule

-----------------------------------------------------------------------------
(* Calls *)

AddRuleTemplate == MapWith(
    [name |-> Basic("String"), actions |-> ListWith(Ref("RuleAction"))],
    [eventDescriptor |-> Ref("EventDescriptor"),
     eventDescriptorList |-> ListWith(Ref("EventDescriptor")),
     stateEvaluator |-> Ref("StateEvaluator"),
     exitActions |-> ListWith(Ref("RuleAction")),
     enabled |-> Basic("Bool"), executable |-> Basic("Bool")])

EditRuleTemplate ==
    <<"map", With(AddRuleTemplate[2], "ruleId", Basic("Uuid")), AddRuleTemplate[3]>>

JsonRulesInit ==
    /\ rule = NoRule
    /\ via \in {"rpc", "rest"}
    /\ details = Invalid
    /\ phase = "idle"

\* AddRule of the RulesHandler or addRule() of the RulesResource, and the
\* notification RuleAdded, which packs the rule
AddRule(params) ==
    /\ phase = "idle"
    /\ via = "rpc" => ValidateMap(AddRuleTemplate, Map(params))
    /\ rule' = Verified(params)
    /\ phase' = IF rule' = NoRule THEN "refused"
                ELSE IF Packable(rule') THEN "added" ELSE "undefined"
    /\ UNCHANGED <<via, details>>

RefuseParams(params) ==
    /\ phase = "idle"
    /\ via = "rpc" /\ ~ValidateMap(AddRuleTemplate, Map(params))
    /\ phase' = "refused"
    /\ UNCHANGED <<rule, via, details>>

\* What a value is when it arrives: ids are strings.
RECURSIVE Sent(_)
Sent(value) ==
    CASE TypeOf(value) = "Map" -> Map([key \in DOMAIN value[2] |-> Sent(value[2][key])])
      [] TypeOf(value) = "List" -> List([i \in DOMAIN value[2] |-> Sent(value[2][i])])
      [] TypeOf(value) = "Uuid" -> Text(value[2])
      [] OTHER -> value

GetRuleDetails ==
    /\ phase = "added"
    /\ details' = Sent(PackRule(rule))
    /\ phase' = "shown"
    /\ UNCHANGED <<rule, via>>

\* A client that sends what it was shown: without events there is no list of them,
\* with events there are no exit actions.
Returned ==
    LET map == AsMap(details)
        events == AsList(map["eventDescriptors"]) # <<>>
        common == [name |-> map["name"], actions |-> map["actions"],
                   stateEvaluator |-> map["stateEvaluator"],
                   enabled |-> map["enabled"], executable |-> map["executable"]]
    IN  IF events THEN With(common, "eventDescriptorList", map["eventDescriptors"])
        ELSE With(common, "exitActions", map["exitActions"])

\* EditRule of the RulesHandler; editRule() of the RulesResource does not look for
\* "executable".
EditRule ==
    /\ phase = "shown"
    /\ LET params == IF via = "rpc" THEN With(Returned, "ruleId", Text(RuleId)) ELSE Returned
           accepted == /\ via = "rpc" => ValidateMap(EditRuleTemplate, Map(params))
                       /\ Verified(params) # NoRule
       IN  /\ phase' = IF accepted THEN "edited" ELSE "refused"
           /\ rule' = IF ~accepted THEN rule
                      ELSE IF via = "rpc" THEN Verified(params)
                      ELSE [Verified(params) EXCEPT !.executable = TRUE]
    /\ UNCHANGED <<via, details>>

JsonRulesNext ==
    \/ \E params \in RuleParams : AddRule(params) \/ RefuseParams(params)
    \/ GetRuleDetails
    \/ EditRule

-----------------------------------------------------------------------------
(* Properties *)

\* State descriptors that say nothing are not sent, their parts get lost.
RECURSIVE Meant(_)
Meant(e) ==
    [stateDescriptor |-> IF DescriptorIsValid(e.stateDescriptor) THEN e.stateDescriptor
                         ELSE UnpackStateDescriptor(Empty),
     operator |-> e.operator,
     childEvaluators |-> [i \in DOMAIN e.childEvaluators |-> Meant(e.childEvaluators[i])]]

\* Params of exit actions are not checked: those with an event beside a value come
\* back without the value.
ExitParamsValid(r) ==
    \A i \in DOMAIN r.exitActions : \A j \in DOMAIN r.exitActions[i].ruleActionParams :
        ParamIsValid(r.exitActions[i].ruleActionParams[j])

\* What GetRuleDetails says of a rule is the rule: sent back as it is, it is
\* accepted and changes nothing (JsonTypes::packRule against unpack...() and
\* verify...()).  REST makes the rule executable.
RuleEcho ==
    [][phase = "shown" /\ phase' # "shown" /\ ExitParamsValid(rule)
       => /\ phase' = "edited"
          /\ rule' = [rule EXCEPT !.stateEvaluator = Meant(@),
                                  !.executable = @ \/ via = "rest"]]_<<rule, via, details, phase>>

\* What JSON-RPC checks protects the lists of names: a rule that came through it
\* can be packed, and what is packed is what a reader of its description expects.
RulesPackable ==
    /\ phase = "undefined" => via = "rest"
    /\ rule # NoRule /\ phase # "undefined" =>
           /\ Fits(Described, Ref("Rule"), PackRule(rule))
           /\ Fits(Described, Ref("RuleDescription"), PackRuleDescription(rule))

\* "got exitAction with a param value containing an eventTypeId!" is an error.
ExitActionsWithoutEvents ==
    rule # NoRule => \A i \in DOMAIN rule.exitActions : ~IsEventBased(rule.exitActions[i])
=============================================================================
