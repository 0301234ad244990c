------------------------------ MODULE MCValues ------------------------------
(***************************************************************************)
(* What is computed without waiting, for TLC: a behaviour is one of one of *)
(* the modules, on all inputs of a small set.                              *)
(***************************************************************************)
EXTENDS Conditions, RestResources, PluginLoading, TLC

VARIABLES
    which,
    \* CoapPdu
    pdu, datagram, wanted, phase,
    \* LogFilter
    m_timeFilters, m_lists,
    \* JsonRules
    rule, via, details, progress,
    \* JsonHandlers
    method, outcome, asked, accepted

pduVars == <<pdu, datagram, wanted, phase>>
filterVars == <<m_timeFilters, m_lists>>
ruleVars == <<rule, via, details, progress>>
handlerVars == <<method, outcome, asked, accepted>>
vars == <<which, pduVars, filterVars, ruleVars, handlerVars, restVars, pluginVars, conditionVars>>

-----------------------------------------------------------------------------
(* Messages with options of 1, 12, 13, 14 and 270 bytes, payloads of up to three bytes
   in blocks of two, blocks around 16 and 256 *)

Text(length) == [i \in 1..length |-> 97]
Payloads == {<<>>, <<1, 2>>, <<1, 2, 3>>, <<1, 0>>}

Requests ==
    [lookedUp : BOOLEAN, observe : {"no", "enable", "disable"}, otherPort : BOOLEAN,
     path : {<<>>} \cup {<<Text(n), Text(1)>> : n \in {1, 12, 13, 14}},
     uploads : BOOLEAN, format : {0, 50}, payload : Payloads,
     query : {<<>>} \cup {<<Text(n)>> : n \in {1, 13, 270}},
     next : BOOLEAN, block : {0, 14, 15, 254, 255}, more : BOOLEAN]

\* Only uploads have payloads and formats, only downloads observe.
PossibleRequests ==
    {r \in Requests :
        /\ r.uploads => r.observe = "no"
        /\ ~r.uploads => r.payload = <<>> /\ r.format = 0 /\ ~r.more
        /\ ~r.next => r.block = 0 /\ ~r.more
        /\ r.next => r.observe = "no" /\ r.format = 0 /\ Len(r.payload) < 3 /\ r.path = <<>>
        /\ r.otherPort = r.lookedUp}

Option(number, data) == [number |-> number, data |-> data]

OptionLists ==
    LET tag == {<<>>} \cup {<<Option(4, Text(n))>> : n \in {1, 12, 13}}
        location == {<<>>, <<Option(8, Text(1)), Option(8, Text(2))>>,
                     <<Option(8, <<>>), Option(8, <<>>)>>}
        format == {<<>>, <<Option(12, <<50>>)>>}
        block == {<<>>} \cup {<<Option(n, data)>> : n \in {23, 27},
                              data \in {<<2>>, <<250>>, <<1, 10>>, <<15, 242>>, <<16, 2>>}}
    IN  {a \o b \o c \o d : a \in tag, b \in location, c \in format, d \in block}

PossibleAnswers == [options : OptionLists, payload : {<<>>, <<1, 2>>, <<255, 0, 1>>}]

Pdu == INSTANCE CoapPdu WITH Requests <- PossibleRequests, Answers <- PossibleAnswers,
           BlockSize <- 2

Filter == INSTANCE LogFilter WITH Columns <- <<"sourceType", "deviceId">>,
              Values <- {"1", "2"}, Times <- 1..3, Now <- 2, MaxList <- 2

-----------------------------------------------------------------------------
(* Rules as clients write them: events by one name or by a list, with operators that do
   not exist, children without operators, params with a value, an event or both *)

String(string) == <<"String", string>>
Num(n) == <<"Int", n>>
Bool(b) == <<"Bool", b>>
List(seq) == <<"List", seq>>
Map(function) == <<"Map", function>>
Nothing == [key \in {} |-> 0]

ParamDescriptor(operator) ==
    Map([name |-> String("x"), value |-> Num(1), operator |-> String(operator)])
EventDescriptor(id) == Map([eventTypeId |-> String(id), deviceId |-> String("d1")])
Comparing(operator) ==
    Map(EventDescriptor("e1")[2] @@ [paramDescriptors |-> List(<<ParamDescriptor(operator)>>)])

EventParts ==
    {Nothing, [eventDescriptor |-> EventDescriptor("e1")],
     [eventDescriptor |-> Comparing("ValueOperatorLess")],
     [eventDescriptor |-> Comparing("none")],
     [eventDescriptorList |-> List(<<>>)],
     [eventDescriptorList |-> List(<<EventDescriptor("e1"), EventDescriptor("e2")>>)],
     [eventDescriptor |-> EventDescriptor("e1"), eventDescriptorList |-> List(<<>>)]}

Descriptor(state, value, operator) ==
    Map([stateTypeId |-> String(state), deviceId |-> String("d1"), value |-> value,
         operator |-> String(operator)])
Leaf(descriptor) == Map([stateDescriptor |-> descriptor])
Equals == Leaf(Descriptor("s1", Bool(TRUE), "ValueOperatorEquals"))
Below(value) == Leaf(Descriptor("level", value, "ValueOperatorLess"))
Node(operator, children) ==
    Map([operator |-> String(operator), childEvaluators |-> List(children)])

EvaluatorParts ==
    {Nothing} \cup
    {[stateEvaluator |-> e] : e \in
        {Map(Nothing), Equals,
         Leaf(Descriptor("s1", <<"Invalid", "">>, "ValueOperatorEquals")),
         Leaf(Descriptor("s1", Bool(TRUE), "none")),
         Leaf(Descriptor("s2", Bool(TRUE), "ValueOperatorEquals")),
         Below(Num(12)), Below(String("12")), Below(String("none")),
         Leaf(Map([stateTypeId |-> String("s1"), deviceId |-> String("d1"),
                   value |-> Bool(TRUE)])),
         Map([childEvaluators |-> List(<<Equals>>)]),
         Node("StateOperatorOr", <<Below(Num(12)), Below(Bool(TRUE))>>),
         Node("none", <<Equals, Equals>>)}}

Action(type, params) ==
    Map([actionTypeId |-> String(type), deviceId |-> String("d1"),
         ruleActionParams |-> List(params)])
Valued == [name |-> String("p"), value |-> Num(1)]
Carried(param) ==
    [name |-> String("p"), eventTypeId |-> String("e1"), eventParamName |-> String(param)]
Acts ==
    {Map([actionTypeId |-> String("a1"), deviceId |-> String("d1")]), Action("a1", <<>>),
     Action("a1", <<Map(Valued)>>), Action("a1", <<Map(Carried("x"))>>),
     Action("a1", <<Map(Carried("y"))>>), Action("a1", <<Map(Valued @@ Carried("x"))>>),
     Action("other", <<>>)}

PossibleRules ==
    {name @@ [actions |-> List(actions)] @@ exits @@ events @@ evaluator @@ flags :
        name \in {[name |-> String("n")]},
        actions \in {<<>>} \cup {<<a>> : a \in Acts},
        exits \in {Nothing, [exitActions |-> List(<<>>)]}
                  \cup {[exitActions |-> List(<<a>>)] : a \in
                           {Action("a1", <<Map(Valued)>>), Action("a1", <<Map(Carried("x"))>>),
                            Action("a1", <<Map(Valued @@ Carried("x"))>>)}},
        events \in EventParts, evaluator \in EvaluatorParts,
        flags \in {Nothing, [enabled |-> Bool(FALSE), executable |-> Bool(FALSE)]}}

Rules == INSTANCE JsonRules WITH phase <- progress,
    Ids <- {"e1", "e2", "a1", "d1", "s1", "s2", "level", "r", "other"},
    \* A level is at most 9: as a number 12 is more, as a text it is less.
    StateTypes <- <<"d1", "s1">> :> [type |-> "Bool", excluded |-> {}]
                  @@ <<"d1", "level">> :> [type |-> "Int", excluded |-> {Num(12)}],
    Numerals <- {"12"},
    EventParamTypes <- [e1 |-> [x |-> "Int", y |-> "Bool"], e2 |-> [x |-> "Int"]],
    ActionParamTypes <- [a1 |-> [p |-> "Int"]], RuleParams <- PossibleRules

-----------------------------------------------------------------------------
(* Objects with and without their optional parts *)

Unset == <<"Invalid", "">>
SomeParamTypes ==
    [name : {"n"}, type : {"Int"}, defaultValue : {Unset, Num(1)}, minValue : {Unset, Num(0)},
     maxValue : {Unset, Num(2)}, allowedValues : {<<>>, <<Num(1)>>}, inputType : 0..1,
     unit : 0..1, readOnly : BOOLEAN]
SomeStateTypes ==
    [id : {"s"}, name : {"n"}, type : {"Int"}, defaultValue : {Num(1)}, minValue : {Unset, Num(0)},
     maxValue : {Unset, Num(2)}, possibleValues : {<<>>, <<Num(1)>>}, unit : 0..1]
SomeParams == [name : {"n"}, value : {Unset, Num(1), String("v"), Bool(TRUE)}]
SomeTypes == {[id |-> "t", name |-> "n", paramTypes |-> <<>>]}
UpToOne(set) == {<<>>} \cup {<<x>> : x \in set}
OneStateType == CHOOSE s \in SomeStateTypes : TRUE
OneParamType == CHOOSE p \in SomeParamTypes : TRUE

SomeDeviceClasses ==
    [id : {"c"}, vendorId : {"v"}, pluginId : {"p"}, name : {"n"}, deviceIcon : 0..1,
     basicTags : {<<>>, <<0, 1>>}, paramTypes : UpToOne({OneParamType}),
     discoveryParamTypes : {<<>>}, stateTypes : UpToOne({OneStateType}),
     eventTypes : UpToOne(SomeTypes), actionTypes : UpToOne(SomeTypes),
     createMethods : {<<0>>, <<1, 2>>}, setupMethod : 0..1]
SomeDevices ==
    [id : {"d"}, deviceClassId : {"c"}, name : {"n"}, params : UpToOne(SomeParams),
     states : {<<>>} \cup {<<[id |-> "s", value |-> p.value]>> : p \in SomeParams},
     setupComplete : BOOLEAN, parentId : {"", "d0"}]
SomeLogEntries ==
    [timestamp : {1}, level : 0..1, source : 0..4, eventType : 0..3, active : BOOLEAN,
     errorCode : 0..1, typeId : {"", "t"}, deviceId : {"", "d"}, value : {"", "v"}]

Id(name) == [key \in {name} |-> String("i")]
Policies == [removePolicyList |->
    List(<<Map([ruleId |-> String("r"), policy |-> String("RemovePolicyUpdate")])>>)]
SomeCalls ==
    {<<"Version", Nothing>>, <<"Version", Id("more")>>,
     <<"GetSupportedDevices", Nothing>>, <<"GetSupportedDevices", Id("vendorId")>>,
     <<"SetNotificationStatus", [enabled |-> Bool(TRUE)]>>,
     <<"GetLogEntries", [loggingSources |-> List(<<String("LoggingSourceRules")>>),
                         timeFilters |-> List(<<Map([startDate |-> Num(1)])>>)]>>,
     <<"GetLogEntries", [loggingSources |-> List(<<String("none")>>)]>>,
     <<"RemoveConfiguredDevice", Id("deviceId")>>,
     <<"RemoveConfiguredDevice",
       Id("deviceId") @@ [removePolicy |-> String("RemovePolicyCascade")]>>,
     <<"RemoveConfiguredDevice", Id("deviceId") @@ Policies>>,
     <<"AddConfiguredDevice", Id("deviceClassId")>>,
     <<"AddConfiguredDevice", Id("deviceClassId") @@ Id("name")>>,
     <<"AddConfiguredDevice", Id("deviceClassId") @@ Id("name") @@
         [deviceParams |-> List(<<Map([name |-> String("n"), value |-> Num(1)])>>)]>>,
     <<"ExecuteAction", Id("actionTypeId") @@ Id("deviceId") @@ [params |-> List(<<>>)]>>,
     <<"ExecuteAction", Id("actionTypeId") @@ Id("deviceId") @@ Id("more")>>,
     <<"EditDevice", Id("deviceId") @@ Id("name")>>, <<"EditDevice", Id("deviceId")>>}

Handlers == INSTANCE JsonHandlers WITH data <- outcome,
    \* The id "" stands for the null id.
    Ids <- {"", "c", "d", "d0", "dd", "e", "i", "p", "r", "s", "t", "v"},
    ParamTypes <- SomeParamTypes, StateTypes <- SomeStateTypes, Params <- SomeParams,
    Vendors <- {[id |-> "v", name |-> "n"]}, DeviceClasses <- SomeDeviceClasses,
    Plugins <- {[id |-> "p", name |-> "n", configurationDescription |-> seq] :
                   seq \in UpToOne(SomeParamTypes)},
    Devices <- SomeDevices,
    DeviceDescriptors <- {[id |-> "dd", title |-> "t", description |-> "d"]},
    Events <- {[eventTypeId |-> "e", deviceId |-> "d", params |-> seq] :
                   seq \in UpToOne(SomeParams)},
    LogEntries <- SomeLogEntries, Calls <- SomeCalls

-----------------------------------------------------------------------------
(* Two devices of a class, a rule, a vendor and a plugin; paths with the words and ids
   that a resource knows, ids of nothing and words at every place *)

Tails(resource) ==
    LET first == CASE resource = "devices" -> {"d1", "d2", "pair", "confirmpairing", "x"}
                   [] resource = "rules" -> {"r1", "r2", "u", "x"}
                   [] resource = "deviceclasses" -> {"c1", "c2", "u", "x"}
                   [] resource = "plugins" -> {"p1", "p2", "u", "x"}
                   [] resource = "vendors" -> {"v1", "v2", "u", "x"}
                   [] OTHER -> {"x"}
        second == CASE resource = "devices" -> {"states", "execute", "x"}
                    [] resource = "rules" -> {"enable", "disable", "executeactions",
                                              "executeexitactions", "x"}
                    [] resource = "deviceclasses" -> {"actiontypes", "statetypes",
                                                      "eventtypes", "discover", "x"}
                    [] resource = "plugins" -> {"configuration", "x"}
                    [] OTHER -> {"x"}
        third == CASE resource = "devices" -> {"a1", "s1", "u", "x"}
                   [] resource = "deviceclasses" -> {"a1", "s1", "e1", "u", "x"}
                   [] OTHER -> {"x"}
    IN  {<<>>} \cup {<<a>> : a \in first} \cup {<<a, b>> : a \in first, b \in second}
        \cup {<<a, b, c>> : a \in first, b \in second, c \in third}
        \cup {<<a, b, c, "x">> : a \in first \ {"x"}, b \in second \ {"x"}, c \in third \ {"x"}}

PossibleResources == {"devices", "rules", "deviceclasses", "plugins", "vendors", "logs", "other"}
RequestsOf ==
    [resource \in PossibleResources |->
        {r \in [method : {"GET", "POST", "PUT", "DELETE", "OPTIONS", "other"},
                tokens : {<<"api", "v1", resource>> \o tail : tail \in Tails(resource)}
                         \cup {<<"api", "v1">>},
                query : {"none", "null", "known"},
                payload : {"none", "broken", "params", "deviceClassId", "full"}] :
            /\ r.query # "none" => <<r.method, Len(r.tokens)>> \in {<<"GET", 3>>, <<"DELETE", 4>>}
            /\ r.payload # "none" =>
                  r.method = "POST" \/ (r.method = "PUT" /\ r.payload \in {"broken", "full"})
            /\ r.payload \notin {"none", "full"} => Len(r.tokens) < 5 \/ r.tokens[5] = "execute"
            /\ r.method = "other" => Len(r.tokens) < 5}]

AllRestRequests == UNION {RequestsOf[resource] : resource \in PossibleResources}

AllClassOf == [d1 |-> "c1", d2 |-> "c2"]
AllMembers ==
    [c1 |-> [actiontypes |-> {"a1"}, statetypes |-> {"s1"}, eventtypes |-> {"e1"}],
     c2 |-> [actiontypes |-> {"a2"}, statetypes |-> {}, eventtypes |-> {}]]

-----------------------------------------------------------------------------
(* Two plugins that share a vendor, classes that lack a field before and after others;
   params with and without default, a limit that has more digits than a value, and a
   version without a param that clients have set, or with a narrower limit of it *)

Part(id, complete) == [id |-> id, complete |-> complete]
State(id, writable) == [id |-> id, complete |-> TRUE, writable |-> writable]
SomeClass(id, states, actions, events) ==
    [id |-> id, states |-> states, actions |-> actions, events |-> events]
ParamType(name, default, min, max) ==
    [name |-> name, default |-> default, minValue |-> min, maxValue |-> max]
SomePlugin(id, paramTypes, vendors) ==
    [id |-> id, complete |-> TRUE, paramTypes |-> paramTypes, vendors |-> vendors]

Lamps == SomeClass("lamp", <<State("on", TRUE), State("level", FALSE)>>,
                   <<Part("blink", TRUE)>>, <<Part("fell", TRUE)>>)
Broken == SomeClass("broken", <<>>, <<Part("x", FALSE)>>, <<>>)
Plugs == SomeClass("plug", <<State("on", TRUE)>>, <<>>, <<>>)
Sensors == SomeClass("sensor", <<>>, <<>>, <<Part("moved", TRUE)>>)

FirstTypes == <<ParamType(1, 3, Absent, Absent), ParamType(2, 7, 2, 10)>>
PossibleVersions ==
    {<<SomePlugin("p", FirstTypes, <<[id |-> "v", classes |-> <<Lamps, Broken, Plugs>>],
                                     [id |-> "w", classes |-> <<>>]>>),
       SomePlugin("q", <<>>, <<[id |-> "v", classes |-> <<Sensors>>]>>)>>,
     <<SomePlugin("p", Tail(FirstTypes), <<[id |-> "v", classes |-> <<Lamps, Plugs>>]>>),
       [SomePlugin("q", <<>>, <<>>) EXCEPT !.complete = FALSE]>>,
     <<SomePlugin("p", <<ParamType(1, 3, Absent, 3), ParamType(2, 7, Absent, Absent)>>, <<>>)>>,
     <<SomePlugin("q", <<ParamType(1, Absent, Absent, Absent), ParamType(2, 7, 2, 10)>>,
                  <<[id |-> "v", classes |-> <<Sensors>>]>>)>>}

SentParam(name, value) == [name |-> name, value |-> value, text |-> FALSE]
PossibleConfigurations ==
    {<<>>} \cup {<<SentParam(n, x)>> : n \in {1, 2}, x \in {1, 5, 10}}
    \cup {<<SentParam(1, x), SentParam(2, y)>> : x \in {1, 5}, y \in {10, 11}}

-----------------------------------------------------------------------------
(* Condition trees of up to three nodes over two devices and one that is not configured,
   while the states of the devices change and devices are removed *)

PossibleValues == [power |-> {0, 1}, level |-> {0}]

\* Nobody configured the ghost.
PossibleDescriptors ==
    {NoDescriptor}
    \cup {[device |-> d, stateType |-> "power", operator |-> "Equals", value |-> 1,
            asText |-> FALSE] : d \in TreeDevices \cup {"ghost"}}
    \cup {[device |-> d, stateType |-> "level", operator |-> "Less", value |-> 1,
            asText |-> TRUE] : d \in TreeDevices}

Shapes == {{<<>>}, {<<>>, <<1>>}, {<<>>, <<1>>, <<2>>}, {<<>>, <<1>>, <<1, 1>>}}
PossibleTrees ==
    UNION {[shape -> [descriptor : Descriptors, operator : StateOperators]] : shape \in Shapes}

-----------------------------------------------------------------------------

Init ==
    /\ which \in {"pdu", "filter", "ruleparams", "handlers", "loading", "conditions"}
                 \cup PossibleResources
    /\ Pdu!CoapPduInit
    /\ Filter!LogFilterInit
    /\ Rules!JsonRulesInit
    /\ which # "ruleparams" => via = "rpc"
    /\ Handlers!HandlersInit
    /\ RestResourcesInit
    /\ PluginLoadingInit
    /\ which # "loading" => version = CHOOSE v \in PossibleVersions : TRUE
    /\ IF which = "conditions" THEN ConditionsInit
       ELSE /\ tree = CHOOSE t \in PossibleTrees : TRUE
            /\ deviceStates = [d \in TreeDevices |-> [s \in StateTypeNames |-> 0]]

Next ==
    \/ /\ which = "pdu" /\ Pdu!CoapPduNext
       /\ UNCHANGED <<which, filterVars, ruleVars, handlerVars, restVars, pluginVars,
                      conditionVars>>
    \/ /\ which = "filter" /\ Filter!LogFilterNext
       /\ UNCHANGED <<which, pduVars, ruleVars, handlerVars, restVars, pluginVars,
                      conditionVars>>
    \/ /\ which = "ruleparams" /\ Rules!JsonRulesNext
       /\ UNCHANGED <<which, pduVars, filterVars, handlerVars, restVars, pluginVars,
                      conditionVars>>
    \/ /\ which = "handlers" /\ Handlers!HandlersNext
       /\ UNCHANGED <<which, pduVars, filterVars, ruleVars, restVars, pluginVars,
                      conditionVars>>
    \/ /\ which \in PossibleResources /\ RestResourcesNext(RequestsOf[which])
       /\ UNCHANGED <<which, pduVars, filterVars, ruleVars, handlerVars, pluginVars,
                      conditionVars>>
    \/ /\ which = "loading" /\ PluginLoadingNext
       /\ UNCHANGED <<which, pduVars, filterVars, ruleVars, handlerVars, restVars, conditionVars>>
    \/ /\ which = "conditions" /\ ConditionsNext
       /\ UNCHANGED <<which, pduVars, filterVars, ruleVars, handlerVars, restVars, pluginVars>>

Spec == Init /\ [][Next]_vars

-----------------------------------------------------------------------------

\* A request says what it means to, and an answer is unpacked as it was meant, with the
\* exceptions that CoapPdu names.
PdusUnderstood == Pdu!RequestsUnderstood /\ Pdu!AnswersUnderstood

\* GetLogEntries finds what its description says, with the exceptions that LogFilter names.
FilterSelects == Filter!FilterSelects

\* A rule sent back as it was shown is accepted and stays what it is.
RuleEcho == Rules!RuleEcho

\* The interface is as it describes itself: what handlers return and notify fits, calls
\* are accepted as described, with the exceptions that JsonHandlers names, and a rule
\* that came through JSON-RPC can be packed and fits.
InterfaceAsDescribed ==
    /\ which = "handlers" => Handlers!ReturnsValid /\ Handlers!CallsAccepted
    /\ Rules!RulesPackable

\* Options are in the order of their numbers.
OptionsSorted == Pdu!OptionsSorted

\* A call that is what the description says is accepted.
DescribedCallsAccepted == which = "handlers" => Handlers!DescribedCallsAccepted

\* The actions that a rule executes when it ends carry nothing of an event.
ExitActionsWithoutEvents == Rules!ExitActionsWithoutEvents
=============================================================================
