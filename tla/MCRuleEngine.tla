---------------------------- MODULE MCRuleEngine ----------------------------
(* The instance of RuleEngine that TLC checks: two rules, two devices with *)
(* one state and one event each, and a configuration of either kind.  The  *)
(* states are 9 or 10, which as texts sort the other way round.            *)
EXTENDS RuleEngine, TLC

CONSTANTS Lamp, Sensor

MCRuleIds == 1..2
MCDeviceIds == {Lamp, Sensor}
MCValues == {9, 10}
MCStateTypesOf == [d \in MCDeviceIds |-> {"level"}]
MCEventTypesOf == [d \in MCDeviceIds |-> {"level", "pressed"}]
MCActionTypesOf == [d \in MCDeviceIds |-> {"switch"}]
MCLegalValues == [s \in {"level"} |-> MCValues]

Asks(d, operator) ==
    [descriptor |-> [device |-> d, stateType |-> "level", operator |-> operator, value |-> 10,
                     asText |-> FALSE],
     operator   |-> "And"]

Nothing == [descriptor |-> NoDescriptor, operator |-> "And"]

Always == (<<>> :> Nothing)
LampFullOrSensorNot ==
    (<<>> :> [Nothing EXCEPT !.operator = "Or"])
        @@ (<<1>> :> Asks(Lamp, "Equals")) @@ (<<2>> :> Asks(Sensor, "Less"))

Switch(d) == [device |-> d, type |-> "switch", fromEvent |-> NoEvent]
SwitchFrom(d, e) == [device |-> d, type |-> "switch", fromEvent |-> e]

\* A state based rule on either device.  Of its exit actions one has a value and, as
\* verifyExitActions() lets pass, an event.
WhileEither ==
    [events |-> {}, evaluator |-> LampFullOrSensorNot, actions |-> <<Switch(Sensor)>>,
     exitActions |-> <<Switch(Lamp), SwitchFrom(Sensor, "pressed")>>,
     enabled |-> TRUE, executable |-> TRUE]

\* An event based rule of eighteen actions, of which a start swaps the third to tenth with
\* the others: all but the eleventh take the event's value.
OnPressed ==
    [events |-> {[device |-> Sensor, type |-> "pressed"], [device |-> Lamp, type |-> "level"]},
     evaluator |-> Always,
     actions |-> [i \in 1..18 |-> IF i = 11 THEN Switch(Lamp) ELSE SwitchFrom(Lamp, "pressed")],
     exitActions |-> <<>>, enabled |-> TRUE, executable |-> TRUE]

\* Both pass the handler's checks while Sensor is there; addRule() refuses
\* them once Lamp is gone.
MCConfigs == {WhileEither, OnPressed}
=============================================================================
