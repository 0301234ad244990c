------------------------------ MODULE MCGuhCore ------------------------------
(* The instance of GuhCore that TLC checks: a bridge, a lamp that is its   *)
(* child, a sensor, two rules.  Actions set states at once, as plugins do. *)
EXTENDS GuhCore, TLC

CONSTANTS Bridge, Lamp, Sensor

MCRuleIds == 1..2
MCDeviceIds == {Bridge, Lamp, Sensor}
MCParentOf == (Bridge :> NoDevice) @@ (Lamp :> Bridge) @@ (Sensor :> NoDevice)
MCValues == 0..1
MCStateTypesOf == (Bridge :> {}) @@ (Lamp :> {"power"}) @@ (Sensor :> {"lit"})
MCEventTypesOf == (Bridge :> {"found"}) @@ (Lamp :> {"power"}) @@ (Sensor :> {"lit"})
MCActionTypesOf == (Bridge :> {"search"}) @@ (Lamp :> {"on", "off"}) @@ (Sensor :> {"light", "dim"})
MCLegalValues == [s \in {"lit", "power"} |-> MCValues]
Sets(s, v) == {<<[type |-> s, value |-> v]>>}
MCEffectsOf ==
    ("on" :> Sets("power", 1)) @@ ("off" :> Sets("power", 0))
        @@ ("light" :> Sets("lit", 1)) @@ ("dim" :> Sets("lit", 0))
        @@ ("search" :> Sets("found", 0))

Is(d, s) ==
    (<<>> :> [descriptor |-> [device |-> d, stateType |-> s, operator |-> "Equals", value |-> 1,
                              asText |-> FALSE],
              operator   |-> "And"])
Always == (<<>> :> [descriptor |-> NoDescriptor, operator |-> "And"])

Do(d, a) == [device |-> d, type |-> a, fromEvent |-> NoEvent]
DoWith(d, a, e) == [device |-> d, type |-> a, fromEvent |-> e]

\* While the sensor is lit.  It names the lamp in the exit actions only.
LampFollows ==
    [events |-> {}, evaluator |-> Is(Sensor, "lit"), actions |-> <<Do(Sensor, "light")>>,
     exitActions |-> <<Do(Lamp, "off")>>, enabled |-> TRUE, executable |-> TRUE]

\* Whenever the power of the lamp changes, the lamp is switched on, after the
\* sensor has been lit.
KeepOn ==
    [events |-> {[device |-> Lamp, type |-> "power"]},
     evaluator |-> Always,
     actions |-> <<DoWith(Lamp, "on", "power"), Do(Sensor, "light")>>,
     exitActions |-> <<>>, enabled |-> TRUE, executable |-> TRUE]

\* While the lamp is on: one rule switches it off, the other lights the sensor.
OffAgain ==
    [events |-> {}, evaluator |-> Is(Lamp, "power"), actions |-> <<Do(Lamp, "off")>>,
     exitActions |-> <<>>, enabled |-> TRUE, executable |-> TRUE]
SensorFollows ==
    [events |-> {}, evaluator |-> Is(Lamp, "power"), actions |-> <<Do(Sensor, "light")>>,
     exitActions |-> <<Do(Sensor, "dim")>>, enabled |-> TRUE, executable |-> TRUE]

\* Rules that do not undo each other.
MCConfigs == {LampFollows, KeepOn}

\* A rule that undoes what makes it and the other active.
MCUndoingConfigs == {OffAgain, SensorFollows}
=============================================================================
