----------------------------- MODULE Conditions -----------------------------
(***************************************************************************)
(* A condition of a rule while what it is about changes: the states of the *)
(* devices, the devices that are configured, and the condition itself when *)
(* a device is taken out of it.                                            *)
(***************************************************************************)
EXTENDS StateEvaluator

CONSTANTS
    TreeDevices,    \* the devices that are configured at first
    StateTypeNames, \* the state types each of them has
    StateValues,
    Descriptors,    \* the state descriptors that clients send, of any device
    Trees           \* the conditions that clients send

ASSUME TreesAssumption == \A t \in Trees : IsEvaluator(t, Descriptors)

VARIABLES
    tree,           \* the condition
    deviceStates    \* configured device -> state type -> value

conditionVars == <<tree, deviceStates>>

ConditionsInit ==
    /\ tree \in Trees
    /\ deviceStates \in [TreeDevices -> [StateTypeNames -> StateValues]]

\* Device::setStateValue() of a new value
StateTakes(d, s, v) ==
    /\ deviceStates[d][s] # v
    /\ deviceStates' = [deviceStates EXCEPT ![d][s] = v]
    /\ UNCHANGED tree

\* RuleEngine::removeDeviceFromRule()
RemoveFromTree(d) ==
    /\ ContainsDevice(tree, d)
    /\ tree' = WithoutDevice(tree, d)
    /\ UNCHANGED deviceStates

\* DeviceManager::removeConfiguredDevice(), with the condition as it is: rules whose
\* condition still names the device are there between the steps of a removal.
RemoveConfigured(d) ==
    /\ deviceStates' = [e \in DOMAIN deviceStates \ {d} |-> deviceStates[e]]
    /\ UNCHANGED tree

ConditionsNext ==
    \E d \in DOMAIN deviceStates :
        \/ \E s \in StateTypeNames, v \in StateValues : StateTakes(d, s, v)
        \/ RemoveFromTree(d)
        \/ RemoveConfigured(d)

ConditionsSpec == ConditionsInit /\ [][ConditionsNext]_conditionVars

-----------------------------------------------------------------------------

\* A set of nodes that can stand together: each matches, an And node is there with all
\* its children, an Or node with one of them.
Stand(nodes, t, states) ==
    \A p \in nodes :
        /\ Matches(t[p].descriptor, states)
        /\ t[p].operator = "And" => Children(t, p) \subseteq nodes
        /\ t[p].operator = "Or" => Children(t, p) \cap nodes # {}

\* Some of the nodes justify the root.
Justified(t, states) ==
    \E nodes \in SUBSET DOMAIN t : <<>> \in nodes /\ Stand(nodes, t, states)

Holds == Evaluate(tree, deviceStates)

\* Conditions mean what an And/Or tree means: evaluate() is true exactly when some set
\* of matching nodes justifies the root (stateevaluator.cpp:100).
EvaluateIsJustified == Holds <=> Justified(tree, deviceStates)

\* The search for a state type overlooks no change of a condition, although it ignores
\* the device (ruleengine.cpp:691), and taking a device out of a condition only weakens
\* it (stateevaluator.cpp:150).
ConditionChangesSound ==
    [][ /\ \A s \in StateTypeNames :
             (\E d \in DOMAIN deviceStates, v \in StateValues : StateTakes(d, s, v))
                 /\ ~ContainsState(tree, s)
             => Holds' = Holds
        /\ \A d \in DOMAIN deviceStates : RemoveFromTree(d) /\ Holds => Holds'
      ]_conditionVars
=============================================================================
