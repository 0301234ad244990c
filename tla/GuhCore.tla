------------------------------ MODULE GuhCore ------------------------------
(***************************************************************************)
(* GuhCore (server/guhcore.cpp): what happens between an event and the end *)
(* of the actions it causes, and the removal of a device together with its *)
(* children and with what the rules say about them.                        *)
(*                                                                         *)
(* Everything runs in the thread of the event loop, but not in one step: a *)
(* plugin that executes an action may set a state before it returns, and   *)
(* the signal leads to the next gotEvent() inside the first.  The calls in *)
(* progress are a stack.  A removal writes the settings after each of its  *)
(* steps, and the process may die between two of them.                     *)
(***************************************************************************)
EXTENDS RuleEngine

CONSTANTS
    ParentOf,       \* device -> its parent, NoDevice for a root device
    EffectsOf,      \* action type -> what a plugin may signal when executing it
    MaxDepth        \* bound on the calls in progress, above what runs reach

ASSUME ParentAssumption ==
    /\ ParentOf \in [DeviceIds -> DeviceIds \cup {NoDevice}]
    /\ \A d \in DeviceIds : ParentOf[d] # d

\* Plugins give children to root devices only; the core does not check it.
ParentsAreRoots ==
    \A d \in DeviceIds : ParentOf[d] # NoDevice => ParentOf[ParentOf[d]] = NoDevice

\* What a plugin signals about the device it serves: setStateValue() for a
\* type among the device's state types, emitEvent() for any other.
Signal == [type : EventTypes, value : Values]

ASSUME EffectsAssumption == EffectsOf \in [ActionTypes -> SUBSET Seq(Signal)]

VARIABLES
    stack,          \* calls in progress, the innermost first
    removal         \* the removeConfiguredDevice() in progress

coreVars == <<vars, stack, removal>>

NoRemoval == [root |-> NoDevice, devices |-> {}, policy |-> <<>>, left |-> <<>>]

RemovePolicies == {"Cascade", "Update"}

\* The event loop is free: no handler and no timer runs before.
Idle == stack = <<>> /\ removal = NoRemoval

-----------------------------------------------------------------------------
(* gotEvent() and executeRuleActions().                                    *)

Causes == {"enters", "leaves", "event", "client"}

\* An action due: with its rule, what made it due, and its place in the list.
Entry == [rule : RuleIds, cause : Causes, at : Nat, action : RuleAction]

Due(id, list, cause) ==
    {[rule |-> id, cause |-> cause, at |-> k, action |-> list[k]] : k \in DOMAIN list}

\* The rules that are based on events and fire.
Triggered(event, now) ==
    {id \in DOMAIN m_rules :
        /\ ~StateBased(m_rules[id].config)
        /\ Concerns(m_rules[id].config, event)
        /\ Evaluate(m_rules[id].config.evaluator, now)}

\* What gotEvent() makes due; the exit actions of a rule that leaves.
DueFor(event, now) ==
    UNION ({Due(id, m_rules[id].config.actions, "event") : id \in Triggered(event, now)}
           \cup {Due(id, m_rules[id].config.actions, "enters") : id \in Entering(event, now)}
           \cup {Due(id, m_rules[id].config.exitActions, "leaves") : id \in Leaving(event, now)})

\* gotEvent() goes through the rules in their order and puts the actions that
\* take a value of the event after all others.
TakesValue(e) == e.cause = "event" /\ EventBased(e.action)
Rank(id) == CHOOSE i \in DOMAIN m_ruleIds : m_ruleIds[i] = id

Before(x, y) ==
    IF TakesValue(x) # TakesValue(y) THEN TakesValue(y)
    ELSE IF x.rule # y.rule THEN Rank(x.rule) < Rank(y.rule)
    ELSE x.at < y.at

\* The entries in that order: a set of one list.
Lists(entries) ==
    {list \in [1..Cardinality(entries) -> entries] :
        \A i, j \in DOMAIN list : i < j => Before(list[i], list[j])}

\* A call that runs a list of entries, after the plugin it is in has sent the
\* signals of device.
Frame(device, signals, run) == [device |-> device, signals |-> signals, run |-> run]

\* executeRuleActions() of an empty list returns at once.
Calling(run, calls) ==
    IF run = <<>> THEN calls ELSE <<Frame(NoDevice, <<>>, run)>> \o calls

\* The innermost call after its plugin has sent the first signal.
Signalled == [stack EXCEPT ![1].signals = Tail(@)]

\* Mutant of SetStateValue: the signal is sent for a value the state already has.
SetStateValue_AlwaysEmits(d, s, v) ==
    LET event == [device |-> d, type |-> s]
    IN  /\ s \in StateTypesOf[d]
        /\ states' = [states EXCEPT ![d][s] = v]
        /\ EvaluateEvent(event, states')
        /\ \E run \in Lists(DueFor(event, states')) : stack' = Calling(run, Signalled)

\* setStateValue() and, for a new value, the slots up to gotEvent().
SetStateValue(d, s, v) ==
    LET event == [device |-> d, type |-> s]
    IN  /\ s \in StateTypesOf[d]
        /\ IF states[d][s] = v
           THEN stack' = Signalled /\ UNCHANGED vars
           ELSE /\ StateChange(d, s, v)
                /\ \E run \in Lists(DueFor(event, states')) : stack' = Calling(run, Signalled)

\* emitEvent() up to gotEvent().
EmitEvent(d, e) ==
    /\ DeviceEvent(d, e)
    /\ \E run \in Lists(DueFor([device |-> d, type |-> e], states)) :
            stack' = Calling(run, Signalled)

\* The plugin sends its next signal.
PluginSignals ==
    /\ stack # <<>> /\ Len(stack) < MaxDepth
    /\ stack[1].signals # <<>>
    /\ LET d == stack[1].device
           signal == Head(stack[1].signals)
       IN  SetStateValue(d, signal.type, signal.value) \/ EmitEvent(d, signal.type)
    /\ UNCHANGED removal

\* What a plugin may signal about its device during an action: something the
\* device's class has, or nothing.
Effects(d, actionType) ==
    {signals \in EffectsOf[actionType] :
        \A i \in DOMAIN signals : signals[i].type \in EventTypesOf[d]} \cup {<<>>}

\* executeAction() of the next entry: the plugin is entered.  A device that is
\* not there, like an error of the plugin, is logged and the list goes on.
ExecuteNext ==
    /\ stack # <<>>
    /\ stack[1].signals = <<>> /\ stack[1].run # <<>>
    /\ LET action == Head(stack[1].run).action
           rest == Tail(stack[1].run)
       IN  IF action.device \in Configured
           THEN \E signals \in Effects(action.device, action.type) :
                    stack' = [stack EXCEPT ![1] = Frame(action.device, signals, rest)]
           ELSE stack' = [stack EXCEPT ![1].run = rest]
    /\ UNCHANGED <<vars, removal>>

\* The innermost call has run its list and returns.
ReturnFromCall ==
    /\ stack # <<>>
    /\ stack[1].signals = <<>> /\ stack[1].run = <<>>
    /\ stack' = Tail(stack)
    /\ UNCHANGED <<vars, removal>>

Dispatch == PluginSignals \/ ExecuteNext \/ ReturnFromCall

\* A plugin of a configured device is called from the event loop, by a timer
\* or by its hardware, and signals something.
PluginCalled(d, signal) ==
    /\ Idle
    /\ d \in Configured
    /\ signal.type \in EventTypesOf[d]
    /\ stack' = <<Frame(d, <<signal>>, <<>>)>>
    /\ UNCHANGED <<vars, removal>>

\* RuleEngine::executeActions() and executeExitActions(), for a client.
ExecuteActions(id) ==
    /\ Idle
    /\ id \in DOMAIN m_rules
    /\ LET c == m_rules[id].config
       IN  /\ c.executable
           /\ \A i \in DOMAIN c.actions : ~EventBased(c.actions[i])
           /\ \E run \in Lists(Due(id, c.actions, "client")) : stack' = Calling(run, <<>>)
    /\ UNCHANGED <<vars, removal>>

ExecuteExitActions(id) ==
    /\ Idle
    /\ id \in DOMAIN m_rules
    /\ m_rules[id].config.executable
    /\ DOMAIN m_rules[id].config.exitActions # {}
    /\ \E run \in Lists(Due(id, m_rules[id].config.exitActions, "client")) :
            stack' = Calling(run, <<>>)
    /\ UNCHANGED <<vars, removal>>

-----------------------------------------------------------------------------
(* removeConfiguredDevice().                                               *)

\* findChildDevices(): the children, not the children's children.
FindChildDevices(d) == {c \in Configured : ParentOf[c] = d}

\* Mutant of OffendingRules: the rules of the children are not looked for.
OffendingRules_RootOnly(root, devices) == FindRules(root)

OffendingRules(root, devices) == UNION {FindRules(d) : d \in devices}

\* Mutant of ToBeChanged: every rule of the policy list is dealt with.
ToBeChanged_Listed(offending, policies) ==
    Restrict(policies, DOMAIN policies \cap DOMAIN m_rules)

\* The rules of the policy list that offend.
ToBeChanged(offending, policies) == Restrict(policies, offending)

\* A device that is not there, a child and a rule without a policy are
\* refused.  One policy for all rules is a list that names every rule.
BeginRemoval(root, policies) ==
    LET devices == {root} \cup FindChildDevices(root)
        offending == OffendingRules(root, devices)
        policy == ToBeChanged(offending, policies)
    IN  /\ Idle
        /\ root \in Configured
        /\ ParentOf[root] = NoDevice
        /\ offending \subseteq DOMAIN policies
        /\ removal' = [root |-> root, devices |-> devices, policy |-> policy,
                       left |-> [id \in DOMAIN policy |-> devices]]
        /\ UNCHANGED <<vars, stack>>

\* A rule is dealt with to its end before the next one.
Current(id) ==
    /\ id \in DOMAIN removal.policy
    /\ \A other \in DOMAIN removal.policy :
            removal.left[other] # removal.devices => other = id

\* Nothing is left to do for the rule.
Settled(id) ==
    [removal EXCEPT !.policy = Without(@, id), !.left = Without(@, id)]

RemovalCascades(id) ==
    /\ Current(id)
    /\ removal.policy[id] = "Cascade"
    /\ RemoveRule(id)
    /\ removal' = Settled(id)
    /\ UNCHANGED stack

\* The root is taken out of the rule first, then each child.
RemovalUpdates(id, d) ==
    /\ Current(id)
    /\ removal.policy[id] = "Update"
    /\ d \in removal.left[id]
    /\ removal.root \in removal.left[id] => d = removal.root
    /\ RemoveDeviceFromRule(id, d)
    /\ removal' = IF removal.left[id] = {d} THEN Settled(id)
                  ELSE [removal EXCEPT !.left[id] = @ \ {d}]
    /\ UNCHANGED stack

\* DeviceManager::removeConfiguredDevice(), which takes the device out of the
\* settings too.
TakeDevice(d) ==
    /\ states' = Without(states, d)
    /\ UNCHANGED <<engineVars, stack>>

RemovalTakesChild(d) ==
    /\ removal # NoRemoval
    /\ DOMAIN removal.policy = {}
    /\ d \in (removal.devices \ {removal.root}) \cap Configured
    /\ TakeDevice(d)
    /\ UNCHANGED removal

\* Mutant of RemovalTakesRoot: the root goes first, the children after it.
RemovalTakesRoot_First ==
    /\ removal # NoRemoval
    /\ DOMAIN removal.policy = {}
    /\ removal.root \in Configured \/ removal.devices \cap Configured = {}
    /\ TakeDevice(removal.root)
    /\ removal' = IF removal.root \in Configured THEN removal ELSE NoRemoval

RemovalTakesRoot ==
    /\ removal # NoRemoval
    /\ DOMAIN removal.policy = {}
    /\ removal.devices \cap Configured = {removal.root}
    /\ TakeDevice(removal.root)
    /\ removal' = NoRemoval

RemovalStep ==
    \/ \E id \in RuleIds : RemovalCascades(id)
    \/ \E id \in RuleIds, d \in DeviceIds : RemovalUpdates(id, d)
    \/ \E d \in DeviceIds : RemovalTakesChild(d)
    \/ RemovalTakesRoot

-----------------------------------------------------------------------------
(* The process stops, or dies wherever it is, and starts again.            *)

CoreRestart ==
    /\ Restart
    /\ stack' = <<>> /\ removal' = NoRemoval

\* The handlers that only the rule engine serves.
ClientAction ==
    /\ Idle
    /\ \/ \E id \in RuleIds, c \in Configs :
                AddRule(id, c) \/ EditRule(id, c) \/ EditRuleFails(id, c)
       \/ \E id \in RuleIds : RemoveRule(id) \/ EnableRule(id) \/ DisableRule(id)
    /\ UNCHANGED <<stack, removal>>

Policies == UNION {[ids -> RemovePolicies] : ids \in SUBSET RuleIds}

CoreInit == Init /\ stack = <<>> /\ removal = NoRemoval

CoreNext ==
    \/ Dispatch
    \/ RemovalStep
    \/ \E d \in DeviceIds, signal \in Signal : PluginCalled(d, signal)
    \/ \E id \in RuleIds : ExecuteActions(id) \/ ExecuteExitActions(id)
    \/ \E root \in DeviceIds, policies \in Policies : BeginRemoval(root, policies)
    \/ ClientAction
    \/ CoreRestart

\* A call that is running goes on: the thread does nothing else.
CoreSpec == CoreInit /\ [][CoreNext]_coreVars /\ WF_coreVars(Dispatch)

-----------------------------------------------------------------------------
(* Properties.                                                             *)

Frames ==
    [device : DeviceIds \cup {NoDevice}, signals : Seq(Signal), run : Seq(Entry)]

CoreTypeOK ==
    /\ TypeOK
    /\ stack \in Seq(Frames)
    /\ DOMAIN removal = {"root", "devices", "policy", "left"}
    /\ removal.root \in DeviceIds \cup {NoDevice}
    /\ removal.devices \subseteq DeviceIds
    /\ DOMAIN removal.policy \subseteq DOMAIN m_rules
    /\ \A id \in DOMAIN removal.policy : removal.policy[id] \in RemovePolicies
    /\ DOMAIN removal.left = DOMAIN removal.policy
    /\ \A id \in DOMAIN removal.left : removal.left[id] \subseteq removal.devices

\* What the core makes of the engine is what the engine's own specification
\* allows.  In particular a device leaves only when no rule names it, though
\* the rules are updated one by one and for several devices.
RefinesRuleEngine == Init /\ [][Next]_vars

\* Whatever is still to be executed, however deep the call, is for a device
\* that is there: a removal neither runs under a call nor leaves a rule behind
\* whose actions reach for the device (guhcore.cpp:137).
WaitingActionsReachable ==
    \A i \in DOMAIN stack :
        /\ \A k \in DOMAIN stack[i].run : stack[i].run[k].action.device \in Configured
        /\ stack[i].signals # <<>> => stack[i].device \in Configured

\* A child never outlives its parent, which alone can be removed by a client:
\* not even when the process dies between two steps (guhcore.cpp:208).
ChildrenHaveParents ==
    \A d \in Configured : ParentOf[d] = NoDevice \/ ParentOf[d] \in Configured

\* Nothing is left to a device that is gone: no action that waits, no child.
NothingDangles == WaitingActionsReachable /\ ChildrenHaveParents

\* A removal changes or deletes only rules that name one of its devices, also
\* when the client's policy list names others (guhcore.cpp:176).
OtherRulesSpared ==
    [][RemovalStep =>
        \A id \in DOMAIN m_rules :
            \/ id \in DOMAIN m_rules' /\ m_rules'[id].config = m_rules[id].config
            \/ \E d \in removal.devices : id \in FindRules(d)]_coreVars

\* Whatever the rules make of each other's actions, the calls one event starts
\* come to an end (for rules that do not undo each other's states).
DispatchEnds == stack # <<>> ~> stack = <<>>

\* Documented, and not so: a rule "executes the actions once the rule enters
\* the active state and executes the exitActions once the rule exits the active
\* state" (rule.cpp:76): no action is left to execute after the rule has left.
ActionsFollowActive ==
    \A i \in DOMAIN stack : \A k \in DOMAIN stack[i].run :
        LET entry == stack[i].run[k]
        IN  /\ entry.cause = "enters" => m_rules[entry.rule].active
            /\ entry.cause = "leaves" => ~m_rules[entry.rule].active

=============================================================================
