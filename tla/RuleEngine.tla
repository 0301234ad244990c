----------------------------- MODULE RuleEngine -----------------------------
(***************************************************************************)
(* The rule engine of guh (server/ruleengine.cpp): the rules in memory,    *)
(* the rules in the settings file, the list of rules whose states match,   *)
(* and the operations clients, GuhCore and the device manager call on it.  *)
(* The server is one thread with an event loop, so each operation runs to  *)
(* its end: one action per operation.                                      *)
(***************************************************************************)
EXTENDS StateEvaluator, Functions

CONSTANTS
    RuleIds,        \* rule ids; their order is the string order of the ids
    DeviceIds,      \* devices that were ever configured
    Values,         \* values of a device state
    EventTypesOf,   \* device -> event types of its class, one per state type too
    StateTypesOf,   \* device -> state types of its class
    ActionTypesOf,  \* device -> action types (with parameters that verify)
    NoEvent,        \* the null EventTypeId of an action not based on an event
    Configs         \* the rule configurations clients submit

ASSUME RuleIdsAssumption == RuleIds \subseteq Nat
ASSUME NoDeviceAssumption == NoDevice \notin DeviceIds

EventTypes == UNION {EventTypesOf[d] : d \in DeviceIds}
ActionTypes == UNION {ActionTypesOf[d] : d \in DeviceIds}

EventDescriptor == [device : DeviceIds, type : EventTypes]
RuleAction == [device : DeviceIds, type : ActionTypes, fromEvent : EventTypes \cup {NoEvent}]

StateDescriptors ==
    {NoDescriptor} \cup
        [device : DeviceIds, stateType : EventTypes, operator : ValueOperators, value : Int,
         asText : BOOLEAN]

IsActionList(list) == list \in Seq(RuleAction)

ActionsOn(list, d) == {i \in DOMAIN list : list[i].device = d}

\* The k-th of some positions.
Kth(positions, k) == CHOOSE i \in positions : Cardinality({j \in positions : j <= i}) = k

\* The actions that are not the device's, after takeAt() of the others.
ActionsWithout(list, d) ==
    LET kept == DOMAIN list \ ActionsOn(list, d)
    IN  [k \in 1..Cardinality(kept) |-> list[Kth(kept, k)]]

ConfigFields ==
    {"events", "evaluator", "actions", "exitActions", "enabled", "executable"}

\* What a rule is apart from its active flag, in memory, in the settings file and as a
\* client submits it.
IsConfig(c) ==
    /\ DOMAIN c = ConfigFields
    /\ c.events \subseteq EventDescriptor
    /\ IsEvaluator(c.evaluator, StateDescriptors)
    /\ IsActionList(c.actions)
    /\ IsActionList(c.exitActions)
    /\ c.enabled \in BOOLEAN
    /\ c.executable \in BOOLEAN

ASSUME ConfigsAssumption == \A c \in Configs : IsConfig(c)

-----------------------------------------------------------------------------
VARIABLES
    m_ruleIds,      \* QList<RuleId>: the evaluation order
    m_rules,        \* QHash<RuleId, Rule>: id -> configuration and active flag
    m_activeRules,  \* QList<RuleId>, appended to when absent: a set
    settings,       \* the rules file: id -> what saveRule() wrote
    states          \* configured device -> state type -> value

engineVars == <<m_ruleIds, m_rules, m_activeRules, settings>>
vars == <<engineVars, states>>

Configured == DOMAIN states

\* The states devices may have: each device has the states of its class.
DeviceStates(devices) ==
    {f \in [devices -> UNION {[StateTypesOf[d] -> Values] : d \in devices}] :
        \A d \in devices : DOMAIN f[d] = StateTypesOf[d]}

\* m_rules holds rules as [config, active]: the active flag is not stored.
NewRule(c) == [config |-> c, active |-> FALSE]
With(map, id, x) == [i \in DOMAIN map \cup {id} |-> IF i = id THEN x ELSE map[i]]
Without(map, id) == Restrict(map, DOMAIN map \ {id})

\* m_ruleIds after takeAt(indexOf(id)).
IdsWithout(ids, id) ==
    LET at == CHOOSE i \in DOMAIN ids : ids[i] = id
    IN  [i \in 1..(Len(ids) - 1) |-> IF i < at THEN ids[i] ELSE ids[i + 1]]

EventBased(action) == action.fromEvent # NoEvent

-----------------------------------------------------------------------------
(* saveRule() and what the constructor makes of it.                        *)

WithoutEvents(list) == [i \in DOMAIN list |-> [list[i] EXCEPT !.fromEvent = NoEvent]]

\* Saving into an empty group: of the parameters of exit actions only name and value are
\* written, and values of state descriptors as texts.
Saved(c) == [c EXCEPT !.evaluator = AsTexts(@), !.exitActions = WithoutEvents(@)]

\* The keys of the event are written only for a parameter that has one: saving over a
\* group leaves those of the action that had the group's number before.
SavedActions(before, list) ==
    [i \in DOMAIN list |->
        IF i \in DOMAIN before /\ ~EventBased(list[i])
        THEN [list[i] EXCEPT !.fromEvent = before[i].fromEvent]
        ELSE list[i]]

SavedOver(file, id, c) ==
    IF id \in DOMAIN file
    THEN [Saved(c) EXCEPT !.actions = SavedActions(file[id].actions, @)]
    ELSE Saved(c)

\* The actions are numbered from 0, and childGroups() gives their groups sorted as texts:
\* of more than ten, those from "10" on come between "1" and "2".  Bound: twenty actions.
AtMostTen(list) == Len(list) <= 10
GroupAt(place, count) ==
    CASE place < 2                          -> place
      [] place >= 2 /\ place < count - 8   -> place + 8
      [] OTHER                              -> place - (count - 10)

Reordered(list) == [i \in DOMAIN list |-> list[GroupAt(i - 1, Len(list)) + 1]]
LoadedActions(list) == IF AtMostTen(list) THEN list ELSE Reordered(list)

Loaded(c) == [c EXCEPT !.actions = LoadedActions(@), !.exitActions = LoadedActions(@)]

-----------------------------------------------------------------------------
(* What the JSON-RPC and REST handlers check before they call the engine.  *)

\* verifyRuleConsistency(), verifyActions() and StateEvaluator::isValid().
Submittable(c) ==
    /\ c.events # {} => DOMAIN c.exitActions = {}
    /\ DOMAIN c.actions # {}
    /\ IsValid(c.evaluator, states)
    /\ \A i \in DOMAIN c.actions : EventBased(c.actions[i]) =>
            \E e \in c.events : e.type = c.actions[i].fromEvent

\* The checks of RuleEngine::addRule(): devices exist and have the types.
CanAdd(c) ==
    /\ \A e \in c.events : e.device \in Configured /\ e.type \in EventTypesOf[e.device]
    /\ \A list \in {c.actions, c.exitActions} : \A i \in DOMAIN list :
            /\ list[i].device \in Configured
            /\ list[i].type \in ActionTypesOf[list[i].device]

-----------------------------------------------------------------------------
(* The operations.                                                          *)

\* AddRule of a handler: the id is a fresh one.
AddRule(id, c) ==
    /\ id \notin DOMAIN m_rules
    /\ Submittable(c)
    /\ CanAdd(c)
    /\ m_ruleIds' = Append(m_ruleIds, id)
    /\ m_rules' = With(m_rules, id, NewRule(c))
    /\ settings' = With(settings, id, Saved(c))
    /\ UNCHANGED <<m_activeRules, states>>

\* Mutant of EditRule: an edited rule keeps its active flag.
EditRule_KeepsActive(id, c) ==
    /\ id \in DOMAIN m_rules
    /\ Submittable(c)
    /\ CanAdd(c)
    /\ m_ruleIds' = Append(IdsWithout(m_ruleIds, id), id)
    /\ m_rules' = [m_rules EXCEPT ![id].config = c]
    /\ settings' = With(settings, id, Saved(c))
    /\ UNCHANGED <<m_activeRules, states>>

\* editRule(): removeRule() and addRule() with the same id.  The rule moves to
\* the end of the order and is inactive again; m_activeRules keeps its id.
EditRule(id, c) ==
    /\ id \in DOMAIN m_rules
    /\ Submittable(c)
    /\ CanAdd(c)
    /\ m_ruleIds' = Append(IdsWithout(m_ruleIds, id), id)
    /\ m_rules' = With(m_rules, id, NewRule(c))
    /\ settings' = With(settings, id, Saved(c))
    /\ UNCHANGED <<m_activeRules, states>>

\* editRule() whose addRule() fails: the old rule is put back in memory with
\* appendRule(); removeRule() has already deleted it from the settings.
EditRuleFails(id, c) ==
    /\ id \in DOMAIN m_rules
    /\ Submittable(c)
    /\ ~CanAdd(c)
    /\ m_ruleIds' = Append(IdsWithout(m_ruleIds, id), id)
    /\ settings' = Without(settings, id)
    /\ UNCHANGED <<m_rules, m_activeRules, states>>

\* Mutant of RemoveRule: the rule's group stays in the settings file.
RemoveRule_KeepsSettings(id) ==
    /\ id \in DOMAIN m_rules
    /\ m_ruleIds' = IdsWithout(m_ruleIds, id)
    /\ m_rules' = Without(m_rules, id)
    /\ UNCHANGED <<m_activeRules, settings, states>>

\* removeRule(): m_activeRules keeps the id.
RemoveRule(id) ==
    /\ id \in DOMAIN m_rules
    /\ m_ruleIds' = IdsWithout(m_ruleIds, id)
    /\ m_rules' = Without(m_rules, id)
    /\ settings' = Without(settings, id)
    /\ UNCHANGED <<m_activeRules, states>>

\* Mutant of SetEnabled: the flag changes in memory only.
SetEnabled_NotSaved(id, on) ==
    /\ id \in DOMAIN m_rules
    /\ m_rules' = [m_rules EXCEPT ![id].config.enabled = on]
    /\ UNCHANGED <<m_ruleIds, m_activeRules, settings, states>>

\* enableRule() and disableRule(): set the flag, save the rule over its group.
SetEnabled(id, on) ==
    /\ id \in DOMAIN m_rules
    /\ LET c == [m_rules[id].config EXCEPT !.enabled = on]
       IN  /\ m_rules' = [m_rules EXCEPT ![id].config = c]
           /\ settings' = With(settings, id, SavedOver(settings, id, c))
    /\ UNCHANGED <<m_ruleIds, m_activeRules, states>>

EnableRule(id) == SetEnabled(id, TRUE)
DisableRule(id) == SetEnabled(id, FALSE)

\* The rule removeDeviceFromRule() builds: without the device, and, from the
\* constructor it uses, without exit actions, disabled and not executable.
ConfigWithoutDevice(c, d) ==
    [events      |-> {e \in c.events : e.device # d},
     evaluator   |-> WithoutDevice(c.evaluator, d),
     actions     |-> ActionsWithout(c.actions, d),
     exitActions |-> <<>>,
     enabled     |-> FALSE,
     executable  |-> FALSE]

RemoveDeviceFromRule(id, d) ==
    /\ id \in DOMAIN m_rules
    /\ LET c == ConfigWithoutDevice(m_rules[id].config, d)
       IN  /\ m_rules' = With(m_rules, id, NewRule(c))
           /\ settings' = With(settings, id, Saved(c))
    /\ UNCHANGED <<m_ruleIds, m_activeRules, states>>

\* Mutant of FindRules: events are not looked at.
FindRules_IgnoresEvents(d) ==
    {id \in DOMAIN m_rules :
        LET c == m_rules[id].config
        IN  \/ ContainsDevice(c.evaluator, d)
            \/ ActionsOn(c.actions, d) # {}
            \/ ActionsOn(c.exitActions, d) # {}}

\* findRules(): the rules that mention the device anywhere.
FindRules(d) ==
    {id \in DOMAIN m_rules :
        LET c == m_rules[id].config
        IN  \/ \E e \in c.events : e.device = d
            \/ ContainsDevice(c.evaluator, d)
            \/ ActionsOn(c.actions, d) # {}
            \/ ActionsOn(c.exitActions, d) # {}}

-----------------------------------------------------------------------------
(* evaluateEvent(): each enabled rule is looked at on its own, with the    *)
(* states at the time of the event.                                        *)

StateBased(c) == c.events = {}

\* The rule is one the event makes the engine look at.
Concerns(c, event) ==
    /\ c.enabled
    /\ IF StateBased(c) THEN ContainsState(c.evaluator, event.type)
                        ELSE event \in c.events

Entering(event, now) ==
    {id \in DOMAIN m_rules :
        /\ StateBased(m_rules[id].config)
        /\ Concerns(m_rules[id].config, event)
        /\ Evaluate(m_rules[id].config.evaluator, now)
        /\ id \notin m_activeRules}

Leaving(event, now) ==
    {id \in DOMAIN m_rules :
        /\ StateBased(m_rules[id].config)
        /\ Concerns(m_rules[id].config, event)
        /\ ~Evaluate(m_rules[id].config.evaluator, now)
        /\ id \in m_activeRules}

\* The bookkeeping of evaluateEvent(); now are the states it sees.
EvaluateEvent(event, now) ==
    LET entering == Entering(event, now)
        leaving  == Leaving(event, now)
    IN  /\ m_rules' = [id \in DOMAIN m_rules |->
                        IF id \in entering THEN [m_rules[id] EXCEPT !.active = TRUE]
                        ELSE IF id \in leaving THEN [m_rules[id] EXCEPT !.active = FALSE]
                        ELSE m_rules[id]]
        /\ m_activeRules' = (m_activeRules \cup entering) \ leaving
        /\ UNCHANGED <<m_ruleIds, settings>>

\* A device state takes a new value; the signal reaches evaluateEvent() in
\* the same call, with the state type as event type.
StateChange(d, s, v) ==
    /\ states[d][s] # v
    /\ states' = [states EXCEPT ![d][s] = v]
    /\ EvaluateEvent([device |-> d, type |-> s], states')

\* A plugin emits an event of a configured device.
DeviceEvent(d, e) ==
    /\ e \notin StateTypesOf[d]
    /\ EvaluateEvent([device |-> d, type |-> e], states)
    /\ UNCHANGED states

\* GuhCore takes a device out only after it has dealt with every rule that
\* findRules() names.
DeviceRemoved(d) ==
    /\ FindRules(d) = {}
    /\ states' = Without(states, d)
    /\ UNCHANGED engineVars

\* The constructor loads the rules in the order of the group names; nothing is
\* active, and the plugins give their devices initial states.
LoadFrom(stored) ==
    /\ settings' = stored
    /\ m_activeRules' = {}
    /\ m_rules' = [id \in DOMAIN stored |-> NewRule(Loaded(stored[id]))]
    /\ m_ruleIds' \in {ids \in [1..Cardinality(DOMAIN stored) -> DOMAIN stored] :
                        /\ Range(ids) = DOMAIN stored
                        /\ \A i, j \in DOMAIN ids : i < j => ids[i] < ids[j]}
    /\ states' \in DeviceStates(Configured)

\* The process stops between two operations and starts again.
Restart == LoadFrom(settings)

\* It dies inside editRule(), after removeRule() has synced the settings file
\* and before addRule() saves the new configuration.
CrashInEdit(id) ==
    /\ id \in DOMAIN m_rules
    /\ \E c \in Configs : Submittable(c)
    /\ LoadFrom(Without(settings, id))

Init ==
    /\ m_ruleIds = <<>>
    /\ m_rules = <<>>
    /\ m_activeRules = {}
    /\ settings = <<>>
    /\ states \in DeviceStates(DeviceIds)

Next ==
    \/ \E id \in RuleIds, c \in Configs :
            AddRule(id, c) \/ EditRule(id, c) \/ EditRuleFails(id, c)
    \/ \E id \in RuleIds :
            RemoveRule(id) \/ EnableRule(id) \/ DisableRule(id) \/ CrashInEdit(id)
    \/ \E id \in RuleIds, d \in Configured : RemoveDeviceFromRule(id, d)
    \/ \E d \in Configured : \E s \in StateTypesOf[d], v \in Values : StateChange(d, s, v)
    \/ \E d \in Configured : \E e \in EventTypesOf[d] : DeviceEvent(d, e)
    \/ \E d \in Configured : DeviceRemoved(d)
    \/ Restart

Spec == Init /\ [][Next]_vars

-----------------------------------------------------------------------------
(* Properties.                                                              *)

IsRule(r) ==
    /\ DOMAIN r = {"config", "active"}
    /\ IsConfig(r.config)
    /\ r.active \in BOOLEAN

TypeOK ==
    /\ m_ruleIds \in Seq(RuleIds)
    /\ DOMAIN m_rules \subseteq RuleIds
    /\ \A id \in DOMAIN m_rules : IsRule(m_rules[id])
    /\ m_activeRules \subseteq RuleIds
    /\ DOMAIN settings \subseteq RuleIds
    /\ \A id \in DOMAIN settings : IsConfig(settings[id])
    /\ Configured \subseteq DeviceIds
    /\ \A d \in Configured : DOMAIN states[d] = StateTypesOf[d]

\* The evaluation order and the hash of rules name the same rules, each once,
\* through edits, failed edits, removals and restarts: a rule missing from the
\* order would never fire, one listed twice would fire twice.
OrderMatchesRules ==
    /\ \A i, j \in DOMAIN m_ruleIds : m_ruleIds[i] = m_ruleIds[j] => i = j
    /\ Range(m_ruleIds) = DOMAIN m_rules

\* The devices of a rule's event descriptors, actions and exit actions.
ReferencesOf(c) ==
    {e.device : e \in c.events}
        \cup {c.actions[i].device : i \in DOMAIN c.actions}
        \cup {c.exitActions[i].device : i \in DOMAIN c.exitActions}

\* The stored form of a rule is the one that saving c would give.  The order of more than
\* ten actions, and which of them take a value of the event, is not what it was after a
\* start, and enabling the rule then mixes the two orders in the file.
StoredAs(stored, c) ==
    /\ stored.events = c.events
    /\ stored.evaluator = AsTexts(c.evaluator)
    /\ stored.enabled = c.enabled
    /\ stored.executable = c.executable
    /\ ReferencesOf(stored) = ReferencesOf(c)
    /\ Len(stored.actions) = Len(c.actions)
    /\ Len(stored.exitActions) = Len(c.exitActions)
    /\ AtMostTen(c.actions) => stored.actions = c.actions
    /\ AtMostTen(c.exitActions) => stored.exitActions = WithoutEvents(c.exitActions)

\* What the settings file holds is a rule in memory, as saveRule() writes its present
\* configuration: nothing stale waits on disk for the next start.
SettingsMatchRules ==
    \A id \in DOMAIN settings :
        /\ id \in DOMAIN m_rules
        /\ StoredAs(settings[id], m_rules[id].config)

\* The three places that name the rules, the hash, the evaluation order and the settings
\* file, agree, whichever of them an edit that fails or a crash left to the other two.
ListsAndFileAgree == OrderMatchesRules /\ SettingsMatchRules

\* A rule that reports itself active has no event descriptors and is in the
\* list evaluateEvent() consults, so it can still leave.
ActiveRulesCanLeave ==
    \A id \in DOMAIN m_rules : m_rules[id].active =>
        /\ id \in m_activeRules
        /\ StateBased(m_rules[id].config)

\* No event descriptor, action or exit action, in memory or in the settings, names a
\* device that is no longer configured (ruleengine.cpp:580: what findRules() reports is all
\* there is to clean up), and every condition is still one that isValid() accepts: it may
\* name such a device only where it does not depend on it, below an Or.
Sound(c) == ReferencesOf(c) \subseteq Configured /\ IsValid(c.evaluator, states)

ReferencesConfigured ==
    /\ \A id \in DOMAIN m_rules : Sound(m_rules[id].config)
    /\ \A id \in DOMAIN settings : Sound(settings[id])

\* A start brings back only rules that were there when the process stopped, with the
\* events, flags and actions they had: no removed rule returns, no flag is an old one.
\* What it does not bring back is said: exit actions come without the events of their
\* parameters, more than ten actions in another order, and a condition as one on texts,
\* which decides as it did unless it asks for the greater of two values.
Starting == Restart \/ \E id \in DOMAIN m_rules : CrashInEdit(id)

ComesBackAs(old, new) ==
    /\ new.events = old.events
    /\ new.enabled = old.enabled
    /\ new.executable = old.executable
    /\ AtMostTen(old.actions) => new.actions = old.actions
    /\ AtMostTen(old.exitActions) => new.exitActions = WithoutEvents(old.exitActions)
    /\ ~OrdersValues(old.evaluator) =>
            (Evaluate(new.evaluator, states') <=> Evaluate(old.evaluator, states'))

RestartFaithful ==
    [][Starting => \A id \in DOMAIN m_rules' :
        /\ id \in DOMAIN m_rules
        /\ ComesBackAs(m_rules[id].config, m_rules'[id].config)]_vars

\* The engine's idea of whether the rule's states match is right.
InSync(id) ==
    id \in m_activeRules <=> Evaluate(m_rules[id].config.evaluator, states)

\* While a state based rule stays enabled and unedited, the engine misses no
\* transition: once its bookkeeping agrees with the states it agrees after
\* every event, although containsState() decides which rules are looked at.
NoMissedTransition ==
    [][\A id \in DOMAIN m_rules \cap DOMAIN m_rules' :
        /\ m_rules'[id].config = m_rules[id].config
        /\ StateBased(m_rules[id].config)
        /\ m_rules[id].config.enabled
        /\ InSync(id)
        => InSync(id)' \/ Starting]_vars

\* Documented, and not so: editRule() keeps the old rule "in case the add new
\* rule fails" (ruleengine.cpp:394), so every rule survives a restart.
RulesAreSaved == DOMAIN m_rules \subseteq DOMAIN settings

\* Documented, and not so: removeDeviceFromRule() "removes a Device from a
\* Rule" (ruleengine.cpp:621): the rest of the rule stays.
OnlyTheDeviceGoes ==
    [][\A id \in RuleIds, d \in Configured : RemoveDeviceFromRule(id, d) =>
        LET old == m_rules[id].config
            new == m_rules'[id].config
        IN  /\ new.enabled = old.enabled
            /\ new.executable = old.executable
            /\ new.exitActions = ActionsWithout(old.exitActions, d)]_vars

=============================================================================
