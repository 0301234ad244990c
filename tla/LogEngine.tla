----------------------------- MODULE LogEngine -----------------------------
(***************************************************************************)
(* The log: a table of entries that GuhCore writes for events, rules,      *)
(* actions and its own start and stop, that is kept to a size, and from    *)
(* which the entries of removed devices are deleted.  A client follows it  *)
(* by the notifications, which come in order over its connection.          *)
(***************************************************************************)
EXTENDS Integers, FiniteSets, Sequences, Functions

CONSTANTS
    Devices, Root,     \* Root is the parent of the others
    Rules, Acted,      \* the device that the actions of the rules are for
    ActionIds,
    None,
    m_dbMaxSize,
    MaxTime,           \* bound: the clock
    MaxInbox,          \* bounds: nothing happens while more notifications are on their way,
    MaxShown           \* or while the client shows more

ASSUME LogAssumption ==
    /\ IsFiniteSet(Devices)
    /\ Root \in Devices /\ Acted \in Devices
    /\ None \notin Devices
    /\ m_dbMaxSize \in Nat

VARIABLES
    running,           \* the server runs
    now,
    devices, rules,    \* configured
    entries,           \* the table, in the order of the row ids
    executing,         \* action -> the device whose plugin executes it, or None
    m_pendingActions,  \* action -> the device of the action kept until it is done, or None
    early,             \* the actions that were done before they were kept
    connected, inbox,  \* the client's connection, and what is on its way to it
    asked,             \* the client's requests for the entries that wait
    shown              \* what the client shows

coreVars == <<running, now, devices, rules>>
actionVars == <<executing, m_pendingActions, early>>
clientVars == <<connected, asked, shown>>
vars == <<coreVars, entries, actionVars, clientVars, inbox>>

Entry(source, type, device) ==
    [time |-> now, source |-> source, type |-> type, device |-> device]

Updated == [kind |-> "LogDatabaseUpdated"]
Added(entry) == [kind |-> "LogEntryAdded", entry |-> entry]

Init ==
    /\ running = FALSE
    /\ now = 0
    /\ devices = Devices /\ rules = Rules
    /\ entries = <<>>
    /\ executing = [a \in ActionIds |-> None]
    /\ m_pendingActions = [a \in ActionIds |-> None]
    /\ early = {}
    /\ connected = FALSE /\ inbox = <<>> /\ asked = 0 /\ shown = <<>>

-----------------------------------------------------------------------------
(* The table.  What a call does to it is a table and the notifications.     *)

\* Rows of a table in their order
Selections(table) ==
    {rows \in UNION {[1..n -> DOMAIN table] : n \in 0..Len(table)} :
        \A i, j \in DOMAIN rows : i < j => rows[i] < rows[j]}

Kept(table, rows) == [i \in DOMAIN rows |-> table[rows[i]]]

\* The rows that stay: the latest, it is not said which of the same second
Latest(table) ==
    {rows \in Selections(table) :
        /\ Len(rows) = m_dbMaxSize
        /\ \A i \in Range(rows), j \in DOMAIN table \ Range(rows) :
              table[i].time >= table[j].time}

\* Mutant of CheckDBSize.
CheckDBSize_OneMore(log) ==
    IF Len(log.table) <= m_dbMaxSize + 1 THEN {log}
    ELSE {[table |-> Kept(log.table, rows), notes |-> Append(log.notes, Updated)] :
             rows \in Latest(log.table)}

\* checkDBSize(): a table of the maximal size loses nothing, and is announced as changed.
CheckDBSize(log) ==
    IF Len(log.table) < m_dbMaxSize THEN {log}
    ELSE {[table |-> Kept(log.table, rows), notes |-> Append(log.notes, Updated)] :
             rows \in Latest(log.table)}

\* appendLogEntry()
Appended(log, entry) ==
    {[table |-> Append(checked.table, entry), notes |-> Append(checked.notes, Added(entry))] :
        checked \in CheckDBSize(log)}

\* ... after other entries, which may have been written in several ways
Then(logs, entry) == UNION {Appended(log, entry) : log \in logs}

Unwritten == {[table |-> entries, notes |-> <<>>]}

\* Notifications go to the client that is connected.
Sent(notes) == inbox' = IF connected THEN inbox \o notes ELSE inbox

Log(logs) == \E log \in logs : entries' = log.table /\ Sent(log.notes)

Remaining(gone) ==
    {Kept(entries, rows) :
        rows \in {s \in Selections(entries) : Range(s) = {i \in DOMAIN entries :
                                                         entries[i] \notin gone}}}

\* Mutant of Deleted.
Deleted_Silently(gone, times) ==
    /\ entries' \in Remaining(gone)
    /\ UNCHANGED inbox

\* removeDeviceLogs() and removeRuleLogs(), each of which announces a change
Deleted(gone, times) ==
    /\ entries' \in Remaining(gone)
    /\ Sent([i \in 1..times |-> Updated])

Ready == running /\ Len(inbox) <= MaxInbox /\ Len(shown) <= MaxShown

-----------------------------------------------------------------------------
(* Start and stop *)

\* GuhCore(): no client is connected yet.
Start ==
    /\ ~running
    /\ running' = TRUE
    /\ Log(Then(Unwritten, Entry("System", None, None)))
    /\ UNCHANGED <<now, devices, rules, actionVars, clientVars>>

\* A process that ends takes the actions and the connections with it.
Ends ==
    /\ running
    /\ running' = FALSE
    /\ executing' = [a \in ActionIds |-> None]
    /\ m_pendingActions' = [a \in ActionIds |-> None]
    /\ early' = {}
    /\ connected' = FALSE /\ inbox' = <<>> /\ asked' = 0 /\ shown' = <<>>
    /\ UNCHANGED <<now, devices, rules>>

\* ~GuhCore()
Stop ==
    /\ Ends
    /\ \E log \in Then(Unwritten, Entry("System", None, None)) : entries' = log.table

Crash == Ends /\ UNCHANGED entries

\* The clock goes on, or is put back.
ClockChanges ==
    /\ now' \in 0..MaxTime
    /\ UNCHANGED <<running, devices, rules, entries, actionVars, clientVars, inbox>>

-----------------------------------------------------------------------------
(* Actions and events *)

ActionEntry(device) == Entry("Actions", None, device)

\* executeAction(): the action may be done when it returns, or later, or be reported as
\* done before it returns.
Executed(a, device, result) ==
    LET found == device \in devices IN
    /\ executing[a] = None /\ m_pendingActions[a] = None
    /\ \/ /\ result = "returns"
          /\ UNCHANGED actionVars
       \/ /\ result = "async" /\ found
          /\ executing' = [executing EXCEPT ![a] = device]
          /\ m_pendingActions' = [m_pendingActions EXCEPT ![a] = device]
          /\ UNCHANGED early
       \/ /\ result = "early" /\ found
          /\ m_pendingActions' = [m_pendingActions EXCEPT ![a] = device]
          /\ early' = early \cup {a}
          /\ UNCHANGED executing

\* What executeAction() writes: an action that is done before it is kept is logged as
\* nobody's.
Written(logs, device, result) ==
    CASE result = "returns" -> Then(logs, ActionEntry(device))
      [] result = "early" -> Then(logs, ActionEntry(None))
      [] OTHER -> logs

\* ... and executeRuleActions(), which logs again what returns at once
WrittenForRule(logs, result) ==
    IF result = "returns" THEN Then(Written(logs, Acted, result), ActionEntry(Acted))
    ELSE Written(logs, Acted, result)

\* executeAction() for a client, which may name a device that is gone
ExecuteAction(a, device, result) ==
    /\ Ready
    /\ Executed(a, device, result)
    /\ Log(Written(Unwritten, device, result))
    /\ UNCHANGED <<coreVars, clientVars>>

\* gotEvent(): the event, then the rules that are triggered or become active, then
\* their actions
GotEvent(device) ==
    /\ Ready /\ device \in devices
    /\ Log(Then(Unwritten, Entry("Events", None, device)))
    /\ UNCHANGED <<coreVars, actionVars, clientVars>>

GotEventOfRule(device, rule, a, result) ==
    /\ Ready /\ device \in devices /\ rule \in rules
    /\ Executed(a, Acted, result)
    /\ Log(WrittenForRule(Then(Then(Unwritten, Entry("Events", None, device)),
                               Entry("Rules", rule, None)), result))
    /\ UNCHANGED <<coreVars, clientVars>>

\* Mutant of ActionExecutionFinished.
ActionExecutionFinished_Kept(a) ==
    /\ Ready /\ executing[a] # None
    /\ executing' = [executing EXCEPT ![a] = None]
    /\ Log(Then(Unwritten, ActionEntry(m_pendingActions[a])))
    /\ UNCHANGED <<coreVars, early, clientVars, m_pendingActions>>

\* actionExecutionFinished(), also of a device that is gone
ActionExecutionFinished(a) ==
    /\ Ready /\ executing[a] # None
    /\ executing' = [executing EXCEPT ![a] = None]
    /\ m_pendingActions' = [m_pendingActions EXCEPT ![a] = None]
    /\ Log(Then(Unwritten, ActionEntry(m_pendingActions[a])))
    /\ UNCHANGED <<coreVars, early, clientVars>>

-----------------------------------------------------------------------------
(* Removals *)

\* removeConfiguredDevice() of the parent: the logs of its children, and its own.  The
\* rules about them are removed or changed before.
RemoveConfiguredDevice ==
    /\ Ready /\ Root \in devices
    /\ devices' = {}
    /\ rules' = {}
    /\ Deleted({e \in Range(entries) : e.device \in devices}, Cardinality(devices))
    /\ UNCHANGED <<running, now, actionVars, clientVars>>

\* removeRule(): the logs of a rule are removed when it could not be.
RemoveRule(rule) ==
    /\ Ready
    /\ \/ /\ rule \in rules
          /\ rules' = rules \ {rule}
          /\ UNCHANGED <<entries, inbox>>
       \/ /\ rule \notin rules
          /\ Deleted({e \in Range(entries) : e.type = rule}, 1)
          /\ UNCHANGED rules
    /\ UNCHANGED <<running, now, devices, actionVars, clientVars>>

-----------------------------------------------------------------------------
(* The client: it asks for the entries when it connects and when they changed. *)

ClientConnects ==
    /\ running /\ ~connected
    /\ connected' = TRUE
    /\ asked' = 1
    /\ shown' = <<>>
    /\ UNCHANGED <<coreVars, entries, actionVars, inbox>>

\* GetLogEntries without a filter
GetLogEntries ==
    /\ asked > 0
    /\ asked' = asked - 1
    /\ inbox' = Append(inbox, [kind |-> "GetLogEntries", entries |-> entries])
    /\ UNCHANGED <<coreVars, entries, actionVars, connected, shown>>

Receive ==
    /\ inbox # <<>>
    /\ inbox' = Tail(inbox)
    /\ LET note == Head(inbox) IN
       /\ shown' = CASE note.kind = "LogEntryAdded" -> Append(shown, note.entry)
                     [] note.kind = "GetLogEntries" -> note.entries
                     [] OTHER -> shown
       /\ asked' = IF note = Updated THEN 1 ELSE asked
    /\ UNCHANGED <<coreVars, entries, actionVars, connected>>

Next ==
    \/ Start \/ Stop \/ Crash \/ ClockChanges
    \/ \E device \in Devices :
        \/ GotEvent(device)
        \/ \E a \in ActionIds, result \in {"returns", "async", "early"} :
            \/ ExecuteAction(a, device, result)
            \/ \E rule \in Rules : GotEventOfRule(device, rule, a, result)
    \/ \E a \in ActionIds : ActionExecutionFinished(a)
    \/ RemoveConfiguredDevice
    \/ \E rule \in Rules : RemoveRule(rule)
    \/ ClientConnects \/ GetLogEntries \/ Receive

Spec == Init /\ [][Next]_vars

-----------------------------------------------------------------------------

\* checkDBSize() makes room before an entry is written, not after: the table holds
\* one entry more than its maximal size.
TableLimited == Len(entries) <= m_dbMaxSize + 1

Occurrences(table, entry) == Cardinality({i \in DOMAIN table : table[i] = entry})

\* A client that adds what is announced as added and asks again when the database was
\* updated shows the table, once it has received everything: LogEntryAdded and
\* LogDatabaseUpdated tell of every change.
FollowerAgrees ==
    connected /\ inbox = <<>> /\ asked = 0 =>
        \A entry \in Range(entries) \cup Range(shown) :
            Occurrences(entries, entry) = Occurrences(shown, entry)

\* Of a device that was removed the log tells nothing but the end of actions, which
\* were executed then or are asked for afterwards.
GoneDevicesLeaveOnlyActions ==
    \A entry \in Range(entries) :
        entry.device \in Devices \ devices => entry.source = "Actions"

\* The table keeps to its size, and to the devices there are.
TableKept == TableLimited /\ GoneDevicesLeaveOnlyActions

\* What GuhCore keeps of actions is what plugins still execute, as long as a plugin
\* reports the end of an action after executeAction() has returned.
PendingActionsAreExecuted ==
    \A a \in ActionIds : a \notin early => m_pendingActions[a] = executing[a]

\* A rule that was removed is no more in the log (LogDatabaseUpdated's description).
RemovedRulesAreForgotten ==
    \A entry \in Range(entries) : entry.type \in Rules => entry.type \in rules
=============================================================================
