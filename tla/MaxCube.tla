------------------------------ MODULE MaxCube ------------------------------
(***************************************************************************)
(* The eQ-3 MAX! plugin: a cube is connected over TCP, tells about itself  *)
(* and its thermostats, which become devices, and executes commands.  The  *)
(* cube answers commands in their order; the plugin remembers one id.      *)
(***************************************************************************)
EXTENDS Naturals, SequencesExt

CONSTANTS
    Cubes,          \* serial numbers
    Thermostats,
    CubeOf,         \* thermostat -> its cube
    KindOf,         \* thermostat -> "wall" or "radiator"
    Actions,
    MaxMetadata,    \* bound: metadata messages a cube sends
    MaxQueued,      \* bound: queued calls of autoDevicesAppeared()
    None

VARIABLES
    device,             \* cube -> "none", "waiting", "configured" or "failed"
    socket,             \* cube -> "closed", "connecting" or "connected"
    m_cubeInitialized,  \* cube -> BOOLEAN
    m_lists,            \* thermostat -> how often it is in the list of its cube
    appeared,           \* the queued calls of autoDevicesAppeared()
    configured,         \* thermostat -> how many devices it is
    m_actionId,         \* cube -> the id of the last command
    commands,           \* cube -> the actions whose commands it has not answered
    waiting,            \* the actions for which executeAction() returned Async
    answers,            \* action -> the answers it got: the actions they were meant for
    overlapped          \* a command was sent while another was not answered

cubeVars == <<device, socket, m_cubeInitialized>>
foundVars == <<m_lists, appeared, configured>>
actionVars == <<m_actionId, commands, waiting, answers, overlapped>>
vars == <<cubeVars, foundVars, actionVars>>

TypeOK ==
    /\ device \in [Cubes -> {"none", "waiting", "configured", "failed"}]
    /\ socket \in [Cubes -> {"closed", "connecting", "connected"}]
    /\ m_cubeInitialized \in [Cubes -> BOOLEAN]
    /\ m_lists \in [Thermostats -> 0..MaxMetadata]
    /\ m_actionId \in [Cubes -> Actions \cup {None}]
    /\ waiting \subseteq Actions

Init ==
    /\ device = [c \in Cubes |-> "none"]
    /\ socket = [c \in Cubes |-> "closed"]
    /\ m_cubeInitialized = [c \in Cubes |-> FALSE]
    /\ m_lists = [t \in Thermostats |-> 0]
    /\ appeared = <<>>
    /\ configured = [t \in Thermostats |-> 0]
    /\ m_actionId = [c \in Cubes |-> None]
    /\ commands = [c \in Cubes |-> <<>>]
    /\ waiting = {}
    /\ answers = [a \in Actions |-> <<>>]
    /\ overlapped = FALSE

-----------------------------------------------------------------------------
(* The cube and its connection *)

\* setupDevice() of a cube: a serial number that is in m_cubes, even after its set up
\* has failed, is refused.
SetupDevice(c) ==
    /\ device[c] = "none"
    /\ device' = [device EXCEPT ![c] = "waiting"]
    /\ socket' = [socket EXCEPT ![c] = "connecting"]
    /\ UNCHANGED <<m_cubeInitialized, foundVars, actionVars>>

\* cubeConnectionStatusChanged(): deviceSetupFinished(), which the device manager
\* ignores for a device that is set up already.
SetupFinished(c, status) ==
    device' = [device EXCEPT ![c] = IF @ = "configured" THEN @ ELSE status]

\* connectionStateChanged()
ConnectionStateChanged(c, state) ==
    /\ socket' = [socket EXCEPT ![c] = state]
    /\ SetupFinished(c, IF state = "connected" THEN "configured" ELSE "failed")
    /\ m_cubeInitialized' = [m_cubeInitialized EXCEPT ![c] = @ /\ state = "connected"]

Connected(c) ==
    /\ socket[c] = "connecting"
    /\ ConnectionStateChanged(c, "connected")
    /\ UNCHANGED <<foundVars, actionVars>>

\* The connection fails or ends, and with it what the cube was to answer.
Disconnected(c) ==
    /\ socket[c] # "closed"
    /\ ConnectionStateChanged(c, "closed")
    /\ commands' = [commands EXCEPT ![c] = <<>>]
    /\ UNCHANGED <<foundVars, m_actionId, waiting, answers, overlapped>>

\* deviceRemoved() of a cube: the MaxCube is deleted with its lists.
DeviceRemoved(c) ==
    /\ device[c] = "configured"
    /\ device' = [device EXCEPT ![c] = "none"]
    /\ socket' = [socket EXCEPT ![c] = "closed"]
    /\ m_cubeInitialized' = [m_cubeInitialized EXCEPT ![c] = FALSE]
    /\ m_lists' = [t \in Thermostats |-> IF CubeOf[t] = c THEN 0 ELSE m_lists[t]]
    /\ m_actionId' = [m_actionId EXCEPT ![c] = None]
    /\ commands' = [commands EXCEPT ![c] = <<>>]
    /\ UNCHANGED <<appeared, configured, waiting, answers, overlapped>>

-----------------------------------------------------------------------------
(* What the cube tells *)

\* decodeMetadataMessage(): the thermostats are appended to the lists.  Messages that
\* are read behind one of another kind are lost: they do not happen here.
Metadata(c, ts) ==
    /\ socket[c] = "connected"
    /\ \A t \in ts : CubeOf[t] = c /\ m_lists[t] < MaxMetadata
    /\ m_lists' = [t \in Thermostats |-> m_lists[t] + (IF t \in ts THEN 1 ELSE 0)]
    /\ m_cubeInitialized' = [m_cubeInitialized EXCEPT ![c] = TRUE]
    /\ UNCHANGED <<device, socket, appeared, configured, actionVars>>

\* wallThermostatFound() and radiatorThermostatFound(): the thermostats of the kind
\* that are no devices yet
New(c, kind) ==
    {t \in Thermostats : CubeOf[t] = c /\ KindOf[t] = kind
                         /\ m_lists[t] > 0 /\ configured[t] = 0}

\* decodeConfigMessage() of the thermostats whose messages came together: for each
\* entry of the list that has the address all new ones are queued.
Config(c, kind, entries) ==
    LET n == FoldFunction(+, 0, [t \in entries |-> m_lists[t]]) IN
    /\ socket[c] = "connected"
    /\ entries # {}
    /\ \A t \in entries : CubeOf[t] = c /\ KindOf[t] = kind /\ m_lists[t] > 0
    /\ New(c, kind) # {}
    /\ Len(appeared) + n <= MaxQueued
    /\ appeared' = appeared \o [i \in 1..n |-> [t \in New(c, kind) |-> m_lists[t]]]
    /\ UNCHANGED <<cubeVars, m_lists, configured, actionVars>>

\* DeviceManager::autoDevicesAppeared() sets up what is in the list, without looking
\* for devices that have come since it was made.
AutoDevicesAppeared ==
    /\ appeared # <<>>
    /\ configured' = [t \in Thermostats |-> configured[t] +
                         (IF t \in DOMAIN Head(appeared) THEN Head(appeared)[t] ELSE 0)]
    /\ appeared' = Tail(appeared)
    /\ UNCHANGED <<cubeVars, m_lists, actionVars>>

\* deviceRemoved() of a thermostat does nothing: it may appear again.
ThermostatRemoved(t) ==
    /\ configured[t] > 0
    /\ configured' = [configured EXCEPT ![t] = @ - 1]
    /\ UNCHANGED <<cubeVars, m_lists, appeared, actionVars>>

-----------------------------------------------------------------------------
(* Actions *)

Answer(c) == [answers EXCEPT ![m_actionId[c]] = Append(@, Head(commands[c]))]

\* Mutant of SendCommand.
SendCommand_KeepsFirstId(a, t) ==
    LET c == CubeOf[t] IN
    /\ a \notin waiting
    /\ configured[t] > 0 /\ device[c] # "none"
    /\ socket[c] = "connected" /\ m_cubeInitialized[c]
    /\ m_actionId' = [m_actionId EXCEPT ![c] = IF @ = None THEN a ELSE @]
    /\ commands' = [commands EXCEPT ![c] = Append(@, a)]
    /\ waiting' = waiting \cup {a}
    /\ overlapped' = (overlapped \/ commands[c] # <<>>)
    /\ UNCHANGED <<cubeVars, foundVars, answers>>

\* executeAction() of a thermostat's device, sent to its cube
SendCommand(a, t) ==
    LET c == CubeOf[t] IN
    /\ a \notin waiting
    /\ configured[t] > 0 /\ device[c] # "none"
    /\ socket[c] = "connected" /\ m_cubeInitialized[c]
    /\ m_actionId' = [m_actionId EXCEPT ![c] = a]
    /\ commands' = [commands EXCEPT ![c] = Append(@, a)]
    /\ waiting' = waiting \cup {a}
    /\ overlapped' = (overlapped \/ commands[c] # <<>>)
    /\ UNCHANGED <<cubeVars, foundVars, answers>>

\* executeAction() while the cube is not connected or not initialized: the failure
\* is emitted before DeviceErrorAsync is returned.
RefuseCommand(a, t) ==
    LET c == CubeOf[t] IN
    /\ a \notin waiting
    /\ configured[t] > 0 /\ device[c] # "none"
    /\ ~(socket[c] = "connected" /\ m_cubeInitialized[c])
    /\ m_actionId' = [m_actionId EXCEPT ![c] = a]
    /\ answers' = [answers EXCEPT ![a] = Append(@, a)]
    /\ waiting' = waiting \cup {a}
    /\ UNCHANGED <<cubeVars, foundVars, commands, overlapped>>

\* readData() joins the lines that wait, and processCubeData() goes by the letter of the
\* first: of n answers that are read together decodeCommandMessage() gets one, emitted for
\* the last command's action, and none of those that come behind a line of another kind.
AnswersRead(c, n, first) ==
    /\ answers' = IF first THEN Answer(c) ELSE answers
    /\ commands' = [commands EXCEPT ![c] = SubSeq(@, n + 1, Len(@))]
    /\ UNCHANGED <<cubeVars, foundVars, m_actionId, waiting, overlapped>>

Next ==
    \/ \E c \in Cubes :
        \/ SetupDevice(c) \/ Connected(c) \/ Disconnected(c) \/ DeviceRemoved(c)
        \/ \E ts \in SUBSET Thermostats : Metadata(c, ts)
        \/ \E kind \in {"wall", "radiator"}, ts \in SUBSET Thermostats : Config(c, kind, ts)
        \/ \E n \in 1..Len(commands[c]), first \in BOOLEAN : AnswersRead(c, n, first)
    \/ AutoDevicesAppeared
    \/ \E t \in Thermostats : ThermostatRemoved(t)
    \/ \E a \in Actions, t \in Thermostats : SendCommand(a, t) \/ RefuseCommand(a, t)

Spec == Init /\ [][Next]_vars

\* Every attempt to connect ends (fair).
DeviceProgress(c) == Connected(c) \/ Disconnected(c)

-----------------------------------------------------------------------------
(* Properties *)

\* As long as the commands do not overlap, an action is answered at most once, and
\* with the answer to its own command (m_actionId).
CubeAnswersMatch ==
    overlapped \/ \A a \in Actions : answers[a] \in {<<>>, <<a>>}
=============================================================================
