-------------------------------- MODULE Avea --------------------------------
(***************************************************************************)
(* The Avea bulbs of the Elgato plugin.  A bulb is connected over          *)
(* Bluetooth; a colour is one value written to it, a mood several values   *)
(* in a queue, the last of them the same for every mood.  The id of an     *)
(* action is kept under the value whose writing is to be confirmed.        *)
(***************************************************************************)
EXTENDS PluginHost

CONSTANT Colours    \* the colours, and power off: one value each

VARIABLES
    link,             \* bulb -> "none", "off", "on" connected, "found" its services
    m_isAvailable,    \* bulb -> BOOLEAN
    m_commandQueue,   \* bulb -> the commands of moods that wait
    m_currentRequest, \* bulb -> the characteristic of the last command of a mood
    m_actions,        \* bulb -> value -> the action it is written for, or None
    writes            \* bulb -> what is written and not confirmed yet

bulbVars == <<link, m_isAvailable, m_commandQueue, m_currentRequest, m_actions, writes>>
vars == <<hostVars, bulbVars>>

\* "2a15" ends a mood, "other" stands for the values before it.
Values == Colours \cup {"2a15"}
Command(characteristic, value) == [characteristic |-> characteristic, value |-> value]
Mood == <<Command("color", "other"), Command("image", "other"), Command("color", "2a15")>>

AveaInit ==
    /\ link = [d \in Devices |-> "none"]
    /\ m_isAvailable = [d \in Devices |-> FALSE]
    /\ m_commandQueue = [d \in Devices |-> <<>>]
    /\ m_currentRequest = [d \in Devices |-> None]
    /\ m_actions = [d \in Devices |-> [v \in Values |-> None]]
    /\ writes = [d \in Devices |-> <<>>]

Init == HostInit /\ AveaInit

\* The actions of a bulb that are not answered
Kept(d) == {m_actions[d][v] : v \in Values} \ {None}

-----------------------------------------------------------------------------
(* Set up and connection *)

\* setupDevice(): m_isAvailable is not initialised.
SetupDevice(d) ==
    /\ NotSetUp(d)
    /\ SetupReturns(d, TRUE)
    /\ link' = [link EXCEPT ![d] = "off"]
    /\ \E b \in BOOLEAN : /\ m_isAvailable' = [m_isAvailable EXCEPT ![d] = b]
                          /\ disturbed' = (disturbed \/ b)
    /\ UNCHANGED <<acts, lost, undefined, m_commandQueue, m_currentRequest, m_actions, writes>>

\* connected(): the services are searched.
Connected(d) ==
    /\ link[d] = "off"
    /\ link' = [link EXCEPT ![d] = "on"]
    /\ UNCHANGED <<hostVars, m_isAvailable, m_commandQueue, m_currentRequest, m_actions, writes>>

\* serviceScanFinished() and serviceStateChanged(), once both services are known
ServicesDiscovered(d) ==
    /\ link[d] = "on"
    /\ link' = [link EXCEPT ![d] = "found"]
    /\ m_isAvailable' = [m_isAvailable EXCEPT ![d] = TRUE]
    /\ UNCHANGED <<hostVars, m_commandQueue, m_currentRequest, m_actions, writes>>

\* onConnectionStatusChanged(): the services and the queue go, m_actions stays, and
\* what is in it may be answered by a later write of the same value.
Disconnected(d) ==
    /\ link[d] \in {"on", "found"}
    /\ link' = [link EXCEPT ![d] = "off"]
    /\ m_isAvailable' = [m_isAvailable EXCEPT ![d] = FALSE]
    /\ m_commandQueue' = [m_commandQueue EXCEPT ![d] = <<>>]
    /\ writes' = [writes EXCEPT ![d] = <<>>]
    /\ lost' = lost \cup Kept(d)
    /\ UNCHANGED <<host, acts, disturbed, undefined, m_currentRequest, m_actions>>

\* deviceRemoved()
DeviceRemoved(d) ==
    /\ Configured(d)
    /\ Removed(d)
    /\ link' = [link EXCEPT ![d] = "none"]
    /\ m_actions' = [m_actions EXCEPT ![d] = [v \in Values |-> None]]
    /\ m_commandQueue' = [m_commandQueue EXCEPT ![d] = <<>>]
    /\ writes' = [writes EXCEPT ![d] = <<>>]
    /\ lost' = lost \cup Kept(d)
    /\ UNCHANGED <<acts, disturbed, undefined, m_isAvailable, m_currentRequest>>

-----------------------------------------------------------------------------
(* Commands *)

\* The id of an action whose value is written already is replaced.
Keep(a, d, value) ==
    /\ m_actions' = [m_actions EXCEPT ![d][value] = a]
    /\ lost' = lost \cup ({m_actions[d][value]} \ {None})

\* The service to write to is not there.
NoService(a, d) ==
    /\ CanExecute(a, d)
    /\ m_isAvailable[d] /\ link[d] # "found"
    /\ undefined' = TRUE
    /\ UNCHANGED <<host, acts, lost, disturbed, bulbVars>>

\* Not available, or the actions that connect and disconnect: they return at once.
ReturnsAtOnce(a, d) ==
    /\ CanExecute(a, d)
    /\ ExecuteReturns(a)
    /\ UNCHANGED <<host, lost, disturbed, undefined, bulbVars>>

\* setRed() and so on, and actionPowerOff()
SetColour(a, d, colour) ==
    /\ CanExecute(a, d)
    /\ m_isAvailable[d] /\ link[d] = "found"
    /\ ExecuteAsync(a)
    /\ Keep(a, d, colour)
    /\ writes' = [writes EXCEPT ![d] = Append(@, Command("color", colour))]
    /\ UNCHANGED <<host, disturbed, undefined, link, m_isAvailable, m_commandQueue,
                   m_currentRequest>>

\* sendNextCommand(): the first of the queue, if there is one
SendNextCommand(d, queue, written) ==
    IF queue = <<>>
    THEN /\ m_commandQueue' = [m_commandQueue EXCEPT ![d] = <<>>]
         /\ writes' = [writes EXCEPT ![d] = written]
         /\ UNCHANGED m_currentRequest
    ELSE /\ m_commandQueue' = [m_commandQueue EXCEPT ![d] = Tail(queue)]
         /\ writes' = [writes EXCEPT ![d] = Append(written, Head(queue))]
         /\ m_currentRequest' = [m_currentRequest EXCEPT ![d] = Head(queue).characteristic]

\* setCalmProvence() and the other moods
SetMood(a, d) ==
    /\ CanExecute(a, d)
    /\ m_isAvailable[d] /\ link[d] = "found"
    /\ ExecuteAsync(a)
    /\ Keep(a, d, "2a15")
    /\ SendNextCommand(d, m_commandQueue[d] \o Mood, writes[d])
    /\ UNCHANGED <<host, disturbed, undefined, link, m_isAvailable>>

\* confirmedCharacteristicWritten()
Confirmed(d) ==
    LET w == Head(writes[d])
        a == IF w.value \in Values THEN m_actions[d][w.value] ELSE None
    IN
    /\ writes[d] # <<>>
    /\ IF a = None THEN UNCHANGED <<acts, m_actions>>
       ELSE ActionFinished(a) /\ m_actions' = [m_actions EXCEPT ![d][w.value] = None]
    /\ IF w.characteristic = m_currentRequest[d]
       THEN SendNextCommand(d, m_commandQueue[d], Tail(writes[d]))
       ELSE /\ writes' = [writes EXCEPT ![d] = Tail(@)]
            /\ UNCHANGED <<m_commandQueue, m_currentRequest>>
    /\ UNCHANGED <<host, lost, disturbed, undefined, link, m_isAvailable>>

\* serviceError(): what could not be written is logged only, and no confirmation
\* makes the bulb send the next command of a mood.
WriteFails(d) ==
    LET w == Head(writes[d]) IN
    /\ writes[d] # <<>>
    /\ writes' = [writes EXCEPT ![d] = Tail(@)]
    /\ lost' = lost \cup ({m_actions[d][IF w.value \in Colours THEN w.value ELSE "2a15"]} \ {None})
    /\ UNCHANGED <<host, acts, disturbed, undefined, link, m_isAvailable, m_commandQueue,
                   m_currentRequest, m_actions>>

Next ==
    /\ ~undefined
    /\ \E d \in Devices :
        \/ SetupDevice(d) \/ Connected(d) \/ ServicesDiscovered(d) \/ Disconnected(d)
        \/ DeviceRemoved(d) \/ Confirmed(d) \/ WriteFails(d)
        \/ \E a \in Actions :
            \/ ReturnsAtOnce(a, d) \/ NoService(a, d) \/ SetMood(a, d)
            \/ \E colour \in Colours : SetColour(a, d, colour)

\* A bulb confirms what is written, or the writing fails (fair).
DeviceProgress(d) == ~undefined /\ (Confirmed(d) \/ WriteFails(d))
=============================================================================
