-------------------------- MODULE CommandLauncher --------------------------
(***************************************************************************)
(* The command launcher plugin.  A device is an application or a script,   *)
(* both handled alike: one action starts it in a process, another one      *)
(* kills the process.  A process is known here by the action that starts   *)
(* it.                                                                     *)
(***************************************************************************)
EXTENDS PluginHost

VARIABLES
    process,               \* action -> "none", "starting", "running" or "not running"
    deviceOf,              \* process -> its device in m_applications, None if it has none
    m_startingApplications,
    m_killingApplications  \* process -> the last action that kills it, or None

launcherVars == <<process, deviceOf, m_startingApplications, m_killingApplications>>
vars == <<hostVars, launcherVars>>

CommandLauncherInit ==
    /\ process = [p \in Actions |-> "none"]
    /\ deviceOf = [p \in Actions |-> None]
    /\ m_startingApplications = {}
    /\ m_killingApplications = [p \in Actions |-> None]

Init == HostInit /\ CommandLauncherInit

m_applications(d) == {p \in Actions : deviceOf[p] = d}

\* The slots of a process look its device up; it may be removed.
HasDevice(p) == deviceOf[p] # None /\ Configured(deviceOf[p])

Alive(p) == process[p] \in {"starting", "running"}

-----------------------------------------------------------------------------

\* setupDevice(): the file of a script is missing or no program.
SetupDevice(d, ok) ==
    /\ NotSetUp(d)
    /\ SetupReturns(d, ok)
    /\ UNCHANGED <<acts, lost, disturbed, undefined, launcherVars>>

\* executeAction() that starts: it is refused while a process of the device runs, of
\* which there may be several, for one that is starting does not count.
Start(a, d) ==
    /\ CanExecute(a, d)
    /\ \/ /\ m_applications(d) = {} \/ \E p \in m_applications(d) : process[p] # "running"
          /\ ExecuteAsync(a)
          /\ process' = [process EXCEPT ![a] = "starting"]
          /\ deviceOf' = [deviceOf EXCEPT ![a] = d]
          /\ m_startingApplications' = m_startingApplications \cup {a}
       \/ /\ \E p \in m_applications(d) : process[p] = "running"
          /\ ExecuteReturns(a)
          /\ UNCHANGED <<process, deviceOf, m_startingApplications>>
    /\ UNCHANGED <<host, lost, disturbed, undefined, m_killingApplications>>

\* executeAction() that kills: the one that killed the process before is forgotten.
\* A process that never came up cannot be killed.
Kill(a, d) ==
    /\ CanExecute(a, d)
    /\ \/ /\ m_applications(d) = {}
          /\ ExecuteReturns(a)
          /\ UNCHANGED <<lost, m_killingApplications>>
       \/ \E p \in m_applications(d) :
          /\ ExecuteAsync(a)
          /\ m_killingApplications' = [m_killingApplications EXCEPT ![p] = a]
          /\ lost' = lost \cup ({m_killingApplications[p]} \ {None})
                          \cup (IF Alive(p) THEN {} ELSE {a})
    /\ UNCHANGED <<host, disturbed, undefined, process, deviceOf, m_startingApplications>>

\* deviceRemoved(): one of the processes is killed and forgotten, but its slots are
\* still called.
DeviceRemoved(d) ==
    /\ Configured(d)
    /\ Removed(d)
    /\ disturbed' = (disturbed \/ \E p \in m_applications(d) : Alive(p))
    /\ IF m_applications(d) = {}
       THEN UNCHANGED <<lost, deviceOf, m_startingApplications, m_killingApplications>>
       ELSE \E p \in m_applications(d) :
            /\ deviceOf' = [deviceOf EXCEPT ![p] = None]
            /\ m_startingApplications' = m_startingApplications \ {p}
            /\ m_killingApplications' = [m_killingApplications EXCEPT ![p] = None]
            /\ lost' = lost \cup (m_startingApplications \cap {p})
                            \cup ({m_killingApplications[p]} \ {None})
    /\ UNCHANGED <<acts, undefined, process>>

-----------------------------------------------------------------------------
(* Processes *)

\* applicationStateChanged() to Running
ProcessRuns(p) ==
    /\ process[p] = "starting"
    /\ process' = [process EXCEPT ![p] = "running"]
    /\ undefined' = ~HasDevice(p)
    /\ ActionsFinished(IF HasDevice(p) THEN {p} \cap m_startingApplications ELSE {})
    /\ m_startingApplications' = m_startingApplications \ {p}
    /\ UNCHANGED <<host, lost, disturbed, deviceOf, m_killingApplications>>

\* Mutant of Killed.
Killed_AnswersItsStart(p) ==
    /\ process' = [process EXCEPT ![p] = "not running"]
    /\ undefined' = ~HasDevice(p)
    /\ ActionsFinished(IF HasDevice(p) THEN {p} ELSE {})
    /\ m_killingApplications' = [m_killingApplications EXCEPT ![p] = None]
    /\ UNCHANGED <<host, disturbed, m_startingApplications>>

\* applicationStateChanged() to NotRunning
Killed(p) ==
    /\ process' = [process EXCEPT ![p] = "not running"]
    /\ undefined' = ~HasDevice(p)
    /\ ActionsFinished(IF HasDevice(p) THEN {m_killingApplications[p]} ELSE {})
    /\ m_killingApplications' = [m_killingApplications EXCEPT ![p] = None]
    /\ UNCHANGED <<host, disturbed, m_startingApplications>>

\* ... of a process that ran, followed by applicationFinished()
Ends(p) ==
    /\ process[p] = "running"
    /\ Killed(p)
    /\ deviceOf' = [deviceOf EXCEPT ![p] = None]
    /\ UNCHANGED lost

\* ... of a process that cannot be started: it is never finished, its action neither.
StartFails(p) ==
    /\ process[p] = "starting"
    /\ Killed(p)
    /\ lost' = lost \cup {p}
    /\ UNCHANGED deviceOf

Next ==
    /\ ~undefined
    /\ \/ \E d \in Devices :
           \/ DeviceRemoved(d)
           \/ \E ok \in BOOLEAN : SetupDevice(d, ok)
           \/ \E a \in Actions : Start(a, d) \/ Kill(a, d)
       \/ \E p \in Actions : ProcessRuns(p) \/ Ends(p) \/ StartFails(p)

\* A process starts or cannot be started, and one that is killed ends (fair).
ActionProgress(p) == ~undefined /\ (ProcessRuns(p) \/ StartFails(p))
KillProgress(p) == ~undefined /\ m_killingApplications[p] # None /\ Ends(p)
=============================================================================
