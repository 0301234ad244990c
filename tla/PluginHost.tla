----------------------------- MODULE PluginHost -----------------------------
(***************************************************************************)
(* What a plugin works for: the device manager, which sets devices up,     *)
(* removes them and executes actions, and to which the plugin answers at   *)
(* once or later.  The modules of the plugins extend this one and share    *)
(* its variables.                                                          *)
(***************************************************************************)
EXTENDS Naturals, FiniteSets, SequencesExt

CONSTANTS
    Devices,
    Actions,    \* ids of executed actions, and of discoveries
    None

ASSUME PluginHostAssumption == None \notin Devices \cup Actions

VARIABLES
    host,        \* device -> what the device manager knows of it, see HostStates
    acts,        \* action -> "idle", "running", "done", or "again" answered
    lost,        \* actions and devices the plugin has lost track of: each plugin
                 \* says when that happens
    disturbed,   \* what can lead to undefined behaviour has happened
    undefined    \* a deleted, missing or uninitialised object was used

hostVars == <<host, acts, lost, disturbed, undefined>>

\* A new device waits for its set up and is then configured or not; a stored one is
\* configured from the start and is usable in any case.
HostStates == {"none", "waiting", "failed", "stored", "loading", "broken", "configured", "gone"}

HostTypeOK ==
    /\ host \in [Devices -> HostStates]
    /\ acts \in [Actions -> {"idle", "running", "done", "again"}]
    /\ lost \subseteq Devices \cup Actions
    /\ disturbed \in BOOLEAN /\ undefined \in BOOLEAN

\* A start: each device is one of the settings file or is added later.
HostInit ==
    /\ host \in [Devices -> {"none", "stored"}]
    /\ acts = [a \in Actions |-> "idle"]
    /\ lost = {}
    /\ disturbed = FALSE
    /\ undefined = FALSE

-----------------------------------------------------------------------------
(* Set up *)

NotSetUp(d) == host[d] \in {"none", "stored"}

\* setupDevice() returned Success or Failure: a new device that failed is deleted.
SetupReturns(d, ok) ==
    host' = [host EXCEPT ![d] = IF ok THEN "configured"
                                ELSE IF @ = "none" THEN "gone" ELSE "broken"]

\* setupDevice() returned Async.
SetupAsync(d) ==
    host' = [host EXCEPT ![d] = IF @ = "none" THEN "waiting" ELSE "loading"]

\* slotDeviceSetupFinished(): a success counts also after a failure, the rest is
\* ignored once the device is set up.
SetupResult(state, ok) ==
    IF ok THEN IF state \in {"none", "stored", "gone"} THEN state ELSE "configured"
    ELSE CASE state = "waiting" -> "failed"
           [] state = "loading" -> "broken"
           [] OTHER -> state

SetupFinished(d, ok) == host' = [host EXCEPT ![d] = SetupResult(@, ok)]

\* removeConfiguredDevice() finds the devices that are configured.
Configured(d) == host[d] \in {"loading", "broken", "configured"}

Removed(d) == host' = [host EXCEPT ![d] = "gone"]

-----------------------------------------------------------------------------
(* Actions *)

\* executeAction() finds the device, set up or not.
CanExecute(a, d) == acts[a] = "idle" /\ Configured(d)

\* discoverDevices(), which is answered like an action
CanDiscover(a) == acts[a] = "idle"

ExecuteReturns(a) == acts' = [acts EXCEPT ![a] = "done"]
ExecuteAsync(a) == acts' = [acts EXCEPT ![a] = "running"]

\* actionExecutionFinished()
Answer(state) == IF state = "running" THEN "done" ELSE "again"
ActionFinished(a) == acts' = [acts EXCEPT ![a] = Answer(@)]
ActionsFinished(as) == acts' = [a \in Actions |-> IF a \in as THEN Answer(acts[a]) ELSE acts[a]]

Running == {a \in Actions : acts[a] = "running"}

-----------------------------------------------------------------------------
(* Property of every plugin *)

\* No plugin uses an object that is deleted, missing or not initialised before
\* something has happened that its module names: most often a device is removed, or
\* its connection ends, while a request for it waits.
UndefinedOnlyIfDisturbed == undefined => disturbed
=============================================================================
