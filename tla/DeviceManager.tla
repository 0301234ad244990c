---------------------------- MODULE DeviceManager ----------------------------
(***************************************************************************)
(* The configured devices of guh (libguh/devicemanager.cpp): how a device  *)
(* comes into the system from a client, a discovery, a pairing or a        *)
(* plugin, how its setup finishes, at once or by a later call of the       *)
(* plugin, how it is reconfigured, renamed and removed, and what the       *)
(* settings file keeps of it.                                              *)
(*                                                                         *)
(* The manager runs in the server's event loop: one action per call or     *)
(* slot.  The plugin is the environment: it answers a setup with one of    *)
(* the three statuses and owes one deviceSetupFinished for each "Async".   *)
(***************************************************************************)
EXTENDS Integers, FiniteSets, Functions

CONSTANTS
    DeviceIds,          \* the ids of devices; each is created once per start
    Classes,            \* device classes
    ClassOf,            \* device -> its class
    PluginOf,           \* class -> the plugin that supports it
    TimerPlugins,       \* the plugins that require HardwareResourceTimer
    CreateMethods,      \* class -> subset of {"User", "Discovery", "Auto"}
    SetupMethod,        \* class -> "JustAdd", "DisplayPin", "EnterPin", "PushButton"
    Params,             \* parameter lists
    ValidParams,        \* class -> the parameter lists verifyParams() accepts
    Writable,           \* the classes whose parameters are not readOnly
    NoParams,           \* the empty list of a DeviceDescriptor() that is not valid
    Descriptors,        \* ids of discovered devices
    ParamsOf,           \* descriptor -> the parameters discovered
    PairingIds,         \* pairing transactions
    MaxPending          \* bound: answers a plugin owes for one device

ASSUME ClassesAssumption ==
    /\ ClassOf \in [DeviceIds -> Classes]
    /\ \A c \in Classes : ValidParams[c] \subseteq Params
ASSUME ParamsAssumption ==
    /\ NoParams \notin Params
    /\ \A descriptor \in Descriptors : ParamsOf[descriptor] \in Params
ASSUME MaxPendingAssumption == MaxPending \in Nat \ {0}

SetupStatus == {"Success", "Failure", "Async"}

VARIABLES
    running,                        \* the server process is up
    device,                         \* id -> the Device object
    m_configuredDevices,            \* QList<Device*>: no device twice, a set
    m_asyncDeviceReconfiguration,   \* QList<Device*>: only contains() matters
    m_pluginTimerUsers,             \* QList<DevicePlugin*>
    m_pluginTimer,                  \* m_pluginTimer.isActive()
    m_discoveredDevices,            \* QHash of descriptors, by id
    m_pairingsDiscovery,            \* pairing id -> [class, descriptor]
    settings,                       \* the devices file: id -> stored parameters
    pendingSetups,                  \* id -> deviceSetupFinished calls owed
    pendingPairings,                \* pairings a plugin still has to answer
    unanswered,                     \* id -> async edits without their signal
    raced                           \* history: reconfigured during a setup

timerVars == <<m_pluginTimerUsers, m_pluginTimer>>
pairingVars == <<m_discoveredDevices, m_pairingsDiscovery, pendingPairings>>
reconfigureVars == <<m_asyncDeviceReconfiguration, unanswered, raced>>
vars == <<running, device, m_configuredDevices, settings, pendingSetups,
          timerVars, pairingVars, reconfigureVars>>

-----------------------------------------------------------------------------
(* The Device object.  A deleted one keeps its last contents: what the     *)
(* manager reads through a pointer it still has.                           *)

NoObject == [memory |-> "none", setupComplete |-> FALSE, connections |-> 0,
             params |-> NoParams]

\* Device(): not set up, not connected.
Created(p) ==
    [memory |-> "alive", setupComplete |-> FALSE, connections |-> 0, params |-> p]

\* Bound: connections of a device's stateValueChanged are counted as none, one
\* and several.
Several == 2

\* setupDevice() succeeds, or the plugin's late answer is a success: connect
\* the stateValueChanged signal, setupCompleted().
SetUp(object) ==
    [object EXCEPT !.connections = IF @ < Several THEN @ + 1 ELSE @, !.setupComplete = TRUE]

Freed(object) == [object EXCEPT !.memory = "freed"]

\* setParamValue() changes parameters the device has, it adds none.
Reparametrized(object, p) ==
    [object EXCEPT !.params = IF @ = NoParams THEN NoParams ELSE p,
                   !.setupComplete = FALSE]

Plugin(d) == PluginOf[ClassOf[d]]

\* The end of a reconfiguration: setupCompleted(), no connect.
Reconfigured(object) == [object EXCEPT !.setupComplete = TRUE]

\* storeConfiguredDevices(): writes the configured devices over what is there.
Store(configured, objects) ==
    [d \in DOMAIN settings \cup configured |->
        IF d \in configured THEN objects[d].params ELSE settings[d]]

\* Mutant of Unstored: the device's group stays in the settings file.
Unstored_Keeps(d) == settings

\* The settings file after removeConfiguredDevice().
Unstored(d) == Restrict(settings, DOMAIN settings \ {d})

\* The plugin of a device that is set up gets the timer if it requires it.
UseTimer(d) ==
    IF Plugin(d) \in TimerPlugins
    THEN m_pluginTimerUsers' = m_pluginTimerUsers \cup {Plugin(d)} /\ m_pluginTimer' = TRUE
    ELSE UNCHANGED timerVars

\* Mutant of ReleaseTimer: the plugin goes on getting the timer.
ReleaseTimer_Never(d, configured) == UNCHANGED timerVars

\* The plugin of a removed device loses the timer with its last device.
ReleaseTimer(d, configured) ==
    IF \E e \in configured : Plugin(e) = Plugin(d)
    THEN UNCHANGED timerVars
    ELSE /\ m_pluginTimerUsers' = m_pluginTimerUsers \ {Plugin(d)}
         /\ m_pluginTimer' = (m_pluginTimer /\ m_pluginTimerUsers' # {})

\* Append the object to the configured devices and store them all.
Register(d, object) ==
    /\ device' = [device EXCEPT ![d] = object]
    /\ m_configuredDevices' = m_configuredDevices \cup {d}
    /\ settings' = Store(m_configuredDevices', device')

-----------------------------------------------------------------------------
(* New devices.                                                            *)

\* A new object for d and the plugin's answer to setupDevice(): a failed one
\* is deleted, an asynchronous one is known to the plugin only.
SetupNew(d, p, status) ==
    /\ device[d].memory = "none"
    /\ \/ /\ status = "Success"
          /\ Register(d, SetUp(Created(p)))
          /\ UseTimer(d)
          /\ UNCHANGED pendingSetups
       \/ /\ status = "Async"
          /\ device' = [device EXCEPT ![d] = Created(p)]
          /\ pendingSetups' = [pendingSetups EXCEPT ![d] = @ + 1]
          /\ UNCHANGED <<m_configuredDevices, settings, timerVars>>
       \/ /\ status = "Failure"
          /\ UNCHANGED <<device, m_configuredDevices, settings, pendingSetups, timerVars>>
    /\ UNCHANGED reconfigureVars

\* The checks of addConfiguredDeviceInternal().
CanAdd(d, p) ==
    /\ SetupMethod[ClassOf[d]] = "JustAdd"
    /\ p \in ValidParams[ClassOf[d]]

\* addConfiguredDevice() with parameters from the user.
AddConfiguredDevice(d, p, status) ==
    /\ "User" \in CreateMethods[ClassOf[d]]
    /\ CanAdd(d, p)
    /\ SetupNew(d, p, status)
    /\ UNCHANGED pairingVars

\* addConfiguredDevice() with a descriptor: it is taken before the checks, so
\* a refused call uses it up.
AddDiscoveredDevice(d, descriptor, status) ==
    /\ "Discovery" \in CreateMethods[ClassOf[d]]
    /\ descriptor \in m_discoveredDevices
    /\ m_discoveredDevices' = m_discoveredDevices \ {descriptor}
    /\ IF CanAdd(d, ParamsOf[descriptor])
       THEN SetupNew(d, ParamsOf[descriptor], status)
       ELSE UNCHANGED <<device, m_configuredDevices, settings, pendingSetups, timerVars,
                        reconfigureVars>>
    /\ UNCHANGED <<m_pairingsDiscovery, pendingPairings>>

\* autoDevicesAppeared(), one descriptor of the list.
AutoDeviceAppeared(d, p, status) ==
    /\ "Auto" \in CreateMethods[ClassOf[d]]
    /\ SetupNew(d, p, status)
    /\ UNCHANGED pairingVars

\* slotDevicesDiscovered().
DevicesDiscovered(found) ==
    /\ m_discoveredDevices' = m_discoveredDevices \cup found
    /\ UNCHANGED <<device, m_configuredDevices, settings, pendingSetups, timerVars,
                   m_pairingsDiscovery, pendingPairings, reconfigureVars>>

-----------------------------------------------------------------------------
(* Pairing.                                                                *)

\* pairDevice() with a descriptor, which stays in m_discoveredDevices.
PairDevice(t, c, descriptor) ==
    /\ SetupMethod[c] # "JustAdd"
    /\ descriptor \in m_discoveredDevices
    /\ t \notin DOMAIN m_pairingsDiscovery \cup pendingPairings     \* a fresh id
    /\ m_pairingsDiscovery' =
            [u \in DOMAIN m_pairingsDiscovery \cup {t} |->
                IF u = t THEN [class |-> c, descriptor |-> descriptor]
                         ELSE m_pairingsDiscovery[u]]
    /\ UNCHANGED <<device, m_configuredDevices, settings, pendingSetups, timerVars,
                   m_discoveredDevices, pendingPairings, reconfigureVars>>

Forget(t) ==
    m_pairingsDiscovery' = Restrict(m_pairingsDiscovery, DOMAIN m_pairingsDiscovery \ {t})

\* confirmPairing(): an immediate success adds no device.
ConfirmPairing(t, status) ==
    /\ t \in DOMAIN m_pairingsDiscovery
    /\ IF status = "Async"
       THEN pendingPairings' = pendingPairings \cup {t} /\ UNCHANGED m_pairingsDiscovery
       ELSE Forget(t) /\ UNCHANGED pendingPairings
    /\ UNCHANGED <<device, m_configuredDevices, settings, pendingSetups, timerVars,
                   m_discoveredDevices, reconfigureVars>>

\* slotPairingFinished() for a pairing that failed, or that is not waited for
\* any more.
PairingFailed(t) ==
    /\ t \in pendingPairings
    /\ pendingPairings' = pendingPairings \ {t}
    /\ IF t \in DOMAIN m_pairingsDiscovery
       THEN /\ Forget(t)
            /\ m_discoveredDevices' =
                    m_discoveredDevices \ {m_pairingsDiscovery[t].descriptor}
       ELSE UNCHANGED <<m_pairingsDiscovery, m_discoveredDevices>>
    /\ UNCHANGED <<device, m_configuredDevices, settings, pendingSetups, timerVars,
                   reconfigureVars>>

\* slotPairingFinished() for a pairing that succeeded: the new device d gets
\* the parameters of the descriptor, none if another call has taken it.  When
\* its setup fails it is deleted and then appended all the same.
PairingFinished(t, d, status) ==
    /\ t \in pendingPairings \cap DOMAIN m_pairingsDiscovery
    /\ LET descriptor == m_pairingsDiscovery[t].descriptor
           p == IF descriptor \in m_discoveredDevices THEN ParamsOf[descriptor] ELSE NoParams
       IN  /\ ClassOf[d] = m_pairingsDiscovery[t].class
           /\ m_discoveredDevices' = m_discoveredDevices \ {descriptor}
           /\ IF status = "Failure"
              THEN /\ device[d].memory = "none"
                   /\ Register(d, Freed(Created(p)))
                   /\ UNCHANGED <<pendingSetups, timerVars, reconfigureVars>>
              ELSE SetupNew(d, p, status)
    /\ pendingPairings' = pendingPairings \ {t}
    /\ Forget(t)

-----------------------------------------------------------------------------
(* The plugin's late answers.                                              *)

\* An asynchronous edit ends, well or not: the devices are stored, the signal
\* deviceReconfigurationFinished() goes out.
EditFinished(d, configured) ==
    /\ m_asyncDeviceReconfiguration' = m_asyncDeviceReconfiguration \ {d}
    /\ unanswered' = [unanswered EXCEPT ![d] = @ - 1]
    /\ settings' = Store(configured, device)

\* A device not configured yet is now.  Any setup but an edit's connects the
\* state changes.
SetupSucceeded(d) ==
    /\ m_configuredDevices' = m_configuredDevices \cup {d}
    /\ UseTimer(d)
    /\ IF d \in m_asyncDeviceReconfiguration
       THEN /\ device' = [device EXCEPT ![d] = Reconfigured(@)]
            /\ EditFinished(d, m_configuredDevices')
       ELSE /\ device' = [device EXCEPT ![d] = SetUp(@)]
            /\ settings' = IF d \in m_configuredDevices THEN settings
                           ELSE Store(m_configuredDevices', device)
            /\ UNCHANGED <<m_asyncDeviceReconfiguration, unanswered>>

\* A device that was not configured yet is not added.
SetupFailed(d) ==
    /\ IF d \in m_configuredDevices \cap m_asyncDeviceReconfiguration
       THEN EditFinished(d, m_configuredDevices)
       ELSE UNCHANGED <<settings, m_asyncDeviceReconfiguration, unanswered>>
    /\ UNCHANGED <<device, m_configuredDevices, timerVars>>

\* slotDeviceSetupFinished(): ignored when the setup is complete already.  The
\* device may have been removed since; nothing here looks at that.
SetupFinished(d, status) ==
    /\ pendingSetups[d] > 0
    /\ status # "Async"
    /\ pendingSetups' = [pendingSetups EXCEPT ![d] = @ - 1]
    /\ IF device[d].setupComplete
       THEN UNCHANGED <<device, m_configuredDevices, settings, timerVars,
                        m_asyncDeviceReconfiguration, unanswered>>
       ELSE IF status = "Success" THEN SetupSucceeded(d) ELSE SetupFailed(d)
    /\ UNCHANGED <<pairingVars, raced>>

-----------------------------------------------------------------------------
(* Configured devices.                                                     *)

\* reconfigureDevice() from deviceRemoved() of the plugin on: the parameters
\* change before the plugin is asked, only success stores them.
Reconfigure(d, p, status) ==
    LET object == Reparametrized(device[d], p)
    IN  /\ \/ /\ status = "Success"
              /\ device' = [device EXCEPT ![d] = Reconfigured(object)]
              /\ settings' = Store(m_configuredDevices, device')
              /\ UNCHANGED <<m_asyncDeviceReconfiguration, pendingSetups, unanswered>>
           \/ /\ status = "Async"
              /\ pendingSetups[d] < MaxPending /\ unanswered[d] < MaxPending  \* bounds
              /\ device' = [device EXCEPT ![d] = object]
              /\ m_asyncDeviceReconfiguration' = m_asyncDeviceReconfiguration \cup {d}
              /\ pendingSetups' = [pendingSetups EXCEPT ![d] = @ + 1]
              /\ unanswered' = [unanswered EXCEPT ![d] = @ + 1]
              /\ UNCHANGED settings
           \/ /\ status = "Failure"
              /\ device' = [device EXCEPT ![d] = object]
              /\ UNCHANGED <<settings, m_asyncDeviceReconfiguration, pendingSetups, unanswered>>
        /\ raced' = IF pendingSetups[d] > 0 THEN raced \cup {d} ELSE raced
        /\ UNCHANGED <<m_configuredDevices, timerVars>>

\* reconfigureDevice() with parameters from the user.
ReconfigureDevice(d, p, status) ==
    /\ d \in m_configuredDevices
    /\ ClassOf[d] \in Writable
    /\ p \in ValidParams[ClassOf[d]]
    /\ Reconfigure(d, p, status)
    /\ UNCHANGED pairingVars

\* reconfigureDevice() with a descriptor, used up like in AddDiscoveredDevice;
\* it may change readOnly parameters.
ReconfigureFromDiscovery(d, descriptor, status) ==
    /\ d \in m_configuredDevices
    /\ "Discovery" \in CreateMethods[ClassOf[d]]
    /\ descriptor \in m_discoveredDevices
    /\ m_discoveredDevices' = m_discoveredDevices \ {descriptor}
    /\ IF ParamsOf[descriptor] \in ValidParams[ClassOf[d]]
       THEN Reconfigure(d, ParamsOf[descriptor], status)
       ELSE UNCHANGED <<device, m_configuredDevices, settings, pendingSetups, timerVars,
                        reconfigureVars>>
    /\ UNCHANGED <<m_pairingsDiscovery, pendingPairings>>

\* editDevice(): a new name, and all configured devices are stored.
EditDevice(d) ==
    /\ d \in m_configuredDevices
    /\ settings' = Store(m_configuredDevices, device)
    /\ UNCHANGED <<device, m_configuredDevices, pendingSetups, timerVars, pairingVars,
                   reconfigureVars>>

\* removeConfiguredDevice(): the object is deleted.  A pointer to it stays in
\* m_asyncDeviceReconfiguration and with the plugin that has to finish a setup.
RemoveConfiguredDevice(d) ==
    /\ d \in m_configuredDevices
    /\ m_configuredDevices' = m_configuredDevices \ {d}
    /\ ReleaseTimer(d, m_configuredDevices')
    /\ device' = [device EXCEPT ![d] = Freed(@)]
    /\ settings' = Unstored(d)
    /\ UNCHANGED <<pendingSetups, pairingVars, reconfigureVars>>

-----------------------------------------------------------------------------
(* The process.                                                            *)

\* The server stops, in good order or not: only the settings file stays.
Stop ==
    /\ running
    /\ running' = FALSE
    /\ device' = [d \in DeviceIds |-> NoObject]
    /\ m_configuredDevices' = {}
    /\ m_pluginTimerUsers' = {} /\ m_pluginTimer' = FALSE
    /\ pendingSetups' = [d \in DeviceIds |-> 0]
    /\ m_discoveredDevices' = {} /\ m_pairingsDiscovery' = <<>> /\ pendingPairings' = {}
    /\ m_asyncDeviceReconfiguration' = {} /\ raced' = {}
    /\ unanswered' = [d \in DeviceIds |-> 0]
    /\ UNCHANGED settings

\* It starts: loadConfiguredDevices() sets up every stored device and adds it
\* whatever the plugin answers.
Start ==
    /\ ~running
    /\ running' = TRUE
    /\ \E answer \in [DOMAIN settings -> SetupStatus] :
        LET done == {d \in DOMAIN settings : answer[d] = "Success"}
        IN  /\ device' =
                    [d \in DeviceIds |->
                        IF d \notin DOMAIN settings THEN NoObject
                        ELSE IF d \in done THEN SetUp(Created(settings[d]))
                        ELSE Created(settings[d])]
            /\ pendingSetups' =
                    [d \in DeviceIds |->
                        IF d \in DOMAIN settings /\ answer[d] = "Async" THEN 1 ELSE 0]
            /\ m_pluginTimerUsers' = {Plugin(d) : d \in done} \cap TimerPlugins
            /\ m_pluginTimer' = (m_pluginTimerUsers' # {})
    /\ m_configuredDevices' = DOMAIN settings
    /\ UNCHANGED <<settings, pairingVars, reconfigureVars>>

Init ==
    /\ running = FALSE
    /\ device = [d \in DeviceIds |-> NoObject]
    /\ m_configuredDevices = {}
    /\ m_pluginTimerUsers = {} /\ m_pluginTimer = FALSE
    /\ pendingSetups = [d \in DeviceIds |-> 0]
    /\ m_discoveredDevices = {} /\ m_pairingsDiscovery = <<>> /\ pendingPairings = {}
    /\ m_asyncDeviceReconfiguration = {} /\ raced = {}
    /\ unanswered = [d \in DeviceIds |-> 0]
    /\ settings = <<>>

Operation ==
    \/ \E d \in DeviceIds, status \in SetupStatus :
        \/ \E p \in Params :
            \/ AddConfiguredDevice(d, p, status)
            \/ AutoDeviceAppeared(d, p, status)
            \/ ReconfigureDevice(d, p, status)
        \/ \E descriptor \in Descriptors :
            \/ AddDiscoveredDevice(d, descriptor, status)
            \/ ReconfigureFromDiscovery(d, descriptor, status)
        \/ \E t \in PairingIds : PairingFinished(t, d, status)
        \/ SetupFinished(d, status)
    \/ \E found \in SUBSET Descriptors : DevicesDiscovered(found)
    \/ \E t \in PairingIds, c \in Classes, descriptor \in Descriptors :
        PairDevice(t, c, descriptor)
    \/ \E t \in PairingIds, status \in SetupStatus : ConfirmPairing(t, status)
    \/ \E t \in PairingIds : PairingFailed(t)
    \/ \E d \in DeviceIds : EditDevice(d) \/ RemoveConfiguredDevice(d)

Next == (running /\ Operation /\ UNCHANGED running) \/ Stop \/ Start

Spec == Init /\ [][Next]_vars

-----------------------------------------------------------------------------
(* Properties.                                                              *)

Object == [memory : {"none", "alive", "freed"}, setupComplete : BOOLEAN,
           connections : 0..Several, params : Params \cup {NoParams}]

DevicesTypeOK ==
    /\ running \in BOOLEAN
    /\ device \in [DeviceIds -> Object]
    /\ m_configuredDevices \subseteq DeviceIds
    /\ m_asyncDeviceReconfiguration \subseteq DeviceIds
    /\ m_pluginTimerUsers \subseteq TimerPlugins
    /\ m_pluginTimer \in BOOLEAN
    /\ DOMAIN settings \subseteq DeviceIds
    /\ \A d \in DOMAIN settings : settings[d] \in Params \cup {NoParams}
    /\ pendingSetups \in [DeviceIds -> 0..MaxPending]
    /\ unanswered \in [DeviceIds -> 0..MaxPending]
    /\ raced \subseteq DeviceIds

PairingTypeOK ==
    /\ m_discoveredDevices \subseteq Descriptors
    /\ DOMAIN m_pairingsDiscovery \subseteq PairingIds
    /\ \A t \in DOMAIN m_pairingsDiscovery :
            m_pairingsDiscovery[t] \in [class : Classes, descriptor : Descriptors]
    /\ pendingPairings \subseteq PairingIds

TypeOK == DevicesTypeOK /\ PairingTypeOK

\* The devices file holds exactly the configured devices, by whatever path a
\* device came in, failed or left, so that a start loads the same devices.
StoredAreConfigured == running => DOMAIN settings = m_configuredDevices

\* No plugin gets the timer without a device in the system, and the timer runs
\* exactly when some plugin uses it (devicemanager.cpp:715-730).
TimerServesDevices ==
    /\ \A plugin \in m_pluginTimerUsers : \E d \in m_configuredDevices : Plugin(d) = plugin
    /\ m_pluginTimer <=> m_pluginTimerUsers # {}

\* A state change of a device is never reported twice, unless the device was
\* reconfigured while the plugin still owed an answer for it.
ConnectedAtMostOnce ==
    \A d \in DeviceIds : device[d].memory = "alive" /\ d \notin raced =>
        device[d].connections <= 1

\* A configured device that reports its setup complete works with the
\* parameters the next start will load, with the same exception.
CompleteAsStored ==
    \A d \in m_configuredDevices \ raced :
        device[d].memory = "alive" /\ device[d].setupComplete =>
            settings[d] = device[d].params

\* The file names the configured devices and says how they work.
FileMatchesDevices == StoredAreConfigured /\ CompleteAsStored

\* The manager keeps the promise of DeviceRegistry; while the server is down,
\* the devices of the system are those of the settings file.
Devices == IF running THEN m_configuredDevices ELSE DOMAIN settings
Registry == INSTANCE DeviceRegistry WITH devices <- Devices
KeepsRegistry == Registry!Spec

\* Asserted, and not so: "Device must be a valid pointer" (devicemanager.cpp:
\* 1088) when a plugin finishes a setup.
SetupOfValidPointer ==
    [][\A d \in DeviceIds, status \in SetupStatus :
        SetupFinished(d, status) => device[d].memory = "alive"]_vars

\* Logged, and not so: "Device setup failed. Not adding device to system."
\* (devicemanager.cpp:1227).
PairedOnlyIfSetUp ==
    [][\A t \in PairingIds, d \in DeviceIds :
        PairingFinished(t, d, "Failure") => d \notin m_configuredDevices']_vars

\* Documented, and not so: deviceStateChanged "is emitted when the State of a
\* device changed" (devicemanager.cpp:132), so a device that is set up and
\* functional is connected.
StateChangesReported ==
    \A d \in m_configuredDevices :
        device[d].memory = "alive" /\ device[d].setupComplete =>
            device[d].connections > 0

\* Logged, and not so: after a failed reconfiguration "Not saving changes of
\* device paramters" (devicemanager.cpp:472): a rename saves no parameters.
RenameSavesNoParams ==
    [][\A d \in DeviceIds : EditDevice(d) => settings' = settings]_vars

\* Documented, and not so: deviceReconfigurationFinished "is emitted when the
\* edit process of a device is finished" (devicemanager.cpp:152): when the
\* plugin owes nothing more, no edit is without its signal.
EditsAnswered ==
    \A d \in m_configuredDevices :
        device[d].memory = "alive" /\ pendingSetups[d] = 0 => unanswered[d] = 0

=============================================================================
