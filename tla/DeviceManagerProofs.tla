------------------------- MODULE DeviceManagerProofs -------------------------
(***************************************************************************)
(* Safety of the device manager and its refinement of DeviceRegistry, for  *)
(* every set of devices, classes, parameters and pairings.                 *)
(*                                                                         *)
(* ConnectedAtMostOnce and CompleteAsStored are about two moments of a     *)
(* setup, the plugin's first answer and its late one; Sound(d) says what   *)
(* holds in between: a device that is not raced has at most one answer to  *)
(* come, of an edit exactly when it is in m_asyncDeviceReconfiguration.    *)
(*                                                                         *)
(* Then the loading of the plugins, for every set of versions and of       *)
(* configurations that clients send.                                       *)
(***************************************************************************)
EXTENDS DeviceManager, PluginLoading, FiniteSetTheorems, WellFoundedInduction, TLAPS

\* An id no object was created for is nowhere.
Known(d) ==
    device[d].memory = "none" =>
        /\ pendingSetups[d] = 0
        /\ d \notin m_configuredDevices
        /\ d \notin m_asyncDeviceReconfiguration
        /\ d \notin raced

Sound(d) ==
    device[d].memory = "alive" /\ d \notin raced =>
        /\ device[d].connections <= 1
        /\ pendingSetups[d] <= 1
        /\ pendingSetups[d] = 1 => ~device[d].setupComplete
        /\ d \in m_asyncDeviceReconfiguration =>
                pendingSetups[d] = 1 /\ d \in m_configuredDevices
        /\ pendingSetups[d] = 1 /\ d \notin m_asyncDeviceReconfiguration =>
                device[d].connections = 0
        /\ d \in m_configuredDevices
            /\ (device[d].setupComplete
                  \/ (pendingSetups[d] = 1 /\ d \notin m_asyncDeviceReconfiguration))
           => settings[d] = device[d].params

Tracked ==
    /\ \A d \in DeviceIds : Known(d) /\ Sound(d)
    /\ \A d \in m_asyncDeviceReconfiguration : unanswered[d] >= 1
    /\ ~running => m_asyncDeviceReconfiguration = {} /\ raced = {}

\* Everything but the types of the pairings, which no other part depends on.
Core ==
    /\ DevicesTypeOK
    /\ StoredAreConfigured
    /\ TimerServesDevices
    /\ Tracked

Inv == Core /\ PairingTypeOK

deviceVars == <<device, m_configuredDevices, settings, pendingSetups, timerVars,
                reconfigureVars>>

-----------------------------------------------------------------------------
(* The operators.                                                          *)

\* A store of configured devices keeps the settings well typed.
LEMMA StoreTypes ==
    ASSUME DevicesTypeOK, NEW configured \in SUBSET DeviceIds,
           NEW objects \in [DeviceIds -> Object]
    PROVE  /\ DOMAIN Store(configured, objects) \subseteq DeviceIds
           /\ \A d \in DOMAIN Store(configured, objects) :
                    Store(configured, objects)[d] \in Params \cup {NoParams}
<1>1. \A d \in DeviceIds : objects[d].params \in Params \cup {NoParams}
  BY DEF Object
<1>2. QED
  BY <1>1 DEF Store, DevicesTypeOK

\* The constructor makes a live object, not set up and not connected.
LEMMA CreatedProperties ==
    ASSUME NEW p \in Params \cup {NoParams}
    PROVE  /\ Created(p) \in Object
           /\ Created(p).memory = "alive" /\ Created(p).params = p
           /\ Created(p).connections = 0 /\ Created(p).setupComplete = FALSE
BY DEF Created, Object, Several

\* A setup connects the object once and completes it.
LEMMA SetUpProperties ==
    ASSUME NEW object \in Object
    PROVE  /\ SetUp(object) \in Object
           /\ SetUp(object).memory = object.memory
           /\ SetUp(object).params = object.params
           /\ SetUp(object).setupComplete = TRUE
           /\ object.connections = 0 => SetUp(object).connections = 1
<1> DEFINE more == IF object.connections < Several
                   THEN object.connections + 1 ELSE object.connections
<1>1. object.connections \in 0..2
  BY DEF Object, Several
<1>2. more \in 0..2 /\ (object.connections = 0 => more = 1)
  BY <1>1 DEF Several
<1>3. SetUp(object) = [object EXCEPT !.connections = more, !.setupComplete = TRUE]
  BY DEF SetUp
<1> HIDE DEF more
<1>4. QED
  BY <1>2, <1>3 DEF Object, Several

\* The end of a reconfiguration completes the object, without a connection.
LEMMA ReconfiguredProperties ==
    ASSUME NEW object \in Object
    PROVE  /\ Reconfigured(object) \in Object
           /\ Reconfigured(object).memory = object.memory
           /\ Reconfigured(object).connections = object.connections
           /\ Reconfigured(object).params = object.params
           /\ Reconfigured(object).setupComplete = TRUE
BY DEF Reconfigured, Object

\* New parameters take the setup of the object back.
LEMMA ReparametrizedProperties ==
    ASSUME NEW object \in Object, NEW p \in Params \cup {NoParams}
    PROVE  /\ Reparametrized(object, p) \in Object
           /\ Reparametrized(object, p).memory = object.memory
           /\ Reparametrized(object, p).connections = object.connections
           /\ Reparametrized(object, p).setupComplete = FALSE
<1> DEFINE q == IF object.params = NoParams THEN NoParams ELSE p
<1>1. q \in Params \cup {NoParams}
  OBVIOUS
<1>2. Reparametrized(object, p) = [object EXCEPT !.params = q, !.setupComplete = FALSE]
  BY DEF Reparametrized
<1> HIDE DEF q
<1>3. QED
  BY <1>1, <1>2 DEF Object

\* A deleted object is freed.
LEMMA FreedProperties ==
    ASSUME NEW object \in Object
    PROVE  Freed(object) \in Object /\ Freed(object).memory = "freed"
BY DEF Freed, Object

\* A device that is set up and configured may take the timer for its plugin.
LEMMA UseTimerSound ==
    ASSUME DevicesTypeOK, TimerServesDevices, NEW d \in DeviceIds, UseTimer(d),
           m_configuredDevices' = m_configuredDevices \cup {d}
    PROVE  /\ TimerServesDevices'
           /\ m_pluginTimerUsers' \subseteq TimerPlugins
           /\ m_pluginTimer' \in BOOLEAN
<1>1. CASE Plugin(d) \in TimerPlugins
  BY <1>1 DEF UseTimer, TimerServesDevices, DevicesTypeOK, timerVars
<1>2. CASE Plugin(d) \notin TimerPlugins
  BY <1>2 DEF UseTimer, TimerServesDevices, DevicesTypeOK, timerVars
<1>3. QED
  BY <1>1, <1>2

-----------------------------------------------------------------------------
(* The devices.                                                            *)

\* A device an action does not touch, but for a store of its parameters, is
\* tracked as before.
LEMMA Untouched ==
    ASSUME NEW e, Known(e), Sound(e),
           device'[e] = device[e], pendingSetups'[e] = pendingSetups[e],
           e \in m_configuredDevices' <=> e \in m_configuredDevices,
           e \in m_asyncDeviceReconfiguration' <=> e \in m_asyncDeviceReconfiguration,
           e \in raced' <=> e \in raced,
           e \in m_configuredDevices =>
                settings'[e] = settings[e] \/ settings'[e] = device[e].params
    PROVE  Known(e)' /\ Sound(e)'
BY DEF Known, Sound

\* A new device is registered completely, known to its plugin, or nowhere.
LEMMA SetupNewCore ==
    ASSUME Core, running, UNCHANGED running, NEW d \in DeviceIds,
           NEW p \in Params \cup {NoParams}, NEW status, SetupNew(d, p, status)
    PROVE  Core'
<1> USE DEF Core
<1>1. /\ device[d].memory = "none" /\ device[d] \in Object
      /\ pendingSetups[d] = 0 /\ d \notin m_configuredDevices
      /\ d \notin m_asyncDeviceReconfiguration /\ d \notin raced
  BY DEF SetupNew, DevicesTypeOK, Tracked, Known
<1>2. UNCHANGED reconfigureVars
  BY DEF SetupNew
<1> DEFINE new == SetUp(Created(p))
<1>3. /\ Created(p) \in Object /\ Created(p).memory = "alive"
      /\ Created(p).setupComplete = FALSE /\ Created(p).connections = 0
      /\ new \in Object /\ new.memory = "alive" /\ new.connections = 1
  BY CreatedProperties, SetUpProperties
<1> HIDE DEF new
<1>4. CASE /\ Register(d, new)
           /\ UseTimer(d)
           /\ UNCHANGED pendingSetups
  <2>1. /\ device' = [device EXCEPT ![d] = new]
        /\ m_configuredDevices' = m_configuredDevices \cup {d}
        /\ settings' = Store(m_configuredDevices', device')
    BY <1>4 DEF Register
  <2>2. device' \in [DeviceIds -> Object] /\ m_configuredDevices' \subseteq DeviceIds
    BY <1>3, <2>1 DEF DevicesTypeOK
  <2>3. DevicesTypeOK' /\ TimerServesDevices'
    BY <1>2, <1>4, <2>1, <2>2, StoreTypes, UseTimerSound
       DEF DevicesTypeOK, reconfigureVars
  <2>4. /\ DOMAIN settings' = m_configuredDevices'
        /\ \A e \in m_configuredDevices' : settings'[e] = device'[e].params
    BY <2>1 DEF Store, StoredAreConfigured
  <2>5. ASSUME NEW e \in DeviceIds PROVE Known(e)' /\ Sound(e)'
    <3>1. CASE e = d
      <4>1. device'[d] = new /\ pendingSetups'[d] = 0 /\ d \notin m_asyncDeviceReconfiguration'
        BY <1>1, <1>2, <1>4, <2>1 DEF reconfigureVars, DevicesTypeOK
      <4>2. settings'[d] = device'[d].params
        BY <2>1, <2>4
      <4>3. QED
        BY ONLY <1>3, <3>1, <4>1, <4>2 DEF Known, Sound
    <3>2. CASE e # d
      BY <1>2, <1>4, <2>1, <2>4, <3>2, Untouched DEF Tracked, reconfigureVars, DevicesTypeOK
    <3>3. QED
      BY <3>1, <3>2
  <2>6. QED
    BY <1>2, <2>3, <2>4, <2>5 DEF StoredAreConfigured, Tracked, reconfigureVars
<1>5. CASE /\ device' = [device EXCEPT ![d] = Created(p)]
           /\ pendingSetups' = [pendingSetups EXCEPT ![d] = @ + 1]
           /\ UNCHANGED <<m_configuredDevices, settings, timerVars>>
  <2>1. DevicesTypeOK'
    BY <1>1, <1>2, <1>3, <1>5, MaxPendingAssumption
       DEF DevicesTypeOK, reconfigureVars, timerVars
  <2>2. StoredAreConfigured' /\ TimerServesDevices'
    BY <1>5 DEF StoredAreConfigured, TimerServesDevices, timerVars
  <2>3. \A e \in DeviceIds : Known(e)' /\ Sound(e)'
    BY <1>1, <1>2, <1>3, <1>5 DEF Tracked, Known, Sound, reconfigureVars, DevicesTypeOK
  <2>4. QED
    BY <1>2, <2>1, <2>2, <2>3 DEF Tracked, reconfigureVars
<1>6. CASE UNCHANGED <<device, m_configuredDevices, settings, pendingSetups, timerVars>>
  BY <1>2, <1>6 DEF DevicesTypeOK, StoredAreConfigured, TimerServesDevices, Tracked,
                    Known, Sound, timerVars, reconfigureVars
<1>7. QED
  BY <1>4, <1>5, <1>6 DEF SetupNew, new

\* A paired device whose setup failed is deleted and registered.
LEMMA RegisterFreedCore ==
    ASSUME Core, running, UNCHANGED running, NEW d \in DeviceIds,
           NEW p \in Params \cup {NoParams},
           Register(d, Freed(Created(p))), device[d].memory = "none",
           UNCHANGED <<pendingSetups, timerVars, reconfigureVars>>
    PROVE  Core'
<1> USE DEF Core
<1> DEFINE new == Freed(Created(p))
<1>1. new \in Object /\ new.memory = "freed"
  BY CreatedProperties, FreedProperties
<1>2. /\ device' = [device EXCEPT ![d] = new]
      /\ m_configuredDevices' = m_configuredDevices \cup {d}
      /\ settings' = Store(m_configuredDevices', device')
  BY DEF Register
<1> HIDE DEF new
<1>3. device' \in [DeviceIds -> Object] /\ m_configuredDevices' \subseteq DeviceIds
  BY <1>1, <1>2 DEF DevicesTypeOK
<1>4. DevicesTypeOK'
  BY <1>2, <1>3, StoreTypes DEF DevicesTypeOK, reconfigureVars, timerVars
<1>5. TimerServesDevices'
  BY <1>2 DEF TimerServesDevices, timerVars
<1>6. /\ DOMAIN settings' = m_configuredDevices'
      /\ \A e \in m_configuredDevices' : settings'[e] = device'[e].params
  BY <1>2 DEF Store, StoredAreConfigured
<1>7. ASSUME NEW e \in DeviceIds PROVE Known(e)' /\ Sound(e)'
  <2>1. CASE e = d
    <3>1. device'[d] = new
      BY <1>2 DEF DevicesTypeOK
    <3>2. QED
      BY ONLY <1>1, <2>1, <3>1 DEF Known, Sound
  <2>2. CASE e # d
    BY <1>2, <1>6, <2>2, Untouched DEF Tracked, reconfigureVars, DevicesTypeOK
  <2>3. QED
    BY <2>1, <2>2
<1>8. QED
  BY <1>4, <1>5, <1>6, <1>7 DEF StoredAreConfigured, Tracked, reconfigureVars

\* The late answer of a plugin is about the device's only setup, unless the
\* device is raced or deleted.
LEMMA SetupFinishedCore ==
    ASSUME Core, running, UNCHANGED running, NEW d \in DeviceIds, NEW status,
           SetupFinished(d, status)
    PROVE  Core'
<1> USE DEF Core
<1>1. /\ pendingSetups[d] \in 1..MaxPending /\ device[d] \in Object
      /\ device[d].memory # "none"
  BY DEF SetupFinished, DevicesTypeOK, Tracked, Known
<1>2. /\ pendingSetups' = [pendingSetups EXCEPT ![d] = @ - 1]
      /\ pendingSetups' \in [DeviceIds -> 0..MaxPending]
      /\ UNCHANGED raced
  BY <1>1, MaxPendingAssumption DEF SetupFinished, DevicesTypeOK
<1>3. pendingSetups'[d] = pendingSetups[d] - 1
  BY <1>2 DEF DevicesTypeOK
<1>4. \A e \in DeviceIds \ {d} : pendingSetups'[e] = pendingSetups[e]
  BY <1>2 DEF DevicesTypeOK
<1>5. Known(d) /\ Sound(d) /\ \A e \in DeviceIds : Known(e) /\ Sound(e)
  BY DEF Tracked
<1>6. CASE /\ device[d].setupComplete
           /\ UNCHANGED <<device, m_configuredDevices, settings, timerVars,
                          m_asyncDeviceReconfiguration, unanswered>>
  <2>1. DevicesTypeOK' /\ StoredAreConfigured' /\ TimerServesDevices'
    BY <1>2, <1>6 DEF DevicesTypeOK, StoredAreConfigured, TimerServesDevices, timerVars
  <2>2. Known(d)' /\ Sound(d)'
    <3>1. ~(device[d].memory = "alive" /\ d \notin raced)
      <4>1. pendingSetups[d] <= 1 => pendingSetups[d] = 1
        BY <1>1
      <4>2. QED
        BY ONLY <1>5, <1>6, <4>1 DEF Sound
    <3>2. device' = device /\ raced' = raced
      BY <1>2, <1>6
    <3>3. QED
      BY ONLY <1>1, <3>1, <3>2 DEF Known, Sound
  <2>3. \A e \in DeviceIds \ {d} : Known(e)' /\ Sound(e)'
    BY <1>2, <1>4, <1>5, <1>6, Untouched
  <2>4. QED
    BY <1>2, <1>6, <2>1, <2>2, <2>3 DEF Tracked
<1>7. CASE ~device[d].setupComplete /\ SetupSucceeded(d)
  <2>1. m_configuredDevices' = m_configuredDevices \cup {d} /\ UseTimer(d)
    BY <1>7 DEF SetupSucceeded
  <2>2. CASE d \in m_asyncDeviceReconfiguration
    <3> DEFINE new == Reconfigured(device[d])
    <3>1. /\ new \in Object /\ new.memory = device[d].memory
          /\ new.connections = device[d].connections
          /\ new.params = device[d].params
      BY <1>1, ReconfiguredProperties
    <3>2. /\ device' = [device EXCEPT ![d] = new]
          /\ m_asyncDeviceReconfiguration' = m_asyncDeviceReconfiguration \ {d}
          /\ unanswered' = [unanswered EXCEPT ![d] = @ - 1]
          /\ settings' = Store(m_configuredDevices', device)
      BY <1>7, <2>2 DEF SetupSucceeded, EditFinished
    <3> HIDE DEF new
    <3>3. /\ device' \in [DeviceIds -> Object] /\ m_configuredDevices' \subseteq DeviceIds
          /\ device'[d] = new
      BY <2>1, <3>1, <3>2 DEF DevicesTypeOK
    <3>4. unanswered' \in [DeviceIds -> 0..MaxPending]
      <4>1. unanswered[d] \in 1..MaxPending
        BY <2>2, MaxPendingAssumption DEF Tracked, DevicesTypeOK
      <4>2. QED
        BY <3>2, <4>1, MaxPendingAssumption DEF DevicesTypeOK
    <3>5. DevicesTypeOK' /\ TimerServesDevices'
      BY <1>2, <2>1, <3>2, <3>3, <3>4, StoreTypes, UseTimerSound DEF DevicesTypeOK
    <3>6. /\ DOMAIN settings' = m_configuredDevices'
          /\ \A e \in m_configuredDevices' : settings'[e] = device[e].params
      BY <2>1, <3>2 DEF Store, StoredAreConfigured
    <3>7. Known(d)' /\ Sound(d)'
      <4>1. d \notin m_asyncDeviceReconfiguration' /\ d \in m_configuredDevices'
        BY <2>1, <3>2
      <4>2. settings'[d] = device'[d].params
        BY <3>1, <3>3, <3>6, <4>1
      <4>3. pendingSetups[d] \in Nat /\ pendingSetups[d] >= 1
        BY <1>1, MaxPendingAssumption
      <4>4. QED
        BY ONLY <1>1, <1>2, <1>3, <1>5, <3>1, <3>3, <4>1, <4>2, <4>3 DEF Known, Sound
    <3>8. \A e \in DeviceIds \ {d} : Known(e)' /\ Sound(e)'
      BY <1>2, <1>4, <1>5, <2>1, <3>2, <3>6, Untouched DEF DevicesTypeOK
    <3>9. \A e \in m_asyncDeviceReconfiguration' : unanswered'[e] >= 1
      BY <3>2 DEF Tracked, DevicesTypeOK
    <3>10. QED
      BY <3>5, <3>6, <3>7, <3>8, <3>9 DEF StoredAreConfigured, Tracked
  <2>3. CASE d \notin m_asyncDeviceReconfiguration
    <3> DEFINE new == SetUp(device[d])
    <3>1. /\ new \in Object /\ new.memory = device[d].memory
          /\ new.params = device[d].params
          /\ device[d].connections = 0 => new.connections = 1
      BY <1>1, SetUpProperties
    <3>2. /\ device' = [device EXCEPT ![d] = new]
          /\ UNCHANGED <<m_asyncDeviceReconfiguration, unanswered>>
          /\ settings' = IF d \in m_configuredDevices THEN settings
                         ELSE Store(m_configuredDevices', device)
      BY <1>7, <2>3 DEF SetupSucceeded
    <3> HIDE DEF new
    <3>3. /\ device' \in [DeviceIds -> Object] /\ m_configuredDevices' \subseteq DeviceIds
          /\ device'[d] = new
      BY <2>1, <3>1, <3>2 DEF DevicesTypeOK
    <3>4. DevicesTypeOK' /\ TimerServesDevices'
      BY <1>2, <2>1, <3>2, <3>3, StoreTypes, UseTimerSound DEF DevicesTypeOK
    <3>5. /\ DOMAIN settings' = m_configuredDevices'
          /\ \A e \in m_configuredDevices :
                settings'[e] = settings[e] \/ settings'[e] = device[e].params
          /\ d \notin m_configuredDevices => settings'[d] = device[d].params
          /\ d \in m_configuredDevices => settings'[d] = settings[d]
      BY <2>1, <3>2 DEF Store, StoredAreConfigured
    <3>6. Known(d)' /\ Sound(d)'
      <4>1. pendingSetups[d] \in Nat /\ pendingSetups[d] >= 1
        BY <1>1, MaxPendingAssumption
      <4>2. QED
        BY ONLY <1>1, <1>2, <1>3, <1>5, <2>3, <3>1, <3>2, <3>3, <3>5, <4>1
           DEF Known, Sound
    <3>7. \A e \in DeviceIds \ {d} : Known(e)' /\ Sound(e)'
      BY <1>2, <1>4, <1>5, <2>1, <3>2, <3>5, Untouched DEF DevicesTypeOK
    <3>8. QED
      BY <1>2, <3>2, <3>4, <3>5, <3>6, <3>7 DEF StoredAreConfigured, Tracked
  <2>4. QED
    BY <2>2, <2>3
<1>8. CASE ~device[d].setupComplete /\ SetupFailed(d)
  <2>1. UNCHANGED <<device, m_configuredDevices, timerVars>>
    BY <1>8 DEF SetupFailed
  <2>2. CASE /\ d \in m_asyncDeviceReconfiguration
             /\ EditFinished(d, m_configuredDevices)
    <3>1. /\ m_asyncDeviceReconfiguration' = m_asyncDeviceReconfiguration \ {d}
          /\ unanswered' = [unanswered EXCEPT ![d] = @ - 1]
          /\ settings' = Store(m_configuredDevices, device)
      BY <2>2 DEF EditFinished
    <3>2. unanswered' \in [DeviceIds -> 0..MaxPending]
      <4>1. unanswered[d] \in 1..MaxPending
        BY <2>2, MaxPendingAssumption DEF Tracked, DevicesTypeOK
      <4>2. QED
        BY <3>1, <4>1, MaxPendingAssumption DEF DevicesTypeOK
    <3>3. DevicesTypeOK'
      BY <1>2, <2>1, <3>1, <3>2, StoreTypes DEF DevicesTypeOK, timerVars
    <3>4. TimerServesDevices'
      BY <2>1 DEF TimerServesDevices, timerVars
    <3>5. /\ DOMAIN settings' = m_configuredDevices
          /\ \A e \in m_configuredDevices : settings'[e] = device[e].params
      BY <3>1 DEF Store, StoredAreConfigured
    <3>6. Known(d)' /\ Sound(d)'
      <4>1. pendingSetups[d] \in Nat /\ pendingSetups[d] >= 1
        BY <1>1, MaxPendingAssumption
      <4>2. device' = device /\ m_configuredDevices' = m_configuredDevices
            /\ d \notin m_asyncDeviceReconfiguration'
        BY <2>1, <3>1
      <4>3. QED
        BY ONLY <1>1, <1>2, <1>3, <1>5, <1>8, <4>1, <4>2, <3>5 DEF Known, Sound
    <3>7. \A e \in DeviceIds \ {d} : Known(e)' /\ Sound(e)'
      BY <1>2, <1>4, <1>5, <2>1, <3>1, <3>5, Untouched
    <3>8. \A e \in m_asyncDeviceReconfiguration' : unanswered'[e] >= 1
      BY <3>1 DEF Tracked, DevicesTypeOK
    <3>9. QED
      BY <2>1, <3>3, <3>4, <3>5, <3>6, <3>7, <3>8 DEF StoredAreConfigured, Tracked
  <2>3. CASE /\ d \notin m_configuredDevices \cap m_asyncDeviceReconfiguration
             /\ UNCHANGED <<settings, m_asyncDeviceReconfiguration, unanswered>>
    <3>1. DevicesTypeOK' /\ StoredAreConfigured' /\ TimerServesDevices'
      BY <1>2, <2>1, <2>3 DEF DevicesTypeOK, StoredAreConfigured, TimerServesDevices, timerVars
    <3>2. Known(d)' /\ Sound(d)'
      <4>1. pendingSetups[d] \in Nat /\ pendingSetups[d] >= 1
        BY <1>1, MaxPendingAssumption
      <4>2. QED
        BY ONLY <1>1, <1>2, <1>3, <1>5, <1>8, <2>1, <2>3, <4>1 DEF Known, Sound
    <3>3. \A e \in DeviceIds \ {d} : Known(e)' /\ Sound(e)'
      BY <1>2, <1>4, <1>5, <2>1, <2>3, Untouched
    <3>4. QED
      BY <1>2, <2>3, <3>1, <3>2, <3>3 DEF Tracked
  <2>4. QED
    BY <1>8, <2>2, <2>3 DEF SetupFailed
<1>9. QED
  BY <1>6, <1>7, <1>8 DEF SetupFinished

\* A reconfiguration during a setup races it; any other one leaves the device
\* with what is stored, waiting for its only answer, or not set up.
LEMMA ReconfigureCore ==
    ASSUME Core, running, UNCHANGED running, NEW d \in m_configuredDevices,
           NEW p \in Params, NEW status, Reconfigure(d, p, status)
    PROVE  Core'
<1> USE DEF Core
<1>1. d \in DeviceIds /\ device[d] \in Object /\ pendingSetups[d] \in 0..MaxPending
  BY DEF DevicesTypeOK
<1> DEFINE object == Reparametrized(device[d], p)
           done == Reconfigured(object)
<1>2. /\ object \in Object /\ object.memory = device[d].memory
      /\ object.connections = device[d].connections
      /\ object.setupComplete = FALSE
  BY <1>1, ReparametrizedProperties
<1>3. /\ done \in Object /\ done.memory = device[d].memory
      /\ done.connections = device[d].connections
      /\ done.params = object.params
  BY <1>2, ReconfiguredProperties
<1>4. /\ raced' = IF pendingSetups[d] > 0 THEN raced \cup {d} ELSE raced
      /\ UNCHANGED <<m_configuredDevices, timerVars>>
  BY DEF Reconfigure
<1>5. \/ /\ device' = [device EXCEPT ![d] = done]
         /\ settings' = Store(m_configuredDevices, device')
         /\ UNCHANGED <<m_asyncDeviceReconfiguration, pendingSetups, unanswered>>
      \/ /\ pendingSetups[d] < MaxPending /\ unanswered[d] < MaxPending
         /\ device' = [device EXCEPT ![d] = object]
         /\ m_asyncDeviceReconfiguration' = m_asyncDeviceReconfiguration \cup {d}
         /\ pendingSetups' = [pendingSetups EXCEPT ![d] = @ + 1]
         /\ unanswered' = [unanswered EXCEPT ![d] = @ + 1]
         /\ UNCHANGED settings
      \/ /\ device' = [device EXCEPT ![d] = object]
         /\ UNCHANGED <<settings, m_asyncDeviceReconfiguration, pendingSetups, unanswered>>
  BY DEF Reconfigure
<1> HIDE DEF object, done
<1>6. Known(d) /\ Sound(d) /\ \A e \in DeviceIds : Known(e) /\ Sound(e)
  BY <1>1 DEF Tracked
<1>7. TimerServesDevices' /\ raced' \subseteq DeviceIds
  BY <1>1, <1>4 DEF TimerServesDevices, timerVars, DevicesTypeOK
<1>8. /\ d \notin raced' => d \notin raced /\ pendingSetups[d] = 0
      /\ raced \subseteq raced'
      /\ \A e \in DeviceIds \ {d} : e \in raced' <=> e \in raced
  <2>1. CASE pendingSetups[d] > 0
    BY <1>4, <2>1
  <2>2. CASE ~(pendingSetups[d] > 0)
    BY <1>1, <1>4, <2>2, MaxPendingAssumption
  <2>3. QED
    BY <2>1, <2>2
<1>9. device[d].memory = "alive" /\ d \notin raced' => d \notin m_asyncDeviceReconfiguration
  BY ONLY <1>6, <1>8 DEF Sound
<1>10. device[d].memory # "none"
  BY <1>6 DEF Known
<1>11. CASE /\ device' = [device EXCEPT ![d] = done]
            /\ settings' = Store(m_configuredDevices, device')
            /\ UNCHANGED <<m_asyncDeviceReconfiguration, pendingSetups, unanswered>>
  <2>1. device' \in [DeviceIds -> Object] /\ device'[d] = done
    BY <1>1, <1>3, <1>11 DEF DevicesTypeOK
  <2>2. DevicesTypeOK'
    BY <1>4, <1>7, <1>11, <2>1, StoreTypes DEF DevicesTypeOK, timerVars
  <2>3. /\ DOMAIN settings' = m_configuredDevices
        /\ \A e \in m_configuredDevices : settings'[e] = device'[e].params
    BY <1>11 DEF Store, StoredAreConfigured
  <2>4. Known(d)' /\ Sound(d)'
    <3>1. pendingSetups' = pendingSetups /\ settings'[d] = device'[d].params
          /\ m_asyncDeviceReconfiguration' = m_asyncDeviceReconfiguration
      BY <1>11, <2>3
    <3>2. QED
      BY ONLY <1>3, <1>6, <1>8, <1>9, <1>10, <2>1, <3>1 DEF Known, Sound
  <2>5. \A e \in DeviceIds \ {d} : Known(e)' /\ Sound(e)'
    BY <1>4, <1>6, <1>8, <1>11, <2>3, Untouched DEF DevicesTypeOK
  <2>6. QED
    BY <1>4, <1>7, <1>11, <2>2, <2>3, <2>4, <2>5 DEF StoredAreConfigured, Tracked
<1>12. CASE /\ pendingSetups[d] < MaxPending /\ unanswered[d] < MaxPending
            /\ device' = [device EXCEPT ![d] = object]
            /\ m_asyncDeviceReconfiguration' = m_asyncDeviceReconfiguration \cup {d}
            /\ pendingSetups' = [pendingSetups EXCEPT ![d] = @ + 1]
            /\ unanswered' = [unanswered EXCEPT ![d] = @ + 1]
            /\ UNCHANGED settings
  <2>1. device' \in [DeviceIds -> Object] /\ device'[d] = object
    BY <1>1, <1>2, <1>12 DEF DevicesTypeOK
  <2>2. /\ pendingSetups' \in [DeviceIds -> 0..MaxPending]
        /\ unanswered' \in [DeviceIds -> 0..MaxPending]
        /\ pendingSetups'[d] = pendingSetups[d] + 1 /\ unanswered'[d] >= 1
    BY <1>1, <1>12, MaxPendingAssumption DEF DevicesTypeOK
  <2>3. DevicesTypeOK'
    BY <1>1, <1>4, <1>7, <1>12, <2>1, <2>2 DEF DevicesTypeOK, timerVars
  <2>4. Known(d)' /\ Sound(d)'
    <3>1. m_configuredDevices' = m_configuredDevices /\ d \in m_configuredDevices
          /\ d \in m_asyncDeviceReconfiguration'
      BY <1>4, <1>12
    <3>2. QED
      BY ONLY <1>2, <1>6, <1>8, <1>10, <2>1, <2>2, <3>1 DEF Known, Sound
  <2>5. \A e \in DeviceIds \ {d} : Known(e)' /\ Sound(e)'
    BY <1>4, <1>6, <1>8, <1>12, Untouched DEF DevicesTypeOK
  <2>6. \A e \in m_asyncDeviceReconfiguration' : unanswered'[e] >= 1
    BY <1>12, <2>2 DEF Tracked, DevicesTypeOK
  <2>7. QED
    BY <1>4, <1>7, <1>12, <2>3, <2>4, <2>5, <2>6 DEF StoredAreConfigured, Tracked
<1>13. CASE /\ device' = [device EXCEPT ![d] = object]
            /\ UNCHANGED <<settings, m_asyncDeviceReconfiguration, pendingSetups, unanswered>>
  <2>1. device' \in [DeviceIds -> Object] /\ device'[d] = object
    BY <1>1, <1>2, <1>13 DEF DevicesTypeOK
  <2>2. DevicesTypeOK'
    BY <1>4, <1>7, <1>13, <2>1 DEF DevicesTypeOK, timerVars
  <2>3. Known(d)' /\ Sound(d)'
    <3>1. pendingSetups' = pendingSetups
          /\ m_asyncDeviceReconfiguration' = m_asyncDeviceReconfiguration
      BY <1>13
    <3>2. QED
      BY ONLY <1>2, <1>6, <1>8, <1>9, <1>10, <2>1, <3>1 DEF Known, Sound
  <2>4. \A e \in DeviceIds \ {d} : Known(e)' /\ Sound(e)'
    BY <1>4, <1>6, <1>8, <1>13, Untouched DEF DevicesTypeOK
  <2>5. QED
    BY <1>4, <1>7, <1>13, <2>2, <2>3, <2>4 DEF StoredAreConfigured, Tracked
<1>14. QED
  BY <1>5, <1>11, <1>12, <1>13

\* A rename stores the parameters the objects have.
LEMMA EditDeviceCore ==
    ASSUME Core, running, UNCHANGED running, NEW d \in DeviceIds, EditDevice(d)
    PROVE  Core'
<1> USE DEF Core
<1>1. /\ settings' = Store(m_configuredDevices, device)
      /\ UNCHANGED <<device, m_configuredDevices, pendingSetups, timerVars, reconfigureVars>>
  BY DEF EditDevice
<1>2. DevicesTypeOK'
  BY <1>1, StoreTypes DEF DevicesTypeOK, timerVars, reconfigureVars
<1>3. TimerServesDevices'
  BY <1>1 DEF TimerServesDevices, timerVars
<1>4. /\ DOMAIN settings' = m_configuredDevices
      /\ \A e \in m_configuredDevices : settings'[e] = device[e].params
  BY <1>1 DEF Store, StoredAreConfigured
<1>5. \A e \in DeviceIds : Known(e)' /\ Sound(e)'
  BY <1>1, <1>4, Untouched DEF Tracked, reconfigureVars
<1>6. QED
  BY <1>1, <1>2, <1>3, <1>4, <1>5 DEF StoredAreConfigured, Tracked, reconfigureVars

\* A removed device takes its settings and, as the last one of its plugin, the
\* plugin's use of the timer with it.
LEMMA RemoveConfiguredDeviceCore ==
    ASSUME Core, running, UNCHANGED running, NEW d \in DeviceIds, RemoveConfiguredDevice(d)
    PROVE  Core'
<1> USE DEF Core
<1> DEFINE new == Freed(device[d])
<1>1. /\ d \in m_configuredDevices
      /\ m_configuredDevices' = m_configuredDevices \ {d}
      /\ ReleaseTimer(d, m_configuredDevices')
      /\ device' = [device EXCEPT ![d] = new]
      /\ settings' = Restrict(settings, DOMAIN settings \ {d})
      /\ UNCHANGED <<pendingSetups, reconfigureVars>>
  BY DEF RemoveConfiguredDevice, Unstored
<1>2. new \in Object /\ new.memory = "freed"
  BY FreedProperties DEF DevicesTypeOK
<1> HIDE DEF new
<1>3. /\ DOMAIN settings' = m_configuredDevices'
      /\ \A e \in m_configuredDevices' : settings'[e] = settings[e]
  BY <1>1 DEF Restrict, StoredAreConfigured
<1>4. /\ TimerServesDevices' /\ m_pluginTimerUsers' \subseteq TimerPlugins
      /\ m_pluginTimer' \in BOOLEAN
  <2>1. CASE \E e \in m_configuredDevices' : Plugin(e) = Plugin(d)
    BY <1>1, <2>1 DEF ReleaseTimer, TimerServesDevices, DevicesTypeOK, timerVars
  <2>2. CASE ~\E e \in m_configuredDevices' : Plugin(e) = Plugin(d)
    <3>1. /\ m_pluginTimerUsers' = m_pluginTimerUsers \ {Plugin(d)}
          /\ m_pluginTimer' = (m_pluginTimer /\ m_pluginTimerUsers' # {})
      BY <1>1, <2>2 DEF ReleaseTimer
    <3>2. \A plugin \in m_pluginTimerUsers' : \E e \in m_configuredDevices' : Plugin(e) = plugin
      BY <1>1, <3>1 DEF TimerServesDevices
    <3>3. m_pluginTimer' <=> m_pluginTimerUsers' # {}
      BY <3>1 DEF TimerServesDevices
    <3>4. QED
      BY <3>1, <3>2, <3>3 DEF TimerServesDevices, DevicesTypeOK, Plugin
  <2>3. QED
    BY <2>1, <2>2
<1>5. DevicesTypeOK'
  BY <1>1, <1>2, <1>3, <1>4 DEF DevicesTypeOK, StoredAreConfigured, reconfigureVars
<1>6. ASSUME NEW e \in DeviceIds PROVE Known(e)' /\ Sound(e)'
  <2>1. CASE e = d
    <3>1. device'[d] = new
      BY <1>1 DEF DevicesTypeOK
    <3>2. QED
      BY ONLY <1>2, <2>1, <3>1 DEF Known, Sound
  <2>2. CASE e # d
    BY <1>1, <1>3, <2>2, Untouched DEF Tracked, reconfigureVars, DevicesTypeOK
  <2>3. QED
    BY <2>1, <2>2
<1>7. QED
  BY <1>1, <1>3, <1>4, <1>5, <1>6 DEF StoredAreConfigured, Tracked, reconfigureVars

\* Only the settings are read and kept when the server stops.
LEMMA StopCore ==
    ASSUME Core, Stop
    PROVE  Core'
<1>1. NoObject \in Object
  BY DEF NoObject, Object, Several
<1>2. DevicesTypeOK'
  <2>1. 0 \in 0..MaxPending
    BY MaxPendingAssumption
  <2>2. /\ device' \in [DeviceIds -> Object]
        /\ pendingSetups' \in [DeviceIds -> 0..MaxPending]
        /\ unanswered' \in [DeviceIds -> 0..MaxPending]
    BY <1>1, <2>1 DEF Stop
  <2>3. running' \in BOOLEAN /\ m_pluginTimer' \in BOOLEAN
    BY DEF Stop
  <2>4. QED
    BY <2>2, <2>3 DEF Core, Stop, DevicesTypeOK
<1>3. StoredAreConfigured' /\ TimerServesDevices'
  BY DEF Stop, StoredAreConfigured, TimerServesDevices
<1>4. Tracked'
  BY DEF Stop, Tracked, Known, Sound, NoObject
<1>5. QED
  BY <1>2, <1>3, <1>4 DEF Core

\* Every stored device is configured after a start, set up, waiting for its
\* only answer, or failed.
LEMMA StartCore ==
    ASSUME Core, Start
    PROVE  Core'
<1> USE DEF Core
<1>1. PICK answer \in [DOMAIN settings -> SetupStatus] :
        LET done == {d \in DOMAIN settings : answer[d] = "Success"}
        IN  /\ device' =
                    [d \in DeviceIds |->
                        IF d \notin DOMAIN settings THEN NoObject
                        ELSE IF d \in done THEN SetUp(Created(settings[d]))
                        ELSE Created(settings[d])]
            /\ pendingSetups' =
                    [d \in DeviceIds |->
                        IF d \in DOMAIN settings /\ answer[d] = "Async" THEN 1 ELSE 0]
            /\ m_pluginTimerUsers' = {Plugin(d) : d \in done} \cap TimerPlugins
            /\ m_pluginTimer' = (m_pluginTimerUsers' # {})
  BY DEF Start
<1> DEFINE done == {d \in DOMAIN settings : answer[d] = "Success"}
<1>2. /\ ~running /\ running' = TRUE /\ m_configuredDevices' = DOMAIN settings
      /\ UNCHANGED <<settings, reconfigureVars>>
  BY DEF Start
<1>3. ASSUME NEW d \in DOMAIN settings
      PROVE  /\ d \in DeviceIds
             /\ Created(settings[d]) \in Object
             /\ Created(settings[d]).memory = "alive"
             /\ Created(settings[d]).setupComplete = FALSE
             /\ Created(settings[d]).connections = 0
             /\ Created(settings[d]).params = settings[d]
             /\ SetUp(Created(settings[d])) \in Object
             /\ SetUp(Created(settings[d])).memory = "alive"
             /\ SetUp(Created(settings[d])).connections = 1
             /\ SetUp(Created(settings[d])).params = settings[d]
  BY CreatedProperties, SetUpProperties DEF DevicesTypeOK
<1>4. NoObject \in Object
  BY DEF NoObject, Object, Several
<1>5. DevicesTypeOK'
  <2>1. device' \in [DeviceIds -> Object]
    BY <1>1, <1>3, <1>4
  <2>2. pendingSetups' \in [DeviceIds -> 0..MaxPending]
    BY <1>1, MaxPendingAssumption
  <2>3. m_pluginTimerUsers' \subseteq TimerPlugins /\ m_pluginTimer' \in BOOLEAN
    BY <1>1
  <2>4. QED
    BY <1>2, <2>1, <2>2, <2>3 DEF DevicesTypeOK, reconfigureVars
<1>6. StoredAreConfigured' /\ TimerServesDevices'
  BY <1>1, <1>2 DEF StoredAreConfigured, TimerServesDevices
<1>7. ASSUME NEW d \in DeviceIds PROVE Known(d)' /\ Sound(d)'
  <2>1. d \notin m_asyncDeviceReconfiguration'
    BY <1>2 DEF Tracked, reconfigureVars
  <2>2. d \notin raced'
    BY <1>2 DEF Tracked, reconfigureVars
  <2>3. CASE d \notin DOMAIN settings
    <3>1. device'[d] = NoObject /\ pendingSetups'[d] = 0
      BY <1>1, <2>3
    <3>2. QED
      BY <1>2, <2>1, <2>2, <2>3, <3>1 DEF Known, Sound, NoObject
  <2>4. CASE d \in done
    <3>1. device'[d] = SetUp(Created(settings[d])) /\ pendingSetups'[d] = 0
      BY <1>1, <2>4
    <3>2. settings' = settings /\ d \in DOMAIN settings
      BY <1>2, <2>4
    <3>3. device'[d].memory = "alive" /\ device'[d].params = settings'[d]
          /\ device'[d].connections = 1
      BY <1>3, <3>1, <3>2
    <3>4. QED
      BY ONLY <2>1, <3>1, <3>3 DEF Known, Sound
  <2>5. CASE d \in DOMAIN settings \ done
    <3>1. device'[d] = Created(settings[d]) /\ pendingSetups'[d] \in {0, 1}
      BY <1>1, <2>5
    <3>2. settings' = settings /\ d \in DOMAIN settings
      BY <1>2, <2>5
    <3>3. device'[d].memory = "alive" /\ device'[d].params = settings'[d]
          /\ device'[d].connections = 0 /\ device'[d].setupComplete = FALSE
      BY <1>3, <3>1, <3>2
    <3>4. QED
      BY ONLY <2>1, <3>1, <3>3 DEF Known, Sound
  <2>6. QED
    BY <2>3, <2>4, <2>5
<1>8. QED
  BY <1>2, <1>5, <1>6, <1>7 DEF Tracked, reconfigureVars

\* Steps of pairings and discoveries leave the devices alone.
LEMMA UnchangedCore ==
    ASSUME Core, UNCHANGED <<running, deviceVars>>
    PROVE  Core'
BY DEF Core, deviceVars, reconfigureVars, timerVars, DevicesTypeOK, StoredAreConfigured,
       TimerServesDevices, Tracked, Known, Sound

-----------------------------------------------------------------------------
(* Discoveries and pairings.                                               *)

\* Discoveries and pairings keep their types, whatever else an action does.
LEMMA PairingTypes ==
    ASSUME PairingTypeOK, Operation
    PROVE  PairingTypeOK'
<1> USE DEF PairingTypeOK
<1>1. ASSUME UNCHANGED pairingVars PROVE PairingTypeOK'
  BY <1>1 DEF pairingVars
<1>2. ASSUME NEW t, Forget(t), m_discoveredDevices' \subseteq m_discoveredDevices,
             pendingPairings' \subseteq pendingPairings
      PROVE  PairingTypeOK'
  BY <1>2 DEF Forget, Restrict
<1>3. ASSUME NEW d, NEW p, NEW status,
             \/ AddConfiguredDevice(d, p, status) \/ AutoDeviceAppeared(d, p, status)
             \/ ReconfigureDevice(d, p, status)
      PROVE  PairingTypeOK'
  BY <1>1, <1>3 DEF AddConfiguredDevice, AutoDeviceAppeared, ReconfigureDevice
<1>4. ASSUME NEW d, NEW descriptor, NEW status,
             \/ AddDiscoveredDevice(d, descriptor, status)
             \/ ReconfigureFromDiscovery(d, descriptor, status)
      PROVE  PairingTypeOK'
  BY <1>4 DEF AddDiscoveredDevice, ReconfigureFromDiscovery
<1>5. ASSUME NEW t, NEW d, NEW status, PairingFinished(t, d, status)
      PROVE  PairingTypeOK'
  BY <1>2, <1>5 DEF PairingFinished
<1>6. ASSUME NEW d, NEW status,
             SetupFinished(d, status) \/ EditDevice(d) \/ RemoveConfiguredDevice(d)
      PROVE  PairingTypeOK'
  BY <1>1, <1>6 DEF SetupFinished, EditDevice, RemoveConfiguredDevice
<1>7. ASSUME NEW found \in SUBSET Descriptors, DevicesDiscovered(found)
      PROVE  PairingTypeOK'
  BY <1>7 DEF DevicesDiscovered
<1>8. ASSUME NEW t \in PairingIds, NEW c \in Classes, NEW descriptor \in Descriptors,
             PairDevice(t, c, descriptor)
      PROVE  PairingTypeOK'
  BY <1>8 DEF PairDevice
<1>9. ASSUME NEW t \in PairingIds, NEW status, ConfirmPairing(t, status)
      PROVE  PairingTypeOK'
  BY <1>2, <1>9 DEF ConfirmPairing
<1>10. ASSUME NEW t \in PairingIds, PairingFailed(t)
       PROVE  PairingTypeOK'
  BY <1>2, <1>10 DEF PairingFailed
<1>11. QED
  BY <1>3, <1>4, <1>5, <1>6, <1>7, <1>8, <1>9, <1>10 DEF Operation

\* The devices stay as they should, whatever operation the manager carries out.
LEMMA OperationCore ==
    ASSUME Inv, running, Operation, UNCHANGED running
    PROVE  Core'
<1> USE DEF Inv
<1>1. ASSUME NEW d \in DeviceIds, NEW p \in Params, NEW status,
             AddConfiguredDevice(d, p, status) \/ AutoDeviceAppeared(d, p, status)
      PROVE  Core'
  BY <1>1, SetupNewCore DEF AddConfiguredDevice, AutoDeviceAppeared
<1>2. ASSUME NEW d \in DeviceIds, NEW descriptor \in Descriptors, NEW status,
             AddDiscoveredDevice(d, descriptor, status)
      PROVE  Core'
  <2>1. SetupNew(d, ParamsOf[descriptor], status) \/ UNCHANGED deviceVars
    BY <1>2 DEF AddDiscoveredDevice, deviceVars
  <2>2. QED
    BY <2>1, SetupNewCore, UnchangedCore, ParamsAssumption
<1>3. ASSUME NEW d, NEW p \in Params, NEW status, ReconfigureDevice(d, p, status)
      PROVE  Core'
  BY <1>3, ReconfigureCore DEF ReconfigureDevice
<1>4. ASSUME NEW d, NEW descriptor \in Descriptors, NEW status,
             ReconfigureFromDiscovery(d, descriptor, status)
      PROVE  Core'
  <2>1. /\ d \in m_configuredDevices
        /\ Reconfigure(d, ParamsOf[descriptor], status) \/ UNCHANGED deviceVars
    BY <1>4 DEF ReconfigureFromDiscovery, deviceVars
  <2>2. QED
    BY <2>1, ReconfigureCore, UnchangedCore, ParamsAssumption
<1>5. ASSUME NEW t, NEW d \in DeviceIds, NEW status, PairingFinished(t, d, status)
      PROVE  Core'
  <2> DEFINE descriptor == m_pairingsDiscovery[t].descriptor
             p == IF descriptor \in m_discoveredDevices THEN ParamsOf[descriptor] ELSE NoParams
  <2>1. p \in Params \cup {NoParams}
    BY ParamsAssumption DEF PairingTypeOK
  <2>2. \/ SetupNew(d, p, status)
        \/ /\ device[d].memory = "none" /\ Register(d, Freed(Created(p)))
           /\ UNCHANGED <<pendingSetups, timerVars, reconfigureVars>>
    BY <1>5 DEF PairingFinished
  <2> HIDE DEF p
  <2>3. QED
    BY <2>1, <2>2, SetupNewCore, RegisterFreedCore
<1>6. ASSUME \/ \E found \in SUBSET Descriptors : DevicesDiscovered(found)
             \/ \E t \in PairingIds, c \in Classes, descriptor \in Descriptors :
                    PairDevice(t, c, descriptor)
             \/ \E t \in PairingIds, status \in SetupStatus : ConfirmPairing(t, status)
             \/ \E t \in PairingIds : PairingFailed(t)
      PROVE  Core'
  <2>1. UNCHANGED deviceVars
    BY <1>6 DEF DevicesDiscovered, PairDevice, ConfirmPairing, PairingFailed, deviceVars
  <2>2. QED
    BY <2>1, UnchangedCore
<1>7. ASSUME NEW d \in DeviceIds, EditDevice(d) \/ RemoveConfiguredDevice(d)
      PROVE  Core'
  BY <1>7, EditDeviceCore, RemoveConfiguredDeviceCore
<1>8. ASSUME NEW d \in DeviceIds, NEW status, SetupFinished(d, status)
      PROVE  Core'
  BY <1>8, SetupFinishedCore
<1>9. QED
  BY <1>1, <1>2, <1>3, <1>4, <1>5, <1>6, <1>7, <1>8 DEF Operation

-----------------------------------------------------------------------------
(* The invariant.                                                          *)

\* The server that never ran has nothing.
LEMMA InitInv == Init => Inv
<1> SUFFICES ASSUME Init PROVE Inv
  OBVIOUS
<1>1. NoObject \in Object
  BY DEF NoObject, Object, Several
<1>2. 0 \in 0..MaxPending
  BY MaxPendingAssumption
<1>3. DevicesTypeOK /\ PairingTypeOK
  <2>1. /\ device \in [DeviceIds -> Object]
        /\ pendingSetups \in [DeviceIds -> 0..MaxPending]
        /\ unanswered \in [DeviceIds -> 0..MaxPending]
    BY <1>1, <1>2 DEF Init
  <2>2. running \in BOOLEAN /\ m_pluginTimer \in BOOLEAN
    BY DEF Init
  <2>3. QED
    BY <2>1, <2>2 DEF Init, DevicesTypeOK, PairingTypeOK
<1>4. StoredAreConfigured /\ TimerServesDevices
  BY DEF Init, StoredAreConfigured, TimerServesDevices
<1>5. Tracked
  BY DEF Init, Tracked, Known, Sound, NoObject
<1>6. QED
  BY <1>3, <1>4, <1>5 DEF Inv, Core

\* The invariant is inductive.
THEOREM InvInductive == Inv /\ [Next]_vars => Inv'
<1> SUFFICES ASSUME Inv, [Next]_vars PROVE Inv'
  OBVIOUS
<1>1. CASE running /\ Operation /\ UNCHANGED running
  BY <1>1, OperationCore, PairingTypes DEF Inv
<1>2. CASE Stop
  <2>1. PairingTypeOK'
    BY <1>2 DEF Stop, PairingTypeOK
  <2>2. QED
    BY <1>2, <2>1, StopCore DEF Inv
<1>3. CASE Start
  <2>1. PairingTypeOK'
    BY <1>3 DEF Start, Inv, PairingTypeOK, pairingVars
  <2>2. QED
    BY <1>3, <2>1, StartCore DEF Inv
<1>4. CASE UNCHANGED vars
  <2>1. UNCHANGED <<running, deviceVars>> /\ UNCHANGED pairingVars
    BY <1>4 DEF vars, deviceVars
  <2>2. PairingTypeOK'
    BY <2>1 DEF Inv, PairingTypeOK, pairingVars
  <2>3. QED
    BY <2>1, <2>2, UnchangedCore DEF Inv
<1>5. QED
  BY <1>1, <1>2, <1>3, <1>4 DEF Next

\* It holds in every reachable state.
THEOREM Invariance == Spec => []Inv
BY InitInv, InvInductive, PTL DEF Spec

\* Every variable has its type: the settings hold parameter lists of devices, a
\* plugin owes no more answers than the bound.
THEOREM TypeCorrectness == Spec => []TypeOK
<1>1. Inv => TypeOK
  BY DEF Inv, Core, TypeOK
<1>2. QED
  BY <1>1, Invariance, PTL

\* The devices file always holds exactly the configured devices.
THEOREM StoredCorrect == Spec => []StoredAreConfigured
<1>1. Inv => StoredAreConfigured
  BY DEF Inv, Core
<1>2. QED
  BY <1>1, Invariance, PTL

\* The plugin timer runs exactly for plugins with a device in the system.
THEOREM TimerCorrect == Spec => []TimerServesDevices
<1>1. Inv => TimerServesDevices
  BY DEF Inv, Core
<1>2. QED
  BY <1>1, Invariance, PTL

\* A device not reconfigured during a setup is never connected twice.
THEOREM ConnectedCorrect == Spec => []ConnectedAtMostOnce
<1>1. Inv => ConnectedAtMostOnce
  BY DEF Inv, Core, Tracked, Sound, ConnectedAtMostOnce
<1>2. QED
  BY <1>1, Invariance, PTL

\* A device not reconfigured during a setup, and set up, is as it is stored.
THEOREM CompleteCorrect == Spec => []CompleteAsStored
<1>1. Inv => CompleteAsStored
  BY DEF Inv, Core, Tracked, Sound, CompleteAsStored, DevicesTypeOK
<1>2. QED
  BY <1>1, Invariance, PTL

\* The devices file names the configured devices and says how they work.
THEOREM FileCorrect == Spec => []FileMatchesDevices
BY StoredCorrect, CompleteCorrect, PTL DEF FileMatchesDevices

-----------------------------------------------------------------------------
(* The refinement.                                                         *)

\* No operation changes more than one configured device.
LEMMA OneDeviceAtATime ==
    ASSUME Operation
    PROVE  \/ UNCHANGED m_configuredDevices
           \/ \E d \in DeviceIds : m_configuredDevices' = m_configuredDevices \cup {d}
           \/ \E d \in DeviceIds \cap m_configuredDevices :
                    m_configuredDevices' = m_configuredDevices \ {d}
<1>1. ASSUME NEW d \in DeviceIds, NEW p, NEW status, SetupNew(d, p, status)
      PROVE  \/ UNCHANGED m_configuredDevices
             \/ m_configuredDevices' = m_configuredDevices \cup {d}
  BY <1>1 DEF SetupNew, Register
<1>2. ASSUME NEW d, NEW p, NEW status, Reconfigure(d, p, status)
      PROVE  UNCHANGED m_configuredDevices
  BY <1>2 DEF Reconfigure
<1>3. CASE \E d \in DeviceIds, status \in SetupStatus :
            \/ \E p \in Params :
                \/ AddConfiguredDevice(d, p, status)
                \/ AutoDeviceAppeared(d, p, status)
                \/ ReconfigureDevice(d, p, status)
            \/ \E descriptor \in Descriptors :
                \/ AddDiscoveredDevice(d, descriptor, status)
                \/ ReconfigureFromDiscovery(d, descriptor, status)
  BY <1>1, <1>2, <1>3 DEF AddConfiguredDevice, AutoDeviceAppeared, ReconfigureDevice,
                          AddDiscoveredDevice, ReconfigureFromDiscovery
<1>4. ASSUME NEW t, NEW d \in DeviceIds, NEW status, PairingFinished(t, d, status)
      PROVE  \/ UNCHANGED m_configuredDevices
             \/ m_configuredDevices' = m_configuredDevices \cup {d}
  BY <1>1, <1>4 DEF PairingFinished, Register
<1>5. ASSUME NEW d \in DeviceIds, NEW status, SetupFinished(d, status)
      PROVE  \/ UNCHANGED m_configuredDevices
             \/ m_configuredDevices' = m_configuredDevices \cup {d}
  BY <1>5 DEF SetupFinished, SetupSucceeded, SetupFailed
<1>6. QED
  BY <1>3, <1>4, <1>5 DEF Operation, DevicesDiscovered, PairDevice, ConfirmPairing,
                          PairingFailed, EditDevice, RemoveConfiguredDevice

\* A step of the manager adds a device, removes one, starts or stops the
\* server, or changes nothing of the registry.
THEOREM StepRefinement ==
    Inv /\ [Next]_vars => [Registry!Next]_<<running, Devices>>
<1> SUFFICES ASSUME Inv, [Next]_vars PROVE [Registry!Next]_<<running, Devices>>
  OBVIOUS
<1> USE DEF Registry!Next, Registry!Add, Registry!Remove, Registry!StartOrStop
<1>1. CASE running /\ Operation /\ UNCHANGED running
  <2>1. Devices = m_configuredDevices /\ Devices' = m_configuredDevices'
    BY <1>1 DEF Devices
  <2>2. QED
    BY <1>1, <2>1, OneDeviceAtATime
<1>2. CASE Stop
  BY <1>2 DEF Stop, Devices, Inv, Core, StoredAreConfigured
<1>3. CASE Start
  BY <1>3 DEF Start, Devices
<1>4. CASE UNCHANGED vars
  BY <1>4 DEF vars, Devices
<1>5. QED
  BY <1>1, <1>2, <1>3, <1>4 DEF Next

\* The device manager implements DeviceRegistry.
THEOREM Refinement == Spec => KeepsRegistry
<1>1. Init => Registry!Init
  BY DEF Init, Registry!Init, Devices
<1>2. QED
  BY <1>1, StepRefinement, Invariance, PTL DEF Spec, KeepsRegistry, Registry!Spec

-----------------------------------------------------------------------------
(* The loading of plugins.  A class that is supported is one that a plugin *)
(* gone through has, and stands once in the list of its vendor.  What is   *)
(* configured is among what the settings have, and they have what clients  *)
(* have set.                                                               *)

Loading ==
    /\ version \in Versions
    /\ loaded \in 0..Len(version)
    /\ \A v \in DOMAIN m_vendorDeviceMap : IsSequence(m_vendorDeviceMap[v])

\* A class that is supported is one that a plugin has, and lacks nothing.
Provided(c, k) ==
    \E j \in DOMAIN version[k].vendors : \E i \in DOMAIN version[k].vendors[j].classes :
        /\ c = version[k].vendors[j].classes[i].id
        /\ ~Lacks(version[k].vendors[j].classes[i])
        /\ m_supportedDevices[c].vendor = version[k].vendors[j].id

FirstOnes(plugin, vendor) ==
    \E last \in 0..Len(vendor.classes) :
        /\ \A i \in 1..last : ~Lacks(vendor.classes[i])
        /\ ClassesOf(plugin, vendor)
              = [i \in 1..last |-> Class(plugin, vendor.id, vendor.classes[i])]

\* The class that plugin k brings as the i-th of vendor v is one of its own.
Own(k, v, i) ==
    \E j \in DOMAIN version[k].vendors :
        /\ v = version[k].vendors[j].id
        /\ i \in DOMAIN version[k].vendors[j].classes
        /\ ~Lacks(version[k].vendors[j].classes[i])
        /\ Brings(version[k], v)[i].id = version[k].vendors[j].classes[i].id
        /\ Brings(version[k], v)[i].vendor = v

ListedOnce(c, v) ==
    /\ v \in m_supportedVendors
    /\ v \in DOMAIN m_vendorDeviceMap
    /\ \E i \in DOMAIN m_vendorDeviceMap[v] : \A l \in DOMAIN m_vendorDeviceMap[v] :
          m_vendorDeviceMap[v][l] = c <=> l = i

ClassesInv ==
    /\ \A c \in DOMAIN m_supportedDevices :
          /\ \E k \in 1..loaded : Provided(c, k)
          /\ ListedOnce(c, m_supportedDevices[c].vendor)
    /\ \A v \in DOMAIN m_vendorDeviceMap : \A i \in DOMAIN m_vendorDeviceMap[v] :
          /\ m_vendorDeviceMap[v][i] \in DOMAIN m_supportedDevices
          /\ m_supportedDevices[m_vendorDeviceMap[v][i]].vendor = v

\* The settings have what clients have set; what a plugin works with is among it, and all
\* of it if it fitted.
ConfigurationInv ==
    /\ pluginSettings = chosen
    /\ chosen = [id \in PluginIds |-> chosen[id]]
    /\ DOMAIN m_config \subseteq {version[k].id : k \in 1..loaded}
    /\ fitted \subseteq DOMAIN m_config
    /\ ConfigurationKept

LoadingInv == Loading /\ ClassesInv /\ ConfigurationInv

\* A set of natural numbers that are at most n, and some, has a greatest.
LEMMA Greatest ==
    ASSUME NEW n \in Nat, NEW S, S \subseteq 0..n, S # {}
    PROVE  \E m \in S : \A k \in S : k <= m
<1> DEFINE Above(k) == k..n
           R == StrictSubsetOrdering(0..n)
           T == {Above(k) : k \in S}
<1>1. T \subseteq FiniteSubsetsOf(0..n)
  <2>1. SUFFICES ASSUME NEW k \in S
                 PROVE  Above(k) \in FiniteSubsetsOf(0..n)
    BY Zenon
  <2>2. IsFiniteSet(Above(k))
    BY FS_Interval
  <2>3. QED
    BY <2>2 DEF FiniteSubsetsOf
<1>2. T # {}
  OBVIOUS
<1>3. PICK x \in T : \A y \in T : <<y, x>> \notin R
  <2>1. IsWellFoundedOn(R, FiniteSubsetsOf(0..n))
    BY FS_StrictSubsetOrderingWellFounded
  <2>2. QED
    BY <1>1, <1>2, <2>1, WFMin, Zenon
<1>4. PICK m \in S : x = Above(m)
  OBVIOUS
<1>5. ASSUME NEW k \in S, ~(k <= m)
      PROVE  FALSE
  <2>1. Above(k) \subseteq Above(m) /\ Above(k) # Above(m)
    BY <1>5
  <2>2. Above(k) \in SUBSET (0..n) /\ Above(m) \in SUBSET (0..n)
    OBVIOUS
  <2>3. Above(k) \in T
    OBVIOUS
  <2> HIDE DEF Above
  <2>4. <<Above(k), Above(m)>> \in R
    BY <2>1, <2>2 DEF StrictSubsetOrdering
  <2>5. QED
    BY <1>3, <1>4, <2>3, <2>4
<1>6. QED
  BY <1>5

LEMMA SequenceIsFunction ==
    ASSUME NEW s, IsSequence(s)
    PROVE  Len(s) \in Nat /\ DOMAIN s = 1..Len(s) /\ s = [i \in 1..Len(s) |-> s[i]]
  BY DEF IsSequence

LEMMA FunctionIsSequence ==
    ASSUME NEW n \in Nat, NEW s, s = [i \in 1..n |-> s[i]]
    PROVE  IsSequence(s) /\ Len(s) = n
  BY DEF IsSequence

\* The classes that a plugin has of a vendor are the first ones that lack nothing.
LEMMA ClassesOfPrefix ==
    ASSUME NEW plugin, NEW vendor, IsSequence(vendor.classes)
    PROVE  FirstOnes(plugin, vendor)
<1> DEFINE classes == vendor.classes
           kept == {n \in 0..Len(classes) : \A i \in 1..n : ~Lacks(classes[i])}
           last == CHOOSE n \in kept : \A k \in kept : k <= n
<1>1. Len(classes) \in Nat
  BY SequenceIsFunction
<1>2. 0 \in kept
  BY <1>1
<1>3. \E n \in kept : \A k \in kept : k <= n
  <2>1. kept \subseteq 0..Len(classes) /\ kept # {}
    BY <1>2
  <2> HIDE DEF kept
  <2>2. QED
    BY <1>1, <2>1, Greatest
<1>4. last \in kept
  <2> HIDE DEF kept
  <2>1. QED
    BY <1>3
<1>5. ClassesOf(plugin, vendor) = [i \in 1..last |-> Class(plugin, vendor.id, classes[i])]
  BY DEF ClassesOf
<1> HIDE DEF last
<1>6. QED
  BY <1>4, <1>5 DEF FirstOnes

\* What a plugin brings of a vendor are classes of its own that lack nothing, in order.
LEMMA BringsFirst ==
    ASSUME Loading, NEW k \in 1..Len(version), NEW v
    PROVE  /\ IsSequence(Brings(version[k], v))
           /\ \A i \in DOMAIN Brings(version[k], v) : Own(k, v, i)
<1> DEFINE plugin == version[k]
           brought == Brings(plugin, v)
<1>1. IsSequence(version) /\ k \in DOMAIN version
  BY VersionsAssumption, SequenceIsFunction DEF Loading
<1>2. \A j \in DOMAIN plugin.vendors : IsSequence(plugin.vendors[j].classes)
  BY <1>1, VersionsAssumption DEF Loading
<1>3. CASE v \in Named(plugin.vendors)
  <2> DEFINE j == CHOOSE n \in DOMAIN plugin.vendors : plugin.vendors[n].id = v
             vendor == plugin.vendors[j]
             classes == vendor.classes
  <2>1. j \in DOMAIN plugin.vendors /\ vendor.id = v
    BY <1>3 DEF Named
  <2>2. brought = ClassesOf(plugin.id, vendor)
    BY <1>3 DEF Brings
  <2>3. IsSequence(classes)
    BY <1>2, <2>1
  <2> HIDE DEF j
  <2>4. PICK last \in 0..Len(classes) :
              /\ \A i \in 1..last : ~Lacks(classes[i])
              /\ brought = [i \in 1..last |-> Class(plugin.id, v, classes[i])]
    <3> HIDE DEF vendor, plugin, brought
    <3>1. FirstOnes(plugin.id, vendor)
      BY <2>3, ClassesOfPrefix, Zenon
    <3>2. QED
      BY <2>1, <2>2, <3>1 DEF FirstOnes
  <2>5. last \in Nat /\ 1..last \subseteq DOMAIN classes
    BY <2>3, SequenceIsFunction
  <2>6. IsSequence(brought)
    BY <2>4, <2>5, FunctionIsSequence
  <2>7. ASSUME NEW i \in DOMAIN brought
        PROVE  /\ i \in DOMAIN classes
               /\ ~Lacks(classes[i])
               /\ brought[i] = Class(plugin.id, v, classes[i])
    BY <2>4, <2>5, <2>7
  <2> HIDE DEF brought
  <2>8. ASSUME NEW i \in DOMAIN brought
        PROVE  brought[i].id = classes[i].id /\ brought[i].vendor = v
    BY <2>7, <2>8 DEF Class
  <2>9. QED
    BY <2>1, <2>6, <2>7, <2>8 DEF brought, Own
<1>4. CASE v \notin Named(plugin.vendors)
  <2>1. brought = << >>
    BY <1>4 DEF Brings
  <2>2. QED
    BY <2>1 DEF IsSequence
<1>5. QED
  BY <1>3, <1>4

LEMMA BringsSequence ==
    ASSUME Loading, NEW k \in 1..Len(version), NEW v
    PROVE  IsSequence(Brings(version[k], v))
  BY BringsFirst, Zenon

LEMMA BringsOwn ==
    ASSUME Loading, NEW k \in 1..Len(version), NEW v, NEW i \in DOMAIN Brings(version[k], v)
    PROVE  Own(k, v, i)
  BY BringsFirst, Zenon

\* A class has one place in one plugin.
LEMMA OnePlace ==
    ASSUME Loading, NEW k \in 1..Len(version), NEW l \in 1..Len(version),
           NEW i \in DOMAIN version[k].vendors, NEW j \in DOMAIN version[l].vendors,
           NEW c \in DOMAIN version[k].vendors[i].classes,
           NEW d \in DOMAIN version[l].vendors[j].classes,
           version[k].vendors[i].classes[c].id = version[l].vendors[j].classes[d].id
    PROVE  k = l /\ i = j /\ c = d
<1>1. k \in DOMAIN version /\ l \in DOMAIN version
  BY VersionsAssumption, SequenceIsFunction DEF Loading
<1>2. \A m, n \in DOMAIN version :
         \A x \in DOMAIN version[m].vendors, y \in DOMAIN version[n].vendors :
         \A e \in DOMAIN version[m].vendors[x].classes, f \in DOMAIN version[n].vendors[y].classes :
            version[m].vendors[x].classes[e].id = version[n].vendors[y].classes[f].id
               => m = n /\ x = y /\ e = f
  BY VersionsAssumption DEF Loading
<1>3. QED
  BY <1>1, <1>2

\* No two of the classes that a plugin brings have the same id.
LEMMA BringsEachOnce ==
    ASSUME Loading, NEW k \in 1..Len(version), NEW v, NEW w,
           NEW i \in DOMAIN Brings(version[k], v), NEW l \in DOMAIN Brings(version[k], w),
           Brings(version[k], v)[i].id = Brings(version[k], w)[l].id
    PROVE  v = w /\ i = l
<1>1. Own(k, v, i) /\ Own(k, w, l)
  BY BringsOwn, Zenon
<1>2. PICK j \in DOMAIN version[k].vendors :
            /\ v = version[k].vendors[j].id
            /\ i \in DOMAIN version[k].vendors[j].classes
            /\ Brings(version[k], v)[i].id = version[k].vendors[j].classes[i].id
  BY <1>1, Zenon DEF Own
<1>3. PICK n \in DOMAIN version[k].vendors :
            /\ w = version[k].vendors[n].id
            /\ l \in DOMAIN version[k].vendors[n].classes
            /\ Brings(version[k], w)[l].id = version[k].vendors[n].classes[l].id
  BY <1>1, Zenon DEF Own
<1>4. version[k].vendors[j].classes[i].id = version[k].vendors[n].classes[l].id
  BY <1>2, <1>3, Zenon
<1>5. j = n /\ i = l
  <2>1. \A x, y \in DOMAIN version[k].vendors :
           \A c \in DOMAIN version[k].vendors[x].classes,
              d \in DOMAIN version[k].vendors[y].classes :
              version[k].vendors[x].classes[c].id = version[k].vendors[y].classes[d].id
                 => x = y /\ c = d
    BY OnePlace
  <2> DEFINE vendors == version[k].vendors
  <2>2. /\ i \in DOMAIN vendors[j].classes /\ l \in DOMAIN vendors[n].classes
        /\ vendors[j].classes[i].id = vendors[n].classes[l].id
        /\ j \in DOMAIN vendors /\ n \in DOMAIN vendors
    BY <1>2, <1>3, <1>4, Zenon
  <2>3. \A x, y \in DOMAIN vendors :
           \A c \in DOMAIN vendors[x].classes, d \in DOMAIN vendors[y].classes :
              vendors[x].classes[c].id = vendors[y].classes[d].id => x = y /\ c = d
    BY <2>1, Zenon
  <2> HIDE DEF vendors
  <2>4. \A c \in DOMAIN vendors[j].classes, d \in DOMAIN vendors[n].classes :
           vendors[j].classes[c].id = vendors[n].classes[d].id => j = n /\ c = d
    BY <2>2, <2>3
  <2>5. QED
    BY <2>2, <2>4
<1>6. QED
  BY <1>2, <1>3, <1>5

\* What the next plugin brings is not supported yet.
LEMMA BringsNew ==
    ASSUME Loading, ClassesInv, loaded < Len(version), NEW v,
           NEW i \in DOMAIN Brings(version[loaded + 1], v)
    PROVE  Brings(version[loaded + 1], v)[i].id \notin DOMAIN m_supportedDevices
<1> DEFINE next == loaded + 1
           c == Brings(version[next], v)[i].id
<1>1. Len(version) \in Nat
  BY VersionsAssumption, SequenceIsFunction DEF Loading
<1>2. next \in 1..Len(version) /\ \A k \in 1..loaded : k \in 1..Len(version) /\ k # next
  BY <1>1 DEF Loading
<1> HIDE DEF next
<1>3. PICK j \in DOMAIN version[next].vendors :
            /\ i \in DOMAIN version[next].vendors[j].classes
            /\ c = version[next].vendors[j].classes[i].id
  <2>1. Own(next, v, i)
    BY <1>2, BringsOwn, Zenon DEF next
  <2>2. QED
    BY <2>1, Zenon DEF Own, next
<1>4. SUFFICES ASSUME c \in DOMAIN m_supportedDevices
               PROVE  FALSE
  BY Zenon DEF next
<1>5. PICK k \in 1..loaded : Provided(c, k)
  BY <1>4, Zenon DEF ClassesInv
<1>6. PICK n \in DOMAIN version[k].vendors :
          \E m \in DOMAIN version[k].vendors[n].classes :
             c = version[k].vendors[n].classes[m].id
  BY <1>5, Zenon DEF Provided
<1> HIDE DEF c
<1>7. k = next
  <2>1. PICK m \in DOMAIN version[k].vendors[n].classes :
              version[next].vendors[j].classes[i].id = version[k].vendors[n].classes[m].id
    BY <1>3, <1>6, Zenon
  <2>2. QED
    BY <1>2, <1>3, <2>1, OnePlace, SMTT(30)
<1>8. QED
  BY <1>2, <1>7

\* A plugin only brings classes of vendors that it names.
LEMMA BringsOfNamed ==
    ASSUME NEW plugin, NEW v, NEW i \in DOMAIN Brings(plugin, v)
    PROVE  v \in Named(plugin.vendors) /\ Brings(plugin, v)[i] \in Brought(plugin)
<1>1. v \in Named(plugin.vendors)
  <2>1. SUFFICES ASSUME v \notin Named(plugin.vendors)
                 PROVE  FALSE
    BY Zenon
  <2>2. Brings(plugin, v) = << >>
    BY <2>1, Zenon DEF Brings
  <2>3. DOMAIN Brings(plugin, v) = {}
    BY <2>2
  <2>4. QED
    BY <2>3, Zenon
<1>2. QED
  BY <1>1 DEF Brought

LEMMA BroughtIsOf ==
    ASSUME NEW plugin, NEW class \in Brought(plugin)
    PROVE  \E v \in Named(plugin.vendors) : \E i \in DOMAIN Brings(plugin, v) :
              class = Brings(plugin, v)[i]
  BY Zenon DEF Brought

\* What is supported when a plugin was loaded: what it was, and what the plugin brings.
LEMMA SupportedAfterLoad ==
    ASSUME Loading, ClassesInv, loaded < Len(version), Load(version[loaded + 1])
    PROVE  /\ \A c \in DOMAIN m_supportedDevices :
                 c \in DOMAIN m_supportedDevices' /\ m_supportedDevices'[c] = m_supportedDevices[c]
           /\ \A v : \A i \in DOMAIN Brings(version[loaded + 1], v) :
                 LET class == Brings(version[loaded + 1], v)[i]
                 IN  class.id \in DOMAIN m_supportedDevices'
                        /\ m_supportedDevices'[class.id] = class
           /\ \A c \in DOMAIN m_supportedDevices' \ DOMAIN m_supportedDevices :
                 \E v : \E i \in DOMAIN Brings(version[loaded + 1], v) :
                    c = Brings(version[loaded + 1], v)[i].id
<1> DEFINE k == loaded + 1
           brought == Brought(version[k])
           Of(c) == CHOOSE class \in brought : class.id = c
           ids == {class.id : class \in brought}
<1>1. k \in 1..Len(version)
  <2>1. Len(version) \in Nat
    BY VersionsAssumption, SequenceIsFunction DEF Loading
  <2>2. QED
    BY <2>1 DEF Loading
<1>2. /\ DOMAIN m_supportedDevices' = DOMAIN m_supportedDevices \cup ids
      /\ \A c \in DOMAIN m_supportedDevices \cup ids :
            m_supportedDevices'[c]
               = IF \E class \in brought : class.id = c THEN Of(c) ELSE m_supportedDevices[c]
  BY Zenon DEF Load
<1>3. ASSUME NEW c \in DOMAIN m_supportedDevices
      PROVE  ~\E class \in brought : class.id = c
  <2>1. SUFFICES ASSUME NEW class \in brought, class.id = c
                 PROVE  FALSE
    BY Zenon
  <2>2. PICK v \in Named(version[k].vendors) :
             \E i \in DOMAIN Brings(version[k], v) : class = Brings(version[k], v)[i]
    BY BroughtIsOf, Zenon
  <2>3. PICK i \in DOMAIN Brings(version[k], v) : class = Brings(version[k], v)[i]
    BY <2>2, Zenon
  <2>4. QED
    BY <2>1, <2>3, BringsNew, Zenon
<1>4. ASSUME NEW v, NEW i \in DOMAIN Brings(version[k], v)
      PROVE  /\ Brings(version[k], v)[i] \in brought
             /\ Of(Brings(version[k], v)[i].id) = Brings(version[k], v)[i]
  <2> DEFINE one == Brings(version[k], v)[i]
  <2>1. one \in brought
    BY BringsOfNamed, Zenon
  <2>2. ASSUME NEW class \in brought, class.id = one.id
        PROVE  class = one
    <3>1. PICK w \in Named(version[k].vendors) :
               \E l \in DOMAIN Brings(version[k], w) : class = Brings(version[k], w)[l]
      BY BroughtIsOf, Zenon
    <3>2. PICK l \in DOMAIN Brings(version[k], w) : class = Brings(version[k], w)[l]
      BY <3>1, Zenon
    <3>3. Brings(version[k], w)[l].id = Brings(version[k], v)[i].id
      BY <2>2, <3>2, Zenon
    <3> HIDE DEF k
    <3>4. w = v /\ l = i
      BY <1>1, <3>3, BringsEachOnce, Zenon
    <3>5. QED
      BY <3>2, <3>4, Zenon
  <2> HIDE DEF one, brought
  <2>3. Of(one.id) = one
    BY <2>1, <2>2, Zenon
  <2>4. QED
    BY <2>1, <2>3, Zenon DEF one
<1>5. ASSUME NEW c \in DOMAIN m_supportedDevices' \ DOMAIN m_supportedDevices
      PROVE  \E v : \E i \in DOMAIN Brings(version[k], v) : c = Brings(version[k], v)[i].id
  <2>1. PICK class \in brought : c = class.id
    BY <1>2, Zenon
  <2>2. PICK v \in Named(version[k].vendors) :
             \E i \in DOMAIN Brings(version[k], v) : class = Brings(version[k], v)[i]
    BY BroughtIsOf, Zenon
  <2>3. QED
    BY <2>1, <2>2, Zenon
<1> HIDE DEF Of
<1>6. ASSUME NEW c \in DOMAIN m_supportedDevices
      PROVE  c \in DOMAIN m_supportedDevices' /\ m_supportedDevices'[c] = m_supportedDevices[c]
  BY <1>2, <1>3, Zenon
<1>7. ASSUME NEW v, NEW i \in DOMAIN Brings(version[k], v)
      PROVE  LET class == Brings(version[k], v)[i]
             IN  class.id \in DOMAIN m_supportedDevices' /\ m_supportedDevices'[class.id] = class
  <2> HIDE DEF brought, k
  <2>1. Brings(version[k], v)[i].id \in ids
    BY <1>4, Zenon
  <2>2. \E class \in brought : class.id = Brings(version[k], v)[i].id
    BY <1>4, Zenon
  <2>3. QED
    BY <1>2, <1>4, <2>1, <2>2, Zenon
<1>8. QED
  BY <1>5, <1>6, <1>7, Zenon

\* A list to which the classes of another are appended
Extends(u, s, t) ==
    /\ IsSequence(u)
    /\ \A i \in DOMAIN s : i \in DOMAIN u /\ u[i] = s[i]
    /\ \A n \in DOMAIN t : Len(s) + n \in DOMAIN u /\ u[Len(s) + n] = t[n].id
    /\ \A i \in DOMAIN u \ DOMAIN s : \E n \in DOMAIN t : i = Len(s) + n

LEMMA Appended ==
    ASSUME NEW s, NEW t, IsSequence(s), IsSequence(t),
           NEW u, u = s \o [i \in DOMAIN t |-> t[i].id]
    PROVE  Extends(u, s, t)
<1>1. Len(s) \in Nat /\ DOMAIN s = 1..Len(s) /\ Len(t) \in Nat /\ DOMAIN t = 1..Len(t)
  BY SequenceIsFunction
<1> DEFINE ids == [i \in DOMAIN t |-> t[i].id]
<1>2. IsSequence(ids) /\ Len(ids) = Len(t)
  BY <1>1, FunctionIsSequence
<1>3. DOMAIN ids = 1..Len(t) /\ \A n \in 1..Len(t) : ids[n] = t[n].id
  BY <1>1
<1> DEFINE E == {s[i] : i \in DOMAIN s} \cup {ids[i] : i \in DOMAIN ids}
<1>4. s \in Seq(E) /\ ids \in Seq(E)
  <2>1. s \in Seq({s[i] : i \in DOMAIN s}) /\ ids \in Seq({ids[i] : i \in DOMAIN ids})
    BY <1>2, Zenon DEF IsSequence
  <2> HIDE DEF ids
  <2>2. QED
    BY <2>1
<1> HIDE DEF ids, E
<1>5. /\ Len(u) = Len(s) + Len(t)
      /\ DOMAIN u = 1..(Len(s) + Len(t))
      /\ u = [i \in 1..(Len(s) + Len(t)) |-> u[i]]
  BY <1>1, <1>2, <1>4 DEF ids
<1>6. \A i \in 1..(Len(s) + Len(t)) : u[i] = IF i <= Len(s) THEN s[i] ELSE ids[i - Len(s)]
  BY <1>1, <1>2, <1>4 DEF ids
<1>7. IsSequence(u)
  <2>1. Len(s) + Len(t) \in Nat
    BY <1>1
  <2>2. QED
    BY <1>5, <2>1, FunctionIsSequence, Zenon
<1>8. \A i \in DOMAIN s : i \in DOMAIN u /\ u[i] = s[i]
  BY <1>1, <1>5, <1>6
<1>9. \A n \in DOMAIN t : Len(s) + n \in DOMAIN u /\ u[Len(s) + n] = t[n].id
  <2>1. SUFFICES ASSUME NEW n \in DOMAIN t
                 PROVE  Len(s) + n \in DOMAIN u /\ u[Len(s) + n] = t[n].id
    BY Zenon
  <2>2. n \in Nat /\ Len(s) + n \in 1..(Len(s) + Len(t)) /\ ~(Len(s) + n <= Len(s))
        /\ Len(s) + n - Len(s) = n
    BY <1>1
  <2>3. u[Len(s) + n] = ids[n]
    BY <1>6, <2>2
  <2>4. QED
    BY <1>1, <1>3, <1>5, <2>2, <2>3, Zenon
<1>10. \A i \in DOMAIN u \ DOMAIN s : \E n \in DOMAIN t : i = Len(s) + n
  <2>1. SUFFICES ASSUME NEW i \in DOMAIN u \ DOMAIN s
                 PROVE  \E n \in DOMAIN t : i = Len(s) + n
    BY Zenon
  <2>2. i - Len(s) \in 1..Len(t) /\ i = Len(s) + (i - Len(s))
    BY <1>1, <1>5
  <2>3. QED
    BY <1>1, <2>2, Zenon
<1>11. QED
  BY <1>7, <1>8, <1>9, <1>10, Zenon DEF Extends

\* The lists when a plugin was loaded: what they were, and what the plugin brings.
LEMMA ListsAfterLoad ==
    ASSUME Loading, loaded < Len(version), Load(version[loaded + 1]),
           NEW v \in DOMAIN m_vendorDeviceMap'
    PROVE  Extends(m_vendorDeviceMap'[v], Listed(v), Brings(version[loaded + 1], v))
<1> DEFINE k == loaded + 1
           brought == Brings(version[k], v)
<1>1. k \in 1..Len(version)
  <2>1. Len(version) \in Nat
    BY VersionsAssumption, SequenceIsFunction DEF Loading
  <2>2. QED
    BY <2>1 DEF Loading
<1>2. IsSequence(brought)
  <2> HIDE DEF k
  <2>1. QED
    BY <1>1, BringsSequence, Zenon
<1>3. IsSequence(Listed(v))
  <2>1. CASE v \in DOMAIN m_vendorDeviceMap
    BY <2>1, Zenon DEF Loading, Listed
  <2>2. CASE v \notin DOMAIN m_vendorDeviceMap
    <3>1. Listed(v) = << >>
      BY <2>2, Zenon DEF Listed
    <3>2. QED
      BY <3>1 DEF IsSequence
  <2>3. QED
    BY <2>1, <2>2, Zenon
<1>4. m_vendorDeviceMap'[v] = Listed(v) \o [i \in DOMAIN brought |-> brought[i].id]
  <2>1. v \in DOMAIN m_vendorDeviceMap \cup Named(version[k].vendors)
    BY Zenon DEF Load
  <2>2. QED
    BY <2>1, Zenon DEF Load
<1> HIDE DEF brought
<1>5. QED
  BY <1>2, <1>3, <1>4, Appended, Zenon DEF brought

LEMMA ListsKept ==
    ASSUME Load(version[loaded + 1])
    PROVE  /\ m_supportedVendors \subseteq m_supportedVendors'
           /\ DOMAIN m_vendorDeviceMap \subseteq DOMAIN m_vendorDeviceMap'
           /\ \A v : \A i \in DOMAIN Brings(version[loaded + 1], v) :
                 v \in m_supportedVendors' /\ v \in DOMAIN m_vendorDeviceMap'
           /\ DOMAIN m_vendorDeviceMap'
                 \subseteq DOMAIN m_vendorDeviceMap \cup Named(version[loaded + 1].vendors)
<1> DEFINE plugin == version[loaded + 1]
<1>1. /\ m_supportedVendors' = m_supportedVendors \cup Named(plugin.vendors)
      /\ DOMAIN m_vendorDeviceMap' = DOMAIN m_vendorDeviceMap \cup Named(plugin.vendors)
  BY Zenon DEF Load
<1>2. ASSUME NEW v, NEW i \in DOMAIN Brings(plugin, v)
      PROVE  v \in Named(plugin.vendors)
  <2> HIDE DEF plugin
  <2>1. QED
    BY <1>2, BringsOfNamed, Zenon
<1>3. QED
  BY <1>1, <1>2, Zenon

\* A list that has no class but supported ones, or none.
LEMMA ListedSupported ==
    ASSUME ClassesInv, NEW v, NEW i \in DOMAIN Listed(v)
    PROVE  /\ v \in DOMAIN m_vendorDeviceMap /\ Listed(v) = m_vendorDeviceMap[v]
           /\ Listed(v)[i] \in DOMAIN m_supportedDevices
           /\ m_supportedDevices[Listed(v)[i]].vendor = v
<1>1. v \in DOMAIN m_vendorDeviceMap
  <2>1. SUFFICES ASSUME v \notin DOMAIN m_vendorDeviceMap
                 PROVE  FALSE
    BY Zenon
  <2>2. Listed(v) = << >>
    BY <2>1, Zenon DEF Listed
  <2>3. DOMAIN Listed(v) = {}
    BY <2>2
  <2>4. QED
    BY <2>3, Zenon
<1>2. Listed(v) = m_vendorDeviceMap[v]
  BY <1>1, Zenon DEF Listed
<1>3. QED
  BY <1>1, <1>2 DEF ClassesInv

LEMMA LoadKeepsOld ==
    ASSUME Loading, ClassesInv, loaded < Len(version), Load(version[loaded + 1]),
           loaded' = loaded + 1, version' = version, NEW c \in DOMAIN m_supportedDevices
    PROVE  (\E k \in 1..loaded' : Provided(c, k)') /\ ListedOnce(c, m_supportedDevices[c].vendor)'
<1>1. c \in DOMAIN m_supportedDevices' /\ m_supportedDevices'[c] = m_supportedDevices[c]
  BY SupportedAfterLoad, Zenon
<1>2. \E k \in 1..loaded' : Provided(c, k)'
  <2>1. PICK k \in 1..loaded : Provided(c, k)
    BY Zenon DEF ClassesInv
  <2>2. Provided(c, k)'
    BY <1>1, <2>1, Zenon DEF Provided
  <2>3. k \in 1..loaded'
    <3>1. loaded \in Nat
      BY DEF Loading
    <3>2. QED
      BY <3>1
  <2>4. QED
    BY <2>2, <2>3, Zenon
<1> PICK v : v = m_supportedDevices[c].vendor
  BY Zenon
<1>3. ListedOnce(c, v)
  BY Zenon DEF ClassesInv
<1>4. v \in m_supportedVendors' /\ v \in DOMAIN m_vendorDeviceMap'
  BY <1>3, ListsKept, Zenon DEF ListedOnce
<1> DEFINE list == m_vendorDeviceMap'[v]
<1>5. PICK i \in DOMAIN m_vendorDeviceMap[v] : \A l \in DOMAIN m_vendorDeviceMap[v] :
           m_vendorDeviceMap[v][l] = c <=> l = i
  BY <1>3, Zenon DEF ListedOnce
<1>6. v \in DOMAIN m_vendorDeviceMap /\ Listed(v) = m_vendorDeviceMap[v]
  BY <1>3, Zenon DEF ListedOnce, Listed
<1>7. i \in DOMAIN list /\ list[i] = c
  <2>1. m_vendorDeviceMap[v][i] = c /\ i \in DOMAIN Listed(v)
    BY <1>5, <1>6, Zenon
  <2>2. QED
    BY <1>4, <1>6, <2>1, ListsAfterLoad, Zenon DEF Extends
<1>8. ASSUME NEW l \in DOMAIN list, list[l] = c
      PROVE  l = i
  <2>1. CASE l \in DOMAIN Listed(v)
    <3>1. list[l] = Listed(v)[l]
      BY <1>4, <2>1, ListsAfterLoad, Zenon DEF Extends
    <3>2. QED
      BY <1>5, <1>6, <1>8, <2>1, <3>1, Zenon
  <2>2. CASE l \notin DOMAIN Listed(v)
    <3>0. Extends(list, Listed(v), Brings(version[loaded + 1], v))
      BY <1>4, ListsAfterLoad, Zenon
    <3>1. PICK n \in DOMAIN Brings(version[loaded + 1], v) : l = Len(Listed(v)) + n
      BY <1>8, <2>2, <3>0 DEF Extends
    <3>2. list[l] = Brings(version[loaded + 1], v)[n].id
      BY <1>4, <3>1, ListsAfterLoad, Zenon DEF Extends
    <3>3. QED
      BY <1>8, <3>2, BringsNew, Zenon
  <2>3. QED
    BY <2>1, <2>2, Zenon
<1>9. ListedOnce(c, v)'
  BY <1>4, <1>7, <1>8, Zenon DEF ListedOnce
<1>10. m_supportedDevices'[c].vendor = v
  BY <1>1, Zenon
<1>11. QED
  BY <1>2, <1>9, <1>10, Zenon

LEMMA LoadListsNew ==
    ASSUME Loading, ClassesInv, loaded < Len(version), Load(version[loaded + 1]),
           loaded' = loaded + 1, version' = version,
           NEW v, NEW n \in DOMAIN Brings(version[loaded + 1], v),
           NEW c, c = Brings(version[loaded + 1], v)[n].id
    PROVE  (\E k \in 1..loaded' : Provided(c, k)') /\ ListedOnce(c, m_supportedDevices[c].vendor)'
<1> PICK next : next = loaded + 1
  BY Zenon
<1>1. next \in 1..Len(version) /\ next \in 1..loaded'
  <2>1. Len(version) \in Nat
    BY VersionsAssumption, SequenceIsFunction DEF Loading
  <2>2. QED
    BY <2>1 DEF Loading
<1>2. c \in DOMAIN m_supportedDevices' /\ m_supportedDevices'[c] = Brings(version[next], v)[n]
  BY SupportedAfterLoad, Zenon
<1>3. Own(next, v, n)
  BY <1>1, BringsOwn, Zenon
<1>4. m_supportedDevices'[c].vendor = v
  BY <1>2, <1>3, Zenon DEF Own
<1>5. Provided(c, next)'
  BY <1>2, <1>3, <1>4, Zenon DEF Own, Provided
<1>6. v \in m_supportedVendors' /\ v \in DOMAIN m_vendorDeviceMap'
  BY ListsKept, Zenon
<1> DEFINE list == m_vendorDeviceMap'[v]
           i == Len(Listed(v)) + n
<1>7. i \in DOMAIN list /\ list[i] = c
  BY <1>6, ListsAfterLoad, Zenon DEF Extends
<1>8. ASSUME NEW l \in DOMAIN list, list[l] = c
      PROVE  l = i
  <2>1. CASE l \in DOMAIN Listed(v)
    <3>1. list[l] = Listed(v)[l]
      BY <1>6, <2>1, ListsAfterLoad, Zenon DEF Extends
    <3>2. c \in DOMAIN m_supportedDevices
      <4>1. Listed(v)[l] \in DOMAIN m_supportedDevices
        BY <2>1, ListedSupported, Zenon
      <4>2. QED
        BY <1>8, <3>1, <4>1, Zenon
    <3>3. QED
      BY <3>2, BringsNew, Zenon
  <2>2. CASE l \notin DOMAIN Listed(v)
    <3>1. PICK m \in DOMAIN Brings(version[loaded + 1], v) : l = Len(Listed(v)) + m
      BY <1>6, <2>2, ListsAfterLoad, ZenonT(40) DEF Extends
    <3>2. list[l] = Brings(version[loaded + 1], v)[m].id
      BY <1>6, <3>1, ListsAfterLoad, Zenon DEF Extends
    <3>3. Brings(version[next], v)[m].id = Brings(version[next], v)[n].id
      BY <1>8, <3>2, Zenon
    <3>4. m = n
      BY <1>1, <3>1, <3>3, BringsEachOnce
    <3>5. QED
      BY <3>1, <3>4, Zenon
  <2>3. QED
    BY <2>1, <2>2, Zenon
<1> HIDE DEF i
<1>9. ListedOnce(c, v)'
  BY <1>6, <1>7, <1>8, Zenon DEF ListedOnce
<1>10. QED
  BY <1>1, <1>4, <1>5, <1>9, Zenon

LEMMA LoadKeepsClasses ==
    ASSUME Loading, ClassesInv, loaded < Len(version), Load(version[loaded + 1]),
           loaded' = loaded + 1, version' = version
    PROVE  ClassesInv'
<1>1. ASSUME NEW c \in DOMAIN m_supportedDevices'
      PROVE  (\E k \in 1..loaded' : Provided(c, k)')
                /\ ListedOnce(c, m_supportedDevices[c].vendor)'
  <2>1. CASE c \in DOMAIN m_supportedDevices
    BY <2>1, LoadKeepsOld, Zenon
  <2>2. CASE c \notin DOMAIN m_supportedDevices
    <3>1. \E v : \E n \in DOMAIN Brings(version[loaded + 1], v) :
             c = Brings(version[loaded + 1], v)[n].id
      <4>1. c \in DOMAIN m_supportedDevices' \ DOMAIN m_supportedDevices
        BY <1>1, <2>2, Zenon
      <4>2. QED
        BY <4>1, SupportedAfterLoad
    <3>2. QED
      BY <3>1, LoadListsNew, Zenon
  <2>3. QED
    BY <2>1, <2>2, Zenon
<1>2. ASSUME NEW v \in DOMAIN m_vendorDeviceMap', NEW i \in DOMAIN m_vendorDeviceMap'[v]
      PROVE  /\ m_vendorDeviceMap'[v][i] \in DOMAIN m_supportedDevices'
             /\ m_supportedDevices'[m_vendorDeviceMap'[v][i]].vendor = v
  <2>1. CASE i \in DOMAIN Listed(v)
    <3>1. m_vendorDeviceMap'[v][i] = Listed(v)[i]
      BY <1>2, <2>1, ListsAfterLoad, Zenon DEF Extends
    <3>2. /\ Listed(v)[i] \in DOMAIN m_supportedDevices
          /\ m_supportedDevices[Listed(v)[i]].vendor = v
      BY <2>1, ListedSupported, Zenon
    <3>3. QED
      BY <3>1, <3>2, SupportedAfterLoad, Zenon
  <2>2. CASE i \notin DOMAIN Listed(v)
    <3> DEFINE brought == Brings(version[loaded + 1], v)
    <3>1. PICK n \in DOMAIN brought : i = Len(Listed(v)) + n
      BY <1>2, <2>2, ListsAfterLoad, ZenonT(40) DEF Extends
    <3>2. m_vendorDeviceMap'[v][i] = brought[n].id
      BY <1>2, <3>1, ListsAfterLoad, Zenon DEF Extends
    <3>3. /\ brought[n].id \in DOMAIN m_supportedDevices'
          /\ m_supportedDevices'[brought[n].id] = brought[n]
      BY SupportedAfterLoad, Zenon
    <3>4. brought[n].vendor = v
      <4>1. loaded + 1 \in 1..Len(version)
        <5>1. Len(version) \in Nat
          BY VersionsAssumption, SequenceIsFunction DEF Loading
        <5>2. QED
          BY <5>1 DEF Loading
      <4>2. Own(loaded + 1, v, n)
        BY <4>1, BringsOwn, Zenon
      <4>3. QED
        BY <4>2, Zenon DEF Own
    <3>5. QED
      BY <3>2, <3>3, <3>4, Zenon
  <2>3. QED
    BY <2>1, <2>2, Zenon
<1>3. QED
  BY <1>1, <1>2, Zenon DEF ClassesInv

LEMMA LoadKeepsTypes ==
    ASSUME Loading, LoadNext
    PROVE  Loading'
<1>1. Len(version) \in Nat /\ version' = version /\ loaded' = loaded + 1 /\ loaded < Len(version)
  BY VersionsAssumption, SequenceIsFunction DEF Loading, LoadNext
<1>2. version' \in Versions /\ loaded' \in 0..Len(version')
  BY <1>1 DEF Loading
<1>3. ASSUME NEW v \in DOMAIN m_vendorDeviceMap'
      PROVE  IsSequence(m_vendorDeviceMap'[v])
  <2>1. CASE Skip(version[loaded + 1])
    BY <2>1 DEF Skip, Loading
  <2>2. CASE Load(version[loaded + 1])
    BY <1>1, <2>2, ListsAfterLoad, Zenon DEF Extends
  <2>3. QED
    BY <2>1, <2>2, Zenon DEF LoadNext
<1>4. QED
  BY <1>2, <1>3, Zenon DEF Loading

LEMMA SkipKeepsClasses ==
    ASSUME Loading, ClassesInv, Skip(version[loaded + 1]), loaded' = loaded + 1, version' = version
    PROVE  ClassesInv'
<1>1. /\ m_supportedVendors' = m_supportedVendors
      /\ m_supportedDevices' = m_supportedDevices
      /\ m_vendorDeviceMap' = m_vendorDeviceMap
  BY DEF Skip
<1>2. 1..loaded \subseteq 1..loaded'
  <2>1. loaded \in Nat
    BY DEF Loading
  <2>2. QED
    BY <2>1
<1>3. ASSUME NEW c \in DOMAIN m_supportedDevices, NEW k \in 1..loaded, Provided(c, k)
      PROVE  Provided(c, k)'
  BY <1>1, <1>3, Zenon DEF Provided
<1>4. ASSUME NEW c, NEW v, ListedOnce(c, v)
      PROVE  ListedOnce(c, v)'
  BY <1>1, <1>4, Zenon DEF ListedOnce
<1>5. ASSUME NEW c \in DOMAIN m_supportedDevices'
      PROVE  (\E k \in 1..loaded' : Provided(c, k)')
                /\ ListedOnce(c, m_supportedDevices[c].vendor)'
  <2>1. PICK k \in 1..loaded : Provided(c, k)
    BY <1>1, <1>5, Zenon DEF ClassesInv
  <2>2. ListedOnce(c, m_supportedDevices[c].vendor)
    BY <1>1, <1>5, Zenon DEF ClassesInv
  <2>3. PICK v : v = m_supportedDevices[c].vendor
    BY Zenon
  <2>4. ListedOnce(c, v)'
    BY <1>4, <2>2, <2>3, Zenon
  <2>5. QED
    BY <1>1, <1>2, <1>3, <2>1, <2>3, <2>4, Zenon
<1>6. QED
  BY <1>1, <1>5, Zenon DEF ClassesInv

LEMMA SameClasses ==
    ASSUME Loading, ClassesInv,
           UNCHANGED <<version, loaded, m_supportedVendors, m_supportedDevices, m_vendorDeviceMap>>
    PROVE  Loading' /\ ClassesInv'
<1>1. Loading'
  BY DEF Loading
<1>2. ClassesInv'
  BY DEF ClassesInv, ListedOnce, Provided
<1>3. QED
  BY <1>1, <1>2

-----------------------------------------------------------------------------
(* What is configured.                                                     *)

\* A plugin starts with the params that the settings have of it, if they have any: those
\* before the first that does not fit.
LEMMA StartsAsStored ==
    ASSUME NEW plugin, NEW name \in DOMAIN pluginSettings[plugin.id]
    PROVE  /\ name \in DOMAIN AtStart(plugin)
                 => AtStart(plugin)[name] = pluginSettings[plugin.id][name]
           /\ (\A other \in DOMAIN pluginSettings[plugin.id] : FitsAsStored(plugin, other))
                 => name \in DOMAIN AtStart(plugin)
<1> DEFINE stored == pluginSettings[plugin.id]
           set == {other \in DOMAIN stored :
                     \A before \in DOMAIN stored : before <= other => FitsAsStored(plugin, before)}
<1>1. AtStart(plugin) = [other \in set |-> stored[other]]
  <2>1. DOMAIN stored # {}
    OBVIOUS
  <2>2. QED
    BY <2>1, Zenon DEF AtStart
<1>2. QED
  BY <1>1

LEMMA LoadKeepsConfiguration ==
    ASSUME Loading, ConfigurationInv, LoadNext
    PROVE  ConfigurationInv'
<1> PICK next : next = loaded + 1
  BY Zenon
<1> DEFINE plugin == version[next]
<1>1. /\ Len(version) \in Nat /\ loaded \in Nat
      /\ version' = version /\ loaded' = next /\ loaded < Len(version)
      /\ chosen' = chosen /\ pluginSettings' = pluginSettings
  BY VersionsAssumption, SequenceIsFunction DEF Loading, LoadNext
<1>2. /\ next \in 1..Len(version) /\ next \in 1..loaded'
      /\ \A k \in 1..loaded : k \in 1..loaded' /\ k \in 1..Len(version) /\ k # next
  BY <1>1
<1>3. IsSequence(version) /\ DOMAIN version = 1..Len(version)
  BY VersionsAssumption, SequenceIsFunction DEF Loading
<1>4. CASE Skip(version[next])
  <2>1. m_config' = m_config /\ fitted' = fitted
    BY <1>4 DEF Skip
  <2>2. DOMAIN m_config \subseteq {version[k].id : k \in 1..loaded'}
    BY <1>2, Zenon DEF ConfigurationInv
  <2>3. ConfigurationKept'
    BY <1>1, <2>1 DEF ConfigurationInv, ConfigurationKept
  <2>4. QED
    BY <1>1, <2>1, <2>2, <2>3 DEF ConfigurationInv
<1>5. CASE Load(version[next])
  <2>1. plugin.id \notin DOMAIN m_config
    <3>1. SUFFICES ASSUME plugin.id \in DOMAIN m_config
                   PROVE  FALSE
      BY Zenon
    <3>2. PICK k \in 1..loaded : version[k].id = plugin.id
      BY <3>1 DEF ConfigurationInv
    <3>3. \A m, n \in DOMAIN version : version[m].id = version[n].id => m = n
      BY VersionsAssumption DEF Loading
    <3>4. QED
      BY <1>2, <1>3, <3>2, <3>3
  <2>2. plugin.id \in PluginIds
    BY <1>2, <1>3 DEF PluginIds, Loading
  <2>3. m_config' = Put(m_config, plugin.id, AtStart(plugin))
    BY <1>5 DEF Load
  <2> HIDE DEF plugin
  <2>4. /\ DOMAIN m_config' = DOMAIN m_config \cup {plugin.id}
        /\ m_config'[plugin.id] = AtStart(plugin)
        /\ \A id \in DOMAIN m_config : m_config'[id] = m_config[id]
    BY <2>1, <2>3 DEF Put
  <2>5. DOMAIN m_config' \subseteq {version'[k].id : k \in 1..loaded'}
    <3>1. plugin.id \in {version[k].id : k \in 1..loaded'}
      BY <1>2 DEF plugin
    <3>2. DOMAIN m_config \subseteq {version[k].id : k \in 1..loaded'}
      BY <1>2, Zenon DEF ConfigurationInv
    <3>3. QED
      BY <1>1, <2>4, <3>1, <3>2
  <2>6. fitted' = IF \A name \in DOMAIN pluginSettings[plugin.id] : FitsAsStored(plugin, name)
                  THEN fitted \cup {plugin.id} ELSE fitted
    BY <1>5, Zenon DEF Load, plugin
  <2>7. fitted' \subseteq DOMAIN m_config'
    BY <2>4, <2>6 DEF ConfigurationInv
  <2>8. ASSUME NEW id \in DOMAIN m_config', NEW name \in DOMAIN chosen'[id]
        PROVE  /\ name \in DOMAIN m_config'[id] => m_config'[id][name] = chosen'[id][name]
               /\ id \in fitted' => name \in DOMAIN m_config'[id]
    <3>1. CASE id = plugin.id
      <4>1. name \in DOMAIN pluginSettings[plugin.id] /\ chosen' = pluginSettings
        BY <1>1, <2>8, <3>1 DEF ConfigurationInv
      <4>2. /\ name \in DOMAIN AtStart(plugin)
                  => AtStart(plugin)[name] = pluginSettings[plugin.id][name]
            /\ (\A other \in DOMAIN pluginSettings[plugin.id] : FitsAsStored(plugin, other))
                  => name \in DOMAIN AtStart(plugin)
        BY <4>1, StartsAsStored
      <4>3. plugin.id \notin fitted
        BY <2>1 DEF ConfigurationInv
      <4>4. QED
        BY <2>4, <2>6, <3>1, <4>1, <4>2, <4>3
    <3>2. CASE id # plugin.id
      <4>1. /\ id \in DOMAIN m_config /\ m_config'[id] = m_config[id]
            /\ id \in fitted' => id \in fitted
        BY <2>4, <2>6, <3>2
      <4>2. QED
        BY <1>1, <2>8, <4>1 DEF ConfigurationInv, ConfigurationKept
    <3>3. QED
      BY <3>1, <3>2
  <2>9. QED
    BY <1>1, <2>5, <2>7, <2>8 DEF ConfigurationInv, ConfigurationKept
<1>6. QED
  BY <1>4, <1>5 DEF LoadNext

\* Two configurations of which the same params were set are alike: a param that was not
\* set is as it was, if it was.
Alike(one, other, setOne, setOther, name) ==
    /\ name \in DOMAIN setOne => name \in DOMAIN one \/ name \in DOMAIN setOther
    /\ name \in DOMAIN one => name \in DOMAIN setOne
    /\ name \in DOMAIN setOne /\ name \in DOMAIN setOther =>
          \/ setOne[name] = setOther[name]
          \/ /\ name \in DOMAIN one /\ setOne[name] = one[name]
             /\ name \in DOMAIN other /\ setOther[name] = other[name]

LEMMA ConfiguredAlike ==
    ASSUME NEW types, NEW params, NEW one, NEW other, NEW name
    PROVE  Alike(one, other, Configured(types, params, one), Configured(types, params, other), name)
<1> DEFINE set == {i \in DOMAIN params : \A k \in 1..i : Fits(types, params[k])}
           names == {params[i].name : i \in set}
           Last(n) == CHOOSE i \in set :
                         params[i].name = n /\ \A k \in set : params[k].name = n => k <= i
           IsSet(n) == \E i \in set : params[i].name = n
<1>1. \A old : Configured(types, params, old) =
         [n \in DOMAIN old \cup names |-> IF IsSet(n) THEN params[Last(n)].value ELSE old[n]]
  BY Zenon DEF Configured
<1>2. name \in names <=> IsSet(name)
  OBVIOUS
<1> HIDE DEF set, names, Last, IsSet
<1> DEFINE setOne == Configured(types, params, one)
           setOther == Configured(types, params, other)
<1>3. /\ DOMAIN setOne = DOMAIN one \cup names
      /\ name \in DOMAIN setOne =>
            setOne[name] = IF IsSet(name) THEN params[Last(name)].value ELSE one[name]
  BY <1>1
<1>4. /\ DOMAIN setOther = DOMAIN other \cup names
      /\ name \in DOMAIN setOther =>
            setOther[name] = IF IsSet(name) THEN params[Last(name)].value ELSE other[name]
  BY <1>1
<1> HIDE DEF setOne, setOther
<1>5. Alike(one, other, setOne, setOther, name)
  BY <1>2, <1>3, <1>4 DEF Alike
<1>6. QED
  BY <1>5 DEF setOne, setOther

LEMMA SetKeepsConfiguration ==
    ASSUME Loading, ConfigurationInv,
           NEW id \in PluginIds, NEW config, SetPluginConfig(id, config)
    PROVE  ConfigurationInv'
<1> DEFINE types == Installed(id).paramTypes
           Set(old) == Configured(types, config, old)
<1>1. /\ id \in DOMAIN m_config
      /\ m_config' = [m_config EXCEPT ![id] = Set(@)]
      /\ pluginSettings' = [pluginSettings EXCEPT ![id] = Set(@)]
      /\ chosen' = [chosen EXCEPT ![id] = Set(@)]
      /\ version' = version /\ loaded' = loaded /\ fitted' = fitted
  BY Zenon DEF SetPluginConfig
<1> HIDE DEF types, Set
<1>2. /\ chosen' = [p \in PluginIds |-> chosen'[p]]
      /\ chosen'[id] = Set(chosen[id])
      /\ \A p \in PluginIds : p # id => chosen'[p] = chosen[p]
  BY <1>1 DEF ConfigurationInv
<1>3. /\ DOMAIN m_config' = DOMAIN m_config
      /\ m_config'[id] = Set(m_config[id])
      /\ \A p \in DOMAIN m_config : p # id => m_config'[p] = m_config[p]
  BY <1>1
<1>4. ASSUME NEW p \in DOMAIN m_config', NEW name \in DOMAIN chosen'[p]
      PROVE  /\ name \in DOMAIN m_config'[p] => m_config'[p][name] = chosen'[p][name]
             /\ p \in fitted' => name \in DOMAIN m_config'[p]
  <2>1. CASE p = id
    <3>1. /\ Alike(chosen[id], m_config[id], Set(chosen[id]), Set(m_config[id]), name)
          /\ Alike(m_config[id], chosen[id], Set(m_config[id]), Set(chosen[id]), name)
      BY ConfiguredAlike, Zenon DEF Set
    <3>2. /\ name \in DOMAIN chosen[id] /\ name \in DOMAIN m_config[id]
                => m_config[id][name] = chosen[id][name]
          /\ name \in DOMAIN chosen[id] /\ id \in fitted => name \in DOMAIN m_config[id]
      BY <1>1 DEF ConfigurationInv, ConfigurationKept
    <3>3. name \in DOMAIN Set(chosen[id])
      BY <1>2, <1>4, <2>1
    <3>4. QED
      BY <1>1, <1>2, <1>3, <2>1, <3>1, <3>2, <3>3 DEF Alike
  <2>2. CASE p # id
    <3>1. p \in PluginIds
      BY <1>3, <1>4, VersionsAssumption, SequenceIsFunction DEF ConfigurationInv, PluginIds, Loading
    <3>2. p \in DOMAIN m_config /\ m_config'[p] = m_config[p] /\ chosen'[p] = chosen[p]
      BY <1>2, <1>3, <2>2, <3>1
    <3>3. QED
      BY <1>1, <1>4, <3>2, ZenonT(40) DEF ConfigurationInv, ConfigurationKept
  <2>3. QED
    BY <2>1, <2>2
<1>5. pluginSettings' = chosen'
  BY <1>1 DEF ConfigurationInv
<1>6. ConfigurationKept'
  BY <1>4, Zenon DEF ConfigurationKept
<1>7. /\ DOMAIN m_config' \subseteq {version'[k].id : k \in 1..loaded'}
      /\ fitted' \subseteq DOMAIN m_config'
  <2>1. /\ DOMAIN m_config \subseteq {version[k].id : k \in 1..loaded}
        /\ fitted \subseteq DOMAIN m_config
    BY Zenon DEF ConfigurationInv
  <2>2. /\ version' = version /\ loaded' = loaded /\ fitted' = fitted
        /\ DOMAIN m_config' = DOMAIN m_config
    BY <1>1, <1>3, Zenon
  <2>3. QED
    BY <2>1, <2>2
<1>8. QED
  BY <1>2, <1>5, <1>6, <1>7, Zenon DEF ConfigurationInv

-----------------------------------------------------------------------------

LEMMA LoadingInvInit == PluginLoadingInit => LoadingInv
<1>1. SUFFICES ASSUME PluginLoadingInit
               PROVE  LoadingInv
  OBVIOUS
<1>2. DOMAIN Empty = {}
  BY DEF Empty
<1>3. Len(version) \in Nat
  BY VersionsAssumption, SequenceIsFunction DEF PluginLoadingInit
<1>4. Loading
  BY <1>1, <1>2, <1>3 DEF PluginLoadingInit, Loading
<1>5. ClassesInv
  BY <1>1, <1>2 DEF PluginLoadingInit, ClassesInv
<1>6. ConfigurationInv
  BY <1>1, <1>2 DEF PluginLoadingInit, ConfigurationInv, ConfigurationKept
<1>7. QED
  BY <1>4, <1>5, <1>6 DEF LoadingInv

LEMMA RestartKeepsInv == LoadingInv /\ Restart => LoadingInv'
<1>1. SUFFICES ASSUME LoadingInv, Restart
               PROVE  LoadingInv'
  OBVIOUS
<1>2. DOMAIN Empty = {}
  BY DEF Empty
<1>3. Len(version') \in Nat
  <2>1. PICK v : v = version'
    BY Zenon
  <2>2. v \in Versions
    BY <1>1, <2>1 DEF Restart
  <2>3. Len(v) \in Nat
    BY <2>2, VersionsAssumption, SequenceIsFunction
  <2>4. QED
    BY <2>1, <2>3
<1>4. Loading'
  BY <1>1, <1>2, <1>3 DEF Restart, Loading
<1>5. ClassesInv'
  BY <1>1, <1>2 DEF Restart, ClassesInv
<1>6. ConfigurationInv'
  BY <1>1, <1>2 DEF Restart, LoadingInv, ConfigurationInv, ConfigurationKept
<1>7. QED
  BY <1>4, <1>5, <1>6 DEF LoadingInv

LEMMA LoadingInvStep == LoadingInv /\ [PluginLoadingNext]_pluginVars => LoadingInv'
<1>1. SUFFICES ASSUME LoadingInv, [PluginLoadingNext]_pluginVars
               PROVE  LoadingInv'
  OBVIOUS
<1>2. Loading /\ ClassesInv /\ ConfigurationInv
  BY <1>1 DEF LoadingInv
<1>3. CASE LoadNext
  <2>1. version' = version /\ loaded' = loaded + 1 /\ loaded < Len(version)
    BY <1>3, Zenon DEF LoadNext
  <2>2. ClassesInv'
    BY <1>2, <1>3, <2>1, SkipKeepsClasses, LoadKeepsClasses, Zenon DEF LoadNext
  <2>3. QED
    BY <1>2, <1>3, <2>2, LoadKeepsTypes, LoadKeepsConfiguration, Zenon DEF LoadingInv
<1>4. ASSUME NEW id \in PluginIds, NEW config \in Configurations, SetPluginConfig(id, config)
      PROVE  LoadingInv'
  <2>1. UNCHANGED <<version, loaded, m_supportedVendors, m_supportedDevices, m_vendorDeviceMap>>
    BY <1>4 DEF SetPluginConfig
  <2>2. QED
    BY <1>2, <1>4, <2>1, SameClasses, SetKeepsConfiguration, Zenon DEF LoadingInv
<1>5. CASE Restart
  BY <1>1, <1>5, RestartKeepsInv, Zenon
<1>6. CASE UNCHANGED pluginVars
  <2>1. UNCHANGED <<version, loaded, m_supportedVendors, m_supportedDevices, m_vendorDeviceMap>>
    BY <1>6 DEF pluginVars
  <2>2. ConfigurationInv'
    BY <1>2, <1>6 DEF pluginVars, ConfigurationInv, ConfigurationKept
  <2>3. QED
    BY <1>2, <2>1, <2>2, SameClasses, Zenon DEF LoadingInv
<1>7. QED
  BY <1>1, <1>3, <1>4, <1>5, <1>6, Zenon DEF PluginLoadingNext

LEMMA ClassesInvListed == Loading /\ ClassesInv => VendorsListTheirClasses
<1>1. SUFFICES ASSUME Loading, ClassesInv
               PROVE  VendorsListTheirClasses
  OBVIOUS
<1>2. ASSUME NEW c \in DOMAIN m_supportedDevices, NEW v, v = m_supportedDevices[c].vendor
      PROVE  /\ v \in m_supportedVendors
             /\ Cardinality({i \in DOMAIN m_vendorDeviceMap[v] : m_vendorDeviceMap[v][i] = c}) = 1
  <2>1. ListedOnce(c, v)
    BY <1>1, <1>2, Zenon DEF ClassesInv
  <2>2. PICK i \in DOMAIN m_vendorDeviceMap[v] : \A l \in DOMAIN m_vendorDeviceMap[v] :
             m_vendorDeviceMap[v][l] = c <=> l = i
    BY <2>1, Zenon DEF ListedOnce
  <2>3. {l \in DOMAIN m_vendorDeviceMap[v] : m_vendorDeviceMap[v][l] = c} = {i}
    BY <2>2
  <2>4. QED
    BY <2>1, <2>3, FS_Singleton, Zenon DEF ListedOnce
<1>3. ASSUME NEW k \in 1..loaded, NEW j \in DOMAIN version[k].vendors,
             NEW i \in DOMAIN version[k].vendors[j].classes, Lacks(version[k].vendors[j].classes[i])
      PROVE  version[k].vendors[j].classes[i].id \notin DOMAIN m_supportedDevices
  <2> PICK c : c = version[k].vendors[j].classes[i].id
    BY Zenon
  <2>1. SUFFICES ASSUME c \in DOMAIN m_supportedDevices
                 PROVE  FALSE
    BY Zenon
  <2>2. PICK l \in 1..loaded : Provided(c, l)
    BY <1>1, <2>1, Zenon DEF ClassesInv
  <2>3. PICK n \in DOMAIN version[l].vendors : \E m \in DOMAIN version[l].vendors[n].classes :
             /\ c = version[l].vendors[n].classes[m].id
             /\ ~Lacks(version[l].vendors[n].classes[m])
    BY <2>2, Zenon DEF Provided
  <2>4. PICK m \in DOMAIN version[l].vendors[n].classes :
             /\ c = version[l].vendors[n].classes[m].id
             /\ ~Lacks(version[l].vendors[n].classes[m])
    BY <2>3, Zenon
  <2>5. k \in 1..Len(version) /\ l \in 1..Len(version)
    <3>1. Len(version) \in Nat
      BY <1>1, VersionsAssumption, SequenceIsFunction DEF Loading
    <3>2. QED
      BY <1>1, <3>1 DEF Loading
  <2>6. k = l /\ j = n /\ i = m
    <3>1. version[k].vendors[j].classes[i].id = version[l].vendors[n].classes[m].id
      BY <2>4, Zenon
    <3>2. QED
      BY <1>1, <2>4, <2>5, <3>1, OnePlace
  <2>7. QED
    BY <1>3, <2>4, <2>6, Zenon
<1>4. \A c \in DOMAIN m_supportedDevices :
         LET v == m_supportedDevices[c].vendor
         IN  /\ v \in m_supportedVendors
             /\ Cardinality({i \in DOMAIN m_vendorDeviceMap[v] : m_vendorDeviceMap[v][i] = c}) = 1
  BY <1>2, Zenon
<1>5. \A v \in DOMAIN m_vendorDeviceMap : \A i \in DOMAIN m_vendorDeviceMap[v] :
         /\ m_vendorDeviceMap[v][i] \in DOMAIN m_supportedDevices
         /\ m_supportedDevices[m_vendorDeviceMap[v][i]].vendor = v
  BY <1>1, Zenon DEF ClassesInv
<1>6. QED
  BY <1>3, <1>4, <1>5, Zenon DEF VendorsListTheirClasses

\* What clients have set is kept over restarts and changes of version, and each class of a
\* vendor is listed once and lacks nothing (loadPlugins(), setPluginConfig()).
THEOREM PluginsAsInstalledCorrect == PluginLoadingSpec => []PluginsAsInstalled
<1>1. LoadingInv => PluginsAsInstalled
  BY ClassesInvListed DEF LoadingInv, ConfigurationInv, PluginsAsInstalled
<1>2. QED
  BY <1>1, LoadingInvInit, LoadingInvStep, PTL DEF PluginLoadingSpec
=============================================================================
