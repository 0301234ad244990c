--------------------------- MODULE PluginLoading ---------------------------
(***************************************************************************)
(* The device manager loads the plugins it finds: the vendors and device   *)
(* classes that their metadata describe, and their configuration, from the *)
(* settings or by default.  Clients change the configuration; the server   *)
(* is restarted, maybe with other versions of the plugins.                 *)
(***************************************************************************)
EXTENDS Naturals, Sequences, FiniteSets

CONSTANTS
    Absent,
    Versions,       \* bound: what may be installed, each a sequence of plugins in the
                    \* order of their directories: [id, complete, paramTypes, vendors];
                    \* the names of params are numbers, for their order
    Configurations  \* bound: what clients send, sequences of params

IsSequence(s) == s \in Seq({s[i] : i \in DOMAIN s})

\* The vendors and classes of the metadata are arrays.  Ids are UUIDs: no two plugins
\* that are installed have the same, nor two vendors of a plugin, nor two classes.
ASSUME VersionsAssumption ==
    \A v \in Versions :
        /\ IsSequence(v)
        /\ \A k \in DOMAIN v :
              IsSequence(v[k].vendors)
              /\ \A j \in DOMAIN v[k].vendors : IsSequence(v[k].vendors[j].classes)
        /\ \A k, l \in DOMAIN v : v[k].id = v[l].id => k = l
        /\ \A k \in DOMAIN v : \A i, j \in DOMAIN v[k].vendors :
              v[k].vendors[i].id = v[k].vendors[j].id => i = j
        /\ \A k, l \in DOMAIN v : \A i \in DOMAIN v[k].vendors, j \in DOMAIN v[l].vendors :
              \A c \in DOMAIN v[k].vendors[i].classes, d \in DOMAIN v[l].vendors[j].classes :
                 v[k].vendors[i].classes[c].id = v[l].vendors[j].classes[d].id
                    => k = l /\ i = j /\ c = d

VARIABLES
    version,            \* the plugins that are installed
    loaded,             \* how many of them loadPlugins() has been through
    m_supportedVendors, \* set of vendors
    m_supportedDevices, \* device class -> what it is: [vendor, plugin, states, actions, events]
    m_vendorDeviceMap,  \* vendor -> sequence of device classes
    m_config,           \* plugin -> param name -> value, for loaded plugins
    pluginSettings,     \* plugin -> param name -> value: group "PluginConfig"
    chosen,             \* plugin -> param name -> the value a client has set last
    fitted              \* the plugins whose params in the settings all fitted when they
                        \* were loaded

pluginVars ==
    <<version, loaded, m_supportedVendors, m_supportedDevices, m_vendorDeviceMap, m_config,
      pluginSettings, chosen, fitted>>

PluginIds == UNION {{v[i].id : i \in DOMAIN v} : v \in Versions}
Named(seq) == {seq[i].id : i \in DOMAIN seq}
Empty == [key \in {} |-> Absent]
Put(function, key, value) ==
    [k \in DOMAIN function \cup {key} |-> IF k = key THEN value ELSE function[k]]

-----------------------------------------------------------------------------
(* The device classes of a plugin: DevicePlugin::supportedDevices() *)

Lacks(class) ==
    \E part \in {class.states, class.actions, class.events} :
        \E i \in DOMAIN part : ~part[i].complete

\* A state that is writable has an action with its id, before the actions of the class.
ActionIds(class) ==
    LET writable == SelectSeq(class.states, LAMBDA s : s.writable)
    IN  [i \in DOMAIN writable |-> writable[i].id]
            \o [i \in DOMAIN class.actions |-> class.actions[i].id]

Class(plugin, vendor, class) ==
    [id |-> class.id, plugin |-> plugin, vendor |-> vendor,
     states |-> [i \in DOMAIN class.states |-> class.states[i].id],
     actions |-> ActionIds(class),
     events |-> [i \in DOMAIN class.events |-> class.events[i].id]]

\* "broken" is never reset: the classes of the vendor that follow are left out too.
ClassesOf(plugin, vendor) ==
    LET classes == vendor.classes
        kept == {n \in 0..Len(classes) : \A i \in 1..n : ~Lacks(classes[i])}
        last == CHOOSE n \in kept : \A k \in kept : k <= n
    IN  [i \in 1..last |-> Class(plugin, vendor.id, classes[i])]

-----------------------------------------------------------------------------
(* Params: verifyParam(), verifyParams(), setConfigValue(), setConfiguration() *)

\* Values are numbers below 100; the settings give them back as texts.
Digits(n) == IF n < 10 THEN <<n>> ELSE <<n \div 10, n % 10>>
TextBefore(a, b) ==
    LET x == Digits(a)
        y == Digits(b)
    IN  \/ x[1] < y[1]
        \/ x[1] = y[1] /\ Len(x) < Len(y)
        \/ x[1] = y[1] /\ Len(x) = 2 /\ Len(y) = 2 /\ x[2] < y[2]

\* The limits of a param, if there are any: a text is compared with their texts.
Within(type, param) ==
    LET Before(a, b) == IF param.text THEN TextBefore(a, b) ELSE a < b
    IN  /\ type.maxValue # Absent => ~Before(type.maxValue, param.value)
        /\ type.minValue # Absent => ~Before(param.value, type.minValue)

Fits(paramTypes, param) ==
    \E i \in DOMAIN paramTypes :
        paramTypes[i].name = param.name /\ param.value # Absent /\ Within(paramTypes[i], param)

Param(name, value, text) == [name |-> name, value |-> value, text |-> text]

HasParam(params, name) == \E i \in DOMAIN params : params[i].name = name

VerifyParams(paramTypes, params) ==
    /\ \A i \in DOMAIN params : Fits(paramTypes, params[i])
    /\ \A i \in DOMAIN paramTypes :
          ~HasParam(params, paramTypes[i].name) => paramTypes[i].default # Absent

\* The params are set one by one up to the first that does not fit.
Configured(paramTypes, params, config) ==
    LET set == {i \in DOMAIN params : \A k \in 1..i : Fits(paramTypes, params[k])}
        Last(name) == CHOOSE i \in set :
            params[i].name = name /\ \A k \in set : params[k].name = name => k <= i
    IN  [name \in DOMAIN config \cup {params[i].name : i \in set} |->
            IF \E i \in set : params[i].name = name THEN params[Last(name)].value
            ELSE config[name]]

FitsAsStored(plugin, name) ==
    Fits(plugin.paramTypes, Param(name, pluginSettings[plugin.id][name], TRUE))

\* What the settings have, in the order of the names, up to the first that does not
\* fit, or what the defaults give
AtStart(plugin) ==
    LET stored == pluginSettings[plugin.id]
        defaults == [i \in DOMAIN plugin.paramTypes |->
                        Param(plugin.paramTypes[i].name, plugin.paramTypes[i].default, FALSE)]
        set == {name \in DOMAIN stored :
                   \A before \in DOMAIN stored : before <= name => FitsAsStored(plugin, before)}
    IN  IF DOMAIN stored # {} THEN [name \in set |-> stored[name]]
        ELSE Configured(plugin.paramTypes, defaults, Empty)

-----------------------------------------------------------------------------
(* DeviceManager::loadPlugins(), one plugin after the other; nothing else happens then *)

\* A plugin without name, id or vendors is not loaded.
Skip(plugin) ==
    /\ ~plugin.complete
    /\ UNCHANGED <<m_supportedVendors, m_supportedDevices, m_vendorDeviceMap, m_config,
                   fitted>>

\* The classes that a plugin has of a vendor
Brings(plugin, v) ==
    IF v \in Named(plugin.vendors)
    THEN ClassesOf(plugin.id,
                   plugin.vendors[CHOOSE j \in DOMAIN plugin.vendors : plugin.vendors[j].id = v])
    ELSE <<>>
Brought(plugin) ==
    UNION {{Brings(plugin, v)[i] : i \in DOMAIN Brings(plugin, v)} : v \in Named(plugin.vendors)}

Listed(v) == IF v \in DOMAIN m_vendorDeviceMap THEN m_vendorDeviceMap[v] ELSE <<>>

\* The vendors, then the device classes, then the configuration.  A vendor without classes
\* has an empty list here; the code has none, which it reads as an empty one.
Load(plugin) ==
    /\ plugin.complete
    /\ m_supportedVendors' = m_supportedVendors \cup Named(plugin.vendors)
    /\ m_supportedDevices' =
          [c \in DOMAIN m_supportedDevices \cup {class.id : class \in Brought(plugin)} |->
              IF \E class \in Brought(plugin) : class.id = c
              THEN CHOOSE class \in Brought(plugin) : class.id = c
              ELSE m_supportedDevices[c]]
    /\ m_vendorDeviceMap' =
          [v \in DOMAIN m_vendorDeviceMap \cup Named(plugin.vendors) |->
              Listed(v) \o [i \in DOMAIN Brings(plugin, v) |-> Brings(plugin, v)[i].id]]
    /\ m_config' = Put(m_config, plugin.id, AtStart(plugin))
    /\ fitted' = IF \A name \in DOMAIN pluginSettings[plugin.id] : FitsAsStored(plugin, name)
                 THEN fitted \cup {plugin.id} ELSE fitted

LoadNext ==
    /\ loaded < Len(version)
    /\ loaded' = loaded + 1
    /\ Skip(version[loaded + 1]) \/ Load(version[loaded + 1])
    /\ UNCHANGED <<version, pluginSettings, chosen>>

-----------------------------------------------------------------------------

Running == loaded = Len(version)
Installed(id) == version[CHOOSE i \in DOMAIN version : version[i].id = id]

\* Mutant of SetPluginConfig.
SetPluginConfig_StoresAnew(id, config) ==
    /\ Running /\ id \in DOMAIN m_config
    /\ VerifyParams(Installed(id).paramTypes, config)
    /\ LET Set(old) == Configured(Installed(id).paramTypes, config, old)
       IN  /\ m_config' = [m_config EXCEPT ![id] = Set(@)]
           /\ pluginSettings' = [pluginSettings EXCEPT ![id] = Set(Empty)]
           /\ chosen' = [chosen EXCEPT ![id] = Set(@)]
    /\ UNCHANGED <<version, loaded, m_supportedVendors, m_supportedDevices, m_vendorDeviceMap,
                   fitted>>

\* All the params are checked first.  The missing ones are filled in with their
\* defaults for the check only: what is set and stored are the params that were sent.
SetPluginConfig(id, config) ==
    /\ Running /\ id \in DOMAIN m_config
    /\ VerifyParams(Installed(id).paramTypes, config)
    /\ LET Set(old) == Configured(Installed(id).paramTypes, config, old)
       IN  /\ m_config' = [m_config EXCEPT ![id] = Set(@)]
           /\ pluginSettings' = [pluginSettings EXCEPT ![id] = Set(@)]
           /\ chosen' = [chosen EXCEPT ![id] = Set(@)]
    /\ UNCHANGED <<version, loaded, m_supportedVendors, m_supportedDevices, m_vendorDeviceMap,
                   fitted>>

Restart ==
    /\ Running
    /\ version' \in Versions
    /\ loaded' = 0
    /\ m_supportedVendors' = {}
    /\ m_supportedDevices' = Empty
    /\ m_vendorDeviceMap' = Empty
    /\ m_config' = Empty
    /\ fitted' = {}
    /\ UNCHANGED <<pluginSettings, chosen>>

PluginLoadingInit ==
    /\ version \in Versions
    /\ loaded = 0
    /\ m_supportedVendors = {}
    /\ m_supportedDevices = Empty
    /\ m_vendorDeviceMap = Empty
    /\ m_config = Empty
    /\ pluginSettings = [p \in PluginIds |-> Empty]
    /\ chosen = [p \in PluginIds |-> Empty]
    /\ fitted = {}

PluginLoadingNext ==
    \/ LoadNext
    \/ \E id \in PluginIds, config \in Configurations : SetPluginConfig(id, config)
    \/ Restart

PluginLoadingSpec == PluginLoadingInit /\ [][PluginLoadingNext]_pluginVars

-----------------------------------------------------------------------------

\* What a client has set is what the plugin works with, after any restart, if the
\* plugin works with the param at all.  It does if all that was stored for the plugin when
\* it was loaded fitted its version, as the text that it had become (setPluginConfig(),
\* loadPlugins()).
ConfigurationKept ==
    \A id \in DOMAIN m_config : \A name \in DOMAIN chosen[id] :
        /\ name \in DOMAIN m_config[id] => m_config[id][name] = chosen[id][name]
        /\ id \in fitted => name \in DOMAIN m_config[id]

\* The classes listed for a vendor, by all the plugins that have classes of it, are
\* its classes, each once, and complete (supportedDevices() with and without vendor).
VendorsListTheirClasses ==
    /\ \A c \in DOMAIN m_supportedDevices :
          LET v == m_supportedDevices[c].vendor
          IN  /\ v \in m_supportedVendors
              /\ Cardinality({i \in DOMAIN m_vendorDeviceMap[v] : m_vendorDeviceMap[v][i] = c}) = 1
    /\ \A v \in DOMAIN m_vendorDeviceMap : \A i \in DOMAIN m_vendorDeviceMap[v] :
          /\ m_vendorDeviceMap[v][i] \in DOMAIN m_supportedDevices
          /\ m_supportedDevices[m_vendorDeviceMap[v][i]].vendor = v
    /\ \A k \in 1..loaded : \A j \in DOMAIN version[k].vendors :
          \A i \in DOMAIN version[k].vendors[j].classes :
             LET class == version[k].vendors[j].classes[i]
             IN  Lacks(class) => class.id \notin DOMAIN m_supportedDevices

\* The plugins are as installed and as set: what clients have set is kept, with the
\* exception above, and a vendor has its classes, each once.
PluginsAsInstalled == ConfigurationKept /\ VendorsListTheirClasses

\* "If a DeviceClass has an invalid parameter it will be ignored": the others of the
\* plugin are there.
OnlyBrokenClassesIgnored ==
    \A k \in 1..loaded : version[k].complete =>
        \A j \in DOMAIN version[k].vendors : \A i \in DOMAIN version[k].vendors[j].classes :
            LET class == version[k].vendors[j].classes[i]
            IN  ~Lacks(class) => class.id \in DOMAIN m_supportedDevices

\* "Values might not be set at the time when your plugin is loaded, but will be set soon
\* after": those that have a default.
ConfigValuesSet ==
    Running => \A id \in DOMAIN m_config : \A i \in DOMAIN Installed(id).paramTypes :
        Installed(id).paramTypes[i].default # Absent
            => Installed(id).paramTypes[i].name \in DOMAIN m_config[id]
=============================================================================
