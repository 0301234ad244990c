# A formal model of guh

guh is a home-automation server: plugins bring devices into the system, devices
have states, events and actions, and rules connect them. These TLA+ modules model
the parts of it that keep state across calls, the TLC configurations check them on
small instances, and the `*Proofs` modules prove their safety for every instance.

All of guh's core runs in one thread around the Qt event loop. A call from a
client, an answer of a plugin or a timer runs to its end before the next one
starts, unless it calls back. The hard behaviour is therefore not in the
interleaving of instructions but in that of *calls*: a plugin answers a setup
whenever it likes, the device may have been reconfigured or removed since, an edit
is a removal and an addition, the process stops between two writes to disk.

## Inventory

| component | state | operations | talks to |
|---|---|---|---|
| Rules and conditions (`server/ruleengine.cpp`, `rule.cpp`, `stateevaluator.cpp`) | `m_ruleIds`, `m_rules`, `m_activeRules`, the rules file | add, edit, remove, enable, disable, take a device out, evaluate an event, load | called by GuhCore and the API handlers; reads the states of devices |
| Device manager (`libguh/devicemanager.cpp`, `plugin/device.cpp`) | `m_configuredDevices`, `m_discoveredDevices`, `m_pairingsDiscovery`, `m_asyncDeviceReconfiguration`, `m_pluginTimerUsers`, the devices file | add, discover, pair, set up, reconfigure, rename, remove, load | calls plugins, which answer at once or by a signal; signals to GuhCore |
| GuhCore (`server/guhcore.cpp`) | `m_pendingActions`, the calls in progress | got event, execute actions, remove a device with its children and rules | everything |
| JSON-RPC (`server/jsonrpc/`) | clients, `m_asyncReplies`, the handlers' hashes of waiting replies | requests, asynchronous replies, 10 s timeouts, notifications | GuhCore, transports |
| REST (`server/rest/`, `httpreply.cpp`) | `m_asyncReplies` by client, the resources' hashes | the same over HTTP | GuhCore, web server |
| Transports (`tcpserver.cpp`, `websocketserver.cpp`, `webserver.cpp`) | client lists, at most 50 web connections per address | connect, disconnect, data | JSON-RPC, REST |
| Log engine (`server/logging/`) | an SQL table of bounded size | append, trim, remove by device or rule | GuhCore |
| CoAP client (`libguh/coap/`) | one reply in flight, a queue, observed resources | request, retransmit, acknowledge, blocks, notifications | plugins, UDP |
| Network services (`libguh/network/`) | running discoveries, tokens and their timers | UPnP search, OAuth2 refresh, HTTP replies | plugins |
| Hardware (`libguh/hardware/`, `libguh/bluetooth/`) | device files, threads, queues of pulses | send, receive | plugins |
| Plugins (`plugins/deviceplugins/`) | whatever a product needs | setup, action, discovery, pairing | device manager |

What makes each correct, and where it is hard:

* **Rules.** The order list, the hash, the active list and the file describe the
  same rules after every edit, failed edit and crash; a removed device leaves no
  reference; no rule misses a transition of its states although a filter decides
  which rules are looked at; a restart brings back no rule that was removed and no flag
  that is old (what it does not bring back is listed under RuleEngine).
* **Device manager.** The file holds the configured devices; each is connected
  once; a device that works, works with the stored parameters; late answers hit
  the device they were meant for; the shared timer runs exactly as long as needed.
* **GuhCore.** Nested events leave rules and states in agreement; a removal is
  complete or refused, and spares other rules.
* **JSON-RPC and REST.** Each request is answered exactly once, by its result or a
  timeout, and nobody answers a request that is gone.
* **CoAP.** Each request finishes, once, with the whole payload, over a network
  that loses, duplicates and reorders.
* **Log engine.** The table does not outgrow its limit, only the oldest go, and a
  client that follows the signals shows the table.
* **Transports and web server.** Servers follow the addresses of the interfaces; a
  connection has a place in every list or in none; the idle timer spares who waits.
* **Network services.** What was found goes to the plugin that asked, and once.
* **Plugins.** Every setup, pairing, discovery and action left open is answered, with
  its own result, and no pointer outlives its object.

The hazards are listed in `PROJECT.json` with their lines.

## Modules

| module | models |
|---|---|
| `StateEvaluator` | the condition tree: `evaluate`, `isValid`, `containsDevice`, `removeDevice`, `RuleEngine::containsState`; no variables |
| `Conditions` | a condition while states change, devices go and are taken out of it |
| `RuleEngine` | the rule engine over those trees, with the states of the configured devices and the rules file |
| `GuhCore` | extends `RuleEngine`: nested events, lists of actions, the removal of a device with its children, step by step |
| `GuhCoreProofs` | the theorems of both, and of `Conditions` |
| `DeviceRegistry` | abstract: a set of devices that changes by one device at a time and survives restarts |
| `DeviceManager`, `DeviceManagerProofs` | the device manager, with the plugin as its environment; its theorems, that it implements `DeviceRegistry`, and the theorem of `PluginLoading` |
| `RequestQueue` | abstract: requests that are served one after the other, each finished once |
| `Coap`, `CoapProofs` | the CoAP client over an unreliable channel; its theorems, and that it implements `RequestQueue` |
| `CoapPdu` | packing and unpacking of CoAP packets |
| `JsonRpc`, `JsonRpcProofs` | clients, commands, asynchronous replies and their timeouts, the handlers' hashes; its theorems |
| `JsonTypes`, `JsonHandlers`, `JsonRules` | the templates and their validation; what each method takes and returns; rules to and from JSON |
| `RestServer`, `RestServerProofs` | the web server's connections and the REST server's replies; their theorems, and that of `RestResources` |
| `RestResources` | the routing of a path, a method and a payload to an operation |
| `LogEngine`, `LogEngineProofs` | the bounded table, all its writers, a client that follows its signals; its theorems |
| `LogFilter` | the SQL text of a filter, and what SQLite reads in it |
| `PluginHost` | what the device manager asks of any plugin and what it may answer; each plugin module instantiates it |
| `Avea`, `UpnpPlugins` (Kodi, LG TV, WeMo), `Mail`, `DateTime`, `CommandLauncher`, `OnlinePlugins` (Netatmo with OAuth2, OpenWeatherMap, aWATTar) | plugins with devices, servers and processes that answer when they like |
| `Plugins`, `PluginProofs` | the ten of them, a behaviour being one of one plugin; their theorems |
| `PhilipsHue`, `MaxCube` | the two gateways |
| `HardwareDiscovery` | the UPnP and the Bluetooth discovery that plugins share |
| `WifiDetector`, `Transports` | discoveries by nmap; the TCP and web socket servers |
| `Network`, `NetworkProofs` | the six of them, as `Plugins` is; their theorems |
| `PluginLoading` | loading of plugins and their metadata, configuration across versions |
| `MCRuleEngine`, `MCGuhCore`, `MCDeviceManager`, `MCJsonRpc`, `MCRestServer` | instances for TLC |
| `MCValues` | `CoapPdu`, `LogFilter`, `JsonRules`, `JsonHandlers`, `RestResources`, `PluginLoading` and `Conditions` on bounded inputs |

`Coap`, `Plugins`, `Network` and `LogEngine` have their instance in their own `.cfg`.

### Conventions

Variables and actions have the names of the members and methods they stand for.
An action is one call: its guard is the conjunction of the conditions under which
the call gets past its early returns. A refused call that changes nothing is no
action; one that changes something before it is refused is (`EditRuleFails`,
`AddDiscoveredDevice` of a device that cannot be added).

Some definitions have a twin named `X_Y` just before them, marked "Mutant of X": the
same operation with one plausible mistake. No specification uses it. Put in the
place of `X`, it makes one of the properties fail, which shows that the property
can fail.

Where a sequence of calls reaches a member that was never set, a deleted object or a null
pointer, the model goes to a state that says so (`undefined`, `crashed`), and the
property names the sequences that lead there. The word `disturbed` marks these: what
happened from outside, not what went wrong.

### StateEvaluator

A tree is a function from paths to nodes, `<<>>` being the root and `p \o <<i>>`
the i-th child of `p`. This keeps the recursion of the C++ code in recursive
functions over the paths. A node has a state descriptor, possibly the empty one,
and an operator. Values are numbers; a descriptor says whether its own is one or, after a
restart, the text of one (`asText`): `dumpToSettings()` leaves the type to the INI file,
`loadFromSettings()` reads texts (stateevaluator.cpp:192), and
`StateDescriptor::operator==` converts the state's value to the type of the descriptor's
(statedescriptor.cpp:96). `Compares` then orders them as texts (`NumeralBefore`), so 9 is
greater than 12. Bound: numbers of three digits. A node without children is
`TRUE` under And. Under Or, the code falls off its loop; so an Or node without
children is `FALSE`, and so it is here. `Evaluate` and the others take the states
as a parameter.

`Conditions` has a tree and the states of the devices; it changes states, removes
devices and takes them out of the tree. `EvaluateIsJustified` compares the recursion with
a second definition that decides a tree by the sets of nodes that make it true. TLC
checks it on trees of up to three levels, and it is proved for every finite tree.

Two disagreements with the code's comments are in the model. A disabled rule keeps its
active flag when its states cease to match (`Concerns` leaves disabled rules out),
although "a Rule is active, when all States match" (guhcore.cpp:93). And `isValid()` of
an Or node is content with one valid child (`IsValid`), although it "returns true, if
all child evaluators are valid" (stateevaluator.cpp:209).

### RuleEngine

`m_rules` maps an id to its configuration and its active flag; `settings` is the
rules file, `m_activeRules` the list `evaluateEvent()` consults, as a set, for the
code appends to it only what is not there. The rule configurations are what the
handlers let through (`Submittable`, from `verifyRuleConsistency()` and
`verifyActions()`) and what `addRule()` accepts (`CanAdd`). `StateChange` is the
signal of a device and the evaluation it causes in the same call. `Restart` reloads
the file; `CrashInEdit` is a stop between the two writes of an edit, the one place
where an operation of the engine writes twice.

Saving and loading lose something, and the model says what (`Saved`, `SavedOver`,
`Loaded`):

* exit actions are written with the name and value of their parameters only
  (ruleengine.cpp:769), so the events that parameters take their value from are gone
  (`WithoutEvents`). The check that would refuse such a rule never does
  (jsontypes.cpp:1627);
* values of conditions come back as texts (see above);
* the groups of actions are numbers that `childGroups()` sorts as texts, so more than ten
  actions come back in another order (`Reordered`; bound: twenty actions);
* enabling or disabling a rule saves it over its group, and the keys of an event are
  written only for a parameter that has one; so they stay under the number of an action
  whose parameters have none (`SavedActions`), which happens once the order has changed.

`StoredAs` is what remains true of the file and `ComesBackAs` of a rule after a start:
events, flags, up to ten actions, and a condition's verdict unless it orders values.
`ReferencesConfigured` asks of conditions what `isValid()` asks: below an Or a condition
may go on naming a device that is gone. The order of event descriptors and of child
evaluators, which is changed by the same sorting, makes no difference to any verdict, and
is left out.

`GuhSettings` syncs in its destructor, so each write is on disk at the end of the
block that made it. Names of rules and descriptors of event parameters are left
out: nothing here depends on them.

### GuhCore

`RuleEngine` takes a state change with its evaluation as one step and a device's
departure as another. `GuhCore` extends it and looks inside both.

*Events.* A plugin that executes an action may call `setStateValue()` or
`emitEvent()` before it returns; the signal ends in `gotEvent()`, which evaluates
the rules and executes what they make due, all inside the first call. `stack` holds
these calls, the innermost first. A frame has the entries its `executeRuleActions()`
has still to run and the signals the plugin it is in has still to send.
`PluginSignals` is a signal down to the new call (`SetStateValue` is silent when the
value is not new), `ExecuteNext` enters the plugin with the next action,
`ReturnFromCall` leaves. The order in which `gotEvent()` lines up the actions, by
rule and place, with those that take a value of the event last, is `Before`. The
list in that order is the only member of `Lists(entries)`, a set of functions, for a
recursion would keep the module out of the reach of the prover. What a plugin does
in an action is `EffectsOf`, a constant. A client's own action has the same effects
as a signal of the plugin from the event loop, `PluginCalled`, sent one by one.

*Removals.* `removeConfiguredDevice()` is not interrupted by other calls, and every
step writes to disk. `BeginRemoval` does the checks and plans, `RemovalCascades`
and `RemovalUpdates` deal with the rules one by one in any order (the code goes
through a `QHash`), `RemovalTakesChild` and `RemovalTakesRoot` take the devices.
`CoreRestart` may come between any two of them. The variant with one policy for all
rules is the one with a list that names every rule. `removeDeviceFromRule()` for the
children happens in any order, for they have the order of the configured devices,
which nothing else depends on.

`states` is at the same time the configured devices and their states on disk. That
`DeviceManager` keeps its file so is its invariant `StoredAreConfigured`. Plugins are
taken to send no signal about a device from inside its own `deviceRemoved()`.

### DeviceManager

A device is a record of what the manager and the settings file can tell of it: the
state of the memory it lives in, `setupComplete`, how often its `stateValueChanged`
is connected, and its parameters. Parameter lists are values of a set. `NoParams` is
the empty list of a descriptor that is no longer there, which `setParamValue()`
cannot fill. The conversion of parameters to strings in the file is not modelled.

The plugin answers `setupDevice()` with Success, Failure or Async, and owes one
`deviceSetupFinished` for each Async (`pendingSetups`); it may give it at any later
time, well or not. Nothing obliges it to answer at all.

A deleted object has `memory = "freed"` and keeps its last contents, which is what
the manager reads through a pointer it still has, as long as nothing else has been
allocated there. The other outcome, a crash of the process, is `Stop` a step
earlier: the settings are synced only after the read. Garbage read from memory that
has been used again is not modelled. The invariants on devices are about live ones.

`running`, `unanswered` and `raced` are not in the code. `running` is the process;
`unanswered` counts the asynchronous edits whose finished signal has not been
emitted, and `raced` are the devices reconfigured while an answer was owed, for
which the code can lose track of what an answer is about.

`m_pairingsJustAdd` is declared in the code and never filled, so it has no variable.
The ids of devices and pairings are fresh in the code; here each is used once per
start.

### CoAP

`Coap` has the queue of replies with one in flight, its timer, the observed resources
and the notifications on their way. The channel is a set of datagrams that are
delivered, lost or delivered again, in any order; `onReadyRead()` looks at the last
datagram waiting only, which is a loss of the others. Ids and tokens are taken not to
collide. Known to be so in the code, and therefore in the model:

* a separate answer that comes in blocks finishes the reply with its first block;
* a request that is not confirmable sends block 0 only;
* a late acknowledgement of an earlier block may finish the request by its token, and
  the timeout sends the datagram a fifth time: such a request is `disturbed`;
* a registration to observe that fails stays in the list; "disable" removes one of
  several observations of a url; `m_observation` is not initialised, so a GET may be
  sent as an observation; errors in the middle of Block1 are ignored.

Datagrams arrive at any time, also while the host of the current request is looked up.
Its reply has no token then and a message id that has never been set (`NoId`), which may
equal any: a datagram of an earlier request, one without a token and one that is invalid
change that reply or finish it (`Strikes`). It then carries what was not meant for it, and
`AnswersRight` leaves such a request out (`struck`); for the others it is stated all the
same. When the lookup returns, the request is sent although it may have finished, and can
finish again in place of the one that is served ("This should never happen!!",
coap.cpp:655); a user that has deleted the reply makes this a use of freed memory. From
then on (`late`) the client promises nothing, and `Kept` says that it has not come to
that. Each property is about `Kept` states, which cannot be entered again once left, so
the run looks no further (`CONSTRAINT Kept`).

`CoapPdu` is the encoding by its arithmetic: an option of exactly 13 or 269 bytes
loses its length byte, longer than 269 is wrong, a payload is cut at NUL, a block
number above 255 wraps; unpacking subtracts the extension of a length and misreads
options of 13 bytes and more, ignores a payload without options and leaves the members of
an empty block option unset. `PdusUnderstood` says that everything else is understood.

### JSON-RPC

`JsonRpc` follows a command from the transport to its answer. Replies of handlers wait
in `m_asyncReplies` with a timer; device and action handlers keep them in hashes by
device, pairing or action, which a later command for the same key overwrites.
`clientDisconnected` is never emitted by the transports, so an entry of `m_clients`
outlives its client. `JsonTypes` is the validation: the result of nested `Param` and
`Vendor` is dropped, null passes as a basic type, conversion is possible by type and not
by value. `JsonHandlers` has the templates and results of all methods. `ReturnsValid` asks of
an answer two things: that the code's own validator takes it, without which a debug build
stops at an assertion, and that it fits the description of its method as a reader would
take it (`Fits`), for the validator overlooks much. Three answers do not fit, and
`Returned` corrects the description by name: a plugin's `params` are ParamTypes and not
Params (`packPlugin`, jsontypes.cpp:623, against :212); an action type's `name` is a text
and not an id; the value of a Param may be unset.
The one call that is described and never accepted is a removal with a policy
(`RemovePolicy` is not handled among the references, jsontypes.cpp:1403). `JsonRules`
packs and unpacks rules; a state descriptor without an operator gets -1 there.
`DescriptorAccepted` is the check of a condition's value: whatever converts to the type of
the state is taken, a number sent as a text too (stateevaluator.cpp:228), and compared
with the limits after that.

### Web server, REST server

`RestServer` has a connection's life (accept, limit, handshake, packets, idle
timer), how a request is put together from packets, and the replies. A header cut in two
packets is answered with BadRequest twice; a second asynchronous request on a connection
drops the answer to the first; a handshake that never completes keeps its slot. The
properties name these. `RestResources` routes: the first two tokens are not looked at,
tokens after the sixth are ignored for devices, `devices/pair` and
`devices/confirmpairing` with another method reach a handler whose device is null
(`Undefined`), a removal with a policy is always answered 200, and a payload that
cannot be parsed counts as none.

### Log engine

`LogEngine` has the table, the writers in GuhCore and a client that fetches and then
follows `LogEntryAdded` and `LogDatabaseUpdated`. The table may hold one entry more than
`m_dbMaxSize`; at exactly the maximum nothing is trimmed but the update is announced. An
action that is finished before `executeAction()` returns is logged with null ids and
stays in `m_pendingActions` (`early`). Values with a quote, which break the INSERT, are
left out. `LogFilter` builds the text and reads it back with SQLite's precedence: a filter
with an end alone is NOT BETWEEN the end and now.

### Network services, gateways, transports

`HardwareDiscovery`: every datagram that announces a device is fetched for each search
that is running, and each description is added to all searches running then. So
overlapping searches share, and duplicate, results (the property is about what has not
overlapped), and a late one goes to another plugin. Only the last datagram waiting is
read. The Bluetooth scanner answers nobody after an error, and a second search takes the
first one's place. `WifiDetector`: without an interface, or when the last scan failed, a
discovery is never answered; with two interfaces the devices flap. `Transports`: sockets
are children of the `QTcpServer`, so deleting it with clients connected leads
`onClientDisconnected` to a null pointer. `PhilipsHue` and `MaxCube` have their request
hashes; the cube has one `m_actionId`, so overlapping commands answer the wrong one, and
a second bridge makes the first tick read a null reply. The cube's answers are lines; one
read joins all that have arrived and goes by the first, so of several answers read together
one counts, or none (`AnswersRead`, maxcube.cpp:704).

### Plugins

Each module has the plugin's members, the device or server it talks to and the
requests of `PluginHost`. What they do not keep, and the properties therefore exempt:

* Avea: `m_isAvailable` and `m_connected` are not initialised; the same colour pending
  twice loses an action.
* Kodi: a drop before the version arrives leaves the setup unanswered; a failed device
  goes on reconnecting. LG TV: after a byebye it is never paired again.
* Mail: a mail sent while the login is tested is not sent; a second mail takes the first
  one's place; a login with a cut answer fails; the client of a failed stored device is
  null.
* DateTime: alarms at dusk need a today device and the exact second; a new one may ring
  them again; the weekday is that of the moment, not of the alarm across midnight.
* Netatmo: a failed login keeps its device in `m_asyncSetups`, so a later success
  reports it. aWATTar: a price of an interval that ends now counts twice.

`PluginLoading`: settings give numbers back as texts, which are compared as texts with
the limits; the classes of a vendor that follow a broken one are left out; the first
param without a default ends the initialisation.

What a client sets is stored with what was stored before, and a plugin starts with what
is stored up to the first param that does not fit. So a param that fits may be missing
although the client's last call was accepted and all that is stored fits now: a new
version has a narrower limit for x, y behind it is not loaded, the client sets x to a
value that fits, and y stays missing until the next start. An earlier statement of
`ConfigurationKept` excluded this; its proof could not be finished, and TLC found the
behaviour once a version with a narrower limit was in the instance. `fitted` now has the
plugins of which all that was stored fitted when they were loaded.

## Checks

Each run names its properties in its `.cfg`; each property has its statement as a
comment in its module.

| run | instance | shows |
|---|---|---|
| `rules` | 2 rules, 2 devices with states 9 and 10, 2 configurations (event based with eighteen actions that take values of the event; state based on either device, with exit actions, one of them with an event); about 54 500 states | rules, order, active list and file consistent under every operation, crash and restart; no transition missed |
| `core` | a bridge, a lamp that is its child, a sensor, two rules that trigger each other's conditions; about 155 000 states, calls five deep | the core keeps to the rule engine's specification at every nesting and at every crash point of a removal; it spares other rules, never orphans a child; dispatch ends |
| `devices` | one device that is added, one that is paired, 2 parameter lists, 1 descriptor, 1 pairing, 1 plugin with the timer; about 211 000 states | devices, file and timer consistent; refinement of `DeviceRegistry` |
| `coap` | 3 requests, one datagram in flight, 2 retransmissions, datagrams during lookups too; about 485 000 states | answers belong to their requests; refinement of `RequestQueue`; requests finish |
| `jsonrpc` | 3 commands of 2 clients, by TCP and by web socket | one answer, the right one, and an answer at all |
| `web` | 3 connections, two of one address, a limit of 1, timeouts of 1 and 2 ticks, 2 replies | the lists of both servers agree, who waits is not closed as idle, requests are answered |
| `plugins` | each plugin with 2 devices and 2 actions; about 195 000 states | nothing deleted is used; mails are sent, alarms know their time; setups and actions are answered |
| `network` | a Hue bridge with a light and a remote; a cube with 2 thermostats; 2 searches for 2 devices of one name; 2 Bluetooth plugins; 2 phones on 2 interfaces; 3 addresses; about 346 000 states | answers match commands, discoveries their searches; nobody waits for ever; servers follow the interfaces |
| `logs` | a bridge and its lamp, a rule, a table of one entry and one more; about 1.7 million states | the newest entries are kept; the client shows the table; pending actions are those executed |
| `values` | packets with options around 13 and 270 bytes and blocks around 16 and 256; trees of three nodes; filters with lists of two; all templates; the words and ids of every resource; four versions of two plugins; about 112 000 states | conversions and pure algorithms against their reference |
| `rules_saved` | as `rules` | violated: an edit that fails "restores" the old rule (ruleengine.cpp:394) in memory only |
| `coap_options` | as `values` | violated: options are not in the order of their numbers (coappdu.cpp:348), when an upload in blocks has a query |

The bounds: two rules are enough to have one that stays while another moves in the
order; two devices of one plugin are enough for the timer to have a last and a
not-last user and for one device's setup to be late while the other is stored;
three levels of a tree have a node that is neither root nor leaf. `MaxPending`
bounds how many answers a plugin owes for one device: with 1 in `devices`, a
reconfiguration may still meet an unanswered setup. `MaxDepth` in `core` is 6, one above
what its rules reach, so that no call is cut off. Two requests make a queue, a third
meets what the second left behind. A connection limit of 1 is reached by the second
connection. A table of one entry is trimmed by every writer. Two searches overlap, and
two devices under one uuid are what the hash of `HardwareDiscovery` confuses. The
bounds themselves (`MaxCommands`, `MaxReplies`, `MaxFetches`, ...) stand in the guards
and are constants; the proofs cover every value of them.

Deadlock is checked in `rules`, `core`, `devices` and `logs`. The others may stop: all
requests of the bound have been made and answered.

*Fairness.* It is stated for what the program's own thread and timers do, and never for
a client, a device or the network:

* `CoreSpec`: `Dispatch`, the steps of a call that is running. The code has one thread,
  and plugins return from `executeAction()`. That calls end needs more: the rules in
  the instance trigger each other, and the recursion stops because `setStateValue()`
  does not signal a value that the state has already. Rules that undo each other's states
  recurse without end in the code.
* `Coap`: host lookups end (the resolver's own timeout), the reply's timer fires.
* `JsonRpc`, `RestServer`: the timers of replies, the clock of connections.
* `Plugins`, `Network`: network requests are answered, with an error if need be
  (`QNetworkAccessManager`), processes end, connection attempts end, timers fire.

*What the code's own comments say, and is not so.* Two statements have a run above. TLC
refutes the others as well; the definitions that state them are in the modules, where
they are not too long to say here:

| where | statement | what happens |
|---|---|---|
| ruleengine.cpp:621 | `removeDeviceFromRule()` removes a device from a rule (`OnlyTheDeviceGoes`) | it drops all exit actions, disables the rule and makes it not executable |
| rule.cpp:76 | actions when the rule enters, exit actions when it exits (`ActionsFollowActive`) | an action of one rule makes it and another leave inside the call; the other's exit actions come before its remaining actions |
| devicemanager.cpp:1088 | a setup is finished for a valid pointer (`SetupOfValidPointer`) | the device may have been removed; a dangling pointer is configured again |
| devicemanager.cpp:1227 | a paired device whose setup fails is not added (`PairedOnlyIfSetUp`) | it is deleted, then appended |
| devicemanager.cpp:132 | a state change of a device is reported (`StateChangesReported`) | not after a failed setup at start and a successful reconfiguration |
| devicemanager.cpp:472 | parameters of a failed reconfiguration are not saved (`RenameSavesNoParams`) | the next rename of any device saves them |
| devicemanager.cpp:152 | the end of an edit is announced (`EditsAnswered`) | one of two overlapping ones is not |
| coap.cpp:655 | a reply that is not the current one never finishes ("This should never happen") | a late answer does it |
| jsonhandler.cpp:219 | a reply is finished by the answer to it | by the answer to the one it took the key of |
| logginghandler.cpp:85 | the logs of a removed rule go | only when the removal has failed (guhcore.cpp:341) |
| webserver.cpp:712 | each client counted has a connection | not one whose handshake never completes |
| deviceplugin.cpp:187 | a class with an invalid parameter is ignored (`OnlyBrokenClassesIgnored`) | those of the vendor that follow too |
| deviceplugin.cpp:499 | config values are set soon after the plugin is loaded (`ConfigValuesSet`) | not those after one without default |
| restresource.cpp:153 | false for a payload that could not be parsed (`BrokenPayloadsRefused`) | the call goes on without payload |
| devicehandler.cpp:213 | a removal may have a policy (`DescribedCallsAccepted`) | every such call is refused |
| jsontypes.cpp:1628 | exit actions carry nothing of an event (`ExitActionsWithoutEvents`) | they may, when they have a value too |

## Proofs

Each proof module extends the module whose specification it is about. The theorems hold for
every value of the constants under the `ASSUME`s of the modules, which TLC evaluates
on every instance.

**`GuhCoreProofs`, the rule engine.** `Spec` implies `TypeOK`, `ListsAndFileAgree`
(`OrderMatchesRules` and `SettingsMatchRules`), `ActiveRulesCanLeave`,
`ReferencesConfigured`, `RestartFaithful` and `NoMissedTransition`. The conjunction `Inv` of the
invariants is inductive as it stands: the order needs that the list has no duplicates
for `takeAt(indexOf(id))` to remove the rule, the references need that rules on disk name
the devices of those in memory. Saving is not the identity here: `SettingsMatchRules`
says what of a rule is in the file (`StoredAs`), also after a rule was saved over what a
start had reordered, and `RestartFaithful` what a start makes of it; that a condition on
texts decides as the one on numbers unless it orders values is `AsTextsDecides`, and that
it stays one that `isValid()` accepts the lemma before it. One lemma per action, then `InvInductive`. `NoMissedTransition` needs
no induction over conditions: `EvaluateLocal` says that two states that the descriptors
of a tree do not tell apart give the same recursive function, hence the same value. A
state that `containsState()` does not find, and a device that `findRules()` finds
no rule of, are not told apart (`UnconcernedByState`, `UnconcernedByDevice`). The
assumptions are `RuleIdsAssumption`, `NoDeviceAssumption` and `ConfigsAssumption` (what
clients submit has the shape of a rule).

**`GuhCoreProofs`, the core.** `CoreStep` shows that a step of the core is a step of
`RuleEngine` or leaves its variables alone, so `CoreRefinesEngine` follows and with it
everything proved of the engine (`CoreReferences`, `CoreMissesNothing`). The device's
departure is where it needs an argument: `DeviceRemoved` is enabled only when no rule
names the device. `RemovalSound` says that a rule that still names a device of the
removal is in the plan with that device left to take out, and no step of the plan adds a
mention. `CallsSound` says that entries and signals on the stack are for configured
devices, since they come from rules that name only those, and since no removal begins
while a call is running. `NothingDangles` assumes `ParentsAreRoots`, for
`findChildDevices()` looks one level down only; a child of a child would be left behind.
`OtherRulesSpared` needs `Planned`: a rule of the plan names a device of the removal, or
has lost one already. `removeDeviceFromRule()` is called for the root and for every
child, whether the rule names it or not. What it would do to a rule that names no such device
it has done in the first call, the one that was due (`NothingLeftToTake`).

**`GuhCoreProofs`, conditions.** `EvaluateIsJustified` and `ConditionChangesSound`, for
every finite condition (`TreesAssumption`). `evaluate()` is a recursion over the tree; the
proof needs no induction over it. `Standing` is the greatest set of nodes that can stand
together; membership in it solves the equations of the recursion, so they have a solution
(`StepHasSolution`). The nodes for which a solution is true can stand together. A node of
`Standing` for which it were false would have a child of that kind, and in a finite tree a
set of nodes each of which has a child in it is empty (`NoEndlessBranch`, by the
well-founded order of the sets of deeper nodes). This is `EvaluateJustified`, for any
states. Taking a device out makes descriptors empty, and an empty one matches: what stood
still stands. For the changes that the search overlooks see `UnconcernedByState` above.

**`DeviceManagerProofs`, devices.** `FileMatchesDevices` (`StoredAreConfigured`,
`CompleteAsStored`), `TimerServesDevices`, `ConnectedAtMostOnce`, and the refinement of
`DeviceRegistry`. `ConnectedAtMostOnce` says nothing of a device whose answer is still
to come. The strengthening is `Sound(d)`: a live device that is not raced has at most
one answer to come; while it waits it is not set up; it is in
`m_asyncDeviceReconfiguration` exactly when the answer is an edit's; if it is a first
setup's, the device is not connected yet and is as stored. `Known(d)` says that an id
without an object is nowhere, so a new object starts clean. The refinement needs
`StoredAreConfigured`: a stop and a start keep the devices because the file has them.

**`DeviceManagerProofs`, plugins.** `PluginsAsInstalled`. `LoadingInv` is inductive:
`ClassesInv` says that a class that is supported is one that a plugin gone through has
(`Provided`), and stands once in the list of its vendor and in no other. What the next
plugin brings is new then (`BringsNew`), for no class has two places in an installation
(`VersionsAssumption`). `ConfigurationInv` says that the settings are what clients have
set, and that a plugin that works with less of them is not in `fitted`. That setting
params treats the configuration and the settings alike is `ConfiguredAlike`.

**`JsonRpcProofs`.** `AnsweredRight`. The invariant ties each reply to the command it is
for, each entry of a handler's hash to the reply that waits in it, and each answer a
plugin still owes to the operation that a command started (`RepliesWait`,
`SentCommands`, `OperationsRight`, `EntriesRight`, `OneEntryEach`). `Blamed` keeps the
exception honest: a wrong answer is possible only where a reply timed out or was left
behind in a hash.

**`RestServerProofs`.** `RestListsAgree` and `WaitingIsNotIdle`. `PlacesRight` says in
which of the lists a connection is at each stage of its life, `SocketsRight` which reply
belongs to which socket, `RepliesAge` that the idle timer of a connection is never older
than the reply that waits for it, whose timeout is the shorter one
(`RestServerAssumption`). `RequestsRouted` needs no invariant: every resource looks up what
the path names before it uses its member, so what an earlier request left there does
not matter. A request is on a route by the shape of its path (a word, a word and an id, and
so on: `PlainServed`, ..., `IdWordIdServed`), or on none; each method of each resource is
then a case (`DevicesGetServed`, ...). It assumes that ids are no words of paths
(`IdsAssumption`), that devices have a class (`ClassesAssumption`), and that paths are
sequences.

**`CoapProofs`.** `AnswersRight`, and that the client implements `RequestQueue`.
`QueueRight` says which reply is current and that those behind it have sent nothing,
`MessagesRight` that each datagram under way is one the client or the server has made for a
request, and for each request `SentRight`, `Belongs` and, unless it is disturbed,
`Exchange` and `Complete`: the blocks received so far are the first ones of the answer.
`IInv` is their conjunction. Datagrams that arrive during a lookup are part of it: a
request they have reached is excepted by name, and what they can do to the others is not.
Once the lookup of such a request returns nothing of `IInv` can be kept, so the invariant
is `Typed /\ (Kept => IInv)`, with `Kept` as above. No assumption is made about when
datagrams arrive.

**`LogEngineProofs`.** `TableKept`, `FollowerAgrees`, `PendingActionsAreExecuted`.
`Follows` is the strengthening: what the client shows, or is about to be answered,
becomes the table by the entries announced since, unless an update tells it to ask again.
Announcements are taken one at a time (`ThenGood`).

**`PluginProofs`.** `UndefinedOnlyIfDisturbed`, `MailDelivered`, `AlarmsKnowTimes`. By
`OnePlugin` a step is one of the plugin that the behaviour is of; then there is one
invariant per plugin. That of mail follows the dialog: the answer to a login is the
last that the server owes, and later requests go out one at a time. It assumes that action
ids are none of the protocol's words (`PluginsAssumption`). That of the alarms says that
without a today device no place is looked for.

**`NetworkProofs`.** `DeletedOnlyUsedIfDisturbed`, `CubeAnswersMatch`,
`DiscoveriesRight`, in the same way by `OnePart`. The cube: one command under way for
each socket unless they overlapped. The discoveries: the uuid on disk is the one
announced. Hue: with one bridge, the loop over the bridges is unfolded by hand
(`OneFolded`). `NetworkAssumption` says that bridges are no children of others and that
the names for "none" are no devices.

*Only model-checked.* Liveness, which is out of the prover's reach: `DispatchEnds`,
`RequestsFinish`, `CommandsAnswered`, `RequestsAnswered`, `PluginsAnswer`,
`NobodyWaitsForEver`, `ServersFollowInterfaces`. And `PdusUnderstood`, `FilterSelects`,
`InterfaceAsDescribed` and `RuleEcho`: packing, parsing, validation and the text of a
filter are recursive over byte sequences, texts and nested values, and what such a
definition computes for every input needs induction over data. Their modules declare
RECURSIVE operators.

## Not modelled

Radio and GPIO hardware (threads around blocking reads and pulse timing), command line,
service and signal handling, the files and certificates of the web server, the parser of
resource links, plugins that only send a datagram or a line, and the mock plugin of the
tests. In what is modelled: wording, units and icons, the contents of messages that
nothing depends on.
