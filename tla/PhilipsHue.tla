---------------------------- MODULE PhilipsHue ----------------------------
(***************************************************************************)
(* The Philips hue plugin: bridges that are paired with, and lights and    *)
(* remotes that are found through them.  Whatever the plugin asks a bridge *)
(* is an HTTP request; the replies come in any order, and the hashes of    *)
(* the plugin tell what a reply is for and for which device.               *)
(*                                                                         *)
(* Using a device or a bridge that is deleted, or that a hash does not     *)
(* hold, is undefined: the model notes it and stops.                       *)
(***************************************************************************)
EXTENDS Naturals, FiniteSets, SequencesExt

CONSTANTS
    Bridges,
    Lights,
    Remotes,
    BridgeOf,       \* light or remote -> its bridge
    Pairings,       \* pairings that may go on at a time
    BridgeAt,       \* pairing -> the bridge at the address it names
    Actions,        \* ids of executed actions
    MaxRequests,    \* bound: requests that wait for a reply, see Ask and Take
    None

Children == Lights \cup Remotes
Devices == Bridges \cup Children

\* What is asked of a bridge, but for refreshes of its own state and for actions.
Kinds == {"lights discovery", "sensors discovery", "search", "lights", "sensors",
          "light", "name"}

VARIABLES
    myDevices,               \* the devices in m_bridges, m_lights and m_remotes
    m_unconfiguredBridges,   \* bridges whose objects in this list are deleted
    reachable,               \* bridge or light -> its state, of a light its flag too
    pairing,                 \* pairing -> "none", "key" or "information" is asked for
    requests,                \* <<kind, device>>: m_lightRefreshRequests and so on
    m_bridgeRefreshRequests, \* the bridges whose refresh is not answered yet
    stale,                   \* "refresh", "other": requests of deleted devices wait
    m_asyncActions,          \* action -> its device, None, "gone" or "answered"
    undefined,               \* a deleted or missing object was used
    disturbed                \* what may lead to that has happened: a device went while
                             \* it was asked something, a bridge was paired with again,
                             \* or there are two bridges

vars == <<myDevices, m_unconfiguredBridges, reachable, pairing, requests,
          m_bridgeRefreshRequests, stale, m_asyncActions, undefined, disturbed>>

\* Bridges are stored with their lights; the plugin sets them up at the start.
Init ==
    /\ myDevices \in SUBSET Devices
    /\ \A c \in myDevices \cap Children : BridgeOf[c] \in myDevices
    /\ m_unconfiguredBridges = {}
    /\ reachable = [d \in Bridges \cup Lights |-> FALSE]
    /\ pairing = [t \in Pairings |-> "none"]
    /\ requests = {"light", "name"} \X (myDevices \cap Lights)
    /\ m_bridgeRefreshRequests = {}
    /\ stale = {}
    /\ m_asyncActions = [a \in Actions |-> None]
    /\ undefined = FALSE
    /\ disturbed = (\E b, c \in myDevices \cap Bridges : b # c)

-----------------------------------------------------------------------------
(* Helpers *)

bridges == myDevices \cap Bridges

\* A request is sent.  Bound: MaxRequests wait, one of a kind for a device.
Ask(asked) ==
    /\ requests \cap asked = {}
    /\ Cardinality(requests \cup asked) <= MaxRequests
    /\ requests' = requests \cup asked

\* The reply to a request is taken out of its hash, others are sent.
Take(kind, d, asked) ==
    /\ (requests \ {<<kind, d>>}) \cap asked = {}
    /\ asked # {} => Cardinality((requests \ {<<kind, d>>}) \cup asked) <= MaxRequests
    /\ requests' = (requests \ {<<kind, d>>}) \cup asked

\* bridgeReachableChanged(device, false): nothing happens for a light.
Unreachable(d, flags) ==
    [e \in Bridges \cup Lights |->
        IF d \in Bridges /\ (e = d \/ (e \in myDevices \cap Lights /\ BridgeOf[e] = d))
        THEN FALSE ELSE flags[e]]

\* discoverBridgeDevices()
Discovery(b) == {<<"lights discovery", b>>, <<"sensors discovery", b>>}

\* updateStates() of the lights that a reply describes
Updated(lights) ==
    {[d \in Bridges \cup Lights |-> IF d \in lights THEN d \in on ELSE reachable[d]] :
        on \in SUBSET lights}

-----------------------------------------------------------------------------
(* Pairing and set up *)

\* confirmPairing()
ConfirmPairing(t) ==
    /\ pairing[t] = "none"
    /\ pairing' = [pairing EXCEPT ![t] = "key"]
    /\ UNCHANGED <<myDevices, m_unconfiguredBridges, reachable, requests,
                   m_bridgeRefreshRequests, stale, m_asyncActions, undefined, disturbed>>

\* processPairingResponse(): a key, or an error; after an HTTP error nobody is told.
PairingReply(t, outcome) ==
    /\ pairing[t] = "key"
    /\ pairing' = [pairing EXCEPT ![t] = IF outcome = "ok" THEN "information" ELSE "none"]
    /\ UNCHANGED <<myDevices, m_unconfiguredBridges, reachable, requests,
                   m_bridgeRefreshRequests, stale, m_asyncActions, undefined, disturbed>>

InformationFails(t, outcome) ==
    /\ pairing[t] = "information"
    /\ outcome # "ok"
    /\ pairing' = [pairing EXCEPT ![t] = "none"]
    /\ UNCHANGED <<myDevices, m_unconfiguredBridges, reachable, requests,
                   m_bridgeRefreshRequests, stale, m_asyncActions, undefined, disturbed>>

\* processInformationResponse() of a bridge that is a device already: the pairing
\* fails and then succeeds, and the deleted bridge stays in the list.
AlreadyAdded(t) ==
    /\ pairing[t] = "information"
    /\ BridgeAt[t] \in myDevices
    /\ pairing' = [pairing EXCEPT ![t] = "none"]
    /\ m_unconfiguredBridges' = m_unconfiguredBridges \cup {BridgeAt[t]}
    /\ disturbed' = TRUE
    /\ UNCHANGED <<myDevices, reachable, requests, m_bridgeRefreshRequests, stale,
                   m_asyncActions, undefined>>

\* processInformationResponse() and setupDevice() of the new bridge, which the device
\* manager calls when the pairing has finished: the loop over the bridges of the list
\* meets the deleted ones first.
SetupBridge(t) ==
    LET b == BridgeAt[t] IN
    /\ pairing[t] = "information"
    /\ b \notin myDevices
    /\ pairing' = [pairing EXCEPT ![t] = "none"]
    /\ IF m_unconfiguredBridges # {}
       THEN /\ undefined' = TRUE
            /\ UNCHANGED <<myDevices, reachable, requests, disturbed>>
       ELSE /\ myDevices' = myDevices \cup {b}
            /\ reachable' = [reachable EXCEPT ![b] = TRUE]
            /\ Ask(Discovery(b))
            /\ disturbed' = (disturbed \/ bridges # {})
            /\ UNCHANGED undefined
    /\ UNCHANGED <<m_unconfiguredBridges, m_bridgeRefreshRequests, stale, m_asyncActions>>

\* deviceRemoved(): the hashes of the requests keep the pointer to the device.
DeviceRemoved(d) ==
    LET waiting == {r \in requests : r[2] = d}
        actions == {a \in Actions : m_asyncActions[a] = d}
        refresh == IF d \in m_bridgeRefreshRequests THEN {"refresh"} ELSE {}
        left == refresh \cup (IF waiting = {} THEN {} ELSE {"other"})
    IN
    /\ d \in myDevices
    /\ myDevices' = myDevices \ {d}
    /\ requests' = requests \ waiting
    /\ m_bridgeRefreshRequests' = m_bridgeRefreshRequests \ {d}
    /\ stale' = stale \cup left
    /\ m_asyncActions' = [a \in Actions |-> IF a \in actions THEN "gone" ELSE m_asyncActions[a]]
    /\ disturbed' = (disturbed \/ left # {} \/ actions # {})
    /\ UNCHANGED <<m_unconfiguredBridges, reachable, pairing, undefined>>

-----------------------------------------------------------------------------
(* Replies *)

\* The lights or remotes of a discovery that are not devices yet are set up: the
\* device manager calls setupDevice() from autoDevicesAppeared().  A light's flag is
\* not initialised.
DiscoveryReply(kind, b, found) ==
    LET new == found \ myDevices IN
    /\ <<kind, b>> \in requests
    /\ found \subseteq {c \in (IF kind = "lights discovery" THEN Lights ELSE Remotes) :
                           BridgeOf[c] = b}
    /\ myDevices' = myDevices \cup new
    /\ reachable' \in Updated(new \cap Lights)
    /\ Take(kind, b, {"light", "name"} \X (new \cap Lights))
    /\ UNCHANGED <<m_unconfiguredBridges, pairing, m_bridgeRefreshRequests, stale,
                   m_asyncActions, undefined, disturbed>>

\* The bridge has searched for new devices.
SearchReply(b) ==
    /\ <<"search", b>> \in requests
    /\ Take("search", b, Discovery(b))
    /\ UNCHANGED <<myDevices, m_unconfiguredBridges, reachable, pairing,
                   m_bridgeRefreshRequests, stale, m_asyncActions, undefined, disturbed>>

\* processLightRefreshResponse()
LightReply(d) ==
    /\ <<"light", d>> \in requests
    /\ reachable' \in Updated({d})
    /\ Take("light", d, {})
    /\ UNCHANGED <<myDevices, m_unconfiguredBridges, pairing,
                   m_bridgeRefreshRequests, stale, m_asyncActions, undefined, disturbed>>

\* processLightsRefreshResponse(): the remotes, if there are any, come next.
LightsReply(b) ==
    /\ <<"lights", b>> \in requests
    /\ reachable' \in Updated({d \in myDevices \cap Lights : BridgeOf[d] = b})
    /\ Take("lights", b, IF myDevices \cap Remotes = {} THEN {} ELSE {<<"sensors", b>>})
    /\ UNCHANGED <<myDevices, m_unconfiguredBridges, pairing,
                   m_bridgeRefreshRequests, stale, m_asyncActions, undefined, disturbed>>

\* processSensorsRefreshResponse() tells the remotes.
SensorsReply(b) ==
    /\ <<"sensors", b>> \in requests
    /\ Take("sensors", b, {})
    /\ UNCHANGED <<myDevices, m_unconfiguredBridges, reachable, pairing,
                   m_bridgeRefreshRequests, stale, m_asyncActions, undefined, disturbed>>

\* processSetNameResponse()
NameReply(d) ==
    /\ <<"name", d>> \in requests
    /\ Take("name", d, {<<"light", d>>})
    /\ UNCHANGED <<myDevices, m_unconfiguredBridges, reachable, pairing,
                   m_bridgeRefreshRequests, stale, m_asyncActions, undefined, disturbed>>

\* An HTTP error, or an answer that tells of one: a failed set up of a light that is
\* set up already is ignored by the device manager.
ReplyFails(kind, d, outcome) ==
    /\ <<kind, d>> \in requests
    /\ outcome = "failed" \/ kind # "search"
    /\ reachable' = IF outcome = "failed" THEN Unreachable(d, reachable) ELSE reachable
    /\ Take(kind, d, {})
    /\ UNCHANGED <<myDevices, m_unconfiguredBridges, pairing,
                   m_bridgeRefreshRequests, stale, m_asyncActions, undefined, disturbed>>

\* processBridgeRefreshResponse(): the lights come next.  An answer that is no JSON
\* changes nothing, any other error makes the bridge unreachable.
BridgeReply(b, outcome) ==
    /\ b \in m_bridgeRefreshRequests
    /\ m_bridgeRefreshRequests' = m_bridgeRefreshRequests \ {b}
    /\ IF outcome = "ok"
       THEN reachable' = [reachable EXCEPT ![b] = TRUE] /\ Ask({<<"lights", b>>})
       ELSE reachable' \in {reachable, Unreachable(b, reachable)} /\ UNCHANGED requests
    /\ UNCHANGED <<myDevices, m_unconfiguredBridges, pairing, stale, m_asyncActions,
                   undefined, disturbed>>

\* The reply to a request of a device that is deleted, the last of them or not
StaleReply(kind) ==
    /\ kind \in stale
    /\ stale' \in {stale, stale \ {kind}}
    /\ undefined' \in BOOLEAN
    /\ UNCHANGED <<myDevices, m_unconfiguredBridges, reachable, pairing, requests,
                   m_bridgeRefreshRequests, m_asyncActions, disturbed>>

-----------------------------------------------------------------------------
(* The timer *)

\* Mutant of RefreshBridge.
RefreshBridge_NoAbort(s, b) ==
    IF s.undefined THEN s
    ELSE IF s.asked # {} THEN [s EXCEPT !.undefined = TRUE]
    ELSE [s EXCEPT !.asked = @ \cup {b}]

\* refreshBridge(): while any refresh is waiting, that of the bridge is aborted; the
\* hash may hold those of others only, or of deleted devices.
RefreshBridge(s, b) ==
    IF s.undefined THEN s
    ELSE IF b \in s.asked
    THEN [s EXCEPT !.asked = @ \ {b}, !.reachable = Unreachable(b, @)]
    ELSE IF s.asked # {} \/ "refresh" \in stale THEN [s EXCEPT !.undefined = TRUE]
    ELSE [s EXCEPT !.asked = @ \cup {b}]

\* onTimeout(): the bridges in the order of the hash.  The timer may be active
\* without a bridge; nothing is done then.
OnTimeout ==
    /\ \E order \in SetToSeqs(bridges) :
        LET s == FoldLeft(RefreshBridge,
                          [asked |-> m_bridgeRefreshRequests, reachable |-> reachable,
                           undefined |-> undefined], order)
        IN /\ m_bridgeRefreshRequests' = s.asked
           /\ reachable' = s.reachable
           /\ undefined' = s.undefined
    /\ UNCHANGED <<myDevices, m_unconfiguredBridges, pairing, requests, stale,
                   m_asyncActions, disturbed>>

-----------------------------------------------------------------------------
(* Actions *)

\* executeAction(): sent if the light, or the bridge, is reachable
ExecuteAction(a, d) ==
    /\ m_asyncActions[a] = None
    /\ d \in myDevices \ Remotes
    /\ reachable[d]
    /\ m_asyncActions' = [m_asyncActions EXCEPT ![a] = d]
    /\ UNCHANGED <<myDevices, m_unconfiguredBridges, reachable, pairing, requests,
                   m_bridgeRefreshRequests, stale, undefined, disturbed>>

\* searchNewDevices()
SearchNewDevices(b) ==
    /\ b \in bridges /\ reachable[b]
    /\ Ask({<<"search", b>>})
    /\ UNCHANGED <<myDevices, m_unconfiguredBridges, reachable, pairing,
                   m_bridgeRefreshRequests, stale, m_asyncActions, undefined, disturbed>>

\* The reply to an action: whatever it says, the action is answered.
ActionReply(a, outcome) ==
    LET d == m_asyncActions[a] IN
    /\ d \in Devices
    /\ m_asyncActions' = [m_asyncActions EXCEPT ![a] = "answered"]
    /\ reachable' = IF outcome = "failed" THEN Unreachable(d, reachable) ELSE reachable
    /\ UNCHANGED <<myDevices, m_unconfiguredBridges, pairing, requests,
                   m_bridgeRefreshRequests, stale, undefined, disturbed>>

\* The reply to an action of a device that is deleted: answered if it is not looked at
StaleActionReply(a) ==
    /\ m_asyncActions[a] = "gone"
    /\ \/ m_asyncActions' = [m_asyncActions EXCEPT ![a] = "answered"] /\ UNCHANGED undefined
       \/ undefined' = TRUE /\ UNCHANGED m_asyncActions
    /\ UNCHANGED <<myDevices, m_unconfiguredBridges, reachable, pairing, requests,
                   m_bridgeRefreshRequests, stale, disturbed>>

-----------------------------------------------------------------------------

Outcomes == {"ok", "refused", "failed"}

RepliesReady ==
    \/ \E t \in Pairings, o \in Outcomes : PairingReply(t, o) \/ InformationFails(t, o)
    \/ \E t \in Pairings : AlreadyAdded(t) \/ SetupBridge(t)
    \/ \E b \in Bridges :
        \/ \E kind \in {"lights discovery", "sensors discovery"}, found \in SUBSET Children :
               DiscoveryReply(kind, b, found)
        \/ SearchReply(b) \/ LightsReply(b) \/ SensorsReply(b)
        \/ \E o \in Outcomes : BridgeReply(b, o)
    \/ \E d \in Lights : LightReply(d) \/ NameReply(d)
    \/ \E kind \in Kinds, d \in Devices, o \in Outcomes \ {"ok"} : ReplyFails(kind, d, o)
    \/ \E kind \in {"refresh", "other"} : StaleReply(kind)

ActionAnswered(a) == (\E o \in Outcomes : ActionReply(a, o)) \/ StaleActionReply(a)

Next ==
    /\ ~undefined
    /\ \/ \E t \in Pairings : ConfirmPairing(t)
       \/ \E d \in Devices : DeviceRemoved(d)
       \/ RepliesReady
       \/ OnTimeout
       \/ \E a \in Actions, d \in Devices : ExecuteAction(a, d)
       \/ \E b \in Bridges : SearchNewDevices(b)
       \/ \E a \in Actions : ActionAnswered(a)

\* Every request is finished by the network access manager, with an error if need be
\* (fair).
ActionProgress(a) == ~undefined /\ ActionAnswered(a)

-----------------------------------------------------------------------------
(* Properties *)

\* The plugin never uses an object that is gone or missing, as long as there is one
\* bridge, no device is removed while it is asked something, and no bridge is paired
\* with twice (networkManagerReplyReady, refreshBridge).
UndefinedOnlyIfDisturbed == undefined => disturbed

\* executeAction() has left the action to a request that is not answered yet.
Waits(a) == m_asyncActions[a] \notin {None, "answered"}
=============================================================================
