SPECIFICATION Spec
CONSTANTS
    bridge = bridge
    lamp = lamp
    r = r
    Devices = {bridge, lamp}
    Root = bridge
    Rules = {r}
    Acted = lamp
    ActionIds = {1}
    None = None
    m_dbMaxSize = 1
    MaxTime = 1
    MaxInbox = 0
    MaxShown = 2
INVARIANTS
    TableKept
    FollowerAgrees
    PendingActionsAreExecuted
