SPECIFICATION Spec
CONSTANTS
    None = None
    Bridges = {bridge}
    Lights = {light}
    Remotes = {remote}
    BridgeOf <- MCBridgeOf
    Pairings = {pairing1}
    BridgeAt <- MCBridgeAt
    HueActions = {a1}
    MaxRequests = 2
    Cubes = {cube}
    Thermostats = {wall1, wall2}
    CubeOf <- MCCubeOf
    KindOf <- MCKindOf
    CubeActions = {a1, a2}
    MaxMetadata = 2
    MaxQueued = 2
    Searches = {"hue", "wemo"}
    UpnpDevices = {"d1", "d2"}
    AnswerTo <- MCAnswerTo
    UuidOf <- MCUuidOf
    Uuids = {"u1", "u2"}
    MaxFetches = 2
    MaxRestarts = 1
    BluetoothPlugins = {"elgato", "other"}
    Nearby = {"b1", "b2"}
    Macs = {"m1", "m2"}
    Interfaces = {"eth0", "wlan0"}
    NetOf <- MCNetOf
    MaxScans = 2
    Addresses = {"10.0.0.2", "fe80::2", "192.168.0.2"}
    InterfaceOf <- MCInterfaceOf
    ProtocolOf <- MCProtocolOf
    InterfaceList = {"eth0"}
    IpVersions = {"any"}
    Clients = {"c1", "c2"}
    Followed = {"wemo", "elgato", "fe80::2"}
INVARIANTS
    DeletedOnlyUsedIfDisturbed
    CubeAnswersMatch
    DiscoveriesRight
PROPERTIES
    NobodyWaitsForEver
    ServersFollowInterfaces
CHECK_DEADLOCK FALSE
