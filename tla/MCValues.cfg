SPECIFICATION Spec
CONSTANTS
    NoDevice = NoDevice
    LegalValues <- PossibleValues
    TreeDevices = {"d1", "d2"}
    StateTypeNames = {"power", "level"}
    StateValues = {0, 1}
    Descriptors <- PossibleDescriptors
    Trees <- PossibleTrees
    NoId = NoId
    ClassOf <- AllClassOf
    AllRules = {"r1", "r2"}
    KnownVendors = {"v1", "v2"}
    KnownPlugins = {"p1", "p2"}
    Members <- AllMembers
    UnknownIds = {"u"}
    RestRequests <- AllRestRequests
    Absent = Absent
    Versions <- PossibleVersions
    Configurations <- PossibleConfigurations
INVARIANTS
    PdusUnderstood
    EvaluateIsJustified
    FilterSelects
    InterfaceAsDescribed
    PluginsAsInstalled
PROPERTIES
    ConditionChangesSound
    RuleEcho
    RequestsRouted
CHECK_DEADLOCK FALSE
