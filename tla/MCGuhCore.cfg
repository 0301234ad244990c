CONSTANTS
    Bridge = Bridge
    Lamp = Lamp
    Sensor = Sensor
    NoDevice = NoDevice
    NoEvent = NoEvent
    RuleIds <- MCRuleIds
    DeviceIds <- MCDeviceIds
    Values <- MCValues
    EventTypesOf <- MCEventTypesOf
    StateTypesOf <- MCStateTypesOf
    ActionTypesOf <- MCActionTypesOf
    LegalValues <- MCLegalValues
    Configs <- MCConfigs
    ParentOf <- MCParentOf
    EffectsOf <- MCEffectsOf
    MaxDepth = 6
SPECIFICATION CoreSpec
INVARIANTS
    NothingDangles
PROPERTIES
    RefinesRuleEngine
    OtherRulesSpared
    DispatchEnds
