CONSTANTS
    Lamp = Lamp
    Sensor = Sensor
    NoDevice = NoDevice
    NoEvent = NoEvent
    RuleIds <- MCRuleIds
    DeviceIds <- MCDeviceIds
    Values <- MCValues
    EventTypesOf <- MCEventTypesOf
    StateTypesOf <- MCStateTypesOf
    ActionTypesOf <- MCActionTypesOf
    LegalValues <- MCLegalValues
    Configs <- MCConfigs
SPECIFICATION Spec
INVARIANTS
    RulesAreSaved
