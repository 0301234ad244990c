CONSTANTS
    d1 = d1
    d2 = d2
    mock = mock
    pin = pin
    plugin1 = plugin1
    x = x
    y = y
    found1 = found1
    pairing1 = pairing1
    NoParams = NoParams
    MaxPending = 1
    TimerPlugins = {plugin1}
    DeviceIds <- MCDeviceIds
    Classes <- MCClasses
    ClassOf <- MCClassOf
    PluginOf <- MCPluginOf
    CreateMethods <- MCCreateMethods
    SetupMethod <- MCSetupMethod
    Params <- MCParams
    ValidParams <- MCValidParams
    Writable <- MCWritable
    Descriptors <- MCDescriptors
    ParamsOf <- MCParamsOf
    PairingIds <- MCPairingIds
SPECIFICATION Spec
INVARIANTS
    FileMatchesDevices
    TimerServesDevices
PROPERTIES
    KeepsRegistry
