--------------------------- MODULE MCDeviceManager ---------------------------
(* The instance of DeviceManager that TLC checks: a device of a class that   *)
(* users, discoveries and the plugin itself add, and one of a class that is *)
(* paired; one plugin with the timer serves both.                           *)
EXTENDS DeviceManager

CONSTANTS d1, d2, mock, pin, plugin1, x, y, found1, pairing1

MCDeviceIds == {d1, d2}
MCClasses == {mock, pin}
MCClassOf == [d \in MCDeviceIds |-> IF d = d2 THEN pin ELSE mock]
MCPluginOf == [c \in MCClasses |-> plugin1]
MCCreateMethods ==
    [c \in MCClasses |-> IF c = mock THEN {"User", "Discovery", "Auto"} ELSE {"Discovery"}]
MCSetupMethod == [c \in MCClasses |-> IF c = mock THEN "JustAdd" ELSE "DisplayPin"]
MCParams == {x, y}
MCValidParams == [c \in MCClasses |-> IF c = mock THEN MCParams ELSE {x}]
MCWritable == {mock}    \* the parameters of pin devices come from discoveries
MCDescriptors == {found1}
MCParamsOf == [descriptor \in MCDescriptors |-> x]
MCPairingIds == {pairing1}
=============================================================================
