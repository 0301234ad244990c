--------------------------- MODULE DeviceRegistry ---------------------------
(***************************************************************************)
(* What the device manager promises its users about the configured         *)
(* devices: the set changes by one device at a time, when one is added or  *)
(* removed, and the server may stop and start without changing it.         *)
(***************************************************************************)
CONSTANT DeviceIds

VARIABLES
    running,    \* the server is up
    devices     \* the devices of the system

Add(d) ==
    /\ running /\ d \notin devices
    /\ devices' = devices \cup {d}
    /\ UNCHANGED running

Remove(d) ==
    /\ running /\ d \in devices
    /\ devices' = devices \ {d}
    /\ UNCHANGED running

StartOrStop == running' = ~running /\ UNCHANGED devices

Init == running = FALSE /\ devices = {}
Next == (\E d \in DeviceIds : Add(d) \/ Remove(d)) \/ StartOrStop
Spec == Init /\ [][Next]_<<running, devices>>
=============================================================================
