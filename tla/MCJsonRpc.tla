------------------------------ MODULE MCJsonRpc ------------------------------
(***************************************************************************)
(* Instance of JsonRpc for TLC: a client on each transport, three commands *)
(* of four kinds, memory for two replies.                                  *)
(***************************************************************************)
EXTENDS JsonRpc

CONSTANTS tcp, web, class, device, t   \* model values

MCClients == {tcp, web}
MCTransportOf == [c \in MCClients |-> c]

MCSendersOf == <<{tcp}, {tcp, web}, {web}>>

Q(kind, key) == [kind |-> kind, key |-> key]

\* two commands may have the same subject, and the third may find the memory of
\* either's reply
MCRequestsOf ==
    <<{Q("discover", class), Q("pair", t), Q("edit", device)},
      {Q("discover", class), Q("pair", t), Q("add", None)},
      {Q("edit", device), Q("action", None)}>>
=============================================================================
