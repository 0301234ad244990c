---------------------------- MODULE MCRestServer ----------------------------
(***************************************************************************)
(* Instance of RestServer for TLC: three connections, two of them of one   *)
(* address that may have one; two asynchronous replies; timers of one      *)
(* and two ticks.                                                          *)
(***************************************************************************)
EXTENDS RestServer, TLC

CONSTANTS c1, c2, c3, home, away, d   \* model values

MCSharedKeys == [edit |-> {d}, pair |-> {d}]

P(head, length, body, blank, wants) ==
    [head |-> head, length |-> length, body |-> body, blank |-> blank, wants |-> wants]

\* a request without a body; one whose body of one byte is white space, so that
\* it waits for more; the rest of a body
MCPackets ==
    {P(TRUE, 0, 0, 0, "rest"), P(TRUE, 1, 1, 1, "rest"), P(FALSE, 0, 1, 0, "rest")}

MCAddressOf == (c1 :> home) @@ (c2 :> home) @@ (c3 :> away)
=============================================================================
