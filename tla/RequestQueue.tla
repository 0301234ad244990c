---------------------------- MODULE RequestQueue ----------------------------
(***************************************************************************)
(* What the CoAP client promises its users, without sockets, host lookups, *)
(* retransmissions or blocks: requests are served one at a time in the     *)
(* order in which they were made, and each of them finishes once.          *)
(***************************************************************************)
EXTENDS Naturals, Sequences

CONSTANT Requests

VARIABLES
    waiting,   \* the requests that were made and have not finished, oldest first
    done       \* the requests that have finished

vars == <<waiting, done>>

Made == {waiting[i] : i \in DOMAIN waiting} \cup done

Init ==
    /\ waiting = <<>>
    /\ done = {}

\* A request is made and waits for its turn.
Accept(r) ==
    /\ r \notin Made
    /\ waiting' = Append(waiting, r)
    /\ UNCHANGED done

\* A request is refused when it is made.
Refuse(r) ==
    /\ r \notin Made
    /\ done' = done \cup {r}
    /\ UNCHANGED waiting

\* The oldest request finishes, with an answer or with an error.
Finish ==
    /\ waiting # <<>>
    /\ waiting' = Tail(waiting)
    /\ done' = done \cup {Head(waiting)}

Next ==
    \/ \E r \in Requests : Accept(r) \/ Refuse(r)
    \/ Finish

Spec == Init /\ [][Next]_vars
=============================================================================
