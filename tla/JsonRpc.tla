------------------------------ MODULE JsonRpc ------------------------------
(***************************************************************************)
(* The JSON-RPC server: clients of the two transports send commands; a     *)
(* command is answered at once, or by a JsonReply that the handlers keep   *)
(* in a hash until the device manager reports the result, or until its     *)
(* timer fires.                                                            *)
(*                                                                         *)
(* A JsonReply is deleted when it is finished, but a handler's hash still  *)
(* has its address when it was the timer that finished it.  So replies     *)
(* live at addresses, which are used again, as the memory is.              *)
(***************************************************************************)
EXTENDS Naturals, Sequences, FiniteSets

CONSTANTS
    Clients,
    TransportOf,     \* the transport that a client uses: TCP or WebSocket
    MaxCommands,     \* bound: how many commands the clients send
    SendersOf,       \* the clients that may send the c-th command
    RequestsOf,      \* what it may ask for, see RequestOK
    Transactions,    \* the pairings that PairDevice began
    Addresses,       \* bound: memory for replies
    None

Commands == 1..MaxCommands
Kinds == {"discover", "add", "edit", "pair", "action"}
Requests == UNION {RequestsOf[c] : c \in Commands}

\* A request for a discovery names the device class, for a reconfiguration the
\* device, for a pairing its transaction.  The ids of added devices and of
\* actions are made by the handler: key is None and stands for the command.
RequestOK(q) ==
    /\ q = [kind |-> q.kind, key |-> q.key] /\ q.kind \in Kinds
    /\ q.kind = "pair" => q.key \in Transactions
    /\ (q.kind \in {"add", "action"}) <=> (q.key = None)

ASSUME JsonRpcAssumption ==
    /\ DOMAIN RequestsOf = Commands /\ SendersOf \in [Commands -> SUBSET Clients]
    /\ \A c \in Commands : \A q \in RequestsOf[c] : RequestOK(q)
    /\ MaxCommands \in Nat
    /\ DOMAIN TransportOf = Clients
    /\ None \notin Commands \cup Addresses \cup Clients \cup Transactions
    /\ None \notin [command : Commands, interface : {TransportOf[c] : c \in Clients}]

VARIABLES
    m_clientList,    \* the clients of the transports that are connected
    gone,            \* the clients that were and are no longer
    sender,          \* command -> the client that sent it, None before
    request,         \* command -> what its waiting reply is for, or None
    m_asyncReplies,  \* address -> the waiting reply there, or None
    waiting,         \* kind -> key -> the address in the handler's hash, or None
    m_pairingsDiscovery,   \* the pairings the device manager has not finished
    operations,      \* what plugins work on: [kind, key, command]
    answers,         \* command -> what its sender got, in order
    misdirected,     \* commands answered through an address used again
    crashed          \* a deleted reply was used and the process died

clientVars == <<m_clientList, gone>>
replyVars == <<m_asyncReplies, waiting, answers, misdirected, crashed>>
vars == <<clientVars, sender, request, replyVars, m_pairingsDiscovery, operations>>

Keys == {q.key : q \in Requests} \cup Commands

NoEntry == [at |-> None, for |-> None]

Init ==
    /\ m_clientList = {}
    /\ gone = {}
    /\ sender = [c \in Commands |-> None]
    /\ request = [c \in Commands |-> None]
    /\ m_asyncReplies = [a \in Addresses |-> None]
    /\ waiting = [k \in Kinds |-> [x \in Keys |-> NoEntry]]
    /\ m_pairingsDiscovery = Transactions
    /\ operations = {}
    /\ answers = [c \in Commands |-> <<>>]
    /\ misdirected = {}
    /\ crashed = FALSE

-----------------------------------------------------------------------------
(* Clients *)

\* onClientConnected() of a transport, and clientConnected().
ClientConnected(c) ==
    /\ c \notin m_clientList \cup gone
    /\ m_clientList' = m_clientList \cup {c}
    /\ UNCHANGED <<gone, sender, request, replyVars, m_pairingsDiscovery, operations>>

\* onClientDisconnected()
ClientDisconnected(c) ==
    /\ c \in m_clientList
    /\ m_clientList' = m_clientList \ {c}
    /\ gone' = gone \cup {c}
    /\ UNCHANGED <<sender, request, replyVars, m_pairingsDiscovery, operations>>

-----------------------------------------------------------------------------
(* Answers *)

\* sendResponse() and sendErrorResponse() reach a client that is connected, over
\* the transport that took the command.
Sent(via, c, what) ==
    IF sender[c] \in m_clientList /\ TransportOf[sender[c]] = via
    THEN [answers EXCEPT ![c] = Append(@, what)]
    ELSE answers

\* Mutant of AsyncReplyFinished.
AsyncReplyFinished_AndKept(a, what) ==
    LET reply == m_asyncReplies[a] IN
    /\ answers' = Sent(reply.interface, reply.command, what)
    /\ UNCHANGED m_asyncReplies

\* asyncReplyFinished() of the reply at a: it is answered and deleted.
AsyncReplyFinished(a, what) ==
    LET reply == m_asyncReplies[a] IN
    /\ answers' = Sent(reply.interface, reply.command, what)
    /\ m_asyncReplies' = [m_asyncReplies EXCEPT ![a] = None]

\* setData() and finished() through the entry of a hash.  When the reply has been
\* deleted, this uses whatever is at its address now: another reply, or nothing,
\* which goes unnoticed or ends the process.
Finished(entry, what) ==
    IF m_asyncReplies[entry.at] # None
    THEN /\ AsyncReplyFinished(entry.at, what)
         /\ misdirected' = IF m_asyncReplies[entry.at].command = entry.for THEN misdirected
                           ELSE misdirected \cup {m_asyncReplies[entry.at].command}
         /\ UNCHANGED crashed
    ELSE /\ crashed' \in BOOLEAN
         /\ UNCHANGED <<answers, m_asyncReplies, misdirected>>

-----------------------------------------------------------------------------
(* Commands *)

KeyOf(c, q) == IF q.key = None THEN c ELSE q.key

\* processData() of a command with bad parameters, of one that only reads, or of
\* one that the device manager refuses or finishes at once.
SyncCommand(c, client, q) ==
    /\ sender[c] = None
    /\ client \in m_clientList
    /\ sender' = [sender EXCEPT ![c] = client]
    /\ answers' = [answers EXCEPT ![c] = Append(@, [result |-> "sync", by |-> c])]
    /\ \/ /\ q.kind = "pair"
          /\ m_pairingsDiscovery' = m_pairingsDiscovery \ {q.key}
       \/ UNCHANGED m_pairingsDiscovery
    /\ UNCHANGED <<clientVars, request, m_asyncReplies, waiting, misdirected, crashed, operations>>

\* processData() of a command for which the handler gets DeviceErrorAsync:
\* GetDiscoveredDevices, AddConfiguredDevice, ReconfigureDevice, ConfirmPairing or
\* ExecuteAction.  An entry of its hash with the same key is replaced.
AsyncCommand(c, client, q, a) ==
    /\ sender[c] = None
    /\ client \in m_clientList
    /\ q.kind = "pair" => q.key \in m_pairingsDiscovery
    /\ m_asyncReplies[a] = None
    /\ sender' = [sender EXCEPT ![c] = client]
    /\ request' = [request EXCEPT ![c] = q]
    /\ operations' = operations \cup {[kind |-> q.kind, key |-> KeyOf(c, q), command |-> c]}
    /\ waiting' = [waiting EXCEPT ![q.kind][KeyOf(c, q)] = [at |-> a, for |-> c]]
    /\ m_asyncReplies' = [m_asyncReplies EXCEPT ![a] =
                             [command |-> c, interface |-> TransportOf[client]]]
    /\ UNCHANGED <<clientVars, m_pairingsDiscovery, answers, misdirected, crashed>>

\* Mutant of ReplyTimeout.
ReplyTimeout_Silent(a) ==
    /\ m_asyncReplies[a] # None
    /\ m_asyncReplies' = [m_asyncReplies EXCEPT ![a] = None]
    /\ UNCHANGED <<clientVars, sender, request, waiting, answers, misdirected, crashed,
                   m_pairingsDiscovery, operations>>

\* JsonReply::timeout(): the handlers are not told.
ReplyTimeout(a) ==
    /\ m_asyncReplies[a] # None
    /\ AsyncReplyFinished(a, [result |-> "timeout", by |-> m_asyncReplies[a].command])
    /\ UNCHANGED <<clientVars, sender, request, waiting, misdirected, crashed,
                   m_pairingsDiscovery, operations>>

-----------------------------------------------------------------------------
(* Results.  A result goes to every handler; each looks into its hash.     *)

\* An operation that somebody else began: a REST client, a rule, a plugin.
Foreign(kind, key) == [kind |-> kind, key |-> key, command |-> None]

Ended(o) ==
    /\ o \in operations \/ o.command = None
    /\ operations' = operations \ {o}

Answered(kind, key, o) ==
    LET entry == waiting[kind][key] IN
    IF entry = NoEntry
    THEN UNCHANGED replyVars
    ELSE /\ waiting' = [waiting EXCEPT ![kind][key] = NoEntry]
         /\ Finished(entry, [result |-> "done", by |-> o.command])

\* devicesDiscovered()
DevicesDiscovered(o) ==
    /\ o.kind = "discover"
    /\ Ended(o)
    /\ Answered("discover", o.key, o)
    /\ UNCHANGED <<clientVars, sender, request, m_pairingsDiscovery>>

\* deviceSetupFinished() of a device that was added.
DeviceSetupFinished(o) ==
    /\ o.kind = "add"
    /\ Ended(o)
    /\ Answered("add", o.key, o)
    /\ UNCHANGED <<clientVars, sender, request, m_pairingsDiscovery>>

\* deviceReconfigurationFinished()
DeviceReconfigurationFinished(o) ==
    /\ o.kind = "edit"
    /\ Ended(o)
    /\ Answered("edit", o.key, o)
    /\ UNCHANGED <<clientVars, sender, request, m_pairingsDiscovery>>

\* actionExecuted()
ActionExecuted(o) ==
    /\ o.kind = "action"
    /\ Ended(o)
    /\ Answered("action", o.key, o)
    /\ UNCHANGED <<clientVars, sender, request, m_pairingsDiscovery>>

\* slotPairingFinished() and pairingFinished(): the second answer of a plugin to
\* one transaction is ignored.  After a success the reply waits for the device
\* (its id is taken from the command: no other device has it).
PairingFinished(o) ==
    LET entry == waiting["pair"][o.key] IN
    /\ o \in operations
    /\ o.kind = "pair"
    /\ m_pairingsDiscovery' = m_pairingsDiscovery \ {o.key}
    /\ \/ /\ o.key \notin m_pairingsDiscovery
          /\ operations' = operations \ {o}
          /\ UNCHANGED replyVars
       \/ /\ o.key \in m_pairingsDiscovery
          /\ operations' = operations \ {o}
          /\ Answered("pair", o.key, o)
       \/ /\ o.key \in m_pairingsDiscovery
          /\ operations' = (operations \ {o})
                           \cup {[kind |-> "add", key |-> o.command, command |-> o.command]}
          /\ waiting' = [waiting EXCEPT !["pair"][o.key] = NoEntry, !["add"][o.command] = entry]
          /\ UNCHANGED <<m_asyncReplies, answers, misdirected, crashed>>
    /\ UNCHANGED <<clientVars, sender, request>>

\* Devices added and actions executed by others have ids of their own and are in
\* no hash.
Results ==
    operations \cup {Foreign(q.kind, q.key) : q \in {p \in Requests : p.kind \in {"discover", "edit"}}}

Next ==
    /\ ~crashed
    /\ \/ \E c \in Clients :
            ClientConnected(c) \/ ClientDisconnected(c)
       \/ \E c \in Commands : (\A b \in 1..(c - 1) : sender[b] # None) /\
            \E client \in SendersOf[c] : \E q \in RequestsOf[c] :
                SyncCommand(c, client, q) \/ \E a \in Addresses : AsyncCommand(c, client, q, a)
       \/ \E a \in Addresses : ReplyTimeout(a)
       \/ \E o \in Results :
            \/ DevicesDiscovered(o) \/ DeviceSetupFinished(o)
            \/ DeviceReconfigurationFinished(o) \/ ActionExecuted(o) \/ PairingFinished(o)

\* The timers of replies fire; nothing obliges a plugin to report a result.
Spec == Init /\ [][Next]_vars
FairSpec == Spec /\ \A a \in Addresses : WF_vars(~crashed /\ ReplyTimeout(a))

-----------------------------------------------------------------------------
(* Properties *)

Entries == [at : Addresses \cup {None}, for : Commands \cup {None}]

\* The types, and that clients, replies and operations fit together: a reply
\* waits for a command that was sent, on the transport of its sender.
TypeOK ==
    /\ m_clientList \subseteq Clients /\ gone \subseteq Clients \ m_clientList
    /\ \A a \in Addresses : m_asyncReplies[a] # None =>
          LET reply == m_asyncReplies[a] IN
          /\ sender[reply.command] \in Clients
          /\ reply.interface = TransportOf[sender[reply.command]]
    /\ waiting \in [Kinds -> [Keys -> Entries]]
    /\ \A o \in operations : o.kind \in Kinds /\ o.key \in Keys /\ sender[o.command] # None

\* No command is answered twice, however late or often results arrive, and none
\* waits at two addresses (JsonRPCServer::asyncReplyFinished).
AnsweredOnce ==
    \A c \in Commands :
        /\ Len(answers[c]) <= 1
        /\ Cardinality({a \in Addresses : m_asyncReplies[a] # None /\ m_asyncReplies[a].command = c})
             + Len(answers[c]) <= 1

TimedOut(c) == \E i \in DOMAIN answers[c] : answers[c][i].result = "timeout"

\* Did the operation of b, or somebody else's when b is None, have the subject
\* of command c?
SameSubject(b, c) ==
    \/ b = c
    \/ /\ request[c].kind \in {"discover", "edit", "pair"}
       /\ b # None => request[b] = request[c]

\* A command is answered by what it began, or by an operation on the same device
\* class, device or pairing (the handlers' hashes), unless a reply that timed
\* out has left its address in a hash: only then do results go astray.
AnswersMatch ==
    /\ \A c \in Commands \ misdirected : \A i \in DOMAIN answers[c] :
          answers[c][i].result = "done" => SameSubject(answers[c][i].by, c)
    /\ misdirected # {} =>
          \E c \in Commands : TimedOut(c) \/ (sender[c] \in gone /\ answers[c] = <<>>)

\* A command gets its own answer, and one.
AnsweredRight == AnsweredOnce /\ AnswersMatch

\* "A JsonReply is finished when the response is ready or then the reply timed
\* out": what finishes a reply is its own response.
FinishedByItsResponse ==
    \A c \in Commands : \A i \in DOMAIN answers[c] :
        answers[c][i].result = "done" => SameSubject(answers[c][i].by, c)

\* Every command is answered, whatever plugins do, as long as its client stays
\* and the process lives (JsonReply::startWait).
CommandsAnswered ==
    \A c \in Commands :
        sender[c] # None ~> (answers[c] # <<>> \/ sender[c] \in gone \/ crashed)
=============================================================================
