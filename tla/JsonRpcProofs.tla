---------------------------- MODULE JsonRpcProofs ----------------------------
(***************************************************************************)
(* Safety of the JSON-RPC server's asynchronous replies, for all clients,  *)
(* commands, subjects and addresses.                                       *)
(*                                                                         *)
(* AnsweredRight is about the answers; what makes it inductive is about    *)
(* the handlers' hashes.  An entry there is found under the subject of the *)
(* command it was made for, and for each command there is at most one      *)
(* (EntryRight, OneEntryEach).  Its address holds the reply it was made    *)
(* for, unless that reply has timed out, its client was gone when it did,  *)
(* or a result has already gone astray (Held).                             *)
(***************************************************************************)
EXTENDS JsonRpc, FiniteSetTheorems, TLAPS

Transports == {TransportOf[c] : c \in Clients}
Replies == [command : Commands, interface : Transports]
Operations == [kind : Kinds, key : Keys, command : Commands]
AnswerOf == [result : {"sync", "done", "timeout"}, by : Commands \cup {None}]

Typed ==
    /\ m_clientList \subseteq Clients /\ gone \subseteq Clients \ m_clientList
    /\ sender \in [Commands -> Clients \cup {None}]
    /\ request \in [Commands -> Requests \cup {None}]
    /\ m_asyncReplies \in [Addresses -> Replies \cup {None}]
    /\ waiting \in [Kinds -> [Keys -> Entries]]
    /\ operations \subseteq Operations
    /\ answers \in [Commands -> Seq(AnswerOf)]
    /\ misdirected \subseteq Commands

\* A reply waits for a command that has no answer yet, and alone.
RepliesWait ==
    /\ \A a \in Addresses : m_asyncReplies[a] # None =>
          LET reply == m_asyncReplies[a] IN
          /\ sender[reply.command] \in Clients
          /\ reply.interface = TransportOf[sender[reply.command]]
          /\ answers[reply.command] = <<>>
    /\ \A a, b \in Addresses :
          /\ m_asyncReplies[a] # None /\ m_asyncReplies[b] # None
          /\ m_asyncReplies[a].command = m_asyncReplies[b].command
          => a = b

\* A command that was not sent has no answer; one that was has one sender, who was
\* connected, and at most one answer.
SentCommands ==
    \A c \in Commands :
        /\ sender[c] # None => sender[c] \in m_clientList \cup gone
        /\ sender[c] = None => answers[c] = <<>>
        /\ Len(answers[c]) <= 1

\* Is x the key of command c's request in the hash k?  A device that a pairing has
\* added waits under the command whose pairing succeeded.
Under(k, x, c) ==
    /\ request[c] \in Requests
    /\ \/ k = request[c].kind /\ x = KeyOf(c, request[c])
       \/ /\ k = "add" /\ request[c].kind = "pair"
          /\ x \in Commands /\ sender[x] # None /\ request[x] = request[c]

OperationRight(o) ==
    /\ sender[o.command] # None
    /\ request[o.command] \in Requests
    /\ \/ o.kind = request[o.command].kind /\ o.key = KeyOf(o.command, request[o.command])
       \/ o.kind = "add" /\ o.key = o.command /\ request[o.command].kind = "pair"

OperationsRight == \A o \in operations : OperationRight(o)

\* The reply of command c was finished by its timer.
Stale(c) == TimedOut(c) \/ (sender[c] \in gone /\ answers[c] = <<>>)

Held(entry) ==
    \/ m_asyncReplies[entry.at] # None /\ m_asyncReplies[entry.at].command = entry.for
    \/ Stale(entry.for)
    \/ misdirected # {}

EntryRight(k, x) ==
    waiting[k][x] # NoEntry =>
        /\ waiting[k][x].at \in Addresses /\ waiting[k][x].for \in Commands
        /\ sender[waiting[k][x].for] # None
        /\ Under(k, x, waiting[k][x].for)
        /\ Held(waiting[k][x])

EntriesRight == \A k \in Kinds, x \in Keys : EntryRight(k, x)

OneEntryEach ==
    \A k, l \in Kinds, x, y \in Keys :
        /\ waiting[k][x] # NoEntry /\ waiting[l][y] # NoEntry
        /\ waiting[k][x].for = waiting[l][y].for
        => k = l /\ x = y

\* Every answer with a result is its command's own, or of the same subject.
AnswerRight(c) ==
    \A i \in DOMAIN answers[c] : answers[c][i].result = "done" =>
        /\ answers[c][i].by # None => sender[answers[c][i].by] # None
        /\ SameSubject(answers[c][i].by, c)

AnswersAreRight == \A c \in Commands \ misdirected : AnswerRight(c)

\* Nothing goes astray before a reply was finished by its timer.
Blamed == misdirected # {} => \E c \in Commands : Stale(c)

IInv ==
    /\ Typed /\ RepliesWait /\ SentCommands /\ OperationsRight
    /\ EntriesRight /\ OneEntryEach /\ AnswersAreRight /\ Blamed

-----------------------------------------------------------------------------
(* The operators *)

\* An answer's operation was begun by a command, or by somebody else.
LEMMA AnswerTypes ==
    ASSUME NEW s \in Seq(AnswerOf), NEW i \in DOMAIN s
    PROVE  s[i] \in AnswerOf /\ s[i].by \in Commands \cup {None}
<1>1. s[i] \in AnswerOf
  OBVIOUS
<1>2. QED
  BY <1>1 DEF AnswerOf

LEMMA SingleAnswer ==
    ASSUME NEW what
    PROVE  DOMAIN <<what>> = {1} /\ <<what>>[1] = what /\ Len(<<what>>) = 1 /\ <<what>> # <<>>
OBVIOUS

-----------------------------------------------------------------------------
(* Initially *)

LEMMA InitRight == Init => IInv
<1> SUFFICES ASSUME Init PROVE IInv
  OBVIOUS
<1> USE JsonRpcAssumption
<1>1. Typed
  BY DEF Init, Typed, Entries, NoEntry, AnswerOf
<1>2. RepliesWait /\ OperationsRight /\ EntriesRight /\ OneEntryEach /\ Blamed
  BY DEF Init, RepliesWait, OperationsRight, EntriesRight, EntryRight, OneEntryEach, Blamed
<1>3. SentCommands /\ AnswersAreRight
  BY DEF Init, SentCommands, AnswersAreRight, AnswerRight
<1>4. QED
  BY <1>1, <1>2, <1>3 DEF IInv

-----------------------------------------------------------------------------
(* Clients *)

\* Nothing depends on who is connected but Stale, and it stays.
LEMMA ClientsStep ==
    ASSUME IInv, NEW client \in Clients,
           ClientConnected(client) \/ ClientDisconnected(client)
    PROVE  IInv'
<1> USE JsonRpcAssumption
<1>1. /\ m_clientList' \subseteq Clients /\ gone' \subseteq Clients \ m_clientList'
      /\ gone \subseteq gone' /\ m_clientList \cup gone \subseteq m_clientList' \cup gone'
  BY DEF IInv, Typed, ClientConnected, ClientDisconnected
<1>2. UNCHANGED <<sender, request, replyVars, operations>>
  BY DEF ClientConnected, ClientDisconnected
<1>3. Typed' /\ RepliesWait' /\ SentCommands' /\ OperationsRight' /\ OneEntryEach'
  BY <1>1, <1>2 DEF IInv, Typed, RepliesWait, SentCommands, OperationsRight, OperationRight,
     OneEntryEach, replyVars, KeyOf
<1>4. \A c \in Commands : Stale(c) => Stale(c)'
  BY <1>1, <1>2 DEF Stale, TimedOut, replyVars
<1>5. EntriesRight' /\ Blamed'
  BY <1>2, <1>4 DEF IInv, EntriesRight, EntryRight, Under, Held, Blamed, replyVars, KeyOf
<1>6. AnswersAreRight'
  BY <1>2 DEF IInv, AnswersAreRight, AnswerRight, SameSubject, replyVars
<1>7. QED
  BY <1>3, <1>5, <1>6 DEF IInv

-----------------------------------------------------------------------------
(* Commands *)

LEMMA SyncStep ==
    ASSUME IInv, NEW c \in Commands, NEW client \in Clients, NEW q \in Requests,
           SyncCommand(c, client, q)
    PROVE  IInv'
<1> USE JsonRpcAssumption
<1> DEFINE new == [result |-> "sync", by |-> c]
<1>0. Append(<<>>, new) = <<new>> /\ new \in AnswerOf /\ <<new>> \in Seq(AnswerOf)
  BY DEF AnswerOf
<1>1. /\ sender[c] = None /\ client \in m_clientList /\ answers[c] = <<>>
      /\ sender' = [sender EXCEPT ![c] = client]
      /\ answers' = [answers EXCEPT ![c] = <<new>>]
      /\ UNCHANGED <<clientVars, request, m_asyncReplies, waiting, misdirected, crashed, operations>>
  BY <1>0 DEF SyncCommand, IInv, SentCommands
<1>2. /\ sender'[c] = client /\ answers'[c] = <<new>>
      /\ \A d \in Commands \ {c} : sender'[d] = sender[d] /\ answers'[d] = answers[d]
  BY <1>1 DEF IInv, Typed
<1>3. Typed'
  BY <1>0, <1>1 DEF IInv, Typed, clientVars
<1>4. RepliesWait'
  <2>1. \A a \in Addresses : m_asyncReplies[a] # None => m_asyncReplies[a].command \in Commands \ {c}
    BY <1>1 DEF IInv, Typed, RepliesWait, Replies
  <2>2. QED
    BY <2>1, <1>1, <1>2 DEF IInv, RepliesWait
<1>5. SentCommands'
  BY <1>1, <1>2 DEF IInv, Typed, SentCommands, clientVars
<1>6. \A d \in Commands : sender[d] # None => sender'[d] # None
  BY <1>1, <1>2
<1>7. OperationsRight'
  BY <1>1, <1>6 DEF IInv, Typed, Operations, OperationsRight, OperationRight, KeyOf
<1>8. \A d \in Commands : Stale(d) => Stale(d)'
  BY <1>1, <1>2 DEF Stale, TimedOut, IInv, Typed, clientVars
<1>9. EntriesRight' /\ OneEntryEach' /\ Blamed'
  BY <1>1, <1>6, <1>8 DEF IInv, EntriesRight, EntryRight, Under, KeyOf, Held, OneEntryEach, Blamed
<1>10. AnswersAreRight'
  <2>1. AnswerRight(c)'
    BY <1>2 DEF AnswerRight
  <2>2. ASSUME NEW d \in Commands \ misdirected, d # c PROVE AnswerRight(d)'
    <3>1. answers'[d] = answers[d] /\ AnswerRight(d) /\ answers[d] \in Seq(AnswerOf)
      BY <1>2, <2>2 DEF IInv, AnswersAreRight, Typed
    <3>2. ASSUME NEW i \in DOMAIN answers[d], answers[d][i].result = "done"
          PROVE  answers[d][i].by # None => sender'[answers[d][i].by] # None
      <4>1. answers[d][i].by \in Commands \cup {None}
        BY <3>1, AnswerTypes
      <4>2. QED
        BY <4>1, <3>1, <3>2, <1>6 DEF AnswerRight
    <3>3. QED
      BY <3>1, <3>2, <1>1 DEF AnswerRight, SameSubject
  <2>3. QED
    BY <2>1, <2>2, <1>1 DEF AnswersAreRight
<1>11. QED
  BY <1>3, <1>4, <1>5, <1>7, <1>9, <1>10 DEF IInv

LEMMA AsyncStep ==
    ASSUME IInv, NEW c \in Commands, NEW client \in Clients, NEW q \in Requests,
           NEW a \in Addresses, AsyncCommand(c, client, q, a)
    PROVE  IInv'
<1> USE JsonRpcAssumption
<1> DEFINE reply == [command |-> c, interface |-> TransportOf[client]]
           x == KeyOf(c, q)
           entry == [at |-> a, for |-> c]
<1>1. /\ sender[c] = None /\ client \in m_clientList /\ m_asyncReplies[a] = None
      /\ sender' = [sender EXCEPT ![c] = client]
      /\ request' = [request EXCEPT ![c] = q]
      /\ operations' = operations \cup {[kind |-> q.kind, key |-> x, command |-> c]}
      /\ waiting' = [waiting EXCEPT ![q.kind][x] = entry]
      /\ m_asyncReplies' = [m_asyncReplies EXCEPT ![a] = reply]
      /\ UNCHANGED <<clientVars, answers, misdirected, crashed>>
      /\ answers[c] = <<>>
  BY DEF AsyncCommand, IInv, SentCommands
<1>2. RequestOK(q) /\ q.kind \in Kinds /\ x \in Keys
  BY DEF Requests, Keys, KeyOf, RequestOK
<1>3. reply \in Replies /\ reply # None /\ entry \in Entries /\ entry # NoEntry
  BY DEF Replies, Transports, Entries, NoEntry
<1>4. /\ sender'[c] = client /\ request'[c] = q /\ m_asyncReplies'[a] = reply
      /\ \A d \in Commands \ {c} : sender'[d] = sender[d] /\ request'[d] = request[d]
      /\ \A b \in Addresses \ {a} : m_asyncReplies'[b] = m_asyncReplies[b]
      /\ waiting'[q.kind][x] = entry
      /\ \A k \in Kinds, y \in Keys :
            k # q.kind \/ y # x => waiting'[k][y] = waiting[k][y]
  BY <1>1, <1>2 DEF IInv, Typed
<1> HIDE DEF reply, x, entry
<1>5. Typed'
  <2>1. [kind |-> q.kind, key |-> x, command |-> c] \in Operations
    BY <1>2 DEF Operations
  <2>2. waiting' \in [Kinds -> [Keys -> Entries]]
    BY <1>1, <1>2, <1>3 DEF IInv, Typed
  <2>3. QED
    BY <2>1, <2>2, <1>1, <1>3 DEF IInv, Typed, clientVars
<1>6. RepliesWait'
  <2>1. \A b \in Addresses : m_asyncReplies[b] # None => m_asyncReplies[b].command \in Commands \ {c}
    BY <1>1 DEF IInv, Typed, RepliesWait, Replies
  <2>2. reply.command = c /\ reply.interface = TransportOf[client]
    BY DEF reply
  <2>3. QED
    BY <2>1, <2>2, <1>1, <1>4 DEF IInv, RepliesWait
<1>7. SentCommands'
  BY <1>1, <1>4 DEF IInv, Typed, SentCommands, clientVars
<1>8. \A d \in Commands : sender[d] # None => d # c /\ sender'[d] # None /\ request'[d] = request[d]
  BY <1>1, <1>4
<1>9. OperationsRight'
  <2>1. \A o \in operations : OperationRight(o)'
    BY <1>8 DEF IInv, Typed, Operations, OperationsRight, OperationRight, KeyOf
  <2>2. OperationRight([kind |-> q.kind, key |-> x, command |-> c])'
    BY <1>4 DEF OperationRight, x
  <2>3. QED
    BY <2>1, <2>2, <1>1 DEF OperationsRight
<1>10. \A d \in Commands : Stale(d) /\ sender[d] # None => Stale(d)'
  BY <1>1, <1>8, <1>4 DEF Stale, TimedOut, IInv, Typed, clientVars
<1>11. \A d \in Commands : Stale(d) => sender[d] # None
  BY DEF IInv, SentCommands, Stale, TimedOut, Typed
<1>12. ASSUME NEW k \in Kinds, NEW y \in Keys PROVE EntryRight(k, y)'
  <2>1. CASE k = q.kind /\ y = x
    BY <2>1, <1>3, <1>4 DEF EntryRight, Under, Held, entry, reply, x
  <2>2. CASE k # q.kind \/ y # x
    <3> SUFFICES ASSUME waiting[k][y] # NoEntry
                 PROVE  EntryRight(k, y)'
      BY <2>2, <1>4 DEF EntryRight
    <3>1. waiting'[k][y] = waiting[k][y] /\ EntryRight(k, y)
      BY <2>2, <1>4 DEF IInv, EntriesRight
    <3>2. Under(k, y, waiting[k][y].for)'
      <4>2. CASE k = request[waiting[k][y].for].kind /\ y = KeyOf(waiting[k][y].for, request[waiting[k][y].for])
        BY <4>2, <3>1, <1>8 DEF EntryRight, Under, KeyOf
      <4>3. CASE k = "add" /\ y \in Commands /\ request[waiting[k][y].for].kind = "pair"
                 /\ sender[y] # None /\ request[y] = request[waiting[k][y].for]
        BY <4>3, <3>1, <1>8 DEF EntryRight, Under, KeyOf
      <4>4. QED
        BY <4>2, <4>3, <3>1 DEF EntryRight, Under
    <3>3. Held(waiting[k][y])'
      BY <3>1, <1>1, <1>4, <1>10 DEF EntryRight, Held
    <3>4. QED
      BY <3>1, <3>2, <3>3, <1>8 DEF EntryRight
  <2>3. QED
    BY <2>1, <2>2
<1>13. OneEntryEach'
  <2>1. \A k \in Kinds, y \in Keys : waiting[k][y] # NoEntry => waiting[k][y].for # c
    BY <1>1 DEF IInv, EntriesRight, EntryRight
  <2>2. entry.for = c
    BY DEF entry
  <2>3. QED
    BY <2>1, <2>2, <1>2, <1>4 DEF IInv, OneEntryEach
<1>14. Blamed'
  BY <1>1, <1>10, <1>11 DEF IInv, Blamed
<1>15. AnswersAreRight'
  <2> SUFFICES ASSUME NEW d \in Commands \ misdirected, NEW i \in DOMAIN answers[d],
                      answers[d][i].result = "done"
               PROVE  /\ answers[d][i].by # None => sender'[answers[d][i].by] # None
                      /\ SameSubject(answers[d][i].by, d)'
    BY <1>1 DEF AnswersAreRight, AnswerRight
  <2>1. AnswerRight(d) /\ answers[d] \in Seq(AnswerOf) /\ d # c
    BY <1>1 DEF IInv, AnswersAreRight, Typed
  <2>2. answers[d][i].by \in Commands \cup {None}
    BY <2>1, AnswerTypes
  <2>3. /\ answers[d][i].by # None => sender[answers[d][i].by] # None
        /\ SameSubject(answers[d][i].by, d)
    BY <2>1 DEF AnswerRight
  <2>4. request'[d] = request[d]
    BY <2>1, <1>4
  <2>5. answers[d][i].by # None =>
            /\ sender'[answers[d][i].by] # None
            /\ request'[answers[d][i].by] = request[answers[d][i].by]
    BY <2>2, <2>3, <1>8
  <2>6. QED
    BY <2>3, <2>4, <2>5, <1>1 DEF SameSubject
<1>16. QED
  BY <1>5, <1>6, <1>7, <1>9, <1>12, <1>13, <1>14, <1>15 DEF IInv, EntriesRight

-----------------------------------------------------------------------------
(* Answers *)

\* A reply that is finished is gone, and its command has its answer, unless the
\* client is gone.
ReplyFinished(a, d, what) ==
    /\ d = m_asyncReplies[a].command
    /\ m_asyncReplies' \in [Addresses -> Replies \cup {None}]
    /\ m_asyncReplies'[a] = None
    /\ \A b \in Addresses \ {a} : m_asyncReplies'[b] = m_asyncReplies[b]
    /\ answers' \in [Commands -> Seq(AnswerOf)]
    /\ \A c \in Commands \ {d} : answers'[c] = answers[c]
    /\ answers'[d] = <<what>> \/ (answers'[d] = <<>> /\ sender[d] \in gone)
    /\ RepliesWait' /\ SentCommands'
    /\ \A c \in Commands : Stale(c) => Stale(c)'
    /\ what.result = "timeout" => Stale(d)'

LEMMA FinishedReply ==
    ASSUME IInv, NEW a \in Addresses, m_asyncReplies[a] # None, NEW what \in AnswerOf,
           AsyncReplyFinished(a, what), UNCHANGED clientVars, UNCHANGED sender
    PROVE  \E d \in Commands : ReplyFinished(a, d, what)
<1> USE JsonRpcAssumption
<1> DEFINE reply == m_asyncReplies[a]
<1> PICK d \in Commands : d = reply.command
  BY DEF IInv, Typed, Replies
<1>1. reply \in Replies
  BY DEF IInv, Typed
<1>2. /\ d \in Commands /\ sender[d] \in Clients /\ reply.interface = TransportOf[sender[d]]
      /\ answers[d] = <<>> /\ sender[d] \in m_clientList \cup gone /\ sender[d] # None
  BY <1>1 DEF IInv, RepliesWait, SentCommands, Replies
<1>3. /\ m_asyncReplies' = [m_asyncReplies EXCEPT ![a] = None]
      /\ answers' = IF sender[d] \in m_clientList
                    THEN [answers EXCEPT ![d] = Append(answers[d], what)] ELSE answers
  BY <1>2 DEF AsyncReplyFinished, Sent
<1>4. Append(answers[d], what) = <<what>> /\ <<what>> \in Seq(AnswerOf)
  BY <1>2
<1>5. m_asyncReplies' \in [Addresses -> Replies \cup {None}] /\ m_asyncReplies'[a] = None
      /\ \A b \in Addresses \ {a} : m_asyncReplies'[b] = m_asyncReplies[b]
  BY <1>3 DEF IInv, Typed
<1>6. /\ answers' \in [Commands -> Seq(AnswerOf)]
      /\ \A c \in Commands \ {d} : answers'[c] = answers[c]
      /\ answers'[d] = IF sender[d] \in m_clientList THEN <<what>> ELSE <<>>
  BY <1>2, <1>3, <1>4 DEF IInv, Typed
<1>7. RepliesWait'
  <2>1. \A b \in Addresses \ {a} : m_asyncReplies[b] # None =>
            m_asyncReplies[b].command \in Commands \ {d}
    BY DEF IInv, Typed, RepliesWait, Replies
  <2>2. ASSUME NEW b \in Addresses, m_asyncReplies'[b] # None
        PROVE  /\ m_asyncReplies'[b] = m_asyncReplies[b]
               /\ answers'[m_asyncReplies[b].command] = answers[m_asyncReplies[b].command]
    BY <2>1, <2>2, <1>5, <1>6
  <2>3. sender' = sender
    OBVIOUS
  <2>4. QED
    BY <2>2, <2>3 DEF IInv, RepliesWait
<1>8. SentCommands'
  <2>1. \A c \in Commands \ {d} : answers'[c] = answers[c]
    BY <1>6
  <2>2. Len(answers'[d]) <= 1
    BY <1>6, SingleAnswer
  <2>3. QED
    BY <2>1, <2>2, <1>2 DEF IInv, SentCommands, clientVars
<1>9. ASSUME NEW c \in Commands, Stale(c) PROVE Stale(c)'
  <2>1. CASE c # d
    BY <2>1, <1>6, <1>9 DEF Stale, TimedOut, clientVars
  <2>2. CASE c = d
    <3>1. ~TimedOut(d)
      BY <1>2 DEF TimedOut
    <3>2. sender[d] \in gone /\ sender[d] \notin m_clientList
      BY <3>1, <2>2, <1>9 DEF Stale, IInv, Typed
    <3>3. QED
      BY <3>2, <2>2, <1>6 DEF Stale, clientVars
  <2>3. QED
    BY <2>1, <2>2
<1>10. what.result = "timeout" => Stale(d)'
  <2>1. CASE sender[d] \in m_clientList
    BY <2>1, <1>6, SingleAnswer DEF Stale, TimedOut
  <2>2. CASE sender[d] \notin m_clientList
    BY <2>2, <1>2, <1>6 DEF Stale, clientVars
  <2>3. QED
    BY <2>1, <2>2
<1>11. QED
  BY <1>2, <1>5, <1>6, <1>7, <1>8, <1>9, <1>10 DEF ReplyFinished

LEMMA TimeoutStep ==
    ASSUME IInv, NEW a \in Addresses, ReplyTimeout(a)
    PROVE  IInv'
<1> USE JsonRpcAssumption
<1> DEFINE what == [result |-> "timeout", by |-> m_asyncReplies[a].command]
<1>1. /\ m_asyncReplies[a] # None
      /\ AsyncReplyFinished(a, what)
      /\ UNCHANGED clientVars /\ UNCHANGED sender
      /\ UNCHANGED <<request, waiting, misdirected, operations>>
  BY DEF ReplyTimeout
<1>2. what \in AnswerOf
  BY <1>1 DEF IInv, Typed, Replies, AnswerOf
<1>3. PICK d \in Commands : ReplyFinished(a, d, what)
  BY <1>1, <1>2, FinishedReply
<1>4. /\ d = m_asyncReplies[a].command
      /\ m_asyncReplies' \in [Addresses -> Replies \cup {None}]
      /\ \A b \in Addresses \ {a} : m_asyncReplies'[b] = m_asyncReplies[b]
      /\ answers' \in [Commands -> Seq(AnswerOf)]
      /\ \A c \in Commands \ {d} : answers'[c] = answers[c]
      /\ answers'[d] = <<what>> \/ answers'[d] = <<>>
      /\ RepliesWait' /\ SentCommands'
      /\ \A c \in Commands : Stale(c) => Stale(c)'
      /\ Stale(d)' /\ what.result = "timeout"
  BY <1>3 DEF ReplyFinished
<1> HIDE DEF what
<1>5. Typed'
  BY <1>1, <1>4 DEF IInv, Typed, clientVars
<1>6. OperationsRight' /\ OneEntryEach' /\ Blamed'
  BY <1>1, <1>4 DEF IInv, OperationsRight, OperationRight, OneEntryEach, Blamed, KeyOf
<1>7. ASSUME NEW k \in Kinds, NEW x \in Keys, waiting[k][x] # NoEntry PROVE EntryRight(k, x)'
  <2>1. EntryRight(k, x)
    BY DEF IInv, EntriesRight
  <2>2. Held(waiting[k][x])'
    <3>1. CASE waiting[k][x].at = a /\ waiting[k][x].for = d
      BY <3>1, <1>1, <1>4 DEF Held
    <3>2. CASE Stale(waiting[k][x].for) \/ misdirected # {}
      BY <3>2, <2>1, <1>1, <1>4, <1>7 DEF EntryRight, Held
    <3>3. CASE /\ waiting[k][x].at # a
               /\ m_asyncReplies[waiting[k][x].at] # None
               /\ m_asyncReplies[waiting[k][x].at].command = waiting[k][x].for
      BY <3>3, <2>1, <1>1, <1>4, <1>7 DEF EntryRight, Held
    <3>4. QED
      BY <3>1, <3>2, <3>3, <2>1, <1>4, <1>7 DEF EntryRight, Held
  <2>3. QED
    BY <2>1, <2>2, <1>1 DEF EntryRight, Under, KeyOf
<1>8. EntriesRight'
  BY <1>1, <1>7 DEF EntriesRight, EntryRight
<1>9. AnswersAreRight'
  <2>1. ASSUME NEW c \in Commands \ misdirected, c # d PROVE AnswerRight(c)'
    <3>1. answers'[c] = answers[c] /\ AnswerRight(c)
      BY <2>1, <1>4 DEF IInv, AnswersAreRight
    <3>2. QED
      BY <3>1, <1>1 DEF AnswerRight, SameSubject
  <2>2. AnswerRight(d)'
    BY <1>4, SingleAnswer DEF AnswerRight
  <2>3. misdirected' = misdirected
    BY <1>1
  <2>4. QED
    BY <2>1, <2>2, <2>3 DEF AnswersAreRight
<1>10. QED
  BY <1>4, <1>5, <1>6, <1>8, <1>9 DEF IInv

-----------------------------------------------------------------------------
(* Results *)

\* What a result finds in a hash is of its own subject.
LEMMA ResultSubject ==
    ASSUME IInv, NEW o \in Results
    PROVE  /\ o.kind \in Kinds /\ o.key \in Keys /\ o.command \in Commands \cup {None}
           /\ o.command # None => sender[o.command] # None
           /\ waiting[o.kind][o.key] # NoEntry =>
                 SameSubject(o.command, waiting[o.kind][o.key].for)
<1> USE JsonRpcAssumption
<1> DEFINE c == waiting[o.kind][o.key].for
<1>1. \A q \in Requests : RequestOK(q)
  BY DEF Requests
<1>2. CASE o \in operations
  <2>1. /\ o.kind \in Kinds /\ o.key \in Keys /\ o.command \in Commands
        /\ OperationRight(o)
    BY <1>2 DEF IInv, Typed, Operations, OperationsRight
  <2>2. ASSUME waiting[o.kind][o.key] # NoEntry PROVE SameSubject(o.command, c)
    <3>1. c \in Commands /\ Under(o.kind, o.key, c)
      BY <2>1, <2>2 DEF IInv, EntriesRight, EntryRight
    <3> DEFINE p == request[c]
               q == request[o.command]
    <3>2. /\ p \in Requests /\ q \in Requests /\ RequestOK(p) /\ RequestOK(q)
          /\ p = [kind |-> p.kind, key |-> p.key] /\ q = [kind |-> q.kind, key |-> q.key]
          /\ (p.kind \in {"add", "action"}) <=> (p.key = None)
          /\ (q.kind \in {"add", "action"}) <=> (q.key = None)
          /\ p.kind \in Kinds
      BY <1>1, <2>1, <3>1 DEF Under, OperationRight, RequestOK
    <3>3. CASE o.kind = q.kind /\ o.kind = p.kind /\ o.key = KeyOf(o.command, q) /\ o.key = KeyOf(c, p)
      BY <3>2, <3>3 DEF SameSubject, KeyOf, Kinds
    <3>4. CASE o.kind = "add" /\ o.key = o.command /\ q.kind = "pair" /\ p.kind = "add" /\ o.key = KeyOf(c, p)
      BY <3>2, <3>4 DEF SameSubject, KeyOf
    <3>5. CASE o.kind = "add" /\ o.key \in Commands /\ p.kind = "pair" /\ request[o.key] = p
      <4>1. o.key = o.command
        BY <3>2, <3>5, <2>1 DEF OperationRight, KeyOf
      <4>2. QED
        BY <4>1, <3>5 DEF SameSubject
    <3>6. QED
      BY <3>1, <3>3, <3>4, <3>5, <2>1 DEF Under, OperationRight
  <2>3. QED
    BY <2>1, <2>2 DEF OperationRight
<1>3. CASE o \notin operations
  <2>1. PICK q \in Requests : q.kind \in {"discover", "edit"} /\ o = Foreign(q.kind, q.key)
    BY <1>3 DEF Results
  <2>2. /\ o.kind = q.kind /\ o.key = q.key /\ o.command = None
        /\ o.kind \in Kinds /\ o.key \in Keys
    BY <2>1 DEF Foreign, Kinds, Keys
  <2>3. ASSUME waiting[o.kind][o.key] # NoEntry PROVE SameSubject(o.command, c)
    <3>1. c \in Commands /\ Under(o.kind, o.key, c)
      BY <2>2, <2>3 DEF IInv, EntriesRight, EntryRight
    <3>2. request[c].kind = q.kind
      BY <3>1, <2>1, <2>2 DEF Under
    <3>3. QED
      BY <3>2, <2>1, <2>2 DEF SameSubject
  <2>4. QED
    BY <2>2, <2>3
<1>4. QED
  BY <1>2, <1>3

\* A handler that finds a reply for a result answers a command with it.
LEMMA AnsweredStep ==
    ASSUME IInv, NEW kind \in Kinds, NEW key \in Keys, NEW o,
           o.command \in Commands \cup {None},
           o.command # None => sender[o.command] # None,
           waiting[kind][key] # NoEntry => SameSubject(o.command, waiting[kind][key].for),
           Answered(kind, key, o), operations' \subseteq operations,
           UNCHANGED clientVars, UNCHANGED sender, UNCHANGED request
    PROVE  IInv'
<1> USE JsonRpcAssumption
<1> DEFINE entry == waiting[kind][key]
           what == [result |-> "done", by |-> o.command]
           a == entry.at
<1>1. OperationsRight'
  BY DEF IInv, OperationsRight, OperationRight, KeyOf
<1>2. CASE entry = NoEntry
  <2>1. UNCHANGED replyVars
    BY <1>2 DEF Answered
  <2>2. Typed' /\ RepliesWait' /\ SentCommands' /\ OneEntryEach'
    BY <2>1 DEF IInv, Typed, RepliesWait, SentCommands, OneEntryEach, replyVars, clientVars
  <2>3. EntriesRight' /\ Blamed' /\ AnswersAreRight'
    BY <2>1 DEF IInv, EntriesRight, EntryRight, Under, KeyOf, Held, Stale, TimedOut, Blamed,
       AnswersAreRight, AnswerRight, SameSubject, replyVars, clientVars
  <2>4. QED
    BY <1>1, <2>2, <2>3 DEF IInv
<1>3. CASE entry # NoEntry
  <2>1. /\ waiting' = [waiting EXCEPT ![kind][key] = NoEntry]
        /\ Finished(entry, what)
    BY <1>3 DEF Answered
  <2>2. /\ waiting'[kind][key] = NoEntry
        /\ waiting' \in [Kinds -> [Keys -> Entries]]
        /\ \A k \in Kinds, x \in Keys : k # kind \/ x # key => waiting'[k][x] = waiting[k][x]
    BY <2>1 DEF IInv, Typed, Entries, NoEntry
  <2>3. OneEntryEach'
    BY <2>2 DEF IInv, OneEntryEach
  <2>4. /\ a \in Addresses /\ entry.for \in Commands /\ Held(entry)
        /\ sender[entry.for] # None
    BY <1>3 DEF IInv, EntriesRight, EntryRight
  <2>5. what \in AnswerOf
    BY DEF AnswerOf
  <2>6. CASE m_asyncReplies[a] = None
    <3>1. UNCHANGED <<answers, m_asyncReplies, misdirected>>
      BY <2>1, <2>6 DEF Finished
    <3>2. Typed' /\ RepliesWait' /\ SentCommands'
      BY <3>1, <2>2 DEF IInv, Typed, RepliesWait, SentCommands, clientVars
    <3>3. Blamed' /\ AnswersAreRight'
      BY <3>1 DEF IInv, Stale, TimedOut, Blamed, AnswersAreRight, AnswerRight, SameSubject, clientVars
    <3>4. EntriesRight'
      BY <3>1, <2>2, SMTT(30) DEF IInv, EntriesRight, EntryRight, Under, KeyOf, Held, Stale, TimedOut, clientVars
    <3>5. QED
      BY <1>1, <2>3, <3>2, <3>3, <3>4 DEF IInv
  <2>7. CASE m_asyncReplies[a] # None
    <3>0. AsyncReplyFinished(a, what)
      BY <2>1, <2>7 DEF Finished
    <3>9. PICK d \in Commands : ReplyFinished(a, d, what)
      BY <3>0, <2>4, <2>5, <2>7, FinishedReply
    <3>2. /\ d = m_asyncReplies[a].command
          /\ m_asyncReplies' \in [Addresses -> Replies \cup {None}]
          /\ \A b \in Addresses \ {a} : m_asyncReplies'[b] = m_asyncReplies[b]
          /\ answers' \in [Commands -> Seq(AnswerOf)]
          /\ \A c \in Commands \ {d} : answers'[c] = answers[c]
          /\ answers'[d] = <<what>> \/ answers'[d] = <<>>
          /\ RepliesWait' /\ SentCommands'
          /\ \A c \in Commands : Stale(c) => Stale(c)'
      BY <3>9 DEF ReplyFinished
    <3>1. misdirected' = IF d = entry.for THEN misdirected ELSE misdirected \cup {d}
      BY <2>1, <2>7, <3>2 DEF Finished
    <3>3. Typed'
      BY <3>1, <3>2, <2>2 DEF IInv, Typed, clientVars
    <3>4. Blamed'
      <4>1. d # entry.for => Stale(entry.for) \/ misdirected # {}
        BY <2>4, <3>2 DEF Held
      <4>2. QED
        BY <4>1, <3>1, <3>2, <2>4 DEF IInv, Blamed
    <3>5. ASSUME NEW k \in Kinds, NEW x \in Keys, waiting'[k][x] # NoEntry
          PROVE  EntryRight(k, x)'
      <4>1. waiting'[k][x] = waiting[k][x] /\ EntryRight(k, x) /\ (k # kind \/ x # key)
        BY <3>5, <2>2 DEF IInv, EntriesRight
      <4>2. waiting[k][x].for # entry.for
        BY <4>1, <3>5, <1>3 DEF IInv, OneEntryEach
      <4>3. Held(waiting[k][x])'
        <5>1. CASE Stale(waiting[k][x].for) \/ misdirected # {}
          BY <5>1, <4>1, <3>1, <3>2, <3>5 DEF EntryRight, Held
        <5>2. CASE m_asyncReplies[waiting[k][x].at] # None
                   /\ m_asyncReplies[waiting[k][x].at].command = waiting[k][x].for
          <6>1. CASE waiting[k][x].at # a
            BY <6>1, <5>2, <4>1, <3>2, <3>5, ZenonT(40) DEF EntryRight, Held
          <6>2. CASE waiting[k][x].at = a
            <7>1. d # entry.for
              BY <6>2, <5>2, <4>2, <3>2
            <7>2. QED
              BY <7>1, <3>1 DEF Held
          <6>3. QED
            BY <6>1, <6>2
        <5>3. QED
          BY <5>1, <5>2, <4>1, <3>5 DEF EntryRight, Held
      <4>4. QED
        BY <4>1, <4>3 DEF EntryRight, Under, KeyOf
    <3>6. EntriesRight'
      BY <3>5 DEF EntriesRight, EntryRight
    <3>7. AnswersAreRight'
      <4>1. ASSUME NEW c \in Commands \ misdirected', c # d PROVE AnswerRight(c)'
        <5>1. c \in Commands \ misdirected /\ answers'[c] = answers[c] /\ AnswerRight(c)
          BY <4>1, <3>1, <3>2 DEF IInv, AnswersAreRight
        <5>2. QED
          BY <5>1 DEF AnswerRight, SameSubject
      <4>2. ASSUME d \notin misdirected' PROVE AnswerRight(d)'
        <5>1. d = entry.for
          BY <4>2, <3>1
        <5>2. SameSubject(o.command, d)
          BY <5>1, <1>3
        <5>3. what.result = "done" /\ what.by = o.command
          OBVIOUS
        <5> HIDE DEF what
        <5>4. \A i \in DOMAIN answers'[d] : answers'[d][i] = what
          <6>1. CASE answers'[d] = <<what>>
            BY <6>1, SingleAnswer
          <6>2. CASE answers'[d] = <<>>
            BY <6>2
          <6>3. QED
            BY <6>1, <6>2, <3>2
        <5>5. SameSubject(what.by, d)'
          BY <5>2, <5>3 DEF SameSubject
        <5>6. QED
          BY <5>3, <5>4, <5>5 DEF AnswerRight
      <4>3. QED
        BY <4>1, <4>2, <3>3 DEF AnswersAreRight, Typed
    <3>8. QED
      BY <1>1, <2>3, <3>2, <3>3, <3>4, <3>6, <3>7 DEF IInv
  <2>8. QED
    BY <2>6, <2>7
<1>4. QED
  BY <1>2, <1>3

\* A result that no operation of the server's own handlers changes but this one.
LEMMA ResultStep ==
    ASSUME IInv, NEW o \in Results,
           DevicesDiscovered(o) \/ DeviceSetupFinished(o)
               \/ DeviceReconfigurationFinished(o) \/ ActionExecuted(o)
    PROVE  IInv'
<1>1. /\ Answered(o.kind, o.key, o) /\ operations' \subseteq operations
      /\ UNCHANGED clientVars /\ UNCHANGED sender /\ UNCHANGED request
  BY DEF DevicesDiscovered, DeviceSetupFinished, DeviceReconfigurationFinished,
     ActionExecuted, Ended
<1>2. QED
  BY <1>1, ResultSubject, AnsweredStep

\* A pairing that succeeds moves the entry of its reply to the hash of set ups, under
\* the command whose pairing it was.
LEMMA PairingStep ==
    ASSUME IInv, NEW o \in Results, PairingFinished(o)
    PROVE  IInv'
<1> USE JsonRpcAssumption
<1> DEFINE entry == waiting["pair"][o.key]
           b == o.command
           new == [kind |-> "add", key |-> b, command |-> b]
<1>1. /\ o \in operations /\ o.kind = "pair" /\ o.key \in Keys /\ b \in Commands
      /\ sender[b] # None /\ request[b] \in Requests /\ request[b].kind = "pair"
      /\ UNCHANGED clientVars /\ UNCHANGED sender /\ UNCHANGED request
  BY DEF PairingFinished, IInv, Typed, Operations, OperationsRight, OperationRight
<1>2. CASE operations' = operations \ {o} /\ UNCHANGED replyVars
  <2>1. Typed' /\ RepliesWait' /\ SentCommands' /\ OneEntryEach'
    BY <1>1, <1>2 DEF IInv, Typed, RepliesWait, SentCommands, OneEntryEach, replyVars, clientVars
  <2>2. EntriesRight' /\ Blamed' /\ AnswersAreRight' /\ OperationsRight'
    BY <1>1, <1>2 DEF IInv, EntriesRight, EntryRight, Under, KeyOf, Held, Stale, TimedOut,
       Blamed, AnswersAreRight, AnswerRight, SameSubject, OperationsRight, OperationRight,
       replyVars, clientVars
  <2>3. QED
    BY <2>1, <2>2 DEF IInv
<1>3. CASE operations' = operations \ {o} /\ Answered("pair", o.key, o)
  <2>1. "pair" \in Kinds /\ operations' \subseteq operations
    BY <1>3 DEF Kinds
  <2>2. QED
    BY <2>1, <1>1, <1>3, ResultSubject, AnsweredStep
<1>4. CASE /\ operations' = (operations \ {o}) \cup {new}
           /\ waiting' = [waiting EXCEPT !["pair"][o.key] = NoEntry, !["add"][b] = entry]
           /\ UNCHANGED <<m_asyncReplies, answers, misdirected, crashed>>
  <2>1. "pair" \in Kinds /\ "add" \in Kinds /\ b \in Keys
    BY <1>1 DEF Kinds, Keys
  <2>2. entry \in Entries /\ NoEntry \in Entries
    BY <1>1, <2>1 DEF IInv, Typed, Entries, NoEntry
  <2> HIDE DEF entry, b
  <2>3. /\ waiting' \in [Kinds -> [Keys -> Entries]]
        /\ waiting'["pair"][o.key] = NoEntry /\ waiting'["add"][b] = entry
        /\ \A k \in Kinds, x \in Keys :
              ~(k = "pair" /\ x = o.key) /\ ~(k = "add" /\ x = b) => waiting'[k][x] = waiting[k][x]
    BY <1>1, <1>4, <2>1, <2>2, ZenonT(40) DEF IInv, Typed
  <2>4. Typed' /\ RepliesWait' /\ SentCommands'
    <3>1. new \in Operations
      BY <1>1, <2>1 DEF Operations
    <3>2. Typed'
      BY <3>1, <1>1, <1>4, <2>3 DEF IInv, Typed, clientVars
    <3>3. RepliesWait' /\ SentCommands'
      BY <1>1, <1>4 DEF IInv, RepliesWait, SentCommands, clientVars
    <3>4. QED
      BY <3>2, <3>3
  <2>5. OperationsRight'
    BY <1>1, <1>4 DEF IInv, OperationsRight, OperationRight, KeyOf
  <2>6. OneEntryEach'
    <3>1. \A k \in Kinds, x \in Keys :
             entry # NoEntry /\ waiting[k][x] # NoEntry /\ waiting[k][x].for = entry.for
             => k = "pair" /\ x = o.key
      BY <1>1, <2>1 DEF IInv, OneEntryEach, entry
    <3>2. QED
      BY <3>1, <2>3, SMTT(30) DEF IInv, OneEntryEach
  <2>7. \A e : Held(e) => Held(e)'
    BY <1>1, <1>4 DEF Held, Stale, TimedOut, clientVars
  <2>8. ASSUME NEW k \in Kinds, NEW x \in Keys PROVE EntryRight(k, x)'
    <3>1. CASE k = "pair" /\ x = o.key
      BY <3>1, <2>3 DEF EntryRight
    <3>2. CASE k = "add" /\ x = b
      <4> SUFFICES ASSUME entry # NoEntry PROVE EntryRight("add", b)'
        BY <3>2, <2>3 DEF EntryRight
      <4>1. EntryRight("pair", o.key)
        BY <1>1, <2>1 DEF IInv, EntriesRight
      <4>2. /\ entry.at \in Addresses /\ entry.for \in Commands /\ sender[entry.for] # None
            /\ Under("pair", o.key, entry.for) /\ Held(entry)
        BY <4>1 DEF EntryRight, entry
      <4>3. SameSubject(b, entry.for)
        BY <1>1, ResultSubject DEF entry, b
      <4>4. /\ request[entry.for] \in Requests /\ request[entry.for].kind = "pair"
            /\ request[b] = request[entry.for]
        BY <1>1, <4>2, <4>3 DEF Under, SameSubject
      <4>5. QED
        BY <1>1, <2>3, <2>7, <4>2, <4>4 DEF EntryRight, Under
    <3>3. CASE ~(k = "pair" /\ x = o.key) /\ ~(k = "add" /\ x = b)
      <4>1. waiting'[k][x] = waiting[k][x] /\ EntryRight(k, x)
        BY <3>3, <2>3 DEF IInv, EntriesRight
      <4>2. QED
        BY <4>1, <1>1, <2>7 DEF EntryRight, Under, KeyOf
    <3>4. QED
      BY <3>1, <3>2, <3>3
  <2>9. Blamed' /\ AnswersAreRight'
    BY <1>1, <1>4 DEF IInv, Stale, TimedOut, Blamed, AnswersAreRight, AnswerRight,
       SameSubject, clientVars
  <2>10. QED
    BY <2>4, <2>5, <2>6, <2>8, <2>9 DEF IInv, EntriesRight
<1>5. QED
  BY <1>2, <1>3, <1>4 DEF PairingFinished

LEMMA StepRight == IInv /\ [Next]_vars => IInv'
<1> SUFFICES ASSUME IInv, [Next]_vars PROVE IInv'
  OBVIOUS
<1>1. ASSUME NEW c \in Clients, ClientConnected(c) \/ ClientDisconnected(c) PROVE IInv'
  BY <1>1, ClientsStep
<1>2. ASSUME NEW c \in Commands, NEW client \in SendersOf[c], NEW q \in RequestsOf[c],
             SyncCommand(c, client, q) \/ \E a \in Addresses : AsyncCommand(c, client, q, a)
      PROVE  IInv'
  <2>1. client \in Clients /\ q \in Requests
    BY JsonRpcAssumption DEF Requests
  <2>2. QED
    BY <1>2, <2>1, SyncStep, AsyncStep
<1>3. ASSUME NEW a \in Addresses, ReplyTimeout(a) PROVE IInv'
  BY <1>3, TimeoutStep
<1>4. ASSUME NEW o \in Results,
             \/ DevicesDiscovered(o) \/ DeviceSetupFinished(o)
             \/ DeviceReconfigurationFinished(o) \/ ActionExecuted(o) \/ PairingFinished(o)
      PROVE  IInv'
  BY <1>4, ResultStep, PairingStep
<1>5. CASE UNCHANGED vars
  <2>1. UNCHANGED <<clientVars, sender, request, replyVars, operations>>
    BY <1>5 DEF vars
  <2>2. Typed' /\ RepliesWait' /\ SentCommands' /\ OneEntryEach'
    BY <2>1 DEF IInv, Typed, RepliesWait, SentCommands, OneEntryEach, replyVars, clientVars
  <2>3. EntriesRight' /\ Blamed' /\ AnswersAreRight' /\ OperationsRight'
    BY <2>1, SMTT(30) DEF IInv, EntriesRight, EntryRight, Under, KeyOf, Held, Stale, TimedOut,
       Blamed, AnswersAreRight, AnswerRight, SameSubject, OperationsRight, OperationRight,
       replyVars, clientVars
  <2>4. QED
    BY <2>2, <2>3 DEF IInv
<1>6. QED
  BY <1>1, <1>2, <1>3, <1>4, <1>5 DEF Next

-----------------------------------------------------------------------------
(* Results *)

THEOREM Invariance == Spec => []IInv
BY InitRight, StepRight, PTL DEF Spec

LEMMA InvTypes == IInv => TypeOK
BY JsonRpcAssumption DEF IInv, Typed, RepliesWait, OperationsRight, OperationRight, TypeOK, Operations

LEMMA InvAnswers == IInv => AnsweredRight
<1> SUFFICES ASSUME IInv PROVE AnsweredRight
  OBVIOUS
<1> DEFINE WaitsAt(c) ==
        {a \in Addresses : m_asyncReplies[a] # None /\ m_asyncReplies[a].command = c}
<1>1. ASSUME NEW c \in Commands
      PROVE  Len(answers[c]) <= 1 /\ Cardinality(WaitsAt(c)) + Len(answers[c]) <= 1
  <2>1. Len(answers[c]) \in Nat /\ Len(answers[c]) <= 1
    BY DEF IInv, Typed, SentCommands
  <2>2. \/ Cardinality(WaitsAt(c)) = 0
        \/ Cardinality(WaitsAt(c)) = 1 /\ Len(answers[c]) = 0
    <3>1. CASE WaitsAt(c) = {}
      BY <3>1, FS_EmptySet
    <3>2. CASE WaitsAt(c) # {}
      <4>1. PICK a \in Addresses : WaitsAt(c) = {a} /\ answers[c] = <<>>
        BY <3>2 DEF IInv, RepliesWait
      <4>2. QED
        BY <4>1, FS_Singleton
    <3>3. QED
      BY <3>1, <3>2
  <2> HIDE DEF WaitsAt
  <2>3. QED
    BY <2>1, <2>2
<1>2. AnsweredOnce
  BY <1>1 DEF AnsweredOnce
<1>3. AnswersMatch
  BY DEF IInv, AnswersAreRight, AnswerRight, Blamed, Stale, AnswersMatch
<1>4. QED
  BY <1>2, <1>3 DEF AnsweredRight

\* What clients, replies and operations are fits together, in every state.
THEOREM TypeCorrect == Spec => []TypeOK
BY Invariance, InvTypes, PTL

\* Every command is answered at most once, and with what it began or with an operation
\* on the same subject, as long as no reply was finished by its timer: the handlers'
\* hashes and JsonRPCServer::asyncReplyFinished.
THEOREM AnsweredRightCorrect == Spec => []AnsweredRight
BY Invariance, InvAnswers, PTL

=============================================================================
