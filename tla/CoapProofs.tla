----------------------------- MODULE CoapProofs -----------------------------
(***************************************************************************)
(* Safety of the CoAP client, for all requests, urls and limits.           *)
(*                                                                         *)
(* The client serves one request at a time (QueueRight), a datagram carries*)
(* the token and the message id of the request it belongs to (SentRight,   *)
(* MessagesRight), and while nothing but losses and repetitions disturbs an*)
(* exchange its last message or one answer to it are all that is under way *)
(* (Exchange).  A datagram may strike the current request while its host is*)
(* looked up; what is left of a struck request disturbs no other           *)
(* (StruckRight) as long as its lookup has not returned (Kept).            *)
(***************************************************************************)
EXTENDS Coap, SequenceTheorems, TLAPS

SentOK(m) ==
    /\ m.dst = "server" /\ m.req \in Requests
    /\ m.id \in Nat \X Nat /\ m.num \in Nat

AnswerOK(m) ==
    /\ m.dst = "client" /\ m.req \in Requests /\ m.num \in Nat \cup {-1}
    /\ m.type = "Ack" => m.id \in Nat \X Nat /\ m.num \in Nat

\* What is looked up or waits was requested.
Asked ==
    /\ \A r \in m_runningHostLookups : kind[r] # None
    /\ \A i \in 1..Len(m_replyQueue) : kind[m_replyQueue[i]] # None

Typed ==
    /\ m_reply \in Requests \cup {None}
    /\ m_replyQueue \in Seq(Requests)
    /\ m_runningHostLookups \subseteq Requests
    /\ m_observeResources \in [Requests -> Urls \cup {None}]
    /\ DOMAIN kind = Requests /\ \A r \in Requests : kind[r] \in KindsOf[r] \cup {None}
    /\ messageId \in [Requests -> Nat \X Nat]
    /\ token \in [Requests -> Requests \cup {None}]
    /\ DOMAIN requestData = Requests
    /\ timer \in [Requests -> BOOLEAN]
    /\ \A r \in Requests : timer[r] => SentOK(requestData[r])
    /\ retransmissions \in [Requests -> Nat]
    /\ payload \in [Requests -> Seq(Pieces)]
    /\ DOMAIN statusCode = Requests /\ DOMAIN error = Requests
    /\ finished \in [Requests -> Nat]
    /\ observes \in [Requests -> {"no", "enable", "disable"}]
    /\ DOMAIN stored = Requests
    /\ struck \subseteq Requests
    /\ \A m \in net : SentOK(m) \/ AnswerOK(m)
    /\ Asked

\* The queue holds requests that wait for their first turn; only the host of the
\* current request is looked up, and those of the struck ones.
QueueRight ==
    /\ m_reply = None => m_replyQueue = <<>>
    /\ m_reply # None => kind[m_reply] # None /\ finished[m_reply] = 0
    /\ \A i \in 1..Len(m_replyQueue) :
          /\ m_replyQueue[i] # m_reply /\ kind[m_replyQueue[i]] # None
          /\ finished[m_replyQueue[i]] = 0 /\ token[m_replyQueue[i]] = None
    /\ \A i, j \in 1..Len(m_replyQueue) : i # j => m_replyQueue[i] # m_replyQueue[j]
    /\ m_runningHostLookups \subseteq {m_reply} \cup struck
    /\ \A r \in Requests : kind[r] = None => finished[r] = 0 /\ token[r] = None

\* A message of request r on its way to the server.
IsSentFor(m, r) ==
    /\ m.dst = "server" /\ m.req = r /\ m.token = token[r]
    /\ m.id \in Nat \X Nat /\ m.id[1] = r
    /\ m.num \in Nat /\ (kind[r].method = "Put" => m.num < kind[r].blocks)

\* A request has a token when it was sent: the current one once its host is known.
\* The token is its own, but for the end of an observation.
SentRight(r) ==
    /\ timer[r] => r = m_reply /\ token[r] # None
    /\ r = m_reply => (r \in m_runningHostLookups <=> token[r] = None)
    /\ token[r] # None =>
          /\ r = m_reply \/ finished[r] > 0
          /\ messageId[r] = requestData[r].id /\ IsSentFor(requestData[r], r)
          /\ token[r] # r => observes[r] = "disable" /\ finished[token[r]] > 0
    /\ token[r] = None => payload[r] = <<>> /\ stored[r] = {}
    /\ m_observeResources[r] # None => token[r] = r
    /\ r \in observers => token[r] = r /\ observes[r] = "enable"
    /\ kind[r] # None /\ kind[r].method = "Put" => stored[r] \subseteq 0..(kind[r].blocks - 1)

\* An answer to a message of request r, or a notification.
IsAnswerFor(m, r) ==
    /\ m.dst = "client" /\ m.req = r /\ m.num \in Nat \cup {-1}
    /\ m.token \in {None, token[r]}
    /\ m.id[1] \in {0, r} /\ (m.id[1] = r => m.id \in Nat \X Nat)
    /\ m.block # "none" => m.token = token[r] /\ m.num \in Nat
    /\ m.block = "Block2" => kind[r].method = "Get"

\* Whatever is under way belongs to a request that was sent.
MessagesRight ==
    \A m \in net :
        /\ m.req \in Requests /\ token[m.req] # None
        /\ IsSentFor(m, m.req) \/ IsAnswerFor(m, m.req)

Mine(r) == {m \in net : m.req = r}

\* Of an exchange that is not disturbed, the last message sent or one answer to it
\* is under way; the blocks before the current one have been moved.
Exchange(r) ==
    LET q == requestData[r] IN
    /\ \/ Mine(r) \subseteq {q}
       \/ \E A \in Answers(q) : /\ Mine(r) \subseteq A
                                /\ \A a \in A : ~(a.id[1] = 0 /\ a.block = "Block2")
    /\ kind[r].method = "Put" =>
          /\ 0..(q.num - 1) \subseteq stored[r]
          /\ \A m \in Mine(r) : m.dst = "client" /\ m.code = "Content" => q.num \in stored[r]
    /\ kind[r].method = "Get" =>
          /\ q.num < kind[r].blocks
          /\ payload[r] = [i \in 1..q.num |-> Piece(r, i - 1)]

Undisturbed(r) ==
    /\ token[r] # None /\ finished[r] = 0 /\ r \notin disturbed
    /\ kind[r].type = "Con" /\ observes[r] = "no"

\* What a finished reply carries: AnswersBelong and TransfersComplete of one request.
Belongs(r) ==
    observes[r] # "disable" => \A i \in DOMAIN payload[r] : payload[r][i].of = r

Complete(r) ==
    /\ finished[r] > 0 /\ error[r] = "NoError" /\ statusCode[r] = "Content"
    /\ kind[r].type = "Con" /\ observes[r] = "no"
    => CASE kind[r].method = "Put" -> stored[r] = 0..(kind[r].blocks - 1)
         [] kind[r].method = "Get" ->
                payload[r] = [i \in 1..kind[r].blocks |-> Piece(r, i - 1)]
         [] OTHER -> TRUE

RequestRight(r) ==
    /\ SentRight(r) /\ Belongs(r)
    /\ Undisturbed(r) => Exchange(r)
    /\ r \notin disturbed => Complete(r)

\* A struck request was not sent, and is current or has finished.
StruckRight(r) ==
    /\ r \in m_runningHostLookups /\ token[r] = None /\ kind[r] # None
    /\ r = m_reply \/ finished[r] > 0
    /\ timer[r] => r = m_reply
    /\ m_observeResources[r] = None /\ r \notin observers

RightFor(r) ==
    /\ r \in struck => StruckRight(r)
    /\ r \notin struck => RequestRight(r)

IInv ==
    /\ Typed /\ QueueRight /\ MessagesRight
    /\ \A r \in Requests : RightFor(r)

-----------------------------------------------------------------------------
(* The types, in every state *)

LEMMA RequestFacts ==
    /\ None \notin Requests
    /\ \A r \in Requests : r \in Nat /\ r > 0
BY CoapAssumption DEF Requests

LEMMA FinishTypes ==
    ASSUME Typed, NEW r \in Requests, NEW lookups \in SUBSET m_runningHostLookups,
           SetFinished(r, lookups), UNCHANGED kind
    PROVE  /\ m_reply' \in Requests \cup {None} /\ m_replyQueue' \in Seq(Requests)
           /\ m_runningHostLookups' \subseteq Requests
           /\ finished' \in [Requests -> Nat] /\ timer' \in [Requests -> BOOLEAN]
           /\ \A x \in Requests : timer'[x] => timer[x]
           /\ Asked'
<1>1. finished' \in [Requests -> Nat] /\ timer' \in [Requests -> BOOLEAN]
  BY DEF SetFinished, Typed
<1>2. \A x \in Requests : timer'[x] => timer[x]
  BY DEF SetFinished, Typed
<1>3. CASE m_replyQueue = <<>>
  BY <1>1, <1>2, <1>3 DEF SetFinished, Typed, Asked
<1>4. CASE m_replyQueue # <<>>
  <2>0. m_replyQueue \in Seq(Requests) /\ \A i \in 1..Len(m_replyQueue) : m_replyQueue[i] \in Requests
    BY DEF Typed
  <2>1. /\ Head(m_replyQueue) \in Requests /\ Tail(m_replyQueue) \in Seq(Requests)
        /\ Len(m_replyQueue) \in Nat \ {0} /\ Head(m_replyQueue) = m_replyQueue[1]
        /\ Len(Tail(m_replyQueue)) = Len(m_replyQueue) - 1
        /\ \A i \in 1..(Len(m_replyQueue) - 1) : Tail(m_replyQueue)[i] = m_replyQueue[i + 1]
    BY <1>4, <2>0
  <2>2. /\ m_reply' = m_replyQueue[1] /\ m_replyQueue' = Tail(m_replyQueue)
        /\ m_runningHostLookups' = lookups \cup {m_replyQueue[1]}
    BY <1>4, <2>1 DEF SetFinished
  <2>3. kind[m_replyQueue[1]] # None /\ \A x \in lookups : kind[x] # None
    BY <2>1, SMTT(40) DEF Typed, Asked
  <2>4. \A i \in 1..Len(m_replyQueue') : kind[m_replyQueue'[i]] # None
    <3> SUFFICES ASSUME NEW i \in 1..Len(m_replyQueue') PROVE kind[m_replyQueue'[i]] # None
      OBVIOUS
    <3>1. m_replyQueue'[i] = m_replyQueue[i + 1] /\ i + 1 \in 1..Len(m_replyQueue)
      BY <2>1, <2>2
    <3>2. QED
      BY <3>1 DEF Typed, Asked
  <2>5. Asked'
    BY <2>2, <2>3, <2>4 DEF Asked
  <2>6. m_runningHostLookups' \subseteq Requests
    BY <2>1, <2>2 DEF Typed
  <2>7. QED
    BY <1>1, <1>2, <2>1, <2>2, <2>5, <2>6
<1>5. QED
  BY <1>3, <1>4

LEMMA RequestTypes ==
    ASSUME Typed, NEW r \in Requests, NEW k \in KindsOf[r], Request(r, k)
    PROVE  Typed'
<1>1. /\ kind' = [kind EXCEPT ![r] = k] /\ UNCHANGED messageId
      /\ UNCHANGED token /\ UNCHANGED requestData /\ UNCHANGED timer
      /\ UNCHANGED retransmissions /\ UNCHANGED payload /\ UNCHANGED statusCode
      /\ UNCHANGED observes /\ UNCHANGED net /\ UNCHANGED stored
      /\ UNCHANGED m_observeResources /\ UNCHANGED struck
  BY DEF Request, envVars, coapVars, pastVars
<1>2. /\ m_reply' \in Requests \cup {None} /\ m_runningHostLookups' \subseteq Requests
      /\ m_replyQueue' \in Seq(Requests)
  <2>1. m_replyQueue \in Seq(Requests) /\ Append(m_replyQueue, r) \in Seq(Requests)
    BY DEF Typed
  <2>2. QED
    BY <2>1 DEF Request, Typed, coapVars
<1>3. DOMAIN error' = Requests /\ finished' \in [Requests -> Nat]
  <2>1. /\ DOMAIN error = Requests /\ DOMAIN [error EXCEPT ![r] = "InvalidUrlSchemeError"] = Requests
        /\ finished \in [Requests -> Nat] /\ [finished EXCEPT ![r] = 1] \in [Requests -> Nat]
    BY DEF Typed
  <2>2. \/ error' = [error EXCEPT ![r] = "InvalidUrlSchemeError"]
           /\ finished' = [finished EXCEPT ![r] = 1]
        \/ error' = error /\ finished' = finished
    BY DEF Request
  <2>3. QED
    BY <2>1, <2>2
<1>4. DOMAIN kind' = Requests /\ \A x \in Requests : kind'[x] \in KindsOf[x] \cup {None}
  BY <1>1 DEF Typed
<1>5. Asked'
  <2>1. k # None
    BY CoapAssumption DEF Requests
  <2>2. \A x \in Requests : kind[x] # None => kind'[x] # None
    BY <1>1, <2>1 DEF Typed
  <2>3. \A x \in m_runningHostLookups' : kind'[x] # None
    BY <1>1, <2>1, <2>2 DEF Request, Typed, Asked, coapVars
  <2>4. CASE m_replyQueue' = m_replyQueue
    <3>0. m_replyQueue \in Seq(Requests)
      BY DEF Typed
    <3>1. \A i \in 1..Len(m_replyQueue) : m_replyQueue[i] \in Requests
      BY <3>0
    <3>2. \A i \in 1..Len(m_replyQueue) : kind'[m_replyQueue[i]] # None
      BY <2>2, <3>1 DEF Typed, Asked
    <3>3. QED
      BY <2>3, <2>4, <3>2 DEF Asked
  <2>5. CASE m_replyQueue' = Append(m_replyQueue, r)
    <3>1. /\ Len(m_replyQueue) \in Nat /\ Len(m_replyQueue') = Len(m_replyQueue) + 1
          /\ \A i \in 1..Len(m_replyQueue) :
                m_replyQueue'[i] = m_replyQueue[i] /\ m_replyQueue[i] \in Requests
          /\ m_replyQueue'[Len(m_replyQueue) + 1] = r
      BY <2>5 DEF Typed
    <3>2. \A i \in 1..Len(m_replyQueue') :
              i \in 1..Len(m_replyQueue) \/ i = Len(m_replyQueue) + 1
      BY <3>1
    <3>3. kind'[r] # None
      BY <1>1, <2>1 DEF Typed
    <3>4. \A i \in 1..Len(m_replyQueue') : kind'[m_replyQueue'[i]] # None
      BY <2>2, <3>1, <3>2, <3>3 DEF Typed, Asked
    <3>5. QED
      BY <2>3, <3>4 DEF Asked
  <2>6. QED
    BY <2>4, <2>5 DEF Request, coapVars
<1>6. QED
  BY <1>1, <1>2, <1>3, <1>4, <1>5 DEF Typed

LEMMA SendTypes ==
    ASSUME Typed, NEW r \in Requests, NEW lookups \in SUBSET m_runningHostLookups, SendRequest(r, lookups),
           UNCHANGED kind, UNCHANGED retransmissions, UNCHANGED payload, UNCHANGED statusCode,
           UNCHANGED stored, UNCHANGED struck, kind[r] # None
    PROVE  Typed'
<1>1. KindOK(kind[r])
  BY CoapAssumption DEF Typed, Requests
<1>2. PICK obs \in Observing(kind[r]) : \E t \in TokensFor(r, obs) :
        /\ observes' = [observes EXCEPT ![r] = obs]
        /\ token' = [token EXCEPT ![r] = t]
        /\ messageId' = [messageId EXCEPT ![r] = <<r, 1>>]
        /\ requestData' = [requestData EXCEPT ![r] = FirstBlock(r, t)]
        /\ net' = net \cup {FirstBlock(r, t)}
        /\ m_observeResources' =
              CASE obs = "enable"  -> [m_observeResources EXCEPT ![t] = kind[r].url]
                [] obs = "disable" -> [m_observeResources EXCEPT ![t] = None]
                [] OTHER           -> m_observeResources
        /\ UNCHANGED error
  BY DEF SendRequest
<1>3. PICK t \in TokensFor(r, obs) :
        /\ observes' = [observes EXCEPT ![r] = obs]
        /\ token' = [token EXCEPT ![r] = t]
        /\ messageId' = [messageId EXCEPT ![r] = <<r, 1>>]
        /\ requestData' = [requestData EXCEPT ![r] = FirstBlock(r, t)]
        /\ net' = net \cup {FirstBlock(r, t)}
        /\ m_observeResources' =
              CASE obs = "enable"  -> [m_observeResources EXCEPT ![t] = kind[r].url]
                [] obs = "disable" -> [m_observeResources EXCEPT ![t] = None]
                [] OTHER           -> m_observeResources
        /\ UNCHANGED error
  BY <1>2
<1>4. t \in Requests
  BY DEF TokensFor
<1>5. obs \in {"no", "enable", "disable"} /\ kind[r].url \in Urls
  BY <1>1 DEF Observing, KindOK
<1>6. /\ observes' \in [Requests -> {"no", "enable", "disable"}]
      /\ token' \in [Requests -> Requests \cup {None}]
      /\ DOMAIN requestData' = Requests /\ DOMAIN error' = Requests
  BY <1>3, <1>4, <1>5 DEF Typed
<1>7. messageId' \in [Requests -> Nat \X Nat]
  <2>1. <<r, 1>> \in Nat \X Nat
    BY RequestFacts
  <2>2. QED
    BY <1>3, <2>1 DEF Typed
<1>8. m_observeResources' \in [Requests -> Urls \cup {None}]
  <2>1. /\ [m_observeResources EXCEPT ![t] = kind[r].url] \in [Requests -> Urls \cup {None}]
        /\ [m_observeResources EXCEPT ![t] = None] \in [Requests -> Urls \cup {None}]
        /\ m_observeResources \in [Requests -> Urls \cup {None}]
    BY <1>4, <1>5 DEF Typed
  <2>2. QED
    BY <1>3, <2>1
<1>9. SentOK(FirstBlock(r, t))
  BY RequestFacts DEF FirstBlock, ToServer, SentOK
<1>10. \A m \in net' : SentOK(m) \/ AnswerOK(m)
  BY <1>3, <1>9 DEF Typed
<1>11. /\ m_reply' \in Requests \cup {None} /\ m_replyQueue' \in Seq(Requests)
       /\ m_runningHostLookups' \subseteq Requests
       /\ finished' \in [Requests -> Nat] /\ timer' \in [Requests -> BOOLEAN]
       /\ \A x \in Requests : timer'[x] => timer[x] \/ x = r
       /\ Asked'
  <2>1. CASE SetFinished(r, lookups)
    BY <2>1, FinishTypes
  <2>2. CASE /\ timer' = [timer EXCEPT ![r] = TRUE] /\ m_runningHostLookups' = lookups
             /\ UNCHANGED <<m_reply, m_replyQueue, finished>>
    BY <2>2 DEF Typed, Asked
  <2>3. QED
    BY <2>1, <2>2 DEF SendRequest
<1>12. \A x \in Requests : timer'[x] => SentOK(requestData'[x])
  BY <1>3, <1>9, <1>11 DEF Typed
<1>13. QED
  BY <1>6, <1>7, <1>8, <1>10, <1>11, <1>12 DEF Typed

LEMMA LookupTypes ==
    ASSUME Typed, NEW r \in Requests, HostLookupFinished(r)
    PROVE  Typed'
<1> DEFINE lookups == m_runningHostLookups \ {r}
<1>1. /\ UNCHANGED kind /\ UNCHANGED retransmissions /\ UNCHANGED payload
      /\ UNCHANGED statusCode /\ UNCHANGED stored /\ UNCHANGED struck
      /\ lookups \in SUBSET m_runningHostLookups /\ r \in m_runningHostLookups
  BY DEF HostLookupFinished, Typed
<1>2. kind[r] # None
  BY <1>1 DEF Typed, Asked
<1>3. CASE SendRequest(r, lookups)
  <2> HIDE DEF lookups
  <2>1. QED
    BY <1>1, <1>2, <1>3, SendTypes
<1>4. CASE /\ error' = [error EXCEPT ![r] = "HostNotFoundError"] /\ SetFinished(r, lookups)
           /\ UNCHANGED <<m_observeResources, messageId, token, requestData, observes, net>>
  <2> HIDE DEF lookups
  <2>1. /\ m_reply' \in Requests \cup {None} /\ m_replyQueue' \in Seq(Requests)
        /\ m_runningHostLookups' \subseteq Requests
        /\ finished' \in [Requests -> Nat] /\ timer' \in [Requests -> BOOLEAN]
        /\ \A x \in Requests : timer'[x] => timer[x]
        /\ Asked'
    BY <1>1, <1>4, FinishTypes
  <2>2. DOMAIN error' = Requests
    BY <1>4 DEF Typed
  <2>3. QED
    BY <1>1, <1>4, <2>1, <2>2 DEF Typed
<1>5. QED
  BY <1>3, <1>4 DEF HostLookupFinished

LEMMA TimeoutTypes ==
    ASSUME Typed, NEW r \in Requests, Timeout(r)
    PROVE  Typed'
<1>1. /\ retransmissions' = [retransmissions EXCEPT ![r] = @ + 1]
      /\ net' = net \cup Written(r, requestData[r]) /\ timer[r]
      /\ UNCHANGED m_observeResources /\ UNCHANGED kind /\ UNCHANGED messageId
      /\ UNCHANGED token /\ UNCHANGED requestData /\ UNCHANGED payload /\ UNCHANGED statusCode
      /\ UNCHANGED observes /\ UNCHANGED stored /\ UNCHANGED struck
  BY DEF Timeout, pastVars
<1>2. \A m \in net' : SentOK(m) \/ AnswerOK(m)
  BY <1>1 DEF Typed, Written
<1>3. retransmissions' \in [Requests -> Nat]
  BY <1>1 DEF Typed
<1>4. CASE UNCHANGED <<m_reply, m_replyQueue, m_runningHostLookups, timer, error, finished>>
  BY <1>1, <1>2, <1>3, <1>4 DEF Typed, Asked
<1>5. CASE /\ error' = [error EXCEPT ![r] = "TimeoutError"]
           /\ SetFinished(r, m_runningHostLookups)
  <2>1. /\ m_reply' \in Requests \cup {None} /\ m_replyQueue' \in Seq(Requests)
        /\ m_runningHostLookups' \subseteq Requests
        /\ finished' \in [Requests -> Nat] /\ timer' \in [Requests -> BOOLEAN]
        /\ \A x \in Requests : timer'[x] => timer[x]
        /\ Asked'
    BY <1>1, <1>5, FinishTypes
  <2>2. DOMAIN error' = Requests
    BY <1>5 DEF Typed
  <2>3. QED
    BY <1>1, <1>2, <1>3, <2>1, <2>2 DEF Typed
<1>6. QED
  BY <1>4, <1>5 DEF Timeout

LEMMA InvalidTypes ==
    ASSUME Typed, InvalidDatagram
    PROVE  Typed'
<1>0. PICK r \in Requests : r = m_reply
  BY DEF InvalidDatagram, Typed
<1>1. /\ SetFinished(r, m_runningHostLookups) /\ error' = [error EXCEPT ![r] = "InvalidPduError"]
      /\ UNCHANGED m_observeResources /\ UNCHANGED kind /\ UNCHANGED messageId
      /\ UNCHANGED token /\ UNCHANGED requestData /\ UNCHANGED payload /\ UNCHANGED statusCode
      /\ UNCHANGED observes /\ UNCHANGED stored /\ UNCHANGED retransmissions /\ UNCHANGED net
      /\ struck' \subseteq struck \cup {r}
  BY <1>0 DEF InvalidDatagram, envVars, Strikes
<1>2. /\ m_reply' \in Requests \cup {None} /\ m_replyQueue' \in Seq(Requests)
      /\ m_runningHostLookups' \subseteq Requests
      /\ finished' \in [Requests -> Nat] /\ timer' \in [Requests -> BOOLEAN]
      /\ \A x \in Requests : timer'[x] => timer[x]
      /\ Asked'
  BY <1>1, FinishTypes
<1>3. DOMAIN error' = Requests
  BY <1>1 DEF Typed
<1>4. QED
  BY <1>1, <1>2, <1>3 DEF Typed

LEMMA DeliveredTypes ==
    ASSUME Typed, NEW m \in net, NEW sent, Delivered(m, sent), \A x \in sent : SentOK(x)
    PROVE  \A x \in net' : SentOK(x) \/ AnswerOK(x)
BY DEF Delivered, Typed

\* What an answer changes: it ends the current request or the next block is sent.
LEMMA AnsweredTypes ==
    ASSUME Typed, NEW r \in Requests, r = m_reply, NEW m \in net, m.dst = "client",
           \/ FinishWith(m)
           \/ m.type = "Ack" /\ \E more : SendNextBlock(m, m.num + 1, more),
           payload' \in [Requests -> Seq(Pieces)], retransmissions' \in [Requests -> Nat],
           Strikes, UNCHANGED m_observeResources, UNCHANGED kind, UNCHANGED token,
           UNCHANGED error, UNCHANGED observes, UNCHANGED stored
    PROVE  Typed'
<1>1. struck' \subseteq Requests
  BY DEF Strikes, Typed
<1>2. CASE FinishWith(m)
  <2>1. /\ statusCode' = [statusCode EXCEPT ![r] = m.code] /\ Delivered(m, {})
        /\ SetFinished(r, m_runningHostLookups)
        /\ UNCHANGED requestData /\ UNCHANGED messageId
    BY <1>2 DEF FinishWith
  <2>2. /\ m_reply' \in Requests \cup {None} /\ m_replyQueue' \in Seq(Requests)
        /\ m_runningHostLookups' \subseteq Requests
        /\ finished' \in [Requests -> Nat] /\ timer' \in [Requests -> BOOLEAN]
        /\ \A x \in Requests : timer'[x] => timer[x]
        /\ Asked'
    BY <2>1, FinishTypes
  <2>3. \A x \in net' : SentOK(x) \/ AnswerOK(x)
    BY <2>1, DeliveredTypes
  <2>4. DOMAIN statusCode' = Requests
    BY <2>1 DEF Typed
  <2>5. QED
    BY <1>1, <2>1, <2>2, <2>3, <2>4 DEF Typed
<1>3. ASSUME m.type = "Ack", NEW more, SendNextBlock(m, m.num + 1, more) PROVE Typed'
  <2>1. AnswerOK(m)
    BY DEF Typed, SentOK
  <2>2. PICK q : q = ToServer(<<m.id[1], m.id[2] + 1>>, m.token, r, m.num + 1, more)
    OBVIOUS
  <2>3. SentOK(q) /\ q.id \in Nat \X Nat
    BY <1>3, <2>1, <2>2 DEF AnswerOK, SentOK, ToServer
  <2>4. /\ requestData' = [requestData EXCEPT ![r] = q]
        /\ messageId' = [messageId EXCEPT ![r] = q.id]
        /\ timer' = [timer EXCEPT ![r] = TRUE]
        /\ Delivered(m, Written(r, q))
        /\ UNCHANGED m_reply /\ UNCHANGED m_replyQueue /\ UNCHANGED m_runningHostLookups
        /\ UNCHANGED statusCode /\ UNCHANGED finished
    BY <1>3, <2>2 DEF SendNextBlock
  <2>5. \A x \in Written(r, q) : SentOK(x)
    BY <2>3 DEF Written
  <2>6. \A x \in net' : SentOK(x) \/ AnswerOK(x)
    BY <2>4, <2>5, DeliveredTypes
  <2>7. /\ messageId' \in [Requests -> Nat \X Nat] /\ timer' \in [Requests -> BOOLEAN]
        /\ DOMAIN requestData' = Requests
    BY <2>3, <2>4 DEF Typed
  <2>8. \A x \in Requests : timer'[x] => SentOK(requestData'[x])
    BY <2>3, <2>4 DEF Typed
  <2>9. QED
    BY <1>1, <2>4, <2>6, <2>7, <2>8 DEF Typed, Asked
<1>4. QED
  BY <1>2, <1>3

LEMMA AppendTypes ==
    ASSUME Typed, NEW r \in Requests, NEW m \in net, m.dst = "client", Append64(r, m)
    PROVE  payload' \in [Requests -> Seq(Pieces)] /\ retransmissions' \in [Requests -> Nat]
<1> DEFINE piece == [of |-> m.req, num |-> m.num]
<1>1. AnswerOK(m)
  BY DEF Typed, SentOK
<1>2. piece \in Pieces
  BY <1>1 DEF AnswerOK, Pieces
<1>3. payload' = [payload EXCEPT ![r] = Append(payload[r], piece)]
  BY DEF Append64
<1> HIDE DEF piece
<1>4. Append(payload[r], piece) \in Seq(Pieces)
  BY <1>2 DEF Typed
<1>5. QED
  BY <1>3, <1>4 DEF Append64, Typed

LEMMA AnswerTypes ==
    ASSUME Typed, NEW m \in net,
           \/ Block1Response(m) \/ Block2Response(m)
           \/ PiggybackedResponse(m) \/ SeparateResponse(m)
    PROVE  Typed'
<1>0. PICK r \in Requests : r = m_reply
  BY DEF Block1Response, Block2Response, PiggybackedResponse, SeparateResponse, AnswersById,
         AnswersByToken, Typed
<1>1. /\ m.dst = "client" /\ Strikes
      /\ UNCHANGED m_observeResources /\ UNCHANGED kind /\ UNCHANGED token
      /\ UNCHANGED error /\ UNCHANGED observes /\ UNCHANGED stored
  BY DEF Block1Response, Block2Response, PiggybackedResponse, SeparateResponse
<1>2. \/ FinishWith(m)
      \/ m.type = "Ack" /\ \E more : SendNextBlock(m, m.num + 1, more)
  BY DEF Block1Response, Block2Response, PiggybackedResponse, SeparateResponse
<1>3. payload' \in [Requests -> Seq(Pieces)] /\ retransmissions' \in [Requests -> Nat]
  <2>1. CASE Append64(r, m)
    BY <1>1, <2>1, AppendTypes
  <2>2. CASE /\ UNCHANGED payload
             /\ UNCHANGED retransmissions \/ retransmissions' = [retransmissions EXCEPT ![r] = 1]
    <3>1. /\ retransmissions \in [Requests -> Nat] /\ payload \in [Requests -> Seq(Pieces)]
          /\ [retransmissions EXCEPT ![r] = 1] \in [Requests -> Nat]
      BY DEF Typed
    <3>2. QED
      BY <2>2, <3>1
  <2>3. QED
    BY <1>0, <2>1, <2>2
    DEF Block1Response, Block2Response, PiggybackedResponse, SeparateResponse
<1>4. QED
  BY <1>0, <1>1, <1>2, <1>3, AnsweredTypes

\* Steps that leave the current request and the queue alone.
LEMMA NetworkTypes ==
    ASSUME Typed, UNCHANGED coapVars, UNCHANGED kind, UNCHANGED messageId, UNCHANGED token,
           UNCHANGED requestData, UNCHANGED retransmissions, UNCHANGED payload,
           UNCHANGED statusCode, UNCHANGED error, UNCHANGED finished, UNCHANGED observes,
           UNCHANGED struck, timer' \in [Requests -> BOOLEAN],
           \A x \in Requests : timer'[x] => timer[x], DOMAIN stored' = Requests,
           \A m \in net' : SentOK(m) \/ AnswerOK(m)
    PROVE  Typed'
BY DEF Typed, Asked, coapVars

LEMMA HeardTypes ==
    ASSUME Typed, NEW m \in net, EmptyAck(m) \/ NotForReply(m) \/ Lose(m)
    PROVE  Typed'
<1>1. /\ UNCHANGED coapVars /\ UNCHANGED kind /\ UNCHANGED messageId /\ UNCHANGED token
      /\ UNCHANGED requestData /\ UNCHANGED retransmissions /\ UNCHANGED payload
      /\ UNCHANGED statusCode /\ UNCHANGED error /\ UNCHANGED finished /\ UNCHANGED observes
      /\ UNCHANGED stored /\ UNCHANGED struck
      /\ UNCHANGED timer \/ timer' = [timer EXCEPT ![m_reply] = FALSE]
  BY DEF EmptyAck, NotForReply, Lose, replyVars, pastVars
<1>2. net' \subseteq net
  BY DEF EmptyAck, NotForReply, Lose, Delivered
<1>3. QED
  BY <1>1, <1>2, NetworkTypes DEF Typed

LEMMA ServerTypes ==
    ASSUME Typed, NEW m \in net, ServerAnswers(m)
    PROVE  Typed'
<1>1. /\ UNCHANGED coapVars /\ UNCHANGED kind /\ UNCHANGED messageId /\ UNCHANGED token
      /\ UNCHANGED requestData /\ UNCHANGED retransmissions /\ UNCHANGED payload
      /\ UNCHANGED statusCode /\ UNCHANGED error /\ UNCHANGED finished /\ UNCHANGED observes
      /\ UNCHANGED timer /\ UNCHANGED struck /\ m.dst = "server"
  BY DEF ServerAnswers, replyVars, pastVars
<1>2. PICK answer \in Answers(m) :
        /\ net' = (net \ {m}) \cup answer
        /\ stored' = IF \E a \in answer : a.code = "Content"
                     THEN [stored EXCEPT ![m.req] = @ \cup {m.num}] ELSE stored
  BY DEF ServerAnswers
<1>3. SentOK(m)
  BY <1>1 DEF Typed, AnswerOK
<1>4. \A a \in answer : AnswerOK(a)
  <2> SUFFICES ASSUME NEW a \in answer PROVE AnswerOK(a)
    OBVIOUS
  <2> DEFINE k == kind[m.req]
             blocks == k.blocks > 1
             ack(code, block, more) == ToClient(m.id, m.token, m.req, "Ack", code, block, m.num, more)
             own(type) == ToClient(<<0, m.req>>, m.token, m.req, type, "Content",
                                   IF k.method = "Get" /\ blocks THEN "Block2" ELSE "none",
                                   m.num, blocks)
             note(type) == ToClient(m.id, None, m.req, type, "Empty", "none", 0, FALSE)
  <2>1. \/ answer = {own("Non")}
        \/ answer = {note("Rst")}
        \/ answer \in {{ack("Content", "Block1", m.more)}, {ack("Refused", "none", FALSE)}}
        \/ answer = {ack("Content", "Block2", m.num + 1 < k.blocks)}
        \/ answer = {note("Ack"), own("Con")}
        \/ answer = {ack("Content", "none", FALSE)}
    BY DEF Answers
  <2>2. AnswerOK(own("Non")) /\ AnswerOK(own("Con"))
    BY <1>3 DEF ToClient, AnswerOK, SentOK
  <2>3. AnswerOK(note("Ack")) /\ AnswerOK(note("Rst"))
    BY <1>3 DEF ToClient, AnswerOK, SentOK
  <2>4. /\ AnswerOK(ack("Content", "Block1", m.more)) /\ AnswerOK(ack("Refused", "none", FALSE))
        /\ AnswerOK(ack("Content", "Block2", m.num + 1 < k.blocks))
        /\ AnswerOK(ack("Content", "none", FALSE))
    BY <1>3 DEF ToClient, AnswerOK, SentOK
  <2> HIDE DEF ack, own, note
  <2>5. QED
    BY <2>1, <2>2, <2>3, <2>4
<1>5. DOMAIN stored' = Requests
  BY <1>2 DEF Typed
<1>6. \A x \in net' : SentOK(x) \/ AnswerOK(x)
  BY <1>2, <1>4 DEF Typed
<1>7. timer' \in [Requests -> BOOLEAN] /\ \A x \in Requests : timer'[x] => timer[x]
  BY <1>1 DEF Typed
<1>8. QED
  BY <1>1, <1>5, <1>6, <1>7, NetworkTypes

LEMMA NotifyTypes ==
    ASSUME Typed, NEW t \in Requests, Notify(t)
    PROVE  Typed'
<1>1. /\ UNCHANGED coapVars /\ UNCHANGED kind /\ UNCHANGED messageId /\ UNCHANGED token
      /\ UNCHANGED requestData /\ UNCHANGED retransmissions /\ UNCHANGED payload
      /\ UNCHANGED statusCode /\ UNCHANGED error /\ UNCHANGED finished /\ UNCHANGED observes
      /\ UNCHANGED timer /\ UNCHANGED struck /\ UNCHANGED stored
  BY DEF Notify, replyVars, pastVars
<1>2. AnswerOK(ToClient(<<0, -t>>, t, t, "Con", "Content", "none", -1, FALSE))
  BY DEF ToClient, AnswerOK
<1>3. \A x \in net' : SentOK(x) \/ AnswerOK(x)
  BY <1>2 DEF Notify, Typed
<1>4. /\ timer' \in [Requests -> BOOLEAN] /\ \A x \in Requests : timer'[x] => timer[x]
      /\ DOMAIN stored' = Requests
  BY <1>1 DEF Typed
<1>5. QED
  BY <1>1, <1>3, <1>4, NetworkTypes

\* Every step keeps the types.
LEMMA TypesStep == Typed /\ [Next]_vars => Typed'
<1> SUFFICES ASSUME Typed, [Next]_vars PROVE Typed'
  OBVIOUS
<1>1. CASE UNCHANGED vars
  BY <1>1 DEF vars, coapVars, replyVars, envVars, pastVars, Typed, Asked
<1>2. CASE Next
  BY <1>2, RequestTypes, LookupTypes, TimeoutTypes, InvalidTypes, AnswerTypes, HeardTypes,
     ServerTypes, NotifyTypes
  DEF Next
<1>3. QED
  BY <1>1, <1>2

-----------------------------------------------------------------------------
(* Facts about requests and messages *)

\* What a request asks for.
LEMMA KindFacts ==
    ASSUME Typed, NEW r \in Requests, kind[r] # None
    PROVE  KindOK(kind[r])
BY CoapAssumption DEF Typed, Requests

LEMMA AnswersStay ==
    ASSUME NEW q, kind'[q.req] = kind[q.req]
    PROVE  Answers(q)' = Answers(q)
BY DEF Answers, ToClient

\* A request of which nothing changes but the retransmission timer, which may stop, stays
\* right.
LEMMA RequestStays ==
    ASSUME IInv, NEW r \in Requests, r \notin struck,
           kind'[r] = kind[r], token'[r] = token[r], messageId'[r] = messageId[r],
           requestData'[r] = requestData[r], payload'[r] = payload[r],
           observes'[r] = observes[r], statusCode'[r] = statusCode[r], error'[r] = error[r],
           finished'[r] = finished[r],
           stored'[r] = stored[r],
           timer'[r] => timer[r] /\ r = m_reply',
           r = m_reply' => (r \in m_runningHostLookups' <=> token[r] = None),
           token[r] # None /\ finished[r] = 0 => r = m_reply',
           m_observeResources'[r] \in {m_observeResources[r], None},
           r \in observers' => r \in observers,
           disturbed \subseteq disturbed',
           \A m \in net' : m.req = r => m \in net \/ observes[r] # "no",
           \A x \in Requests : finished[x] > 0 => finished'[x] > 0
    PROVE  RequestRight(r)'
<1>0. RequestRight(r)
  BY DEF IInv, RightFor
<1>1. SentRight(r)'
  <2>1. token[r] # None => finished[r] > 0 \/ r = m_reply'
    BY DEF IInv, Typed
  <2>2. token[r] # None => IsSentFor(requestData[r], r)'
    BY <1>0 DEF RequestRight, SentRight, IsSentFor
  <2>3. token[r] \in Requests \cup {None}
    BY DEF IInv, Typed
  <2>4. QED
    BY <1>0, <2>1, <2>2, <2>3 DEF RequestRight, SentRight
<1>2. Belongs(r)'
  BY <1>0 DEF RequestRight, Belongs
<1>3. r \notin disturbed' => Complete(r)'
  BY <1>0 DEF RequestRight, Complete
<1>4. ASSUME Undisturbed(r)' PROVE Exchange(r)'
  <2>1. Undisturbed(r) /\ Exchange(r)
    BY <1>0, <1>4 DEF RequestRight, Undisturbed
  <2>2. PICK q : q = requestData[r]
    OBVIOUS
  <2>3. q.req = r
    BY <1>0, <2>1, <2>2 DEF RequestRight, SentRight, IsSentFor, Undisturbed
  <2>4. Answers(q)' = Answers(q)
    BY <2>3, AnswersStay
  <2>5. Mine(r)' \subseteq Mine(r)
    BY <1>4 DEF Mine, Undisturbed
  <2>6. /\ Mine(r) \subseteq {q} \/ \E A \in Answers(q) :
                /\ Mine(r) \subseteq A
                /\ \A a \in A : ~(a.id[1] = 0 /\ a.block = "Block2")
        /\ kind[r].method = "Put" =>
              /\ 0..(q.num - 1) \subseteq stored[r]
              /\ \A m \in Mine(r) : m.dst = "client" /\ m.code = "Content" => q.num \in stored[r]
        /\ kind[r].method = "Get" =>
              /\ q.num < kind[r].blocks
              /\ payload[r] = [i \in 1..q.num |-> Piece(r, i - 1)]
    BY <2>1, <2>2 DEF Exchange
  <2>7. /\ Mine(r)' \subseteq {q} \/ \E A \in Answers(q)' :
                /\ Mine(r)' \subseteq A
                /\ \A a \in A : ~(a.id[1] = 0 /\ a.block = "Block2")
        /\ kind'[r].method = "Put" =>
              /\ 0..(q.num - 1) \subseteq stored'[r]
              /\ \A m \in Mine(r)' : m.dst = "client" /\ m.code = "Content" => q.num \in stored'[r]
        /\ kind'[r].method = "Get" =>
              /\ q.num < kind'[r].blocks
              /\ payload'[r] = [i \in 1..q.num |-> Piece(r, i - 1)]
    BY <2>4, <2>5, <2>6
  <2>8. requestData'[r] = q
    BY <2>2
  <2>9. QED
    BY <2>7, <2>8 DEF Exchange
<1>5. QED
  BY <1>1, <1>2, <1>3, <1>4 DEF RequestRight

\* A struck request of which nothing changes stays what it is.
LEMMA StruckStays ==
    ASSUME IInv, NEW r \in Requests, r \in struck, kind'[r] = kind[r], token'[r] = token[r],
           r \in m_runningHostLookups', finished'[r] = finished[r],
           timer'[r] => timer[r] /\ r = m_reply',
           finished[r] = 0 => r = m_reply',
           m_observeResources'[r] \in {m_observeResources[r], None},
           r \in observers' => r \in observers
    PROVE  StruckRight(r)'
<1>1. StruckRight(r) /\ finished[r] \in Nat
  BY DEF IInv, RightFor, Typed
<1>2. finished[r] > 0 \/ finished[r] = 0
  BY <1>1
<1>3. QED
  BY <1>1, <1>2 DEF StruckRight

\* The messages under way stay right when a step adds right ones.
LEMMA MessagesStay ==
    ASSUME MessagesRight, NEW fresh, net' \subseteq net \cup fresh,
           \A x \in Requests : token[x] # None => token'[x] = token[x] /\ kind'[x] = kind[x],
           \A m \in fresh : /\ m.req \in Requests /\ token'[m.req] # None
                            /\ IsSentFor(m, m.req)' \/ IsAnswerFor(m, m.req)'
    PROVE  MessagesRight'
<1> SUFFICES ASSUME NEW m \in net'
             PROVE  /\ m.req \in Requests /\ token'[m.req] # None
                    /\ IsSentFor(m, m.req)' \/ IsAnswerFor(m, m.req)'
  BY DEF MessagesRight
<1>1. CASE m \in fresh
  BY <1>1
<1>2. CASE m \in net
  BY <1>2 DEF MessagesRight, IsSentFor, IsAnswerFor
<1>3. QED
  BY <1>1, <1>2

LEMMA MessagesLeft ==
    ASSUME MessagesRight, net' \subseteq net,
           \A x \in Requests : token[x] # None => token'[x] = token[x] /\ kind'[x] = kind[x]
    PROVE  MessagesRight'
BY DEF MessagesRight, IsSentFor, IsAnswerFor

LEMMA InitRight == Init => IInv
<1> USE CoapAssumption, RequestFacts
<1> SUFFICES ASSUME Init PROVE IInv
  OBVIOUS
<1>1. Typed
  BY DEF Init, Typed, Asked, NoId, Pieces
<1>2. QueueRight /\ MessagesRight
  BY DEF Init, QueueRight, MessagesRight
<1>3. \A r \in Requests : RightFor(r)
  BY DEF Init, RightFor, RequestRight, SentRight, Belongs, Undisturbed, Complete
<1>4. QED
  BY <1>1, <1>2, <1>3 DEF IInv

-----------------------------------------------------------------------------
(* The queue *)

LEMMA QueueStays ==
    ASSUME IInv, UNCHANGED m_reply, UNCHANGED m_replyQueue,
           m_runningHostLookups' \subseteq {m_reply} \cup struck', UNCHANGED kind,
           UNCHANGED finished, \A x \in Requests : x # m_reply => token'[x] = token[x]
    PROVE  QueueRight'
<1>1. \A i \in 1..Len(m_replyQueue) : m_replyQueue[i] \in Requests
  BY DEF IInv, Typed
<1>2. m_reply # None => m_reply \in Requests
  BY DEF IInv, Typed
<1>3. \A r \in Requests : kind'[r] = None => finished'[r] = 0 /\ token'[r] = None
  BY <1>2, RequestFacts DEF IInv, QueueRight
<1>4. QED
  BY <1>1, <1>2, <1>3 DEF IInv, QueueRight

\* What the end of the current request does to the queue.
Advanced ==
    /\ m_reply' \in Requests \cup {None} /\ m_reply' # m_reply
    /\ m_runningHostLookups \ {m_reply} \subseteq m_runningHostLookups'
    /\ m_runningHostLookups' \subseteq m_runningHostLookups \cup {m_reply'}
    /\ m_reply' # None => /\ token[m_reply'] = None /\ finished[m_reply'] = 0
                          /\ m_reply' \in m_runningHostLookups'
    /\ finished' \in [Requests -> Nat] /\ finished'[m_reply] > 0
    /\ timer' \in [Requests -> BOOLEAN] /\ ~timer'[m_reply]
    /\ \A x \in Requests : x # m_reply => finished'[x] = finished[x] /\ timer'[x] = timer[x]

LEMMA QueueAdvances ==
    ASSUME IInv, m_reply # None, NEW lookups, SetFinished(m_reply, lookups),
           m_runningHostLookups \ {m_reply} \subseteq lookups,
           lookups \subseteq m_runningHostLookups, lookups \subseteq struck', UNCHANGED kind,
           \A x \in Requests : x # m_reply => token'[x] = token[x]
    PROVE  QueueRight' /\ Advanced
<1> USE RequestFacts
<1> DEFINE q == m_replyQueue
<1>1. /\ q \in Seq(Requests) /\ m_reply \in Requests
      /\ \A i \in 1..Len(q) : q[i] \in Requests
  BY DEF IInv, Typed
<1>2. /\ finished' = [finished EXCEPT ![m_reply] = finished[m_reply] + 1]
      /\ timer' = [timer EXCEPT ![m_reply] = FALSE]
      /\ \/ q = <<>> /\ m_reply' = None /\ m_runningHostLookups' = lookups /\ m_replyQueue' = q
         \/ q # <<>> /\ m_reply' = Head(q) /\ m_replyQueue' = Tail(q)
            /\ m_runningHostLookups' = lookups \cup {Head(q)}
  BY DEF SetFinished
<1>3. /\ finished' \in [Requests -> Nat] /\ finished'[m_reply] > 0
      /\ timer' \in [Requests -> BOOLEAN] /\ ~timer'[m_reply]
      /\ \A x \in Requests : x # m_reply => finished'[x] = finished[x] /\ timer'[x] = timer[x]
  BY <1>1, <1>2 DEF IInv, Typed
<1>4. CASE q = <<>>
  <2>1. m_reply' = None /\ m_runningHostLookups' = lookups /\ m_replyQueue' = <<>>
    BY <1>2, <1>4
  <2>2. Advanced
    BY <1>1, <1>3, <2>1 DEF Advanced
  <2>3. \A i \in 1..Len(m_replyQueue') : FALSE
    BY <2>1
  <2>4. \A x \in Requests : kind'[x] = None => finished'[x] = 0 /\ token'[x] = None
    BY <1>3 DEF IInv, QueueRight
  <2>5. QueueRight'
    BY <2>1, <2>3, <2>4 DEF QueueRight
  <2>6. QED
    BY <2>2, <2>5
<1>5. CASE q # <<>>
  <2>1. /\ Len(q) \in Nat \ {0} /\ Head(q) = q[1] /\ Tail(q) \in Seq(Requests)
        /\ Len(Tail(q)) = Len(q) - 1
        /\ \A i \in 1..(Len(q) - 1) : Tail(q)[i] = q[i + 1]
    BY <1>1, <1>5
  <2>2. /\ m_reply' = q[1] /\ m_replyQueue' = Tail(q)
        /\ m_runningHostLookups' = lookups \cup {q[1]}
    BY <1>2, <1>5, <2>1
  <2>3. /\ q[1] \in Requests /\ q[1] # m_reply /\ finished[q[1]] = 0 /\ token[q[1]] = None
        /\ kind[q[1]] # None
    BY <1>1, <2>1 DEF IInv, QueueRight
  <2>4. Advanced
    BY <1>3, <2>1, <2>2, <2>3 DEF Advanced
  <2>5. ASSUME NEW i \in 1..Len(m_replyQueue')
        PROVE  /\ m_replyQueue'[i] = q[i + 1] /\ i + 1 \in 1..Len(q) /\ q[i + 1] # q[1]
               /\ q[i + 1] \in Requests /\ kind[q[i + 1]] # None /\ q[i + 1] # m_reply
               /\ finished[q[i + 1]] = 0 /\ token[q[i + 1]] = None
    <3>1. m_replyQueue'[i] = q[i + 1] /\ i + 1 \in 1..Len(q) /\ i + 1 # 1
      BY <2>1, <2>2
    <3>2. QED
      BY <1>1, <2>1, <3>1 DEF IInv, QueueRight
  <2>6. \A i \in 1..Len(m_replyQueue') :
            /\ m_replyQueue'[i] # m_reply' /\ kind'[m_replyQueue'[i]] # None
            /\ finished'[m_replyQueue'[i]] = 0 /\ token'[m_replyQueue'[i]] = None
    BY <1>3, <2>2, <2>5
  <2>7. \A i, j \in 1..Len(m_replyQueue') :
            i # j => m_replyQueue'[i] # m_replyQueue'[j]
    <3> SUFFICES ASSUME NEW i \in 1..Len(m_replyQueue'), NEW j \in 1..Len(m_replyQueue'), i # j
                 PROVE  m_replyQueue'[i] # m_replyQueue'[j]
      OBVIOUS
    <3>1. i + 1 # j + 1
      BY <2>1, <2>2
    <3>2. QED
      BY <2>5, <3>1 DEF IInv, QueueRight
  <2>8. \A r \in Requests : kind'[r] = None => finished'[r] = 0 /\ token'[r] = None
    BY <1>3 DEF IInv, QueueRight
  <2>9. QueueRight'
    BY <1>3, <2>2, <2>3, <2>6, <2>7, <2>8 DEF QueueRight
  <2>10. QED
    BY <2>4, <2>9
<1>6. QED
  BY <1>4, <1>5

\* The requests but the current one and their messages stay as they are.
OnlyCurrentChanges ==
    /\ UNCHANGED kind /\ disturbed \subseteq disturbed'
    /\ \A r \in Requests : r # m_reply =>
          /\ r \in struck' <=> r \in struck
          /\ token'[r] = token[r] /\ messageId'[r] = messageId[r]
          /\ requestData'[r] = requestData[r] /\ payload'[r] = payload[r]
          /\ observes'[r] = observes[r] /\ statusCode'[r] = statusCode[r]
          /\ error'[r] = error[r] /\ stored'[r] = stored[r] /\ timer'[r] = timer[r]
          /\ m_observeResources'[r] \in {m_observeResources[r], None}
          /\ r \in observers' => r \in observers
          /\ \A m \in net' : m.req = r => m \in net

LEMMA OthersStay ==
    ASSUME IInv, OnlyCurrentChanges,
           Advanced \/ /\ UNCHANGED m_reply /\ UNCHANGED finished
                       /\ m_runningHostLookups \ {m_reply} \subseteq m_runningHostLookups'
    PROVE  \A r \in Requests : r # m_reply => RightFor(r)'
<1> SUFFICES ASSUME NEW r \in Requests, r # m_reply PROVE RightFor(r)'
  OBVIOUS
<1>1. /\ finished'[r] = finished[r]
      /\ \A x \in Requests : finished[x] > 0 => finished'[x] > 0
  BY DEF Advanced
<1>2. finished[r] > 0 => finished[r] # 0
  BY DEF IInv, Typed
<1>3. ASSUME r \notin struck PROVE RequestRight(r)'
  <2>1. ~timer[r] /\ (token[r] # None => finished[r] > 0)
    BY <1>3 DEF IInv, RightFor, RequestRight, SentRight
  <2>2. r = m_reply' => (r \in m_runningHostLookups' <=> token[r] = None)
    BY RequestFacts DEF Advanced
  <2>3. QED
    BY <1>1, <1>2, <1>3, <2>1, <2>2, RequestStays DEF OnlyCurrentChanges
<1>4. ASSUME r \in struck PROVE StruckRight(r)'
  <2>1. ~timer[r] /\ finished[r] > 0 /\ r \in m_runningHostLookups
    BY <1>4 DEF IInv, RightFor, StruckRight
  <2>2. r \in m_runningHostLookups'
    BY <2>1 DEF Advanced
  <2>3. QED
    BY <1>1, <1>2, <1>4, <2>1, <2>2, StruckStays DEF OnlyCurrentChanges
<1>5. QED
  BY <1>3, <1>4 DEF RightFor, OnlyCurrentChanges

\* A datagram, or a timeout after one, changes the current request while its host is
\* looked up.
LEMMA StrikeStep ==
    ASSUME IInv, Typed', m_reply # None, m_reply \in m_runningHostLookups,
           struck' = struck \cup {m_reply}, OnlyCurrentChanges, UNCHANGED token,
           UNCHANGED m_observeResources, UNCHANGED observers, net' \subseteq net,
           \/ SetFinished(m_reply, m_runningHostLookups)
           \/ /\ UNCHANGED m_reply /\ UNCHANGED m_replyQueue
              /\ UNCHANGED m_runningHostLookups /\ UNCHANGED finished
    PROVE  IInv'
<1> USE RequestFacts
<1>0. PICK r \in Requests : r = m_reply
  BY DEF IInv, Typed
<1>1. /\ token[r] = None /\ m_observeResources[r] = None /\ r \notin observers
      /\ kind[r] # None
  BY <1>0 DEF IInv, RightFor, StruckRight, RequestRight, SentRight, QueueRight
<1>2. m_runningHostLookups \subseteq struck' /\ UNCHANGED kind
  BY DEF IInv, QueueRight, OnlyCurrentChanges
<1>3. MessagesRight'
  BY <1>2, MessagesLeft DEF IInv
<1>4. CASE SetFinished(m_reply, m_runningHostLookups)
  <2>1. QueueRight' /\ Advanced
    <3> DEFINE lookups == m_runningHostLookups
    <3>1. /\ SetFinished(m_reply, lookups) /\ m_runningHostLookups \ {m_reply} \subseteq lookups
          /\ lookups \subseteq m_runningHostLookups /\ lookups \subseteq struck'
      BY <1>2, <1>4
    <3> HIDE DEF lookups
    <3>2. QED
      BY <1>2, <3>1, QueueAdvances
  <2>2. \A x \in Requests : x # r => RightFor(x)'
    BY <1>0, <2>1, OthersStay
  <2>3. r \in m_runningHostLookups'
    BY <1>0, <1>4 DEF SetFinished
  <2>4. StruckRight(r)'
    BY <1>0, <1>1, <1>2, <2>1, <2>3 DEF StruckRight, Advanced
  <2>5. QED
    BY <1>0, <1>3, <2>1, <2>2, <2>4 DEF IInv, RightFor
<1>5. CASE /\ UNCHANGED m_reply /\ UNCHANGED m_replyQueue
           /\ UNCHANGED m_runningHostLookups /\ UNCHANGED finished
  <2>1. QueueRight'
    BY <1>2, <1>5, QueueStays
  <2>2. \A x \in Requests : x # r => RightFor(x)'
    BY <1>0, <1>5, OthersStay
  <2>3. StruckRight(r)'
    BY <1>0, <1>1, <1>2, <1>5 DEF StruckRight
  <2>4. QED
    BY <1>0, <1>3, <2>1, <2>2, <2>3 DEF IInv, RightFor
<1>6. QED
  BY <1>4, <1>5

-----------------------------------------------------------------------------
(* Requests and host lookups *)

\* A new request becomes the current one or the last of the queue, or ends at once.
LEMMA RequestStep ==
    ASSUME IInv, Typed', NEW r \in Requests, NEW k \in KindsOf[r], Request(r, k)
    PROVE  IInv'
<1> USE RequestFacts
<1>1. /\ kind[r] = None /\ finished[r] = 0 /\ token[r] = None /\ r # m_reply
      /\ r \notin struck /\ r \notin m_runningHostLookups
      /\ \A i \in 1..Len(m_replyQueue) : m_replyQueue[i] # r
  <2>1. kind[r] = None
    BY DEF Request
  <2>2. r \notin struck
    BY <2>1 DEF IInv, RightFor, StruckRight
  <2>3. QED
    BY <2>1, <2>2 DEF IInv, QueueRight
<1>2. /\ kind' = [kind EXCEPT ![r] = k] /\ k # None /\ UNCHANGED messageId /\ UNCHANGED struck
      /\ UNCHANGED token /\ UNCHANGED requestData /\ UNCHANGED timer
      /\ UNCHANGED retransmissions /\ UNCHANGED payload /\ UNCHANGED statusCode
      /\ UNCHANGED observes /\ UNCHANGED net /\ UNCHANGED stored /\ UNCHANGED observers
      /\ UNCHANGED disturbed /\ UNCHANGED m_observeResources
  BY CoapAssumption DEF Request, envVars, coapVars, pastVars, Requests
<1>3. \/ /\ m_reply' = m_reply /\ m_replyQueue' = m_replyQueue
         /\ m_runningHostLookups' = m_runningHostLookups
         /\ error' = [error EXCEPT ![r] = "InvalidUrlSchemeError"]
         /\ finished' = [finished EXCEPT ![r] = 1]
      \/ /\ m_reply = None /\ m_reply' = r /\ m_replyQueue' = m_replyQueue
         /\ m_runningHostLookups' = m_runningHostLookups \cup {r}
         /\ UNCHANGED error /\ UNCHANGED finished
      \/ /\ m_reply # None /\ m_reply' = m_reply /\ m_replyQueue' = Append(m_replyQueue, r)
         /\ m_runningHostLookups' = m_runningHostLookups
         /\ UNCHANGED error /\ UNCHANGED finished
  BY DEF Request, coapVars
<1>5. QueueRight'
  <2>1. \A i \in 1..Len(m_replyQueue) : m_replyQueue[i] \in Requests
    BY DEF IInv, Typed
  <2>2. \A x \in Requests : x # r => kind'[x] = kind[x] /\ finished'[x] = finished[x]
    BY <1>2, <1>3, SMTT(40) DEF IInv, Typed
  <2>3. kind'[r] # None
    BY <1>2 DEF IInv, Typed
  <2>4. CASE m_reply' = m_reply /\ m_replyQueue' = m_replyQueue
             /\ m_runningHostLookups' = m_runningHostLookups
    <3>1. m_reply # None => m_reply # r /\ m_reply \in Requests
      BY <1>1 DEF IInv, Typed
    <3>2. \A i \in 1..Len(m_replyQueue') :
              /\ m_replyQueue'[i] # m_reply' /\ kind'[m_replyQueue'[i]] # None
              /\ finished'[m_replyQueue'[i]] = 0 /\ token'[m_replyQueue'[i]] = None
      BY <1>1, <1>2, <2>1, <2>2, <2>3, <2>4 DEF IInv, QueueRight
    <3>3. \A x \in Requests : kind'[x] = None => finished'[x] = 0 /\ token'[x] = None
      BY <1>2, <2>2, <2>3 DEF IInv, QueueRight
    <3>4. m_reply' # None => kind'[m_reply'] # None /\ finished'[m_reply'] = 0
      BY <2>2, <2>4, <3>1 DEF IInv, QueueRight
    <3>5. m_runningHostLookups' \subseteq {m_reply'} \cup struck'
      BY <1>2, <2>4 DEF IInv, QueueRight
    <3>6. /\ m_reply' = None => m_replyQueue' = <<>>
          /\ \A i, j \in 1..Len(m_replyQueue') :
                i # j => m_replyQueue'[i] # m_replyQueue'[j]
      BY <2>4 DEF IInv, QueueRight
    <3>7. QED
      BY <3>2, <3>3, <3>4, <3>5, <3>6 DEF QueueRight
  <2>5. CASE m_reply = None /\ m_reply' = r /\ m_replyQueue' = m_replyQueue
             /\ m_runningHostLookups' = m_runningHostLookups \cup {r} /\ UNCHANGED finished
    <3>1. m_replyQueue' = <<>> /\ m_runningHostLookups' \subseteq {r} \cup struck'
      BY <1>2, <2>5 DEF IInv, Typed, QueueRight
    <3>2. QED
      BY <1>1, <1>2, <2>2, <2>3, <2>5, <3>1 DEF IInv, QueueRight
  <2>6. CASE m_reply # None /\ m_reply' = m_reply /\ m_replyQueue' = Append(m_replyQueue, r)
             /\ m_runningHostLookups' = m_runningHostLookups /\ UNCHANGED finished
    <3>1. /\ Len(m_replyQueue) \in Nat /\ Len(m_replyQueue') = Len(m_replyQueue) + 1
          /\ \A i \in 1..Len(m_replyQueue) : m_replyQueue'[i] = m_replyQueue[i]
          /\ m_replyQueue'[Len(m_replyQueue) + 1] = r
      <4>1. m_replyQueue \in Seq(Requests)
        BY DEF IInv, Typed
      <4>2. QED
        BY <2>6, <4>1
    <3>2. \A i \in 1..Len(m_replyQueue') :
              i \in 1..Len(m_replyQueue) \/ i = Len(m_replyQueue) + 1
      BY <3>1
    <3>3. \A i \in 1..Len(m_replyQueue') :
              /\ m_replyQueue'[i] # m_reply' /\ kind'[m_replyQueue'[i]] # None
              /\ finished'[m_replyQueue'[i]] = 0 /\ token'[m_replyQueue'[i]] = None
      BY <1>1, <1>2, <2>1, <2>2, <2>3, <2>6, <3>1, <3>2 DEF IInv, QueueRight
    <3>4. \A i, j \in 1..Len(m_replyQueue') :
              i # j => m_replyQueue'[i] # m_replyQueue'[j]
      BY <1>1, <3>1, <3>2 DEF IInv, QueueRight
    <3>5. QED
      BY <1>1, <1>2, <2>2, <2>3, <2>6, <3>3, <3>4 DEF IInv, Typed, QueueRight
  <2>7. QED
    BY <1>3, <2>4, <2>5, <2>6
<1>6. MessagesRight'
  <2>1. \A x \in Requests : token[x] # None => token'[x] = token[x] /\ kind'[x] = kind[x]
    BY <1>1, <1>2 DEF IInv, Typed
  <2>2. QED
    BY <1>2, <2>1, MessagesLeft DEF IInv
<1>7. ASSUME NEW x \in Requests, x # r PROVE RightFor(x)'
  <2>1. /\ kind'[x] = kind[x] /\ messageId'[x] = messageId[x] /\ error'[x] = error[x]
        /\ finished'[x] = finished[x]
    BY <1>2, <1>3, <1>7, SMTT(40) DEF IInv, Typed
  <2>2. x = m_reply => m_reply # None
    OBVIOUS
  <2>3. ASSUME x \notin struck PROVE RequestRight(x)'
    <3>1. /\ timer[x] => x = m_reply
          /\ x = m_reply => (x \in m_runningHostLookups <=> token[x] = None)
          /\ token[x] # None => x = m_reply \/ finished[x] > 0
      BY <2>3 DEF IInv, RightFor, RequestRight, SentRight
    <3>2. /\ timer'[x] => timer[x] /\ x = m_reply'
          /\ x = m_reply' => (x \in m_runningHostLookups' <=> token[x] = None)
      BY <1>2, <1>3, <1>7, <2>2, <3>1
    <3>3. token[x] # None /\ finished[x] = 0 => x = m_reply'
      BY <1>3, <2>2, <3>1
    <3>4. \A y \in Requests : finished[y] > 0 => finished'[y] > 0
      <4>0. finished \in [Requests -> Nat]
        BY DEF IInv, Typed
      <4>1. \A y \in Requests : y # r => finished'[y] = finished[y]
        BY <1>3, <4>0
      <4>2. QED
        BY <1>1, <4>1
    <3>5. QED
      BY <1>2, <2>1, <2>3, <3>2, <3>3, <3>4, RequestStays
  <2>4. ASSUME x \in struck PROVE StruckRight(x)'
    <3>1. /\ timer[x] => x = m_reply
          /\ x \in m_runningHostLookups /\ (x = m_reply \/ finished[x] > 0)
      BY <2>4 DEF IInv, RightFor, StruckRight
    <3>2. /\ timer'[x] => timer[x] /\ x = m_reply'
          /\ finished[x] = 0 => x = m_reply'
          /\ x \in m_runningHostLookups'
      BY <1>2, <1>3, <2>2, <3>1
    <3>3. QED
      BY <1>2, <2>1, <2>4, <3>2, StruckStays
  <2>5. QED
    BY <1>2, <2>3, <2>4 DEF RightFor
<1>8. RightFor(r)'
  <2>1. /\ token'[r] = None /\ payload'[r] = <<>> /\ stored'[r] = {} /\ ~timer'[r]
        /\ m_observeResources'[r] = None /\ r \notin observers'
    BY <1>1, <1>2 DEF IInv, RightFor, RequestRight, SentRight
  <2>2. r = m_reply' => r \in m_runningHostLookups'
    BY <1>1, <1>3
  <2>3. finished'[r] = 0 \/ error'[r] # "NoError"
    BY <1>1, <1>3 DEF IInv, Typed
  <2>4. Complete(r)'
    BY <2>3 DEF Complete
  <2>5. SentRight(r)' /\ Belongs(r)' /\ ~Undisturbed(r)'
    BY <2>1, <2>2 DEF SentRight, Belongs, Undisturbed
  <2>6. QED
    BY <1>1, <1>2, <2>4, <2>5 DEF RequestRight, RightFor
<1>9. QED
  BY <1>5, <1>6, <1>7, <1>8 DEF IInv

\* The end of the current request without a message, unless it is struck.
LEMMA GivenUpStep ==
    ASSUME IInv, Typed', m_reply # None, m_reply \notin struck, NEW lookups,
           SetFinished(m_reply, lookups), lookups = m_runningHostLookups \ {m_reply},
           UNCHANGED struck, NEW err, err # "NoError", error' = [error EXCEPT ![m_reply] = err],
           disturbed \subseteq disturbed',
           net' \subseteq net \cup (IF token[m_reply] # None THEN {requestData[m_reply]} ELSE {}),
           UNCHANGED m_observeResources, UNCHANGED kind, UNCHANGED messageId, UNCHANGED token,
           UNCHANGED requestData, UNCHANGED payload, UNCHANGED statusCode, UNCHANGED observes,
           UNCHANGED stored, UNCHANGED observers
    PROVE  IInv'
<1> USE RequestFacts
<1>0. PICK c \in Requests : c = m_reply
  BY DEF IInv, Typed
<1>1. c \in Requests /\ RequestRight(c)
  BY <1>0 DEF IInv, RightFor
<1>2. QueueRight' /\ Advanced
  <2>1. lookups \subseteq struck'
    BY DEF IInv, QueueRight
  <2>2. QED
    BY <2>1, QueueAdvances
<1>4. token[c] # None => IsSentFor(requestData[c], c)
  BY <1>1 DEF RequestRight, SentRight
<1>5. MessagesRight'
  <2>1. CASE token[c] # None
    <3> DEFINE fresh == {requestData[c]}
    <3>1. net' \subseteq net \cup fresh
      BY <1>0, <2>1
    <3>2. \A m \in fresh : /\ m.req \in Requests /\ token'[m.req] # None
                           /\ IsSentFor(m, m.req)' \/ IsAnswerFor(m, m.req)'
      BY <1>1, <1>4, <2>1 DEF IsSentFor
    <3>3. \A x \in Requests : token[x] # None => token'[x] = token[x] /\ kind'[x] = kind[x]
      OBVIOUS
    <3> HIDE DEF fresh
    <3>4. QED
      BY <3>1, <3>2, <3>3, MessagesStay DEF IInv
  <2>2. CASE token[c] = None
    <3>1. net' \subseteq net
      BY <1>0, <2>2
    <3>2. QED
      BY <3>1, MessagesLeft DEF IInv
  <2>3. QED
    BY <2>1, <2>2
<1>6. \A r \in Requests : r # c => RightFor(r)'
  <2>1. \A r \in Requests : r # c => \A m \in net' : m.req = r => m \in net
    BY <1>0, <1>4 DEF IsSentFor
  <2>2. OnlyCurrentChanges
    BY <1>0, <1>2, <2>1 DEF OnlyCurrentChanges, Advanced, IInv, Typed
  <2>3. QED
    BY <1>0, <1>2, <2>2, OthersStay
<1>7. RequestRight(c)'
  <2>1. finished'[c] > 0 /\ c # m_reply' /\ ~timer'[c] /\ error'[c] # "NoError"
    BY <1>0, <1>2 DEF Advanced, IInv, Typed
  <2>2. \A x \in Requests : finished[x] > 0 => finished'[x] > 0
    BY <1>0, <1>2, <2>1 DEF Advanced
  <2>3. token[c] \in Requests \cup {None}
    BY <1>1 DEF IInv, Typed
  <2>4. SentRight(c)'
    BY <1>1, <2>1, <2>2, <2>3 DEF RequestRight, SentRight, IsSentFor
  <2>5. Belongs(c)'
    BY <1>1 DEF RequestRight, Belongs
  <2>6. finished'[c] # 0
    BY <1>0, <1>2 DEF Advanced
  <2>7. Complete(c)' /\ ~Undisturbed(c)'
    BY <2>1, <2>6 DEF Complete, Undisturbed
  <2>8. QED
    BY <2>4, <2>5, <2>7 DEF RequestRight
<1>8. QED
  BY <1>0, <1>2, <1>5, <1>6, <1>7 DEF IInv, RightFor

\* The first message of a request: nothing of the request is under way before it.
LEMMA SendStep ==
    ASSUME IInv, Typed', m_reply # None, m_reply \in m_runningHostLookups, m_reply \notin struck,
           NEW lookups, lookups = m_runningHostLookups \ {m_reply},
           SendRequest(m_reply, lookups), UNCHANGED struck, UNCHANGED kind, UNCHANGED payload, UNCHANGED statusCode,
           UNCHANGED stored, UNCHANGED observers, UNCHANGED disturbed
    PROVE  IInv'
<1> USE RequestFacts, CoapAssumption
<1>0. PICK r \in Requests : r = m_reply
  BY DEF IInv, Typed
<1>1. /\ token[r] = None /\ kind[r] # None /\ finished[r] = 0 /\ payload[r] = <<>>
      /\ stored[r] = {} /\ SentRight(r) /\ lookups \subseteq struck
  BY <1>0 DEF IInv, QueueRight, RightFor, RequestRight, SentRight
<1>2. KindOK(kind[r])
  BY <1>1, KindFacts DEF IInv
<1>3. PICK obs \in Observing(kind[r]) : \E t \in TokensFor(r, obs) :
        /\ observes' = [observes EXCEPT ![r] = obs]
        /\ token' = [token EXCEPT ![r] = t]
        /\ messageId' = [messageId EXCEPT ![r] = <<r, 1>>]
        /\ requestData' = [requestData EXCEPT ![r] = FirstBlock(r, t)]
        /\ net' = net \cup {FirstBlock(r, t)}
        /\ m_observeResources' =
              CASE obs = "enable"  -> [m_observeResources EXCEPT ![t] = kind[r].url]
                [] obs = "disable" -> [m_observeResources EXCEPT ![t] = None]
                [] OTHER           -> m_observeResources
        /\ \/ kind[r].type = "Non" /\ SetFinished(r, lookups)
           \/ /\ kind[r].type = "Con" /\ timer' = [timer EXCEPT ![r] = TRUE]
              /\ m_runningHostLookups' = lookups
              /\ UNCHANGED <<m_reply, m_replyQueue, finished>>
        /\ UNCHANGED error
  BY <1>0 DEF SendRequest
<1>4. PICK t \in TokensFor(r, obs) :
        /\ observes' = [observes EXCEPT ![r] = obs]
        /\ token' = [token EXCEPT ![r] = t]
        /\ messageId' = [messageId EXCEPT ![r] = <<r, 1>>]
        /\ requestData' = [requestData EXCEPT ![r] = FirstBlock(r, t)]
        /\ net' = net \cup {FirstBlock(r, t)}
        /\ m_observeResources' =
              CASE obs = "enable"  -> [m_observeResources EXCEPT ![t] = kind[r].url]
                [] obs = "disable" -> [m_observeResources EXCEPT ![t] = None]
                [] OTHER           -> m_observeResources
        /\ \/ kind[r].type = "Non" /\ SetFinished(r, lookups)
           \/ /\ kind[r].type = "Con" /\ timer' = [timer EXCEPT ![r] = TRUE]
              /\ m_runningHostLookups' = lookups
              /\ UNCHANGED <<m_reply, m_replyQueue, finished>>
        /\ UNCHANGED error
  BY <1>3
<1>5. PICK q : q = FirstBlock(r, t)
  OBVIOUS
<1>6. /\ q.dst = "server" /\ q.req = r /\ q.token = t /\ q.id = <<r, 1>> /\ q.num = 0
      /\ <<r, 1>> \in Nat \X Nat /\ <<r, 1>>[1] = r
  BY <1>5 DEF FirstBlock, ToServer
<1>7. obs \in {"no", "enable", "disable"}
  BY <1>2 DEF Observing, KindOK
<1>8. /\ t \in Requests
      /\ t # r => obs = "disable" /\ token[t] = t /\ finished[t] > 0
  <2>1. CASE t = r
    BY <2>1
  <2>2. CASE t # r
    <3>1. obs = "disable" /\ t \in Requests /\ m_observeResources[t] = kind[r].url
      BY <2>2 DEF TokensFor
    <3>2. m_observeResources[t] # None
      BY <1>2, <3>1 DEF KindOK
    <3>3. token[t] = t
      BY <3>1, <3>2 DEF IInv, RightFor, StruckRight, RequestRight, SentRight
    <3>4. finished[t] > 0
      BY <1>0, <2>2, <3>1, <3>2, <3>3 DEF IInv, RightFor, StruckRight, RequestRight, SentRight
    <3>5. QED
      BY <3>1, <3>3, <3>4
  <2>3. QED
    BY <2>1, <2>2
<1>9. /\ token'[r] = t /\ observes'[r] = obs /\ messageId'[r] = <<r, 1>>
      /\ requestData'[r] = q /\ net' = net \cup {q}
  BY <1>4, <1>5 DEF IInv, Typed
<1>10. /\ m_observeResources' \in [Requests -> Urls \cup {None}]
       /\ \A x \in Requests : x # r => m_observeResources'[x] \in {m_observeResources[x], None}
       /\ m_observeResources'[r] # None => t = r
  <2>1. kind[r].url \in Urls
    BY <1>2 DEF KindOK
  <2>2. m_observeResources[r] = None
    BY <1>1 DEF SentRight
  <2>3. CASE obs = "enable"
    <3>1. t = r /\ m_observeResources' = [m_observeResources EXCEPT ![t] = kind[r].url]
      BY <1>4, <1>8, <2>3
    <3>2. QED
      BY <2>1, <3>1 DEF IInv, Typed
  <2>4. CASE obs = "disable"
    <3>1. m_observeResources' = [m_observeResources EXCEPT ![t] = None]
      BY <1>4, <2>4
    <3>2. QED
      BY <1>8, <2>2, <3>1 DEF IInv, Typed
  <2>5. CASE obs = "no"
    <3>1. m_observeResources' = m_observeResources
      BY <1>4, <2>5
    <3>2. QED
      BY <2>2, <3>1 DEF IInv, Typed
  <2>6. QED
    BY <1>7, <2>3, <2>4, <2>5
<1>11. IsSentFor(q, r)'
  BY <1>2, <1>6, <1>9 DEF IsSentFor, KindOK
<1>12. MessagesRight'
  <2> DEFINE fresh == {q}
  <2>1. net' \subseteq net \cup fresh
    BY <1>9
  <2>2. \A m \in fresh : /\ m.req \in Requests /\ token'[m.req] # None
                         /\ IsSentFor(m, m.req)' \/ IsAnswerFor(m, m.req)'
    BY <1>6, <1>8, <1>9, <1>11
  <2>3. \A x \in Requests : token[x] # None => token'[x] = token[x] /\ kind'[x] = kind[x]
    BY <1>1, <1>4 DEF IInv, Typed
  <2> HIDE DEF fresh
  <2>4. QED
    BY <2>1, <2>2, <2>3, MessagesStay DEF IInv
<1>13. \A x \in Requests : x # r =>
          /\ token'[x] = token[x] /\ observes'[x] = observes[x]
          /\ messageId'[x] = messageId[x] /\ requestData'[x] = requestData[x]
          /\ \A m \in net' : m.req = x => m \in net
  BY <1>4, <1>6, <1>9 DEF IInv, Typed
<1>14. Mine(r)' = {q}
  <2>1. \A m \in net : m.req # r
    BY <1>1 DEF IInv, MessagesRight
  <2>2. QED
    BY <1>6, <1>9, <2>1 DEF Mine
<1>15. CASE kind[r].type = "Non" /\ SetFinished(r, lookups)
  <2>1. QueueRight' /\ Advanced
    BY <1>0, <1>1, <1>13, <1>15, QueueAdvances
  <2>3. OnlyCurrentChanges
    BY <1>0, <1>4, <1>10, <1>13, <2>1 DEF OnlyCurrentChanges, Advanced, IInv, Typed
  <2>4. \A x \in Requests : x # r => RightFor(x)'
    BY <1>0, <2>1, <2>3, OthersStay
  <2>5. RequestRight(r)'
    <3>1. finished'[r] > 0 /\ r # m_reply' /\ ~timer'[r] /\ finished'[r] # 0
      BY <1>0, <2>1 DEF Advanced
    <3>2. t # r => finished'[t] > 0
      BY <1>0, <1>8, <2>1 DEF Advanced
    <3>3. r \notin observers'
      BY <1>1 DEF SentRight
    <3>4. SentRight(r)'
      BY <1>1, <1>6, <1>8, <1>9, <1>10, <1>11, <3>1, <3>2, <3>3 DEF SentRight
    <3>5. Belongs(r)' /\ Complete(r)' /\ ~Undisturbed(r)'
      BY <1>1, <1>15, <3>1 DEF Belongs, Complete, Undisturbed
    <3>6. QED
      BY <3>4, <3>5 DEF RequestRight
  <2>6. QED
    BY <1>0, <1>12, <2>1, <2>4, <2>5 DEF IInv, RightFor
<1>16. CASE /\ kind[r].type = "Con" /\ timer' = [timer EXCEPT ![r] = TRUE]
            /\ m_runningHostLookups' = lookups
            /\ UNCHANGED <<m_reply, m_replyQueue, finished>>
  <2>1. UNCHANGED m_reply /\ UNCHANGED m_replyQueue /\ UNCHANGED finished
    BY <1>16
  <2>2. QueueRight'
    BY <1>0, <1>1, <1>13, <1>16, <2>1, QueueStays
  <2>4. OnlyCurrentChanges
    BY <1>0, <1>4, <1>10, <1>13, <1>16 DEF OnlyCurrentChanges, IInv, Typed
  <2>5. \A x \in Requests : x # r => RightFor(x)'
    BY <1>0, <1>16, <2>1, <2>4, OthersStay
  <2>6. RequestRight(r)'
    <3>1. r = m_reply' /\ timer'[r] /\ r \notin m_runningHostLookups' /\ finished'[r] = 0
      BY <1>0, <1>1, <1>16, <2>1 DEF IInv, Typed
    <3>2. r \notin observers'
      BY <1>1 DEF SentRight
    <3>3. SentRight(r)'
      BY <1>1, <1>6, <1>8, <1>9, <1>10, <1>11, <2>1, <3>1, <3>2 DEF SentRight
    <3>4. Belongs(r)' /\ Complete(r)'
      BY <1>1, <3>1 DEF Belongs, Complete
    <3>5. Exchange(r)'
      <4>1. kind[r].method # "Empty" => kind[r].blocks > 0
        BY <1>2 DEF KindOK
      <4>2. [i \in 1..0 |-> Piece(r, i - 1)] = <<>>
        OBVIOUS
      <4>3. 0..(0 - 1) = {}
        OBVIOUS
      <4>4. QED
        BY <1>1, <1>6, <1>9, <1>14, <4>1, <4>2, <4>3 DEF Exchange
    <3>6. QED
      BY <3>3, <3>4, <3>5 DEF RequestRight
  <2>7. QED
    BY <1>0, <1>12, <2>2, <2>5, <2>6 DEF IInv, RightFor
<1>17. QED
  BY <1>4, <1>15, <1>16

\* The lookup of the current request returns, unless it was struck: then it is late.
LEMMA LookupStep ==
    ASSUME IInv, Typed', NEW r \in Requests, HostLookupFinished(r), Kept'
    PROVE  IInv'
<1> DEFINE lookups == m_runningHostLookups \ {r}
<1>1. r \in m_runningHostLookups /\ r \notin struck
  BY DEF HostLookupFinished, Kept
<1>2. r = m_reply /\ m_reply # None /\ m_reply \notin struck
  BY <1>1, RequestFacts DEF IInv, QueueRight
<1>3. /\ UNCHANGED kind /\ UNCHANGED retransmissions /\ UNCHANGED payload
      /\ UNCHANGED statusCode /\ UNCHANGED stored /\ UNCHANGED observers
      /\ UNCHANGED disturbed /\ UNCHANGED struck
  BY DEF HostLookupFinished
<1>4. lookups = m_runningHostLookups \ {m_reply}
  BY <1>2
<1>5. \/ SendRequest(r, lookups)
      \/ /\ error' = [error EXCEPT ![r] = "HostNotFoundError"] /\ SetFinished(r, lookups)
         /\ UNCHANGED <<m_observeResources, messageId, token, requestData, observes, net>>
  BY DEF HostLookupFinished
<1> HIDE DEF lookups
<1>6. CASE SendRequest(r, lookups)
  BY <1>1, <1>2, <1>3, <1>4, <1>6, SendStep
<1>7. CASE /\ error' = [error EXCEPT ![r] = "HostNotFoundError"] /\ SetFinished(r, lookups)
           /\ UNCHANGED <<m_observeResources, messageId, token, requestData, observes, net>>
  <2>1. "HostNotFoundError" # "NoError" /\ disturbed \subseteq disturbed'
    BY <1>3
  <2>2. net' \subseteq net \cup (IF token[m_reply] # None THEN {requestData[m_reply]} ELSE {})
    BY <1>7
  <2>3. /\ UNCHANGED m_observeResources /\ UNCHANGED messageId /\ UNCHANGED token
        /\ UNCHANGED requestData /\ UNCHANGED observes
        /\ error' = [error EXCEPT ![m_reply] = "HostNotFoundError"]
        /\ SetFinished(m_reply, lookups)
    BY <1>2, <1>7
  <2>4. QED
    BY <1>2, <1>3, <1>4, <2>1, <2>2, <2>3, GivenUpStep
<1>8. QED
  BY <1>5, <1>6, <1>7

-----------------------------------------------------------------------------
(* Timeouts *)

\* A message is sent again: if nothing of the exchange is under way, it stays undisturbed.
LEMMA ResentStep ==
    ASSUME IInv, Typed', m_reply # None, timer[m_reply], m_reply \notin struck, UNCHANGED struck,
           net' = net \cup {requestData[m_reply]},
           disturbed' = disturbed \cup (IF \E m \in net : m.req = m_reply THEN {m_reply} ELSE {}),
           UNCHANGED m_reply, UNCHANGED m_replyQueue, UNCHANGED m_runningHostLookups,
           UNCHANGED m_observeResources, UNCHANGED kind, UNCHANGED messageId, UNCHANGED token,
           UNCHANGED requestData, UNCHANGED payload, UNCHANGED statusCode, UNCHANGED observes,
           UNCHANGED stored, UNCHANGED observers, UNCHANGED timer, UNCHANGED error,
           UNCHANGED finished
    PROVE  IInv'
<1> USE RequestFacts, CoapAssumption
<1>0. PICK r \in Requests : r = m_reply
  BY DEF IInv, Typed
<1>1. SentRight(r) /\ token[r] # None
  BY <1>0 DEF IInv, RightFor, RequestRight, SentRight
<1>2. PICK q : q = requestData[r]
  OBVIOUS
<1>3. IsSentFor(q, r) /\ net' = net \cup {q}
  BY <1>0, <1>1, <1>2 DEF SentRight
<1>4. RequestRight(r)
  BY <1>0 DEF IInv, RightFor
<1>5. QueueRight'
  BY QueueStays DEF IInv, QueueRight
<1>6. MessagesRight'
  <2> DEFINE fresh == {q}
  <2>1. net' \subseteq net \cup fresh
    BY <1>3
  <2>2. \A m \in fresh : /\ m.req \in Requests /\ token'[m.req] # None
                         /\ IsSentFor(m, m.req)' \/ IsAnswerFor(m, m.req)'
    BY <1>1, <1>3 DEF IsSentFor
  <2>3. \A x \in Requests : token[x] # None => token'[x] = token[x] /\ kind'[x] = kind[x]
    OBVIOUS
  <2> HIDE DEF fresh
  <2>4. QED
    BY <2>1, <2>2, <2>3, MessagesStay DEF IInv
<1>7. OnlyCurrentChanges
  BY <1>0, <1>3 DEF OnlyCurrentChanges, IsSentFor, IInv, Typed
<1>8. \A x \in Requests : x # r => RightFor(x)'
  BY <1>0, <1>7, OthersStay
<1>9. RequestRight(r)'
  <2>2. SentRight(r)'
    BY <1>1 DEF SentRight, IsSentFor
  <2>3. Belongs(r)'
    BY <1>4 DEF RequestRight, Belongs
  <2>4. r \notin disturbed' => Complete(r)'
    BY <1>4 DEF RequestRight, Complete
  <2>5. ASSUME Undisturbed(r)' PROVE Exchange(r)'
    <3>1. Undisturbed(r) /\ Exchange(r)
      BY <1>4, <2>5 DEF RequestRight, Undisturbed
    <3>2. \A m \in net : m.req # r
      BY <1>0, <2>5 DEF Undisturbed
    <3>3. Mine(r)' \subseteq {q}
      BY <1>3, <3>2 DEF Mine
    <3>4. q.dst = "server" /\ requestData'[r] = q
      BY <1>2, <1>3 DEF IsSentFor
    <3>5. \A m \in Mine(r)' : m.dst = "client" /\ m.code = "Content" => q.num \in stored'[r]
      BY <3>3, <3>4
    <3>6. QED
      BY <1>2, <3>1, <3>3, <3>4, <3>5 DEF Exchange
  <2>6. QED
    BY <2>2, <2>3, <2>4, <2>5 DEF RequestRight
<1>10. QED
  BY <1>0, <1>5, <1>6, <1>8, <1>9 DEF IInv, RightFor

LEMMA TimeoutStep ==
    ASSUME IInv, Typed', NEW r \in Requests, Timeout(r)
    PROVE  IInv'
<1> USE RequestFacts, CoapAssumption
<1>1. /\ timer[r] /\ r = m_reply /\ m_reply # None
      /\ r \notin struck => token[r] # None /\ r \notin m_runningHostLookups
      /\ r \in struck => r \in m_runningHostLookups
  BY DEF Timeout, IInv, RightFor, StruckRight, RequestRight, SentRight
<1>2. /\ retransmissions' = [retransmissions EXCEPT ![r] = @ + 1]
      /\ net' = net \cup Written(r, requestData[r])
      /\ disturbed' = disturbed \cup (IF \E m \in net : m.req = r THEN {r} ELSE {})
      /\ UNCHANGED m_observeResources /\ UNCHANGED kind /\ UNCHANGED messageId
      /\ UNCHANGED token /\ UNCHANGED requestData /\ UNCHANGED payload /\ UNCHANGED statusCode
      /\ UNCHANGED observes /\ UNCHANGED stored /\ UNCHANGED observers /\ UNCHANGED struck
  BY DEF Timeout, pastVars
<1>3. \/ /\ error' = [error EXCEPT ![r] = "TimeoutError"]
         /\ SetFinished(r, m_runningHostLookups)
      \/ /\ UNCHANGED m_reply /\ UNCHANGED m_replyQueue /\ UNCHANGED m_runningHostLookups
         /\ UNCHANGED timer /\ UNCHANGED error /\ UNCHANGED finished
  BY DEF Timeout
<1>4. CASE r \in struck
  <2>1. net' = net
    BY <1>1, <1>2, <1>4 DEF Written
  <2>2. struck' = struck \cup {m_reply} /\ disturbed \subseteq disturbed'
    BY <1>1, <1>2, <1>4
  <2>3. /\ \A x \in Requests : x # r => error'[x] = error[x]
        /\ \A x \in Requests : x # r => timer'[x] = timer[x]
    <3>1. timer' = [timer EXCEPT ![r] = FALSE] \/ timer' = timer
      BY <1>3 DEF SetFinished
    <3>2. error' = [error EXCEPT ![r] = "TimeoutError"] \/ error' = error
      BY <1>3
    <3>3. DOMAIN error = Requests /\ timer \in [Requests -> BOOLEAN]
      BY DEF IInv, Typed
    <3> HIDE RequestFacts, CoapAssumption
    <3>4. \A x \in Requests : x # r => error'[x] = error[x]
      BY <3>2, <3>3
    <3>5. \A x \in Requests : x # r => timer'[x] = timer[x]
      BY <3>1, <3>3
    <3>6. QED
      BY <3>4, <3>5
  <2>4. OnlyCurrentChanges
    BY <1>1, <1>2, <2>1, <2>2, <2>3 DEF OnlyCurrentChanges
  <2>5. QED
    BY <1>1, <1>2, <1>3, <1>4, <2>1, <2>2, <2>4, StrikeStep
<1>5. CASE r \notin struck
  <2>1. net' = net \cup {requestData[r]}
    BY <1>1, <1>2, <1>5 DEF Written
  <2>2. CASE /\ UNCHANGED m_reply /\ UNCHANGED m_replyQueue /\ UNCHANGED m_runningHostLookups
             /\ UNCHANGED timer /\ UNCHANGED error /\ UNCHANGED finished
    BY <1>1, <1>2, <1>5, <2>1, <2>2, ResentStep
  <2>3. CASE /\ error' = [error EXCEPT ![r] = "TimeoutError"]
             /\ SetFinished(r, m_runningHostLookups)
    <3>1. net' \subseteq net \cup (IF token[m_reply] # None THEN {requestData[m_reply]} ELSE {})
      BY <1>1, <1>5, <2>1
    <3>2. "TimeoutError" # "NoError" /\ disturbed \subseteq disturbed'
      BY <1>2
    <3>3. m_runningHostLookups = m_runningHostLookups \ {m_reply}
      BY <1>1, <1>5
    <3>4. /\ SetFinished(m_reply, m_runningHostLookups)
          /\ error' = [error EXCEPT ![m_reply] = "TimeoutError"]
      BY <1>1, <2>3
    <3>5. QED
      BY <1>1, <1>2, <1>5, <3>1, <3>2, <3>3, <3>4, GivenUpStep
  <2>4. QED
    BY <1>3, <2>2, <2>3
<1>6. QED
  BY <1>4, <1>5

LEMMA InvalidStep ==
    ASSUME IInv, Typed', InvalidDatagram
    PROVE  IInv'
<1>1. /\ m_reply # None /\ SetFinished(m_reply, m_runningHostLookups)
      /\ error' = [error EXCEPT ![m_reply] = "InvalidPduError"]
      /\ UNCHANGED m_observeResources /\ UNCHANGED kind /\ UNCHANGED messageId
      /\ UNCHANGED token /\ UNCHANGED requestData /\ UNCHANGED payload /\ UNCHANGED statusCode
      /\ UNCHANGED observes /\ UNCHANGED stored /\ UNCHANGED observers
      /\ UNCHANGED net /\ UNCHANGED disturbed
      /\ struck' = struck \cup ({m_reply} \cap m_runningHostLookups)
  BY DEF InvalidDatagram, envVars, Strikes
<1>2. CASE m_reply \in m_runningHostLookups
  <2>1. struck' = struck \cup {m_reply}
    BY <1>1, <1>2
  <2>2. /\ \A x \in Requests : x # m_reply => error'[x] = error[x]
        /\ \A x \in Requests : x # m_reply => timer'[x] = timer[x]
    BY <1>1 DEF SetFinished, IInv, Typed
  <2>3. OnlyCurrentChanges
    BY <1>1, <2>1, <2>2 DEF OnlyCurrentChanges
  <2>4. QED
    BY <1>1, <1>2, <2>1, <2>3, StrikeStep
<1>3. CASE m_reply \notin m_runningHostLookups
  <2>1. m_reply \notin struck /\ UNCHANGED struck
    BY <1>1, <1>3, SMTT(40) DEF IInv, Typed, RightFor, StruckRight
  <2>2. m_runningHostLookups = m_runningHostLookups \ {m_reply}
    BY <1>3
  <2>3. "InvalidPduError" # "NoError" /\ disturbed \subseteq disturbed'
    BY <1>1
  <2>4. net' \subseteq net \cup (IF token[m_reply] # None THEN {requestData[m_reply]} ELSE {})
    BY <1>1
  <2>5. QED
    BY <1>1, <2>1, <2>2, <2>3, <2>4, GivenUpStep
<1>4. QED
  BY <1>2, <1>3

-----------------------------------------------------------------------------
(* Answers *)

\* A request that was sent, or whose lookup is over, was not struck.
LEMMA SentFacts ==
    ASSUME IInv, NEW r \in Requests, token[r] # None \/ r \notin m_runningHostLookups
    PROVE  r \notin struck /\ RequestRight(r) /\ SentRight(r)
BY DEF IInv, RightFor, StruckRight, RequestRight

\* m arrives while the host of the current request is not looked up.
Heard(m) == m.dst = "client" /\ m_reply \notin m_runningHostLookups

\* Then the current request was sent; a datagram that has its message id or its token
\* belongs to it, unless it ends an observation.
LEMMA AnswerFacts ==
    ASSUME IInv, NEW r \in Requests, r = m_reply, NEW m \in net, Heard(m),
           AnswersById(m) \/ AnswersByToken(m)
    PROVE  /\ r \notin m_runningHostLookups /\ token[r] # None /\ finished[r] = 0
           /\ r \notin struck /\ RequestRight(r) /\ SentRight(r)
           /\ m.req \in Requests /\ IsAnswerFor(m, m.req)
           /\ AnswersById(m) => m.req = r /\ m.id \in Nat \X Nat /\ m.id[1] = r
           /\ observes[r] # "disable" => m.req = r
<1> USE RequestFacts
<1>1. r \notin m_runningHostLookups /\ r \notin struck /\ RequestRight(r) /\ SentRight(r)
  BY SentFacts DEF Heard
<1>2. token[r] # None /\ finished[r] = 0
  BY <1>1 DEF IInv, QueueRight, SentRight
<1>3. m.req \in Requests /\ token[m.req] # None /\ IsAnswerFor(m, m.req) /\ SentRight(m.req)
  <2>1. m.req \in Requests /\ token[m.req] # None /\ IsAnswerFor(m, m.req)
    BY DEF IInv, MessagesRight, Heard, IsSentFor
  <2>2. QED
    BY <2>1, SentFacts
<1>4. ASSUME AnswersById(m) PROVE m.req = r /\ m.id \in Nat \X Nat /\ m.id[1] = r
  <2>1. /\ messageId[r] = requestData[r].id /\ requestData[r].id \in Nat \X Nat
        /\ requestData[r].id[1] = r
    BY <1>1, <1>2 DEF SentRight, IsSentFor
  <2>2. requestData[r].id # NoId
    BY <2>1 DEF NoId
  <2>3. m.id = requestData[r].id
    BY <1>4, <2>1, <2>2 DEF AnswersById
  <2>4. QED
    BY <1>3, <2>1, <2>3 DEF IsAnswerFor
<1>5. ASSUME AnswersByToken(m), observes[r] # "disable" PROVE m.req = r
  <2>1. token[r] = r
    BY <1>1, <1>2, <1>5 DEF SentRight
  <2>2. token[m.req] = r
    BY <1>2, <1>3, <1>5, <2>1 DEF AnswersByToken, IsAnswerFor
  <2>3. CASE m.req # r
    <3>1. finished[r] > 0
      BY <1>3, <2>2, <2>3 DEF SentRight
    <3>2. QED
      BY <1>2, <3>1
  <2>4. QED
    BY <2>3
<1>6. QED
  BY <1>1, <1>2, <1>3, <1>4, <1>5

\* What the answers of a server to a confirmable message look like.
LEMMA AnswerForms ==
    ASSUME NEW r \in Requests, NEW q, q.req = r, KindOK(kind[r]), kind[r].type = "Con",
           NEW A \in Answers(q), NEW m \in A, \A a \in A : ~(a.id[1] = 0 /\ a.block = "Block2")
    PROVE  /\ m.dst = "client" /\ m.req = r
           /\ m.code = "Content" => m.num = q.num
           /\ m.block = "Block1" => /\ A = {m} /\ kind[r].method = "Put" /\ m.type = "Ack"
                                    /\ m.id = q.id /\ m.num = q.num /\ m.code = "Content"
           /\ m.block = "Block2" => /\ A = {m} /\ kind[r].method = "Get" /\ m.type = "Ack"
                                    /\ m.id = q.id /\ m.num = q.num
                                    /\ m.more <=> q.num + 1 < kind[r].blocks
           /\ m.block \notin {"Block1", "Block2"} /\ m.code = "Content"
              /\ kind[r].method \in {"Get", "Put"} => kind[r].blocks = 1
<1> DEFINE k == kind[r]
           blocks == k.blocks > 1
           ack(code, block, more) == ToClient(q.id, q.token, r, "Ack", code, block, q.num, more)
           own == ToClient(<<0, r>>, q.token, r, "Con", "Content",
                           IF k.method = "Get" /\ blocks THEN "Block2" ELSE "none", q.num, blocks)
           empty == ToClient(q.id, None, r, "Ack", "Empty", "none", 0, FALSE)
           rst == ToClient(q.id, None, r, "Rst", "Empty", "none", 0, FALSE)
<1>1. \/ k.method = "Empty" /\ A = {rst}
      \/ k.method = "Put" /\ blocks /\ A \in {{ack("Content", "Block1", q.more)},
                                              {ack("Refused", "none", FALSE)}}
      \/ k.method = "Get" /\ blocks /\ A \in {{ack("Content", "Block2", q.num + 1 < k.blocks)},
                                              {empty, own}}
      \/ /\ ~(k.method = "Put" /\ blocks) /\ ~(k.method = "Get" /\ blocks)
         /\ A \in {{ack("Content", "none", FALSE)}, {ack("Refused", "none", FALSE)},
                   {empty, own}}
  BY DEF Answers
<1>2. k.blocks \in Nat \ {0} /\ (~blocks => k.blocks = 1)
  BY DEF KindOK
<1>3. CASE k.method = "Empty" /\ A = {rst}
  BY <1>3 DEF ToClient
<1>4. CASE k.method = "Put" /\ blocks /\ A \in {{ack("Content", "Block1", q.more)},
                                                {ack("Refused", "none", FALSE)}}
  BY <1>4 DEF ToClient
<1>5. CASE k.method = "Get" /\ blocks /\ A = {ack("Content", "Block2", q.num + 1 < k.blocks)}
  <2>1. m = ack("Content", "Block2", q.num + 1 < k.blocks)
    BY <1>5
  <2>2. m.more = (q.num + 1 < k.blocks)
    BY <2>1 DEF ToClient
  <2>3. /\ m.dst = "client" /\ m.req = r /\ m.block = "Block2" /\ m.type = "Ack"
        /\ m.id = q.id /\ m.num = q.num
    BY <2>1 DEF ToClient
  <2>4. A = {m}
    BY <1>5, <2>1
  <2>5. QED
    BY <1>5, <2>2, <2>3, <2>4
<1>6. CASE k.method = "Get" /\ blocks /\ A = {empty, own}
  <2>1. own.id[1] = 0 /\ own.block = "Block2"
    BY <1>6 DEF ToClient
  <2>2. QED
    BY <1>6, <2>1
<1>7. CASE /\ ~(k.method = "Put" /\ blocks) /\ ~(k.method = "Get" /\ blocks)
           /\ A \in {{ack("Content", "none", FALSE)}, {ack("Refused", "none", FALSE)},
                     {empty, own}}
  <2>1. /\ m.dst = "client" /\ m.req = r /\ m.block = "none"
        /\ m.code = "Content" => m.num = q.num
    BY <1>7 DEF ToClient
  <2>2. QED
    BY <1>2, <1>7, <2>1
<1>8. QED
  BY <1>1, <1>3, <1>4, <1>5, <1>6, <1>7

\* An answer of an exchange that is not disturbed.
LEMMA UndisturbedAnswer ==
    ASSUME IInv, NEW r \in Requests, r = m_reply, NEW m \in net, Heard(m),
           AnswersById(m) \/ AnswersByToken(m),
           r \notin disturbed, kind[r].type = "Con", observes[r] = "no"
    PROVE  /\ m.req = r /\ Undisturbed(r) /\ Exchange(r) /\ KindOK(kind[r])
           /\ \E A \in Answers(requestData[r]) :
                /\ Mine(r) \subseteq A /\ m \in A
                /\ \A a \in A : ~(a.id[1] = 0 /\ a.block = "Block2")
<1>1. /\ token[r] # None /\ finished[r] = 0 /\ m.req = r /\ RequestRight(r) /\ SentRight(r)
  BY AnswerFacts
<1>2. Undisturbed(r) /\ Exchange(r)
  BY <1>1 DEF Undisturbed, RequestRight
<1>3. KindOK(kind[r])
  BY <1>1, KindFacts DEF IInv, QueueRight
<1>4. m \in Mine(r) /\ m.dst # "server" /\ requestData[r].dst = "server"
  BY <1>1 DEF Mine, Heard, SentRight, IsSentFor
<1>5. ~(Mine(r) \subseteq {requestData[r]})
  BY <1>4
<1>6. QED
  BY <1>1, <1>2, <1>3, <1>4, <1>5 DEF Exchange

\* The last answer completes the transfer.
LEMMA TransferEnds ==
    ASSUME IInv, NEW r \in Requests, r = m_reply, NEW m \in net, Heard(m),
           AnswersById(m) \/ AnswersByToken(m),
           r \notin disturbed, kind[r].type = "Con", observes[r] = "no", m.code = "Content",
           \/ AnswersById(m) /\ m.type = "Ack" /\ m.block = "Block1"
              /\ (kind[r].method = "Put" => m.num + 1 >= kind[r].blocks)
           \/ AnswersById(m) /\ m.type = "Ack" /\ m.block = "Block2" /\ ~m.more
           \/ AnswersById(m) /\ ~(m.type = "Ack" /\ m.block # "none")
           \/ AnswersByToken(m)
    PROVE  /\ kind[r].method = "Put" => stored[r] = 0..(kind[r].blocks - 1)
           /\ kind[r].method = "Get" =>
                 /\ m.block # "Block1"
                 /\ payload[r] = [i \in 1..(kind[r].blocks - 1) |-> Piece(r, i - 1)]
                 /\ m.num = kind[r].blocks - 1 /\ m.req = r
<1> DEFINE q == requestData[r]
           k == kind[r]
<1>1. /\ m.req = r /\ Undisturbed(r) /\ Exchange(r) /\ KindOK(k)
      /\ \E A \in Answers(q) : /\ Mine(r) \subseteq A /\ m \in A
                               /\ \A a \in A : ~(a.id[1] = 0 /\ a.block = "Block2")
  BY UndisturbedAnswer
<1>2. PICK A \in Answers(q) : /\ m \in A
                              /\ \A a \in A : ~(a.id[1] = 0 /\ a.block = "Block2")
  BY <1>1
<1>3. q.req = r /\ messageId[r] = q.id /\ q.num \in Nat /\ (k.method = "Put" => q.num < k.blocks)
  BY <1>1, AnswerFacts DEF Undisturbed, SentRight, IsSentFor
<1>4. /\ m.code = "Content" => m.num = q.num
      /\ m.block = "Block1" => k.method = "Put" /\ m.type = "Ack" /\ m.id = q.id
      /\ m.block = "Block2" => /\ k.method = "Get" /\ m.type = "Ack" /\ m.id = q.id
                               /\ m.more <=> q.num + 1 < k.blocks
      /\ m.block \notin {"Block1", "Block2"} /\ m.code = "Content"
         /\ k.method \in {"Get", "Put"} => k.blocks = 1
  BY <1>1, <1>2, <1>3, AnswerForms
<1>5. m.num = q.num /\ k.blocks \in Nat \ {0}
  BY <1>1, <1>4 DEF KindOK
<1>6. m.id # messageId[r] => m.block \notin {"Block1", "Block2"}
  BY <1>3, <1>4
<1>7. /\ m.block = "Block1" => q.num + 1 >= k.blocks
      /\ m.block = "Block2" => ~m.more
  <2>1. AnswersByToken(m) => m.id # messageId[r]
    BY DEF AnswersByToken
  <2>2. QED
    BY <1>4, <1>5, <1>6, <2>1
<1>8. k.method = "Put" => stored[r] = 0..(k.blocks - 1)
  <2> SUFFICES ASSUME k.method = "Put" PROVE stored[r] = 0..(k.blocks - 1)
    OBVIOUS
  <2>1. q.num = k.blocks - 1
    <3>1. m.block = "Block1" \/ k.blocks = 1
      BY <1>4
    <3>2. QED
      BY <1>3, <1>5, <1>7, <3>1
  <2>2. 0..(q.num - 1) \subseteq stored[r] /\ q.num \in stored[r]
    BY <1>1 DEF Exchange, Mine, Heard
  <2>3. stored[r] \subseteq 0..(k.blocks - 1)
    <3>1. k # None
      BY <1>1 DEF Undisturbed, IInv, QueueRight
    <3>2. QED
      BY <3>1, AnswerFacts DEF SentRight
  <2>4. 0..(k.blocks - 1) = 0..(q.num - 1) \cup {q.num}
    BY <1>3, <2>1
  <2>5. QED
    BY <2>1, <2>2, <2>3, <2>4
<1>9. ASSUME k.method = "Get"
      PROVE  /\ m.block # "Block1"
             /\ payload[r] = [i \in 1..(k.blocks - 1) |-> Piece(r, i - 1)]
             /\ m.num = k.blocks - 1
  <2>1. q.num < k.blocks /\ payload[r] = [i \in 1..q.num |-> Piece(r, i - 1)]
    BY <1>1, <1>9 DEF Exchange
  <2>2. m.block # "Block1"
    BY <1>4, <1>9
  <2>3. q.num = k.blocks - 1
    <3>1. ~(q.num + 1 < k.blocks)
      <4>1. CASE m.block = "Block2"
        BY <1>4, <1>7, <4>1
      <4>2. CASE m.block # "Block2"
        <5>1. k.blocks = 1
          BY <1>4, <1>9, <2>2, <4>2
        <5>2. QED
          BY <1>3, <5>1
      <4>3. QED
        BY <4>1, <4>2
    <3>2. QED
      BY <1>3, <1>5, <2>1, <3>1
  <2>4. QED
    BY <1>5, <2>1, <2>2, <2>3
<1>10. QED
  BY <1>1, <1>8, <1>9

\* The pieces of an answer are appended in their order.
LEMMA PieceAppended ==
    ASSUME NEW r, NEW n \in Nat, NEW p, p = [i \in 1..n |-> Piece(r, i - 1)]
    PROVE  Append(p, [of |-> r, num |-> n]) = [i \in 1..(n + 1) |-> Piece(r, i - 1)]
<1>1. Len(p) = n /\ p \in Seq({Piece(r, i - 1) : i \in 1..n})
  <2> DEFINE S == {Piece(r, i - 1) : i \in 1..n}
  <2>1. p \in [1..n -> S]
    OBVIOUS
  <2> HIDE DEF S
  <2>2. p \in Seq(S)
    BY <2>1
  <2>3. Len(p) = n
    BY <2>1, <2>2
  <2>4. QED
    BY <2>2, <2>3 DEF S
<1>2. Append(p, [of |-> r, num |-> n]) =
         [i \in 1..(n + 1) |-> IF i = n + 1 THEN [of |-> r, num |-> n] ELSE p[i]]
  BY <1>1
<1>3. \A i \in 1..(n + 1) :
         (IF i = n + 1 THEN [of |-> r, num |-> n] ELSE p[i]) = Piece(r, i - 1)
  BY DEF Piece
<1>4. QED
  BY <1>2, <1>3

\* The current request ends with what m says; what it carries then is right.
LEMMA FinishedStep ==
    ASSUME IInv, Typed', NEW r \in Requests, r = m_reply, token[r] # None, NEW m \in net,
           FinishWith(m), r \notin m_runningHostLookups, UNCHANGED struck,
           \A x \in Requests : x # r => payload'[x] = payload[x],
           UNCHANGED m_observeResources, UNCHANGED kind, UNCHANGED token, UNCHANGED error,
           UNCHANGED observes, UNCHANGED stored, UNCHANGED observers,
           Belongs(r)', r \notin disturbed => Complete(r)'
    PROVE  IInv'
<1> USE RequestFacts
<1>1. /\ statusCode' = [statusCode EXCEPT ![r] = m.code]
      /\ SetFinished(m_reply, m_runningHostLookups) /\ Delivered(m, {})
      /\ UNCHANGED requestData /\ UNCHANGED messageId
  BY DEF FinishWith
<1>2. net' \subseteq net /\ disturbed \subseteq disturbed'
  BY <1>1 DEF Delivered
<1>3. QueueRight' /\ Advanced
  <2> DEFINE lookups == m_runningHostLookups
  <2>1. /\ SetFinished(m_reply, lookups) /\ m_runningHostLookups \ {m_reply} \subseteq lookups
        /\ lookups \subseteq m_runningHostLookups /\ lookups \subseteq struck'
    BY <1>1 DEF IInv, QueueRight
  <2> HIDE DEF lookups
  <2>2. QED
    BY <2>1, QueueAdvances
<1>4. r \notin struck /\ RequestRight(r) /\ SentRight(r)
  BY SentFacts
<1>5. MessagesRight'
  BY <1>2, MessagesLeft DEF IInv
<1>6. \A x \in Requests : x # r => RightFor(x)'
  <2>1. OnlyCurrentChanges
    BY <1>1, <1>2, <1>3 DEF OnlyCurrentChanges, Advanced, IInv, Typed
  <2>2. QED
    BY <1>3, <2>1, OthersStay
<1>7. RequestRight(r)'
  <2>1. finished'[r] > 0 /\ r # m_reply' /\ ~timer'[r] /\ finished'[r] # 0
    BY <1>3 DEF Advanced
  <2>2. \A x \in Requests : finished[x] > 0 => finished'[x] > 0
    BY <1>3, <2>1 DEF Advanced
  <2>3. token[r] \in Requests /\ SentRight(r)
    BY <1>4 DEF IInv, Typed
  <2>4. SentRight(r)'
    BY <1>1, <2>1, <2>2, <2>3 DEF SentRight, IsSentFor
  <2>5. ~Undisturbed(r)'
    BY <2>1 DEF Undisturbed
  <2>6. QED
    BY <1>2, <2>4, <2>5 DEF RequestRight
<1>8. QED
  BY <1>3, <1>4, <1>5, <1>6, <1>7 DEF IInv, RightFor

\* What an answer appends to the payload.
LEMMA AppendedPayload ==
    ASSUME IInv, NEW r \in Requests, r = m_reply, NEW m \in net, Heard(m),
           AnswersById(m) \/ AnswersByToken(m), Append64(r, m), UNCHANGED observes
    PROVE  /\ payload' \in [Requests -> Seq(Pieces)]
           /\ payload'[r] = Append(payload[r], [of |-> m.req, num |-> m.num])
           /\ \A x \in Requests : x # r => payload'[x] = payload[x]
           /\ Belongs(r)'
<1> USE CoapAssumption
<1> DEFINE piece == [of |-> m.req, num |-> m.num]
<1>1. /\ m.req \in Requests /\ m.num \in Nat \cup {-1}
      /\ observes[r] # "disable" => m.req = r
  BY AnswerFacts DEF IsAnswerFor
<1>2. piece \in Pieces /\ piece.of = m.req
  BY <1>1 DEF Pieces
<1>3. payload \in [Requests -> Seq(Pieces)] /\ payload[r] \in Seq(Pieces)
  BY DEF IInv, Typed
<1>4. payload' = [payload EXCEPT ![r] = Append(payload[r], piece)]
  BY DEF Append64
<1> HIDE DEF piece
<1>5. /\ Append(payload[r], piece) \in Seq(Pieces)
      /\ Len(payload[r]) \in Nat /\ DOMAIN Append(payload[r], piece) = 1..(Len(payload[r]) + 1)
      /\ \A i \in 1..Len(payload[r]) : Append(payload[r], piece)[i] = payload[r][i]
      /\ Append(payload[r], piece)[Len(payload[r]) + 1] = piece
  BY <1>2, <1>3
<1>6. /\ payload' \in [Requests -> Seq(Pieces)]
      /\ payload'[r] = Append(payload[r], piece)
      /\ \A x \in Requests : x # r => payload'[x] = payload[x]
  BY <1>3, <1>4, <1>5
<1>7. Belongs(r)'
  <2> SUFFICES ASSUME observes[r] # "disable", NEW i \in 1..(Len(payload[r]) + 1)
               PROVE  Append(payload[r], piece)[i].of = r
    BY <1>5, <1>6 DEF Belongs
  <2>1. \A j \in 1..Len(payload[r]) : payload[r][j].of = r
    BY <1>3, AnswerFacts DEF RequestRight, Belongs
  <2>2. i \in 1..Len(payload[r]) \/ i = Len(payload[r]) + 1
    BY <1>5
  <2>3. QED
    BY <1>1, <1>2, <1>5, <2>1, <2>2
<1>8. QED
  BY <1>6, <1>7 DEF piece

\* Every way in which the last answer of a request comes.
LEMMA LastAnswerStep ==
    ASSUME IInv, Typed', NEW r \in Requests, r = m_reply, NEW m \in net, Heard(m),
           FinishWith(m), Append64(r, m), UNCHANGED struck,
           \/ AnswersById(m) /\ m.type = "Ack" /\ m.block = "Block2" /\ ~m.more
           \/ AnswersById(m) /\ ~(m.type = "Ack" /\ (m.code = "Empty" \/ m.block # "none"))
           \/ AnswersByToken(m),
           UNCHANGED m_observeResources, UNCHANGED kind, UNCHANGED token, UNCHANGED error,
           UNCHANGED observes, UNCHANGED stored, UNCHANGED observers
    PROVE  IInv'
<1>1. r \notin m_runningHostLookups /\ token[r] # None
  BY AnswerFacts
<1>2. /\ payload' \in [Requests -> Seq(Pieces)]
      /\ payload'[r] = Append(payload[r], [of |-> m.req, num |-> m.num])
      /\ \A x \in Requests : x # r => payload'[x] = payload[x]
      /\ Belongs(r)'
  BY AppendedPayload
<1>3. statusCode'[r] = m.code
  BY DEF FinishWith, IInv, Typed
<1>4. ASSUME r \notin disturbed PROVE Complete(r)'
  <2> SUFFICES ASSUME m.code = "Content", kind[r].type = "Con", observes[r] = "no"
               PROVE  /\ kind[r].method = "Put" => stored[r] = 0..(kind[r].blocks - 1)
                      /\ kind[r].method = "Get" =>
                            payload'[r] = [i \in 1..kind[r].blocks |-> Piece(r, i - 1)]
    BY <1>3 DEF Complete
  <2>1. /\ kind[r].method = "Put" => stored[r] = 0..(kind[r].blocks - 1)
        /\ kind[r].method = "Get" =>
              /\ payload[r] = [i \in 1..(kind[r].blocks - 1) |-> Piece(r, i - 1)]
              /\ m.num = kind[r].blocks - 1 /\ m.req = r
    BY <1>4, TransferEnds
  <2>2. KindOK(kind[r])
    BY <1>4, UndisturbedAnswer
  <2>3. kind[r].blocks \in Nat \ {0}
    BY <2>2 DEF KindOK
  <2>4. PICK n \in Nat : n = kind[r].blocks - 1 /\ kind[r].blocks = n + 1
    BY <2>3
  <2>5. ASSUME kind[r].method = "Get"
        PROVE  payload'[r] = [i \in 1..kind[r].blocks |-> Piece(r, i - 1)]
    <3>1. payload[r] = [i \in 1..n |-> Piece(r, i - 1)]
      BY <2>1, <2>4, <2>5
    <3>2. Append(payload[r], [of |-> r, num |-> n]) = [i \in 1..(n + 1) |-> Piece(r, i - 1)]
      BY <3>1, PieceAppended
    <3>3. m.req = r /\ m.num = n
      BY <2>1, <2>4, <2>5
    <3>4. payload'[r] = Append(payload[r], [of |-> r, num |-> n])
      BY <1>2, <3>3
    <3>5. QED
      BY <2>4, <3>2, <3>4
  <2>6. QED
    BY <2>1, <2>5
<1>5. QED
  BY <1>1, <1>2, <1>4, FinishedStep

\* An answer that moves one of several blocks is all of its exchange that is under way.
LEMMA BlockMoved ==
    ASSUME IInv, NEW r \in Requests, r = m_reply, NEW m \in net, Heard(m),
           AnswersById(m), m.block \in {"Block1", "Block2"},
           r \notin disturbed, kind[r].type = "Con", observes[r] = "no"
    PROVE  /\ Mine(r) = {m} /\ m.num \in Nat
           /\ m.block = "Block1" => kind[r].method = "Put"
           /\ m.block = "Block2" =>
                 kind[r].method = "Get" /\ (m.more => m.num + 1 < kind[r].blocks)
           /\ kind[r].method = "Put" => 0..m.num \subseteq stored[r]
           /\ kind[r].method = "Get" =>
                 Append(payload[r], [of |-> r, num |-> m.num])
                    = [i \in 1..(m.num + 1) |-> Piece(r, i - 1)]
<1> DEFINE q == requestData[r]
<1>1. /\ m.req = r /\ Undisturbed(r) /\ Exchange(r) /\ KindOK(kind[r])
      /\ \E A \in Answers(q) : /\ Mine(r) \subseteq A /\ m \in A
                               /\ \A a \in A : ~(a.id[1] = 0 /\ a.block = "Block2")
  BY UndisturbedAnswer
<1>2. PICK A \in Answers(q) : /\ Mine(r) \subseteq A /\ m \in A
                              /\ \A a \in A : ~(a.id[1] = 0 /\ a.block = "Block2")
  BY <1>1
<1>3. q.req = r /\ q.num \in Nat
  BY <1>1, AnswerFacts DEF Undisturbed, SentRight, IsSentFor
<1>4. /\ A = {m} /\ m.num = q.num
      /\ m.block = "Block1" => kind[r].method = "Put" /\ m.code = "Content"
      /\ m.block = "Block2" => kind[r].method = "Get" /\ (m.more => q.num + 1 < kind[r].blocks)
  BY <1>1, <1>2, <1>3, AnswerForms
<1>5. m \in Mine(r) /\ m.dst = "client"
  BY <1>1 DEF Mine, Heard
<1>6. ASSUME kind[r].method = "Put" PROVE 0..q.num \subseteq stored[r]
  <2>1. 0..(q.num - 1) \subseteq stored[r] /\ q.num \in stored[r]
    BY <1>1, <1>4, <1>5, <1>6 DEF Exchange
  <2>2. 0..q.num = 0..(q.num - 1) \cup {q.num}
    BY <1>3
  <2>3. QED
    BY <2>1, <2>2
<1>7. ASSUME kind[r].method = "Get"
      PROVE  Append(payload[r], [of |-> r, num |-> q.num])
                = [i \in 1..(q.num + 1) |-> Piece(r, i - 1)]
  <2>1. payload[r] = [i \in 1..q.num |-> Piece(r, i - 1)]
    BY <1>1, <1>7 DEF Exchange
  <2>2. PICK n \in Nat : n = q.num
    BY <1>3
  <2>3. Append(payload[r], [of |-> r, num |-> n]) = [i \in 1..(n + 1) |-> Piece(r, i - 1)]
    BY <2>1, <2>2, PieceAppended
  <2>4. QED
    BY <2>2, <2>3
<1>8. QED
  BY <1>2, <1>3, <1>4, <1>5, <1>6, <1>7

\* The next block is sent, or asked for.
LEMMA NextBlockStep ==
    ASSUME IInv, Typed', NEW r \in Requests, r = m_reply, NEW m \in net, Heard(m),
           AnswersById(m), m.block \in {"Block1", "Block2"}, NEW more,
           SendNextBlock(m, m.num + 1, more),
           m.block = "Block1" => /\ kind[r].method = "Put" /\ m.num + 1 < kind[r].blocks
                                 /\ payload' = payload,
           m.block = "Block2" =>
              m.more /\ payload'[r] = Append(payload[r], [of |-> m.req, num |-> m.num]),
           \A x \in Requests : x # r => payload'[x] = payload[x], UNCHANGED struck,
           UNCHANGED m_observeResources, UNCHANGED kind, UNCHANGED token, UNCHANGED error,
           UNCHANGED observes, UNCHANGED stored, UNCHANGED observers, Belongs(r)'
    PROVE  IInv'
<1> USE RequestFacts, CoapAssumption
<1>1. /\ r \notin m_runningHostLookups /\ token[r] # None /\ finished[r] = 0
      /\ r \notin struck /\ SentRight(r)
      /\ m.req = r /\ m.id \in Nat \X Nat /\ m.id[1] = r /\ IsAnswerFor(m, r)
  BY AnswerFacts
<1>2. PICK q : q = ToServer(<<m.id[1], m.id[2] + 1>>, m.token, r, m.num + 1, more)
  OBVIOUS
<1>3. /\ requestData' = [requestData EXCEPT ![r] = q]
      /\ messageId' = [messageId EXCEPT ![r] = q.id]
      /\ timer' = [timer EXCEPT ![r] = TRUE]
      /\ Delivered(m, {q})
      /\ UNCHANGED m_reply /\ UNCHANGED m_replyQueue /\ UNCHANGED m_runningHostLookups
      /\ UNCHANGED statusCode /\ UNCHANGED finished
  BY <1>1, <1>2 DEF SendNextBlock, Written
<1>4. /\ q.dst = "server" /\ q.req = r /\ q.token = m.token /\ q.num = m.num + 1
      /\ q.id = <<m.id[1], m.id[2] + 1>>
  BY <1>2 DEF ToServer
<1>5. q.id \in Nat \X Nat /\ q.id[1] = r
  BY <1>1, <1>4
<1>6. IsSentFor(q, r)'
  <2>1. m.num \in Nat /\ m.token = token[r] /\ (m.block = "Block2" => kind[r].method = "Get")
    BY <1>1 DEF IsAnswerFor
  <2>2. QED
    BY <1>4, <1>5, <2>1 DEF IsSentFor
<1>7. net' \subseteq net \cup {q} /\ disturbed \subseteq disturbed'
  BY <1>3 DEF Delivered
<1>9. QueueRight'
  BY <1>3, QueueStays DEF IInv, QueueRight
<1>10. MessagesRight'
  <2> DEFINE fresh == {q}
  <2>1. net' \subseteq net \cup fresh
    BY <1>7
  <2>2. \A x \in fresh : /\ x.req \in Requests /\ token'[x.req] # None
                         /\ IsSentFor(x, x.req)' \/ IsAnswerFor(x, x.req)'
    BY <1>1, <1>4, <1>6
  <2>3. \A x \in Requests : token[x] # None => token'[x] = token[x] /\ kind'[x] = kind[x]
    OBVIOUS
  <2> HIDE DEF fresh
  <2>4. QED
    BY <2>1, <2>2, <2>3, MessagesStay DEF IInv
<1>11. \A x \in Requests : x # r => RightFor(x)'
  <2>1. /\ DOMAIN requestData = Requests /\ timer \in [Requests -> BOOLEAN]
        /\ messageId \in [Requests -> Nat \X Nat]
    BY DEF IInv, Typed
  <2>2. \A x \in Requests : x # r => /\ requestData'[x] = requestData[x]
                                     /\ timer'[x] = timer[x]
                                     /\ messageId'[x] = messageId[x]
    BY <1>3, <2>1
  <2>3. \A x \in Requests : x # r => \A n \in net' : n.req = x => n \in net
    BY <1>4, <1>7
  <2>4. OnlyCurrentChanges
    BY <1>3, <1>7, <2>2, <2>3 DEF OnlyCurrentChanges
  <2>5. QED
    BY <1>3, <2>4, OthersStay
<1>12. requestData'[r] = q /\ messageId'[r] = q.id
  BY <1>3 DEF IInv, Typed
<1>13. SentRight(r)'
  <2>1. SentRight(r) /\ token[r] \in Requests
    BY <1>1 DEF IInv, Typed
  <2>2. QED
    BY <1>1, <1>3, <1>6, <1>12, <2>1 DEF SentRight
<1>14. Complete(r)'
  BY <1>1, <1>3 DEF Complete
<1>15. ASSUME Undisturbed(r)' PROVE Exchange(r)'
  <2>1. r \notin disturbed /\ kind[r].type = "Con" /\ observes[r] = "no" /\ r \notin disturbed'
    BY <1>7, <1>15 DEF Undisturbed
  <2>2. /\ Mine(r) = {m} /\ m.num \in Nat
        /\ m.block = "Block1" => kind[r].method = "Put"
        /\ m.block = "Block2" =>
              kind[r].method = "Get" /\ (m.more => m.num + 1 < kind[r].blocks)
        /\ kind[r].method = "Put" => 0..m.num \subseteq stored[r]
        /\ kind[r].method = "Get" =>
              Append(payload[r], [of |-> r, num |-> m.num])
                 = [i \in 1..(m.num + 1) |-> Piece(r, i - 1)]
    BY <2>1, BlockMoved
  <2>3. net' = (net \ {m}) \cup {q}
    BY <1>1, <1>3, <2>1 DEF Delivered
  <2>4. Mine(r)' \subseteq {q}
    BY <2>2, <2>3 DEF Mine
  <2>5. ASSUME kind[r].method = "Put"
        PROVE  /\ 0..(q.num - 1) \subseteq stored[r]
               /\ \A x \in Mine(r)' : x.dst # "client"
    BY <1>4, <2>2, <2>4, <2>5
  <2>6. ASSUME kind[r].method = "Get"
        PROVE  q.num < kind[r].blocks /\ payload'[r] = [i \in 1..q.num |-> Piece(r, i - 1)]
    <3>1. m.block = "Block2" /\ m.more
      BY <2>2, <2>6
    <3>2. payload'[r] = Append(payload[r], [of |-> r, num |-> m.num])
      BY <1>1, <3>1
    <3>3. payload'[r] = [i \in 1..(m.num + 1) |-> Piece(r, i - 1)]
      BY <2>2, <2>6, <3>2
    <3>4. QED
      BY <1>4, <2>2, <3>1, <3>3
  <2>7. QED
    BY <1>12, <2>4, <2>5, <2>6 DEF Exchange
<1>16. QED
  BY <1>1, <1>9, <1>10, <1>11, <1>13, <1>14, <1>15 DEF IInv, RequestRight, RightFor

\* Steps that take datagrams out of the network and leave the requests alone, but for a
\* timer that stops.
LEMMA HeardStep ==
    ASSUME IInv, Typed', net' \subseteq net, disturbed \subseteq disturbed',
           \A x \in Requests : timer'[x] => timer[x],
           UNCHANGED coapVars, UNCHANGED kind, UNCHANGED messageId, UNCHANGED token,
           UNCHANGED requestData, UNCHANGED payload,
           UNCHANGED statusCode, UNCHANGED error, UNCHANGED finished, UNCHANGED observes,
           UNCHANGED stored, UNCHANGED observers, UNCHANGED struck
    PROVE  IInv'
<1>1. /\ UNCHANGED m_reply /\ UNCHANGED m_replyQueue /\ UNCHANGED m_runningHostLookups
      /\ UNCHANGED m_observeResources
  BY DEF coapVars
<1>2. QueueRight'
  BY <1>1, QueueStays DEF IInv, QueueRight
<1>3. MessagesRight'
  BY MessagesLeft DEF IInv
<1>4. ASSUME NEW x \in Requests, x \notin struck PROVE RequestRight(x)'
  <2>1. /\ timer[x] => x = m_reply
        /\ x = m_reply => (x \in m_runningHostLookups <=> token[x] = None)
        /\ token[x] # None => x = m_reply \/ finished[x] > 0
    BY <1>4 DEF IInv, RightFor, RequestRight, SentRight
  <2>2. token[x] # None /\ finished[x] = 0 => x = m_reply
    BY <2>1 DEF IInv, Typed
  <2>3. QED
    BY <1>1, <1>4, <2>1, <2>2, RequestStays
<1>5. ASSUME NEW x \in Requests, x \in struck PROVE StruckRight(x)'
  BY <1>1, <1>5 DEF IInv, RightFor, StruckRight
<1>6. QED
  BY <1>2, <1>3, <1>4, <1>5 DEF IInv, RightFor

LEMMA IgnoredStep ==
    ASSUME IInv, Typed', NEW m \in net, EmptyAck(m) \/ NotForReply(m) \/ Lose(m)
    PROVE  IInv'
<1>1. /\ UNCHANGED timer \/ timer' = [timer EXCEPT ![m_reply] = FALSE]
      /\ UNCHANGED coapVars /\ UNCHANGED kind /\ UNCHANGED messageId /\ UNCHANGED token
      /\ UNCHANGED requestData /\ UNCHANGED payload
      /\ UNCHANGED statusCode /\ UNCHANGED error /\ UNCHANGED finished /\ UNCHANGED observes
      /\ UNCHANGED stored /\ UNCHANGED observers /\ UNCHANGED struck
  BY DEF EmptyAck, NotForReply, Lose, replyVars, pastVars
<1>2. net' \subseteq net /\ disturbed \subseteq disturbed'
  BY DEF EmptyAck, NotForReply, Lose, Delivered
<1>3. \A x \in Requests : timer'[x] => timer[x]
  BY <1>1 DEF IInv, Typed
<1>4. QED
  BY <1>1, <1>2, <1>3, HeardStep

\* An answer that arrives while the host of the current request is looked up strikes it.
LEMMA EarlyAnswerStep ==
    ASSUME IInv, Typed', NEW m \in net, m_reply \in m_runningHostLookups,
           \/ Block1Response(m) \/ Block2Response(m)
           \/ PiggybackedResponse(m) \/ SeparateResponse(m)
    PROVE  IInv'
<1> USE RequestFacts
<1>0. PICK r \in Requests : r = m_reply
  BY DEF IInv, Typed
<1>1. /\ UNCHANGED m_observeResources /\ UNCHANGED kind /\ UNCHANGED token
      /\ UNCHANGED error /\ UNCHANGED observes /\ UNCHANGED stored /\ UNCHANGED observers
      /\ struck' = struck \cup {m_reply}
  BY DEF Block1Response, Block2Response, PiggybackedResponse, SeparateResponse, Strikes
<1>2. \/ FinishWith(m)
      \/ \E num, more : SendNextBlock(m, num, more)
  BY DEF Block1Response, Block2Response, PiggybackedResponse, SeparateResponse
<1>3. \A x \in Requests : x # r => payload'[x] = payload[x]
  <2>1. payload \in [Requests -> Seq(Pieces)]
    BY DEF IInv, Typed
  <2>2. \/ UNCHANGED payload
        \/ payload' = [payload EXCEPT
               ![m_reply] = Append(payload[m_reply], [of |-> m.req, num |-> m.num])]
    BY DEF Block1Response, Block2Response, PiggybackedResponse, SeparateResponse, Append64
  <2>3. QED
    BY <1>0, <2>1, <2>2
<1>4. CASE FinishWith(m)
  <2>1. /\ SetFinished(m_reply, m_runningHostLookups) /\ Delivered(m, {})
        /\ UNCHANGED requestData /\ UNCHANGED messageId
        /\ statusCode' = [statusCode EXCEPT ![m_reply] = m.code]
    BY <1>4 DEF FinishWith
  <2>2. net' \subseteq net /\ disturbed \subseteq disturbed'
    BY <2>1 DEF Delivered
  <2>3. \A x \in Requests : x # r => statusCode'[x] = statusCode[x] /\ timer'[x] = timer[x]
    BY <1>0, <2>1 DEF SetFinished, IInv, Typed
  <2>4. OnlyCurrentChanges
    BY <1>0, <1>1, <1>3, <2>1, <2>2, <2>3 DEF OnlyCurrentChanges
  <2>5. QED
    BY <1>0, <1>1, <2>1, <2>2, <2>4, StrikeStep
<1>5. ASSUME NEW num, NEW more, SendNextBlock(m, num, more) PROVE IInv'
  <2>1. PICK next : /\ requestData' = [requestData EXCEPT ![m_reply] = next]
                    /\ messageId' = [messageId EXCEPT ![m_reply] = next.id]
                    /\ timer' = [timer EXCEPT ![m_reply] = TRUE]
                    /\ Delivered(m, {})
                    /\ UNCHANGED m_reply /\ UNCHANGED m_replyQueue
                    /\ UNCHANGED m_runningHostLookups
                    /\ UNCHANGED statusCode /\ UNCHANGED finished
    BY <1>5 DEF SendNextBlock, Written
  <2>2. net' \subseteq net /\ disturbed \subseteq disturbed'
    BY <2>1 DEF Delivered
  <2>3. \A x \in Requests : x # r => /\ requestData'[x] = requestData[x]
                                    /\ messageId'[x] = messageId[x] /\ timer'[x] = timer[x]
    BY <1>0, <2>1 DEF IInv, Typed
  <2>4. OnlyCurrentChanges
    BY <1>0, <1>1, <1>3, <2>1, <2>2, <2>3 DEF OnlyCurrentChanges
  <2>5. QED
    BY <1>0, <1>1, <2>1, <2>2, <2>4, StrikeStep
<1>6. QED
  BY <1>2, <1>4, <1>5

LEMMA BlockStep ==
    ASSUME IInv, Typed', NEW m \in net, Block1Response(m), m_reply \notin m_runningHostLookups
    PROVE  IInv'
<1> USE RequestFacts, CoapAssumption
<1>0. PICK r \in Requests : r = m_reply
  BY DEF Block1Response, AnswersById, IInv, Typed
<1>1. /\ Heard(m) /\ AnswersById(m) /\ m.type = "Ack" /\ m.code # "Empty" /\ m.block = "Block1"
      /\ UNCHANGED m_observeResources /\ UNCHANGED kind /\ UNCHANGED token
      /\ UNCHANGED payload /\ UNCHANGED error /\ UNCHANGED observes
      /\ UNCHANGED stored /\ UNCHANGED observers /\ UNCHANGED struck
  BY DEF Block1Response, Heard, Strikes
<1>2. PICK blocks : blocks = IF kind[r].method = "Put" THEN kind[r].blocks ELSE 0
  OBVIOUS
<1>3. /\ r \notin m_runningHostLookups /\ token[r] # None /\ m.num \in Nat /\ RequestRight(r)
  BY <1>0, <1>1, AnswerFacts DEF IsAnswerFor
<1>4. Belongs(r)'
  BY <1>1, <1>3 DEF Belongs, RequestRight
<1>5. CASE m.num + 1 >= blocks /\ FinishWith(m)
  <2>1. statusCode'[r] = m.code
    BY <1>0, <1>5 DEF FinishWith, IInv, Typed
  <2>2. ASSUME r \notin disturbed PROVE Complete(r)'
    <3> SUFFICES ASSUME m.code = "Content", kind[r].type = "Con", observes[r] = "no"
                 PROVE  /\ kind[r].method = "Put" => stored[r] = 0..(kind[r].blocks - 1)
                        /\ kind[r].method # "Get"
      BY <1>1, <2>1 DEF Complete
    <3>1. kind[r].method = "Put" => m.num + 1 >= kind[r].blocks
      BY <1>2, <1>5
    <3>2. QED
      BY <1>0, <1>1, <2>2, <3>1, TransferEnds
  <2>3. QED
    BY <1>0, <1>1, <1>3, <1>4, <1>5, <2>2, FinishedStep
<1>6. CASE m.num + 1 < blocks /\ SendNextBlock(m, m.num + 1, m.num + 2 < blocks)
  <2>1. kind[r].method = "Put" /\ m.num + 1 < kind[r].blocks
    BY <1>2, <1>3, <1>6
  <2>2. QED
    BY <1>0, <1>1, <1>4, <1>6, <2>1, NextBlockStep
<1>7. QED
  BY <1>0, <1>2, <1>5, <1>6 DEF Block1Response

LEMMA AnswerStep ==
    ASSUME IInv, Typed', NEW m \in net, m_reply \notin m_runningHostLookups,
           Block2Response(m) \/ PiggybackedResponse(m) \/ SeparateResponse(m)
    PROVE  IInv'
<1>0. PICK r \in Requests : r = m_reply
  BY DEF Block2Response, PiggybackedResponse, SeparateResponse, AnswersById, AnswersByToken,
         IInv, Typed
<1>1. /\ Heard(m) /\ Append64(r, m)
      /\ UNCHANGED m_observeResources /\ UNCHANGED kind /\ UNCHANGED token
      /\ UNCHANGED error /\ UNCHANGED observes /\ UNCHANGED stored /\ UNCHANGED observers
      /\ UNCHANGED struck
  BY <1>0 DEF Block2Response, PiggybackedResponse, SeparateResponse, Heard, Strikes
<1>2. CASE Block2Response(m)
  <2>1. /\ AnswersById(m) /\ m.type = "Ack" /\ m.block = "Block2"
        /\ \/ ~m.more /\ FinishWith(m)
           \/ m.more /\ SendNextBlock(m, m.num + 1, FALSE)
    BY <1>2 DEF Block2Response
  <2>2. CASE ~m.more /\ FinishWith(m)
    BY <1>0, <1>1, <2>1, <2>2, LastAnswerStep
  <2>3. CASE m.more /\ SendNextBlock(m, m.num + 1, FALSE)
    <3>1. /\ payload'[r] = Append(payload[r], [of |-> m.req, num |-> m.num])
          /\ \A x \in Requests : x # r => payload'[x] = payload[x]
          /\ Belongs(r)'
      BY <1>0, <1>1, <2>1, AppendedPayload
    <3>2. QED
      BY <1>0, <1>1, <2>1, <2>3, <3>1, NextBlockStep
  <2>4. QED
    BY <2>1, <2>2, <2>3
<1>3. CASE PiggybackedResponse(m)
  <2>1. /\ AnswersById(m) /\ FinishWith(m)
        /\ ~(m.type = "Ack" /\ (m.code = "Empty" \/ m.block # "none"))
    BY <1>3 DEF PiggybackedResponse
  <2>2. QED
    BY <1>0, <1>1, <2>1, LastAnswerStep
<1>4. CASE SeparateResponse(m)
  <2>1. AnswersByToken(m) /\ FinishWith(m)
    BY <1>4 DEF SeparateResponse
  <2>2. QED
    BY <1>0, <1>1, <2>1, LastAnswerStep
<1>5. QED
  BY <1>2, <1>3, <1>4

-----------------------------------------------------------------------------
(* Servers *)

\* Whatever a server answers belongs to the request it answers.
LEMMA ServersAnswer ==
    ASSUME NEW m, NEW s \in Requests, IsSentFor(m, s), NEW A \in Answers(m), NEW a \in A
    PROVE  IsAnswerFor(a, s)
<1> USE RequestFacts
<1> DEFINE k == kind[s]
           blocks == k.blocks > 1
           ack(code, block, more) == ToClient(m.id, m.token, s, "Ack", code, block, m.num, more)
           own(type) == ToClient(<<0, s>>, m.token, s, type, "Content",
                                 IF k.method = "Get" /\ blocks THEN "Block2" ELSE "none",
                                 m.num, blocks)
           note(type) == ToClient(m.id, None, s, type, "Empty", "none", 0, FALSE)
<1>1. /\ m.req = s /\ m.token = token[s] /\ m.id \in Nat \X Nat /\ m.id[1] = s /\ m.num \in Nat
  BY DEF IsSentFor
<1>2. \/ a \in {own("Non"), own("Con")}
      \/ a \in {note("Ack"), note("Rst")}
      \/ a \in {ack("Refused", "none", FALSE), ack("Content", "none", FALSE),
                ack("Content", "Block1", m.more)}
      \/ k.method = "Get" /\ a = ack("Content", "Block2", m.num + 1 < k.blocks)
  <2>1. \/ A = {own("Non")}
        \/ A = {note("Rst")}
        \/ A \in {{ack("Content", "Block1", m.more)}, {ack("Refused", "none", FALSE)}}
        \/ k.method = "Get" /\ A = {ack("Content", "Block2", m.num + 1 < k.blocks)}
        \/ A = {note("Ack"), own("Con")}
        \/ A = {ack("Content", "none", FALSE)}
    BY <1>1 DEF Answers
  <2>2. QED
    BY <2>1
<1>3. CASE a \in {own("Non"), own("Con")}
  <2>1. /\ a.dst = "client" /\ a.req = s /\ a.num = m.num /\ a.token = m.token
        /\ a.id = <<0, s>> /\ a.block = IF k.method = "Get" /\ blocks THEN "Block2" ELSE "none"
    BY <1>3 DEF ToClient
  <2>2. QED
    BY <1>1, <2>1 DEF IsAnswerFor
<1>4. CASE a \in {note("Ack"), note("Rst")}
  <2>1. /\ a.dst = "client" /\ a.req = s /\ a.num = 0 /\ a.token = None
        /\ a.id = m.id /\ a.block = "none"
    BY <1>4 DEF ToClient
  <2>2. QED
    BY <1>1, <2>1 DEF IsAnswerFor
<1>5. CASE a \in {ack("Refused", "none", FALSE), ack("Content", "none", FALSE),
                  ack("Content", "Block1", m.more)}
  <2>1. /\ a.dst = "client" /\ a.req = s /\ a.num = m.num /\ a.token = m.token
        /\ a.id = m.id /\ a.block \in {"none", "Block1"}
    BY <1>5 DEF ToClient
  <2>2. QED
    BY <1>1, <2>1 DEF IsAnswerFor
<1>6. CASE k.method = "Get" /\ a = ack("Content", "Block2", m.num + 1 < k.blocks)
  <2>1. /\ a.dst = "client" /\ a.req = s /\ a.num = m.num /\ a.token = m.token
        /\ a.id = m.id /\ a.block = "Block2"
    BY <1>6 DEF ToClient
  <2>2. QED
    BY <1>1, <1>6, <2>1 DEF IsAnswerFor
<1>7. QED
  BY <1>2, <1>3, <1>4, <1>5, <1>6

LEMMA ServerStep ==
    ASSUME IInv, Typed', NEW m \in net, ServerAnswers(m)
    PROVE  IInv'
<1> USE RequestFacts
<1>1. PICK s : s = m.req
  OBVIOUS
<1>2. /\ s \in Requests /\ token[s] # None /\ IsSentFor(m, s)
      /\ s \notin struck /\ RequestRight(s) /\ SentRight(s)
      /\ kind[s] # None /\ KindOK(kind[s])
  <2>1. s \in Requests /\ token[s] # None /\ IsSentFor(m, s)
    BY <1>1 DEF ServerAnswers, IInv, MessagesRight, IsAnswerFor
  <2>2. kind[s] # None
    BY <2>1 DEF IInv, QueueRight
  <2>3. QED
    BY <2>1, <2>2, KindFacts, SentFacts DEF IInv
<1>3. PICK answer \in Answers(m) :
        /\ net' = (net \ {m}) \cup answer
        /\ stored' = IF \E a \in answer : a.code = "Content"
                     THEN [stored EXCEPT ![s] = @ \cup {m.num}] ELSE stored
        /\ observers' = CASE observes[s] = "enable" -> observers \cup {m.token}
                          [] observes[s] = "disable" -> observers \ {m.token}
                          [] OTHER -> observers
        /\ disturbed' = IF \E a \in answer : a.id[1] = 0 /\ a.block = "Block2"
                        THEN disturbed \cup {s} ELSE disturbed
  BY <1>1 DEF ServerAnswers
<1>4. /\ UNCHANGED m_reply /\ UNCHANGED m_replyQueue /\ UNCHANGED m_runningHostLookups
      /\ UNCHANGED m_observeResources /\ UNCHANGED kind /\ UNCHANGED messageId
      /\ UNCHANGED token /\ UNCHANGED requestData /\ UNCHANGED timer
      /\ UNCHANGED retransmissions /\ UNCHANGED payload /\ UNCHANGED statusCode
      /\ UNCHANGED error /\ UNCHANGED finished /\ UNCHANGED observes /\ UNCHANGED struck
  BY DEF ServerAnswers, coapVars, replyVars, pastVars
<1>5. \A a \in answer : IsAnswerFor(a, s) /\ a.req = s /\ a.dst = "client"
  BY <1>2, ServersAnswer DEF IsAnswerFor
<1>7. QueueRight'
  BY <1>4, QueueStays DEF IInv, QueueRight
<1>8. MessagesRight'
  <2>1. \A a \in answer : /\ a.req \in Requests /\ token'[a.req] # None
                          /\ IsSentFor(a, a.req)' \/ IsAnswerFor(a, a.req)'
    BY <1>2, <1>4, <1>5 DEF IsAnswerFor
  <2>2. net' \subseteq net \cup answer
    BY <1>3
  <2>3. QED
    BY <1>4, <2>1, <2>2, MessagesStay DEF IInv
<1>9. /\ stored[s] \subseteq stored'[s] /\ stored'[s] \subseteq stored[s] \cup {m.num}
      /\ (\E a \in answer : a.code = "Content") => m.num \in stored'[s]
      /\ \A x \in Requests : x # s => stored'[x] = stored[x]
      /\ disturbed \subseteq disturbed'
  BY <1>2, <1>3 DEF IInv, Typed
<1>10. \A x \in Requests : x \in observers' =>
          x \in observers \/ (x = s /\ token[s] = s /\ observes[s] = "enable")
  <2> SUFFICES ASSUME NEW x \in Requests, x \in observers', x \notin observers
               PROVE  x = s /\ token[s] = s /\ observes[s] = "enable"
    OBVIOUS
  <2>1. observes[s] = "enable" /\ x = m.token
    BY <1>3
  <2>2. m.token = token[s] /\ token[s] = s
    BY <1>2, <2>1 DEF IsSentFor, SentRight
  <2>3. QED
    BY <2>1, <2>2
<1>11. ASSUME NEW x \in Requests, x # s, x \notin struck PROVE RequestRight(x)'
  <2>1. /\ timer[x] => x = m_reply
        /\ x = m_reply => (x \in m_runningHostLookups <=> token[x] = None)
        /\ token[x] # None => x = m_reply \/ finished[x] > 0
    BY <1>11 DEF IInv, RightFor, RequestRight, SentRight
  <2>2. token[x] # None /\ finished[x] = 0 => x = m_reply
    BY <2>1 DEF IInv, Typed
  <2>3. \A a \in net' : a.req = x => a \in net
    BY <1>3, <1>5, <1>11
  <2>4. x \in observers' => x \in observers
    BY <1>10, <1>11
  <2>5. QED
    BY <1>4, <1>9, <1>11, <2>1, <2>2, <2>3, <2>4, RequestStays
<1>12. RequestRight(s)'
  <2>1. kind[s].method = "Put" => stored'[s] \subseteq 0..(kind[s].blocks - 1)
    <3> SUFFICES ASSUME kind[s].method = "Put" PROVE stored'[s] \subseteq 0..(kind[s].blocks - 1)
      OBVIOUS
    <3>1. /\ m.num \in Nat /\ m.num < kind[s].blocks /\ kind[s].blocks \in Nat
          /\ stored[s] \subseteq 0..(kind[s].blocks - 1)
      BY <1>2 DEF IsSentFor, SentRight, KindOK
    <3>2. m.num \in 0..(kind[s].blocks - 1)
      BY <3>1
    <3>3. QED
      BY <1>9, <3>1, <3>2
  <2>2. SentRight(s)'
    <3>1. IsSentFor(requestData[s], s)'
      BY <1>2, <1>4 DEF SentRight, IsSentFor
    <3>2. s \in observers' => token'[s] = s /\ observes'[s] = "enable"
      BY <1>2, <1>4, <1>10 DEF SentRight
    <3>3. QED
      BY <1>2, <1>4, <2>1, <3>1, <3>2 DEF SentRight
  <2>3. Belongs(s)'
    BY <1>2, <1>4 DEF Belongs, RequestRight
  <2>4. ASSUME s \notin disturbed' PROVE Complete(s)'
    <3>1. Complete(s)
      BY <1>2, <1>9, <2>4 DEF RequestRight
    <3>2. kind[s].method = "Put" /\ stored[s] = 0..(kind[s].blocks - 1)
             => stored'[s] = 0..(kind[s].blocks - 1)
      BY <1>9, <2>1
    <3>3. kind[s].method = "Get" => kind[s].method # "Put"
      OBVIOUS
    <3>4. QED
      BY <1>4, <3>1, <3>2, <3>3 DEF Complete
  <2>5. ASSUME Undisturbed(s)' PROVE Exchange(s)'
    <3>1. Undisturbed(s) /\ Exchange(s) /\ s \notin disturbed'
      BY <1>2, <1>4, <1>9, <2>5 DEF Undisturbed, RequestRight
    <3>2. m \in Mine(s) /\ m.dst = "server"
      BY <1>1 DEF Mine, ServerAnswers
    <3>3. PICK q : q = requestData[s]
      OBVIOUS
    <3>4. q.req = s /\ q.num \in Nat
      BY <1>2, <3>3 DEF SentRight, IsSentFor
    <3>5. Mine(s) \subseteq {q}
      <4>1. \A A \in Answers(q) : \A a \in A : a.dst # "server"
        BY <1>2, <3>3, ServersAnswer DEF SentRight, IsAnswerFor
      <4>2. QED
        BY <3>1, <3>2, <3>3, <4>1 DEF Exchange
    <3>6. m = q
      BY <3>2, <3>5
    <3>7. Mine(s)' \subseteq answer
      BY <1>3, <3>5, <3>6 DEF Mine
    <3>8. \A a \in answer : ~(a.id[1] = 0 /\ a.block = "Block2")
      BY <1>3, <3>1
    <3>9. answer \in Answers(q)'
      BY <1>4, <3>4, <3>6, AnswersStay
    <3>10. kind[s].method = "Put" =>
              /\ 0..(q.num - 1) \subseteq stored'[s]
              /\ \A x \in Mine(s)' : x.dst = "client" /\ x.code = "Content" => q.num \in stored'[s]
      BY <1>9, <3>1, <3>3, <3>6, <3>7 DEF Exchange
    <3>11. kind[s].method = "Get" =>
              /\ q.num < kind[s].blocks
              /\ payload[s] = [i \in 1..q.num |-> Piece(s, i - 1)]
      BY <3>1, <3>3 DEF Exchange
    <3>12. requestData'[s] = q
      BY <1>4, <3>3
    <3>13. QED
      BY <1>4, <3>7, <3>8, <3>9, <3>10, <3>11, <3>12 DEF Exchange
  <2>6. QED
    BY <2>2, <2>3, <2>4, <2>5 DEF RequestRight
<1>13. ASSUME NEW x \in Requests, x \in struck PROVE StruckRight(x)'
  <2>1. StruckRight(x) /\ x # s
    BY <1>2, <1>13 DEF IInv, RightFor
  <2>2. QED
    BY <1>4, <1>10, <2>1 DEF StruckRight
<1>14. QED
  BY <1>2, <1>4, <1>7, <1>8, <1>11, <1>12, <1>13 DEF IInv, RightFor

LEMMA NotifyStep ==
    ASSUME IInv, Typed', NEW t \in Requests, Notify(t)
    PROVE  IInv'
<1> USE RequestFacts
<1>1. PICK n : n = ToClient(<<0, -t>>, t, t, "Con", "Content", "none", -1, FALSE)
  OBVIOUS
<1>2. /\ n.dst = "client" /\ n.req = t /\ n.token = t /\ n.num = -1 /\ n.block = "none"
      /\ n.id = <<0, -t>> /\ n.id[1] = 0
  BY <1>1 DEF ToClient
<1>3. net' = net \cup {n} /\ t \in observers
  BY <1>1 DEF Notify
<1>4. /\ UNCHANGED m_reply /\ UNCHANGED m_replyQueue /\ UNCHANGED m_runningHostLookups
      /\ UNCHANGED m_observeResources /\ UNCHANGED kind /\ UNCHANGED messageId
      /\ UNCHANGED token /\ UNCHANGED requestData /\ UNCHANGED timer
      /\ UNCHANGED retransmissions /\ UNCHANGED payload /\ UNCHANGED statusCode
      /\ UNCHANGED error /\ UNCHANGED finished /\ UNCHANGED observes
      /\ UNCHANGED stored /\ UNCHANGED observers /\ UNCHANGED disturbed /\ UNCHANGED struck
  BY DEF Notify, coapVars, replyVars, pastVars
<1>5. token[t] = t /\ observes[t] = "enable"
  BY <1>3 DEF IInv, RightFor, StruckRight, RequestRight, SentRight
<1>6. IsAnswerFor(n, t)'
  BY <1>2, <1>4, <1>5 DEF IsAnswerFor
<1>8. QueueRight'
  BY <1>4, QueueStays DEF IInv, QueueRight
<1>9. MessagesRight'
  <2> DEFINE fresh == {n}
  <2>1. net' \subseteq net \cup fresh
    BY <1>3
  <2>2. \A a \in fresh : /\ a.req \in Requests /\ token'[a.req] # None
                         /\ IsSentFor(a, a.req)' \/ IsAnswerFor(a, a.req)'
    BY <1>2, <1>4, <1>5, <1>6
  <2>3. \A x \in Requests : token[x] # None => token'[x] = token[x] /\ kind'[x] = kind[x]
    BY <1>4
  <2> HIDE DEF fresh
  <2>4. QED
    BY <2>1, <2>2, <2>3, MessagesStay DEF IInv
<1>10. ASSUME NEW x \in Requests, x \notin struck PROVE RequestRight(x)'
  <2>1. /\ timer[x] => x = m_reply
        /\ x = m_reply => (x \in m_runningHostLookups <=> token[x] = None)
        /\ token[x] # None => x = m_reply \/ finished[x] > 0
    BY <1>10 DEF IInv, RightFor, RequestRight, SentRight
  <2>2. token[x] # None /\ finished[x] = 0 => x = m_reply
    BY <2>1 DEF IInv, Typed
  <2>3. \A a \in net' : a.req = x => a \in net \/ observes[x] # "no"
    BY <1>2, <1>3, <1>5
  <2>4. QED
    BY <1>4, <1>10, <2>1, <2>2, <2>3, RequestStays
<1>11. ASSUME NEW x \in Requests, x \in struck PROVE StruckRight(x)'
  BY <1>4, <1>11 DEF IInv, RightFor, StruckRight
<1>12. QED
  BY <1>4, <1>8, <1>9, <1>10, <1>11 DEF IInv, RightFor

LEMMA StepRight ==
    ASSUME IInv, Typed', [Next]_vars, Kept'
    PROVE  IInv'
<1>1. CASE UNCHANGED vars
  <2>1. /\ UNCHANGED coapVars /\ UNCHANGED kind /\ UNCHANGED messageId /\ UNCHANGED token
        /\ UNCHANGED requestData /\ UNCHANGED payload
        /\ UNCHANGED statusCode /\ UNCHANGED error /\ UNCHANGED finished /\ UNCHANGED observes
        /\ UNCHANGED stored /\ UNCHANGED observers /\ UNCHANGED net /\ UNCHANGED disturbed
        /\ UNCHANGED timer /\ UNCHANGED struck
    BY <1>1 DEF vars, replyVars, envVars, pastVars
  <2>2. \A x \in Requests : timer'[x] => timer[x]
    BY <2>1
  <2>3. QED
    BY <2>1, <2>2, HeardStep
<1>2. ASSUME NEW m \in net,
             \/ Block1Response(m) \/ Block2Response(m)
             \/ PiggybackedResponse(m) \/ SeparateResponse(m)
      PROVE  IInv'
  BY <1>2, EarlyAnswerStep, BlockStep, AnswerStep
<1>3. CASE Next
  BY <1>2, <1>3, RequestStep, LookupStep, TimeoutStep, InvalidStep, IgnoredStep, ServerStep,
     NotifyStep
  DEF Next
<1>4. QED
  BY <1>1, <1>3

\* A late lookup stays late.
LEMMA KeptBefore == [Next]_vars /\ Kept' => Kept
<1> SUFFICES ASSUME [Next]_vars PROVE late \subseteq late'
  BY DEF Kept
<1>1. CASE UNCHANGED vars
  BY <1>1 DEF vars, pastVars
<1>2. CASE Next
  BY <1>2
  DEF Next, Request, HostLookupFinished, Timeout, EmptyAck, Block1Response, Block2Response,
      PiggybackedResponse, SeparateResponse, NotForReply, InvalidDatagram, Lose, ServerAnswers,
      Notify, Strikes, pastVars
<1>3. QED
  BY <1>1, <1>2

-----------------------------------------------------------------------------
(* Theorems about what a reply carries *)

\* The inductive invariant: the types in every state, and the rest as long as no lookup of
\* a struck request has returned.
Inv == Typed /\ (Kept => IInv)

\* The inductive invariant holds in every state of the client.
THEOREM Invariance == Spec => []Inv
<1>1. Init => Inv
  BY InitRight DEF IInv, Inv
<1>2. Inv /\ [Next]_vars => Inv'
  <2> SUFFICES ASSUME Inv, [Next]_vars PROVE Inv'
    OBVIOUS
  <2>1. Typed'
    BY TypesStep DEF Inv
  <2>2. ASSUME Kept' PROVE IInv'
    BY <2>1, <2>2, KeptBefore, StepRight DEF Inv
  <2>3. QED
    BY <2>1, <2>2 DEF Inv
<1>3. QED
  BY <1>1, <1>2, PTL DEF Spec

\* The variables keep their types, in every state.
THEOREM TypeCorrect == Spec => []TypeOK
<1>1. Inv => TypeOK
  BY DEF Inv, Typed, TypeOK
<1>2. QED
  BY <1>1, Invariance, PTL

\* A reply finishes with its own answer, and with all of it: for every number of requests
\* and blocks, every limit of retransmissions, whatever the network loses, delays,
\* reorders or copies, and also while other requests were struck.
THEOREM AnswersRightCorrect == Spec => []AnswersRight
<1>1. IInv => AnswersBelong
  BY DEF IInv, RightFor, RequestRight, Belongs, AnswersBelong
<1>2. IInv => TransfersComplete
  BY DEF IInv, RightFor, RequestRight, Complete, TransfersComplete
<1>3. Inv => AnswersRight
  BY <1>1, <1>2 DEF Inv, AnswersRight
<1>4. QED
  BY <1>3, Invariance, PTL

-----------------------------------------------------------------------------
(* The queue of requests *)

Waiting == (IF m_reply = None THEN <<>> ELSE <<m_reply>>) \o m_replyQueue
Done == {r \in Requests : finished[r] > 0}

Ends == m_reply # None /\ \E lookups : SetFinished(m_reply, lookups)

\* What happens to the current request, the queue and the finished requests in a step.
LEMMA QueueSteps ==
    ASSUME IInv, Next, Kept'
    PROVE  \/ \E r \in Requests : \E k \in KindsOf[r] : Request(r, k)
           \/ Ends
           \/ UNCHANGED m_reply /\ UNCHANGED m_replyQueue /\ UNCHANGED finished
<1> USE RequestFacts
<1> DEFINE Goal == \/ \E r \in Requests : \E k \in KindsOf[r] : Request(r, k)
                   \/ Ends
                   \/ UNCHANGED m_reply /\ UNCHANGED m_replyQueue /\ UNCHANGED finished
<1>1. ASSUME NEW r \in Requests, HostLookupFinished(r) PROVE Goal
  <2>1. r = m_reply /\ m_reply # None
    BY <1>1 DEF HostLookupFinished, Kept, IInv, QueueRight
  <2>2. \/ \E lookups : SetFinished(r, lookups)
        \/ \E lookups : SendRequest(r, lookups)
    BY <1>1 DEF HostLookupFinished
  <2>3. QED
    BY <2>1, <2>2 DEF SendRequest, Ends
<1>2. ASSUME NEW r \in Requests, Timeout(r) PROVE Goal
  <2>1. r = m_reply /\ m_reply # None
    BY <1>2 DEF Timeout, IInv, RightFor, StruckRight, RequestRight, SentRight
  <2>2. QED
    BY <1>2, <2>1 DEF Timeout, Ends
<1>3. ASSUME NEW m \in net, FinishWith(m), AnswersById(m) \/ AnswersByToken(m) PROVE Goal
  BY <1>3 DEF FinishWith, AnswersById, AnswersByToken, Ends
<1>4. ASSUME NEW m \in net, NEW num, NEW more, SendNextBlock(m, num, more) PROVE Goal
  BY <1>4 DEF SendNextBlock
<1>5. ASSUME NEW m \in net, Block1Response(m) PROVE Goal
  BY <1>3, <1>4, <1>5 DEF Block1Response
<1>6. ASSUME NEW m \in net, Block2Response(m) PROVE Goal
  BY <1>3, <1>4, <1>6 DEF Block2Response
<1>7. ASSUME NEW m \in net, PiggybackedResponse(m) \/ SeparateResponse(m) PROVE Goal
  BY <1>3, <1>7 DEF PiggybackedResponse, SeparateResponse
<1>8. ASSUME NEW m \in net, EmptyAck(m) \/ NotForReply(m) \/ Lose(m) \/ ServerAnswers(m)
      PROVE  Goal
  BY <1>8 DEF EmptyAck, NotForReply, Lose, ServerAnswers, coapVars, replyVars
<1>9. ASSUME InvalidDatagram PROVE Goal
  BY <1>9 DEF InvalidDatagram, Ends
<1>10. ASSUME NEW t \in Requests, Notify(t) PROVE Goal
  BY <1>10 DEF Notify, coapVars, replyVars
<1> HIDE DEF Goal
<1>11. ASSUME NEW r \in Requests, NEW k \in KindsOf[r], Request(r, k) PROVE Goal
  BY <1>11 DEF Goal
<1>12. Goal
  BY <1>1, <1>2, <1>5, <1>6, <1>7, <1>8, <1>9, <1>10, <1>11 DEF Next
<1>13. QED
  BY <1>12 DEF Goal

\* An element before a sequence.
LEMMA PrefixFacts ==
    ASSUME NEW S, NEW e \in S, NEW q \in Seq(S)
    PROVE  /\ <<e>> \o q \in Seq(S) /\ <<e>> \o q # <<>>
           /\ Head(<<e>> \o q) = e /\ Tail(<<e>> \o q) = q
<1>1. <<e>> \in Seq(S) /\ Len(<<e>>) = 1 /\ <<e>>[1] = e
  OBVIOUS
<1>2. PICK w : w = <<e>> \o q
  OBVIOUS
<1>3. /\ w \in Seq(S) /\ Len(w) = 1 + Len(q) /\ Len(q) \in Nat
      /\ \A i \in 1..(1 + Len(q)) : w[i] = IF i <= 1 THEN <<e>>[i] ELSE q[i - 1]
  BY <1>1, <1>2, ConcatProperties, LenProperties
<1>4. w # <<>> /\ Head(w) = e /\ w[1] = e
  BY <1>1, <1>3
<1>5. Tail(w) = q
  <2>1. Tail(w) \in Seq(S) /\ Len(Tail(w)) = Len(q)
    BY <1>3, <1>4, HeadTailProperties
  <2>2. \A i \in 1..Len(q) : Tail(w)[i] = w[i + 1] /\ w[i + 1] = q[i]
    BY <1>3, <1>4, <2>1, HeadTailProperties
  <2>3. QED
    BY <2>1, <2>2, SeqEqual
<1>6. QED
  BY <1>2, <1>3, <1>4, <1>5

LEMMA PrefixAppend ==
    ASSUME NEW S, NEW e \in S, NEW q \in Seq(S), NEW x \in S
    PROVE  Append(<<e>> \o q, x) = <<e>> \o Append(q, x)
<1>1. <<e>> \in Seq(S) /\ <<x>> \in Seq(S) /\ <<e>> \o q \in Seq(S)
  BY PrefixFacts
<1>2. Append(q, x) = q \o <<x>>
  BY AppendIsConcat
<1>3. Append(<<e>> \o q, x) = (<<e>> \o q) \o <<x>>
  BY <1>1, AppendIsConcat
<1>4. (<<e>> \o q) \o <<x>> = <<e>> \o (q \o <<x>>)
  BY <1>1, ConcatAssociative
<1>5. QED
  BY <1>2, <1>3, <1>4

LEMMA PrefixElements ==
    ASSUME NEW S, NEW e \in S, NEW q \in Seq(S)
    PROVE  \A i \in DOMAIN (<<e>> \o q) :
              (<<e>> \o q)[i] = e \/ \E j \in 1..Len(q) : (<<e>> \o q)[i] = q[j]
<1>1. <<e>> \in Seq(S) /\ Len(<<e>>) = 1 /\ <<e>>[1] = e
  OBVIOUS
<1>2. PICK w : w = <<e>> \o q
  OBVIOUS
<1>3. /\ w \in Seq(S) /\ Len(w) = 1 + Len(q) /\ Len(q) \in Nat
      /\ \A i \in 1..(1 + Len(q)) : w[i] = IF i <= 1 THEN <<e>>[i] ELSE q[i - 1]
  BY <1>1, <1>2, ConcatProperties, LenProperties
<1>4. DOMAIN w = 1..(1 + Len(q))
  BY <1>3
<1>5. ASSUME NEW i \in DOMAIN w, i # 1 PROVE i - 1 \in 1..Len(q) /\ w[i] = q[i - 1]
  BY <1>3, <1>4, <1>5
<1>6. w[1] = e
  BY <1>1, <1>3
<1>7. QED
  BY <1>2, <1>5, <1>6

\* What waits is the current request and the queue behind it.
LEMMA WaitingFacts ==
    ASSUME IInv
    PROVE  /\ m_reply = None => Waiting = <<>>
           /\ m_reply # None => Waiting = <<m_reply>> \o m_replyQueue
           /\ Waiting \in Seq(Requests)
           /\ \A r \in Requests : kind[r] = None =>
                 r \notin {Waiting[i] : i \in DOMAIN Waiting} /\ r \notin Done
<1> USE RequestFacts
<1>1. m_replyQueue \in Seq(Requests)
  BY DEF IInv, Typed
<1>2. CASE m_reply = None
  <2>1. m_replyQueue = <<>>
    BY <1>2 DEF IInv, QueueRight
  <2>2. Waiting = <<>>
    BY <1>2, <2>1 DEF Waiting
  <2>3. QED
    BY <1>2, <2>2 DEF IInv, QueueRight, Done
<1>3. CASE m_reply # None
  <2>1. m_reply \in Requests /\ Waiting = <<m_reply>> \o m_replyQueue
    BY <1>3 DEF IInv, Typed, Waiting
  <2>2. Waiting \in Seq(Requests)
    BY <1>1, <2>1, PrefixFacts
  <2>3. \A i \in DOMAIN Waiting :
            Waiting[i] = m_reply \/ \E j \in 1..Len(m_replyQueue) : Waiting[i] = m_replyQueue[j]
    BY <1>1, <2>1, PrefixElements
  <2>4. \A r \in Requests : kind[r] = None =>
            /\ r # m_reply /\ r \notin Done
            /\ \A j \in 1..Len(m_replyQueue) : m_replyQueue[j] # r
    BY <1>3 DEF IInv, QueueRight, Done
  <2>5. \A r \in Requests : kind[r] = None =>
            r \notin {Waiting[i] : i \in DOMAIN Waiting} /\ r \notin Done
    BY <2>3, <2>4
  <2>6. QED
    BY <1>3, <2>1, <2>2, <2>5
<1>4. QED
  BY <1>2, <1>3

\* The end of the current request takes the oldest request from those that wait.
LEMMA FinishMaps ==
    ASSUME IInv, IInv', m_reply # None, NEW lookups, SetFinished(m_reply, lookups)
    PROVE  /\ Waiting # <<>> /\ Waiting' = Tail(Waiting)
           /\ Done' = Done \cup {Head(Waiting)}
<1> USE RequestFacts
<1>1. /\ m_reply \in Requests /\ m_replyQueue \in Seq(Requests)
      /\ Waiting = <<m_reply>> \o m_replyQueue
  BY WaitingFacts DEF IInv, Typed
<1>2. Waiting # <<>> /\ Head(Waiting) = m_reply /\ Tail(Waiting) = m_replyQueue
  BY <1>1, PrefixFacts
<1>3. Waiting' = m_replyQueue
  <2>1. CASE m_replyQueue = <<>>
    <3>1. m_reply' = None /\ m_replyQueue' = <<>>
      BY <2>1 DEF SetFinished
    <3>2. QED
      BY <2>1, <3>1 DEF Waiting
  <2>2. CASE m_replyQueue # <<>>
    <3>1. /\ m_reply' = Head(m_replyQueue) /\ m_replyQueue' = Tail(m_replyQueue)
          /\ Head(m_replyQueue) \in Requests
      BY <1>1, <2>2, HeadTailProperties DEF SetFinished
    <3>2. Waiting' = <<Head(m_replyQueue)>> \o Tail(m_replyQueue)
      BY <3>1 DEF Waiting
    <3>3. PICK n : n = Len(m_replyQueue)
      OBVIOUS
    <3>4. /\ n \in Nat \ {0} /\ m_replyQueue = SubSeq(m_replyQueue, 1, n)
          /\ Head(m_replyQueue) = m_replyQueue[1]
          /\ Tail(m_replyQueue) = SubSeq(m_replyQueue, 2, n)
      BY <1>1, <2>2, <3>3, EmptySeq, SubSeqFull, TailIsSubSeq
    <3>5. SubSeq(m_replyQueue, 1, n) = <<m_replyQueue[1]>> \o SubSeq(m_replyQueue, 1 + 1, n)
      BY <1>1, <3>3, <3>4, SubSeqRecursiveFirst
    <3>6. 1 + 1 = 2
      OBVIOUS
    <3>7. QED
      BY <3>2, <3>4, <3>5, <3>6
  <2>3. QED
    BY <2>1, <2>2
<1>4. Done' = Done \cup {m_reply}
  <2>1. finished' = [finished EXCEPT ![m_reply] = finished[m_reply] + 1]
    BY DEF SetFinished
  <2>2. QED
    BY <1>1, <2>1, SMTT(40) DEF Done, IInv, Typed
<1>5. QED
  BY <1>2, <1>3, <1>4

LEMMA RequestMaps ==
    ASSUME IInv, NEW r \in Requests, NEW k \in KindsOf[r], Request(r, k)
    PROVE  /\ r \notin {Waiting[i] : i \in DOMAIN Waiting} /\ r \notin Done
           /\ \/ Waiting' = Append(Waiting, r) /\ Done' = Done
              \/ Waiting' = Waiting /\ Done' = Done \cup {r}
<1> USE RequestFacts
<1>1. kind[r] = None
  BY DEF Request
<1>2. r \notin {Waiting[i] : i \in DOMAIN Waiting} /\ r \notin Done
  BY <1>1, WaitingFacts
<1>3. CASE /\ finished' = [finished EXCEPT ![r] = 1] /\ UNCHANGED coapVars
  <2>1. Waiting' = Waiting
    BY <1>3 DEF coapVars, Waiting
  <2>2. Done' = Done \cup {r}
    BY <1>3 DEF Done, IInv, Typed
  <2>3. QED
    BY <1>2, <2>1, <2>2
<1>4. CASE m_reply = None /\ m_reply' = r /\ UNCHANGED m_replyQueue /\ UNCHANGED finished
  <2>1. m_replyQueue = <<>> /\ Waiting = <<>>
    BY <1>4, WaitingFacts DEF IInv, QueueRight
  <2>2. Waiting' = <<r>> \o <<>>
    BY <1>4, <2>1 DEF Waiting
  <2>3. Append(<<>>, r) = <<r>> \o <<>>
    BY ConcatEmptySeq
  <2>4. QED
    BY <1>2, <1>4, <2>1, <2>2, <2>3 DEF Done
<1>5. CASE m_reply # None /\ m_replyQueue' = Append(m_replyQueue, r) /\ UNCHANGED m_reply
           /\ UNCHANGED finished
  <2>1. /\ m_reply \in Requests /\ m_replyQueue \in Seq(Requests)
        /\ Waiting = <<m_reply>> \o m_replyQueue
    BY <1>5, WaitingFacts DEF IInv, Typed
  <2>2. Waiting' = <<m_reply>> \o Append(m_replyQueue, r)
    BY <1>5 DEF Waiting
  <2>3. Append(<<m_reply>> \o m_replyQueue, r) = <<m_reply>> \o Append(m_replyQueue, r)
    BY <2>1, PrefixAppend
  <2>4. Waiting' = Append(Waiting, r)
    BY <2>1, <2>2, <2>3
  <2>5. QED
    BY <1>2, <1>5, <2>4 DEF Done
<1>6. QED
  BY <1>3, <1>4, <1>5 DEF Request

\* The client takes the steps of RequestQueue: requests are served one at a time, in the
\* order in which they were made, and each finishes once, until the lookup of a struck
\* request returns.
THEOREM RefinesRequestQueueCorrect == Spec => RefinesRequestQueue
<1>1. Init => Queue!Init
  BY RequestFacts, ConcatEmptySeq DEF Init, Queue!Init
<1>2. Inv /\ Inv' /\ [Next]_vars => [Kept' => Queue!Next]_(Queue!vars)
  <2> SUFFICES ASSUME Inv, Inv', [Next]_vars, Kept' PROVE [Queue!Next]_(Queue!vars)
    OBVIOUS
  <2>0. IInv /\ IInv'
    BY KeptBefore DEF Inv
  <2>1. CASE UNCHANGED vars
    BY <2>1 DEF vars, coapVars, replyVars, Queue!vars
  <2>2. ASSUME UNCHANGED m_reply, UNCHANGED m_replyQueue, UNCHANGED finished
        PROVE  UNCHANGED Queue!vars
    BY <2>2 DEF Queue!vars
  <2>3. ASSUME Ends PROVE Queue!Next
    BY <2>0, <2>3, FinishMaps DEF Ends, Queue!Next, Queue!Finish, Waiting, Done
  <2>4. ASSUME NEW r \in Requests, NEW k \in KindsOf[r], Request(r, k) PROVE Queue!Next
    BY <2>0, <2>4, RequestMaps
    DEF Queue!Next, Queue!Accept, Queue!Refuse, Queue!Made, Waiting, Done
  <2>5. QED
    BY <2>0, <2>1, <2>2, <2>3, <2>4, QueueSteps
<1>3. QED
  BY <1>1, <1>2, Invariance, PTL DEF Spec, RefinesRequestQueue
=============================================================================
