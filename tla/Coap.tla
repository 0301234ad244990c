-------------------------------- MODULE Coap --------------------------------
(***************************************************************************)
(* The CoAP client (libguh/coap): the queue of requests, host lookup,      *)
(* confirmable messages with their retransmission timer, block-wise        *)
(* transfer in both directions, separate responses and observed resources. *)
(*                                                                         *)
(* The network loses, delays, reorders and duplicates datagrams; the       *)
(* servers are the environment.  A reply object is named by the number of  *)
(* its construction, the random token of a message by the reply that       *)
(* created it, and the random message id by <<reply, n>>, n counting the   *)
(* additions of one that block-wise transfer makes to it: random values    *)
(* are taken not to collide.                                               *)
(***************************************************************************)
EXTENDS Integers, Sequences, FiniteSets

CONSTANTS
    MaxRequests,      \* bound: how many requests the users make
    Urls,             \* the resources
    KindsOf,          \* what the users may ask for in their r-th request, see KindOK
    MaxInFlight,      \* bound: the datagrams under way when a server or the network adds one
    RetransmitLimit,  \* CoapReply::resend gives up above this count: 5
    None

KindOK(k) ==
    /\ k.coap \in BOOLEAN                            \* the url has the scheme "coap"
    /\ k.method \in {"Empty", "Get", "Put", "Delete"}   \* Put stands for Post too
    /\ k.type \in {"Con", "Non"}
    /\ k.observe \in {"unset", "enable", "disable"}
    /\ k.url \in Urls
    /\ k.blocks \in Nat \ {0}                        \* of 64 bytes, of the payload that is moved
    /\ k.method \in {"Empty", "Delete"} => k.blocks = 1

ASSUME CoapAssumption ==
    /\ MaxRequests \in Nat
    /\ MaxInFlight \in Nat
    /\ RetransmitLimit \in Nat \ {0}
    /\ None \notin Nat \cup Urls
    /\ DOMAIN KindsOf = 1..MaxRequests
    /\ \A r \in 1..MaxRequests : \A k \in KindsOf[r] : KindOK(k) /\ k # None

Requests == 1..MaxRequests

VARIABLES
    (* the Coap object *)
    m_reply,                \* the request that is served, or None
    m_replyQueue,
    m_runningHostLookups,   \* the replies whose host is looked up
    m_observeResources,     \* token -> url of the observed resource, or None
    (* the CoapReply objects *)
    kind,                   \* what was requested, None before the construction
    messageId, token,
    requestData,            \* the last message sent, repeated on a timeout
    timer,                  \* is m_timer running?
    retransmissions,
    payload,                \* the pieces that were appended
    statusCode, error,
    finished,               \* how often setFinished was called
    observes,               \* what m_observation and m_observationEnable said when sent
    (* network and servers *)
    net,                    \* the datagrams under way
    stored,                 \* the blocks of a Put that its server has
    observers,              \* the tokens the servers notify
    disturbed,              \* exchanges with a duplicate, a needless
                            \* repetition, or a separate first block
    (* what the properties look back on *)
    struck,                 \* requests that a datagram changed while their host was looked up
    late                    \* those of them whose lookup has returned since

coapVars == <<m_reply, m_replyQueue, m_runningHostLookups, m_observeResources>>
replyVars == <<kind, messageId, token, requestData, timer, retransmissions,
               payload, statusCode, error, finished, observes>>
envVars == <<net, stored, observers, disturbed>>
pastVars == <<struck, late>>
vars == <<coapVars, replyVars, envVars, pastVars>>

\* m_messageId is not initialised: until a request is sent its id may be any.
NoId == <<0, 0>>
NotePiece(t) == [of |-> t, num |-> -1]

ToServer(id, t, r, num, more) ==
    [dst |-> "server", id |-> id, token |-> t, req |-> r, num |-> num, more |-> more]

ToClient(id, t, r, type, code, block, num, more) ==
    [dst |-> "client", id |-> id, token |-> t, req |-> r, type |-> type,
     code |-> code, block |-> block, num |-> num, more |-> more]

Init ==
    /\ m_reply = None
    /\ m_replyQueue = <<>>
    /\ m_runningHostLookups = {}
    /\ m_observeResources = [t \in Requests |-> None]
    /\ kind = [r \in Requests |-> None]
    /\ messageId = [r \in Requests |-> NoId]
    /\ token = [r \in Requests |-> None]
    /\ requestData = [r \in Requests |-> None]
    /\ timer = [r \in Requests |-> FALSE]
    /\ retransmissions = [r \in Requests |-> 1]
    /\ payload = [r \in Requests |-> <<>>]
    /\ statusCode = [r \in Requests |-> "Empty"]
    /\ error = [r \in Requests |-> "NoError"]
    /\ finished = [r \in Requests |-> 0]
    /\ observes = [r \in Requests |-> "no"]
    /\ net = {}
    /\ stored = [r \in Requests |-> {}]
    /\ observers = {}
    /\ disturbed = {}
    /\ struck = {}
    /\ late = {}

-----------------------------------------------------------------------------
(* The users' calls *)

\* ping, get, put, post, deleteResource, enableResourceNotifications and
\* disableNotifications: refused, served at once, or queued.
Request(r, k) ==
    /\ kind[r] = None
    /\ \A q \in 1..(r - 1) : kind[q] # None
    /\ kind' = [kind EXCEPT ![r] = k]
    /\ \/ /\ ~k.coap
          /\ error' = [error EXCEPT ![r] = "InvalidUrlSchemeError"]
          /\ finished' = [finished EXCEPT ![r] = 1]
          /\ UNCHANGED coapVars
       \/ /\ k.coap /\ m_reply = None
          /\ m_reply' = r
          /\ m_runningHostLookups' = m_runningHostLookups \cup {r}
          /\ UNCHANGED <<m_replyQueue, m_observeResources, error, finished>>
       \/ /\ k.coap /\ m_reply # None
          /\ m_replyQueue' = Append(m_replyQueue, r)
          /\ UNCHANGED <<m_reply, m_runningHostLookups, m_observeResources, error, finished>>
    /\ UNCHANGED <<messageId, token, requestData, timer, retransmissions, payload, statusCode,
                   observes, envVars, pastVars>>

-----------------------------------------------------------------------------
(* Serving the current request *)

\* Mutant of SetFinished.
SetFinished_TakesLast(r, lookups) ==
    /\ finished' = [finished EXCEPT ![r] = @ + 1]
    /\ timer' = [timer EXCEPT ![r] = FALSE]
    /\ IF m_replyQueue = <<>>
       THEN m_reply' = None /\ m_runningHostLookups' = lookups /\ UNCHANGED m_replyQueue
       ELSE LET n == Len(m_replyQueue) IN
            /\ m_reply' = m_replyQueue[n]
            /\ m_replyQueue' = SubSeq(m_replyQueue, 1, n - 1)
            /\ m_runningHostLookups' = lookups \cup {m_replyQueue[n]}

\* setFinished() and the slot onReplyFinished(): the next request of the queue
\* becomes the current one and its host is looked up.  lookups are the lookups
\* that go on.
SetFinished(r, lookups) ==
    /\ finished' = [finished EXCEPT ![r] = @ + 1]
    /\ timer' = [timer EXCEPT ![r] = FALSE]
    /\ IF m_replyQueue = <<>>
       THEN /\ m_reply' = None
            /\ m_runningHostLookups' = lookups
            /\ UNCHANGED m_replyQueue
       ELSE /\ m_reply' = Head(m_replyQueue)
            /\ m_replyQueue' = Tail(m_replyQueue)
            /\ m_runningHostLookups' = lookups \cup {Head(m_replyQueue)}

\* m_observation is initialised only for the two calls about notifications.
Observing(k) ==
    IF k.method # "Get" THEN {"no"}
    ELSE IF k.observe = "unset" THEN {"no", "enable", "disable"}
    ELSE {k.observe}

\* A request that ends the observation takes the token of one observation of
\* the url, the last of a hash's values; any other request takes a new token.
TokensFor(r, obs) ==
    LET same == {t \in Requests : m_observeResources[t] = kind[r].url}
    IN IF obs = "disable" /\ same # {} THEN same ELSE {r}

FirstBlock(r, t) ==
    ToServer(<<r, 1>>, t, r, 0, kind[r].method = "Put" /\ kind[r].blocks > 1)

\* sendRequest()
SendRequest(r, lookups) ==
    \E obs \in Observing(kind[r]) : \E t \in TokensFor(r, obs) :
        /\ observes' = [observes EXCEPT ![r] = obs]
        /\ token' = [token EXCEPT ![r] = t]
        /\ messageId' = [messageId EXCEPT ![r] = <<r, 1>>]
        /\ requestData' = [requestData EXCEPT ![r] = FirstBlock(r, t)]
        /\ net' = net \cup {FirstBlock(r, t)}
        /\ m_observeResources' =
              CASE obs = "enable"  -> [m_observeResources EXCEPT ![t] = kind[r].url]
                [] obs = "disable" -> [m_observeResources EXCEPT ![t] = None]
                [] OTHER           -> m_observeResources
        /\ \/ /\ kind[r].type = "Non"
              /\ SetFinished(r, lookups)
           \/ /\ kind[r].type = "Con"
              /\ timer' = [timer EXCEPT ![r] = TRUE]
              /\ m_runningHostLookups' = lookups
              /\ UNCHANGED <<m_reply, m_replyQueue, finished>>
        /\ UNCHANGED error

\* hostLookupFinished(): sends the request even if it has finished meanwhile.  (The reply
\* is then read after its user may have deleted it: here the user has kept it.)
HostLookupFinished(r) ==
    /\ r \in m_runningHostLookups
    /\ late' = late \cup ({r} \cap struck)
    /\ LET lookups == m_runningHostLookups \ {r} IN
       \/ /\ error' = [error EXCEPT ![r] = "HostNotFoundError"]
          /\ SetFinished(r, lookups)
          /\ UNCHANGED <<m_observeResources, messageId, token, requestData, observes, net>>
       \/ SendRequest(r, lookups)
    /\ UNCHANGED <<kind, retransmissions, payload, statusCode, stored, observers, disturbed, struck>>

\* What is written for r goes nowhere before its host is known.
Written(r, m) == IF r \in m_runningHostLookups THEN {} ELSE {m}

\* Mutant of Timeout.
Timeout_CountsNothing(r) ==
    /\ timer[r]
    /\ net' = net \cup Written(r, requestData[r])
    /\ disturbed' = disturbed \cup (IF \E m \in net : m.req = r THEN {r} ELSE {})
    /\ UNCHANGED <<coapVars, kind, messageId, token, requestData, timer, retransmissions, payload,
                   statusCode, error, finished, observes, stored, observers, pastVars>>

\* onReplyTimeout() and resend(): the message is written once more, also when
\* the reply has just been given up.
Timeout(r) ==
    /\ timer[r]
    /\ retransmissions' = [retransmissions EXCEPT ![r] = @ + 1]
    /\ \/ /\ retransmissions[r] + 1 > RetransmitLimit
          /\ error' = [error EXCEPT ![r] = "TimeoutError"]
          /\ SetFinished(r, m_runningHostLookups)
       \/ /\ retransmissions[r] + 1 <= RetransmitLimit
          /\ UNCHANGED <<m_reply, m_replyQueue, m_runningHostLookups, timer, error, finished>>
    /\ net' = net \cup Written(r, requestData[r])
    /\ disturbed' = disturbed \cup (IF \E m \in net : m.req = r THEN {r} ELSE {})
    /\ UNCHANGED <<m_observeResources, kind, messageId, token, requestData, payload,
                   statusCode, observes, stored, observers, pastVars>>

-----------------------------------------------------------------------------
(* Datagrams that arrive.  onReadyRead() reads every pending datagram and  *)
(* processes the last one only: the others are lost, which Lose covers.    *)

\* The network hands m over and keeps a copy or not; sent joins it.
Delivered(m, sent) ==
    \/ /\ net' = (net \ {m}) \cup sent
       /\ UNCHANGED disturbed
    \/ /\ Cardinality(net) <= MaxInFlight
       /\ net' = net \cup sent
       /\ disturbed' = disturbed \cup {m.req}

\* processResponse() compares the id, then the token, of the current reply, which has
\* neither before it is sent: any id may match then, and a message without a token does.
AnswersById(m) == m_reply # None /\ messageId[m_reply] \in {m.id, NoId}

\* Mutant of AnswersByToken.
AnswersByToken_Any(m) == m_reply # None /\ messageId[m_reply] # m.id

AnswersByToken(m) ==
    m_reply # None /\ messageId[m_reply] # m.id /\ token[m_reply] = m.token

MayBeIgnored(m) == m_reply # None => messageId[m_reply] # m.id /\ token[m_reply] # m.token

\* The current reply is changed, perhaps before its request was sent.
Strikes ==
    /\ struck' = struck \cup ({m_reply} \cap m_runningHostLookups)
    /\ UNCHANGED late

\* appendPayloadData(): the repetitions are counted anew.
Append64(r, m) ==
    /\ payload' = [payload EXCEPT ![r] = Append(@, [of |-> m.req, num |-> m.num])]
    /\ retransmissions' = [retransmissions EXCEPT ![r] = 1]

\* processIdBasedResponse(): an empty acknowledgement announces a separate
\* response; nothing is repeated any more.
EmptyAck(m) ==
    /\ m.dst = "client" /\ AnswersById(m)
    /\ m.type = "Ack" /\ m.code = "Empty"
    /\ timer' = [timer EXCEPT ![m_reply] = FALSE]
    /\ Delivered(m, {})
    /\ UNCHANGED <<coapVars, kind, messageId, token, requestData, retransmissions, payload,
                   statusCode, error, finished, observes, stored, observers, pastVars>>

\* The next block is asked for, or sent, with the id of the answer plus one.
SendNextBlock(m, num, more) ==
    LET next == ToServer(<<m.id[1], m.id[2] + 1>>, m.token, m_reply, num, more) IN
    /\ requestData' = [requestData EXCEPT ![m_reply] = next]
    /\ messageId' = [messageId EXCEPT ![m_reply] = next.id]
    /\ timer' = [timer EXCEPT ![m_reply] = TRUE]
    /\ Delivered(m, Written(m_reply, next))
    /\ UNCHANGED <<m_reply, m_replyQueue, m_runningHostLookups, statusCode, finished>>

FinishWith(m) ==
    /\ statusCode' = [statusCode EXCEPT ![m_reply] = m.code]
    /\ SetFinished(m_reply, m_runningHostLookups)
    /\ Delivered(m, {})
    /\ UNCHANGED <<requestData, messageId>>

\* processBlock1Response(): a block was stored.
Block1Response(m) ==
    /\ m.dst = "client" /\ AnswersById(m)
    /\ m.type = "Ack" /\ m.code # "Empty" /\ m.block = "Block1"
    /\ LET r == m_reply
           blocks == IF kind[r].method = "Put" THEN kind[r].blocks ELSE 0
       IN \/ /\ m.num + 1 >= blocks
             /\ FinishWith(m)
             /\ UNCHANGED retransmissions
          \/ /\ m.num + 1 < blocks
             /\ SendNextBlock(m, m.num + 1, m.num + 2 < blocks)
             /\ retransmissions' = [retransmissions EXCEPT ![r] = 1]
    /\ Strikes
    /\ UNCHANGED <<m_observeResources, kind, token, payload, error, observes, stored, observers>>

\* processBlock2Response(): a block of the answer.
Block2Response(m) ==
    /\ m.dst = "client" /\ AnswersById(m)
    /\ m.type = "Ack" /\ m.code # "Empty" /\ m.block = "Block2"
    /\ Append64(m_reply, m)
    /\ \/ ~m.more /\ FinishWith(m)
       \/ m.more /\ SendNextBlock(m, m.num + 1, FALSE)
    /\ Strikes
    /\ UNCHANGED <<m_observeResources, kind, token, error, observes, stored, observers>>

\* The rest of processIdBasedResponse(): whatever else has the id is the answer.
PiggybackedResponse(m) ==
    /\ m.dst = "client" /\ AnswersById(m)
    /\ ~(m.type = "Ack" /\ (m.code = "Empty" \/ m.block # "none"))
    /\ Append64(m_reply, m)
    /\ FinishWith(m)
    /\ Strikes
    /\ UNCHANGED <<m_observeResources, kind, token, error, observes, stored, observers>>

\* processTokenBasedResponse(): whatever has the token is the answer.
SeparateResponse(m) ==
    /\ m.dst = "client" /\ AnswersByToken(m)
    /\ Append64(m_reply, m)
    /\ FinishWith(m)
    /\ Strikes
    /\ UNCHANGED <<m_observeResources, kind, token, error, observes, stored, observers>>

\* processNotification(), and the Reset for a datagram nobody waits for: the
\* client's state stays as it is.
NotForReply(m) ==
    /\ m.dst = "client" /\ MayBeIgnored(m)
    /\ Delivered(m, {})
    /\ UNCHANGED <<coapVars, replyVars, stored, observers, pastVars>>

\* processResponse() of a datagram that is no CoAP message.
InvalidDatagram ==
    /\ m_reply # None
    /\ error' = [error EXCEPT ![m_reply] = "InvalidPduError"]
    /\ SetFinished(m_reply, m_runningHostLookups)
    /\ Strikes
    /\ UNCHANGED <<m_observeResources, kind, messageId, token, requestData, retransmissions,
                   payload, statusCode, observes, envVars>>

-----------------------------------------------------------------------------
(* The network and the servers *)

Lose(m) ==
    /\ net' = net \ {m}
    /\ UNCHANGED <<coapVars, replyVars, stored, observers, disturbed, pastVars>>

\* A server answers a message: in the acknowledgement, or in a message of its
\* own after an empty acknowledgement, or with a refusal.
Answers(m) ==
    LET k == kind[m.req]
        blocks == k.blocks > 1
        ack(code, block, more) == ToClient(m.id, m.token, m.req, "Ack", code, block, m.num, more)
        own(type) == ToClient(<<0, m.req>>, m.token, m.req, type, "Content",
                              IF k.method = "Get" /\ blocks THEN "Block2" ELSE "none", m.num, blocks)
        empty == ToClient(m.id, None, m.req, "Ack", "Empty", "none", 0, FALSE)
    IN CASE k.type = "Non" -> {{own("Non")}}
         [] k.type = "Con" /\ k.method = "Empty" ->
                {{ToClient(m.id, None, m.req, "Rst", "Empty", "none", 0, FALSE)}}
         [] k.type = "Con" /\ k.method = "Put" /\ blocks ->
                {{ack("Content", "Block1", m.more)}, {ack("Refused", "none", FALSE)}}
         [] k.type = "Con" /\ k.method = "Get" /\ blocks ->
                {{ack("Content", "Block2", m.num + 1 < k.blocks)}}
                \cup (IF m.num = 0 THEN {{empty, own("Con")}} ELSE {})
         [] OTHER ->
                {{ack("Content", "none", FALSE)}, {ack("Refused", "none", FALSE)},
                 {empty, own("Con")}}

ServerAnswers(m) ==
    /\ m.dst = "server"
    /\ \E answer \in Answers(m) :
        /\ Cardinality(net) <= MaxInFlight
        /\ net' = (net \ {m}) \cup answer
        /\ stored' = IF \E a \in answer : a.code = "Content"
                     THEN [stored EXCEPT ![m.req] = @ \cup {m.num}] ELSE stored
        /\ observers' = CASE observes[m.req] = "enable" -> observers \cup {m.token}
                          [] observes[m.req] = "disable" -> observers \ {m.token}
                          [] OTHER -> observers
        /\ disturbed' = IF \E a \in answer : a.id[1] = 0 /\ a.block = "Block2"
                        THEN disturbed \cup {m.req} ELSE disturbed
    /\ UNCHANGED <<coapVars, replyVars, pastVars>>

\* A server notifies the observer t of a change.
Notify(t) ==
    /\ t \in observers
    /\ Cardinality(net) <= MaxInFlight
    /\ net' = net \cup {ToClient(<<0, -t>>, t, t, "Con", "Content", "none", -1, FALSE)}
    /\ UNCHANGED <<coapVars, replyVars, stored, observers, disturbed, pastVars>>

Next ==
    \/ \E r \in Requests : (\E k \in KindsOf[r] : Request(r, k)) \/ HostLookupFinished(r) \/ Timeout(r)
    \/ \E m \in net :
        \/ EmptyAck(m) \/ Block1Response(m) \/ Block2Response(m) \/ PiggybackedResponse(m)
        \/ SeparateResponse(m) \/ NotForReply(m)
        \/ Lose(m) \/ ServerAnswers(m)
    \/ InvalidDatagram
    \/ \E t \in Requests : Notify(t)

\* Qt answers every lookup and every started timer fires; the network and the
\* servers owe nothing.
Fairness == \A r \in Requests : WF_vars(HostLookupFinished(r)) /\ WF_vars(Timeout(r))

Spec == Init /\ [][Next]_vars
FairSpec == Spec /\ Fairness

-----------------------------------------------------------------------------
(* Properties *)

Pieces == [of : Requests, num : Nat \cup {-1}]

\* The types of the client's state.
TypeOK ==
    /\ m_reply \in Requests \cup {None}
    /\ m_replyQueue \in Seq(Requests)
    /\ m_runningHostLookups \subseteq Requests
    /\ m_observeResources \in [Requests -> Urls \cup {None}]
    /\ \A r \in Requests : kind[r] \in KindsOf[r] \cup {None}
    /\ messageId \in [Requests -> Nat \X Nat]
    /\ token \in [Requests -> Requests \cup {None}]
    /\ timer \in [Requests -> BOOLEAN]
    /\ retransmissions \in [Requests -> Nat]
    /\ payload \in [Requests -> Seq(Pieces)]
    /\ finished \in [Requests -> Nat]

\* What a reply carries was sent for that very request, however late, repeated or
\* reordered the answers of other requests come in (Coap::processResponse).  A request
\* that ends an observation shares the token of that observation and is left out, and so
\* is one that was struck: it took the datagram that struck it for its answer.
AnswersBelong ==
    \A r \in Requests \ struck : observes[r] # "disable" =>
        \A i \in DOMAIN payload[r] : payload[r][i].of = r

Piece(r, n) == [of |-> r, num |-> n]

\* Losses and repetitions alone never cut a transfer short: a confirmable
\* request that finishes with the answer the server meant has sent, or
\* received, every block in order (processBlock1Response,
\* processBlock2Response), unless a copy of one of its datagrams or a separate
\* first block was under way, or it was struck.
TransfersComplete ==
    \A r \in Requests \ (disturbed \cup struck) :
        /\ finished[r] > 0 /\ error[r] = "NoError" /\ statusCode[r] = "Content"
        /\ kind[r].type = "Con" /\ observes[r] = "no"
        => CASE kind[r].method = "Put" -> stored[r] = 0..(kind[r].blocks - 1)
             [] kind[r].method = "Get" ->
                    payload[r] = [i \in 1..kind[r].blocks |-> Piece(r, i - 1)]
             [] OTHER -> TRUE

\* No struck request was sent yet.  When its lookup returns it is sent although it may
\* have finished; it then finishes a second time, "This should never happen!!" in
\* onReplyFinished(), and takes the place of the request that is served.  What the
\* client promises ends there.
Kept == late = {}

\* A reply finishes with its own answer, and all of it.
AnswersRight == Kept => AnswersBelong /\ TransfersComplete

\* Requests are served one at a time, in order, and finish once (the queue of
\* Coap): the client takes the steps of RequestQueue.
Queue == INSTANCE RequestQueue WITH
    waiting <- (IF m_reply = None THEN <<>> ELSE <<m_reply>>) \o m_replyQueue,
    done <- {r \in Requests : finished[r] > 0}

RefinesRequestQueue == Queue!Init /\ [][Kept' => Queue!Next]_Queue!vars

\* The current request was sent and waits without a timer: its server has
\* announced a separate response.
WaitsForSeparate ==
    m_reply # None /\ requestData[m_reply] # None /\ ~timer[m_reply]

\* Whatever the network loses, every request finishes, unless the one that is
\* served got an empty acknowledgement and its separate response never comes
\* (CoapReply::resend, Coap::onReplyFinished).
RequestsFinish ==
    \A r \in Requests : kind[r] # None ~> (finished[r] > 0 \/ WaitsForSeparate \/ ~Kept)

-----------------------------------------------------------------------------
(* The instance that TLC checks: two or three requests of the kinds below, one resource,
   transfers of one or two blocks *)

Asking(method, type, observe, blocks) ==
    [coap |-> TRUE, method |-> method, type |-> type, observe |-> observe,
     url |-> "u", blocks |-> blocks]

CheckedUrls == {"u"}

\* A download of two blocks (which may turn out to be an observation, or the end of one,
\* as its fields are not initialised) or a ping; then an upload of two blocks or the end
\* of the observation; then a message that nobody confirms or a url with a foreign scheme
CheckedKindsOf ==
    <<{Asking("Get", "Con", "unset", 2), Asking("Empty", "Con", "unset", 1)},
      {Asking("Put", "Con", "unset", 2), Asking("Get", "Con", "disable", 1)},
      {Asking("Put", "Non", "unset", 1),
       [Asking("Delete", "Con", "unset", 1) EXCEPT !.coap = FALSE]}>>
=============================================================================
