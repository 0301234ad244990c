---------------------------- MODULE PluginProofs ----------------------------
(***************************************************************************)
(* Safety of the plugins, for all devices, actions, accounts and colours.  *)
(* Each plugin has its invariant, which holds in the behaviours that are   *)
(* its own.                                                                *)
(***************************************************************************)
EXTENDS Plugins, FiniteSetTheorems, TLAPS

\* A step is one of the plugin that the behaviour is of.
LEMMA OnePlugin ==
    ASSUME [Next]_vars
    PROVE  /\ which' = which
           /\ which = "mail" => [Mail!Next]_(Mail!vars)
           /\ which = "time" => [Time!Next]_(Time!vars)
           /\ which = "launcher" => [Launcher!Next]_(Launcher!vars)
           /\ which = "avea" => [Avea!Next]_(Avea!vars)
           /\ which = "kodi" => [Upnp!KodiNext]_<<hostVars, Upnp!kodiVars>>
           /\ which = "wemo" => [Upnp!WemoNext]_<<hostVars, Upnp!wemoVars>>
           /\ which = "tv" => [Upnp!TvNext]_<<hostVars, Upnp!tvVars>>
           /\ which = "netatmo" => [Online!NetatmoNext]_<<hostVars, Online!netatmoVars>>
           /\ which = "weather" => [Online!WeatherNext]_<<hostVars, Online!weatherVars>>
           /\ which = "awattar" => [Online!AwattarNext]_<<hostVars, Online!awattarVars>>
<1>1. which' = which
  BY DEF Next, OthersUnchanged, vars
<1>2. which = "mail" => [Mail!Next]_(Mail!vars)
  BY DEF Next, vars, hostVars, Mail!vars, Mail!mailVars, mailVars, Mail!hostVars
<1>3. which = "time" => [Time!Next]_(Time!vars)
  BY DEF Next, vars, hostVars, Time!vars, Time!timeVars, timeVars, Time!hostVars
<1>4. which = "launcher" => [Launcher!Next]_(Launcher!vars)
  BY DEF Next, vars, hostVars, Launcher!vars, Launcher!launcherVars, launcherVars, Launcher!hostVars
<1>5. which = "avea" => [Avea!Next]_(Avea!vars)
  BY DEF Next, vars, hostVars, Avea!vars, Avea!bulbVars, aveaVars, Avea!hostVars
<1>6. which = "kodi" => [Upnp!KodiNext]_<<hostVars, Upnp!kodiVars>>
  BY DEF Next, vars, hostVars, Upnp!kodiVars, kodiVars
<1>7. which = "wemo" => [Upnp!WemoNext]_<<hostVars, Upnp!wemoVars>>
  BY DEF Next, vars, hostVars, Upnp!wemoVars, wemoVars
<1>8. which = "tv" => [Upnp!TvNext]_<<hostVars, Upnp!tvVars>>
  BY DEF Next, vars, hostVars, Upnp!tvVars, tvVars
<1>9. which = "netatmo" => [Online!NetatmoNext]_<<hostVars, Online!netatmoVars>>
  BY DEF Next, vars, hostVars, Online!netatmoVars, netatmoVars
<1>10. which = "weather" => [Online!WeatherNext]_<<hostVars, Online!weatherVars>>
  BY DEF Next, vars, hostVars, Online!weatherVars, weatherVars
<1>11. which = "awattar" => [Online!AwattarNext]_<<hostVars, Online!awattarVars>>
  BY DEF Next, vars, hostVars, Online!awattarVars, awattarVars
<1>12. QED
  BY <1>1, <1>2, <1>3, <1>4, <1>5, <1>6, <1>7, <1>8, <1>9, <1>10, <1>11

-----------------------------------------------------------------------------
(***************************************************************************)
(* Mail                                                                    *)
(***************************************************************************)


\* What the server is asked, but for the messages
Logins == {"AUTH PLAIN", "password"}
Requests == Mail!Commands \cup Actions

BeforeLogin == {"Init", "HandShake", "StartTls", "Authentification", "User", "Password"}
AfterLogin == {"Mail", "Rcpt", "Data", "Body", "Quit", "Close"}

\* The answer to a login is the last the server owes while it is waited for.  What is
\* asked afterwards is asked once the server has answered everything else.
Dialog(d) ==
    /\ m_state[d] \in AfterLogin /\ asked[d] # <<>> => m_actionId[d] \in Actions
    /\ m_state[d] \in BeforeLogin => \A i \in 1..Len(asked[d]) : asked[d][i] \notin Logins
    /\ m_state[d] = "Mail" => \A i \in 1..Len(asked[d]) - 1 : asked[d][i] \notin Logins
    /\ m_state[d] = "Rcpt" => asked[d] \in {<<>>, <<"MAIL">>}
    /\ m_state[d] = "Data" => asked[d] \in {<<>>, <<"RCPT">>}
    /\ m_state[d] = "Body" => asked[d] \in {<<>>, <<"DATA">>}
    /\ m_state[d] = "Quit" => asked[d] \in {<<>>, <<m_actionId[d]>>}

MailTyped ==
    /\ DOMAIN host = Devices /\ DOMAIN acts = Actions
    /\ m_state \in [Devices -> BeforeLogin \cup AfterLogin \cup {"TestLoginFinished"}]
    /\ m_testLogin \in [Devices -> BOOLEAN]
    /\ m_actionId \in [Devices -> Actions \cup {None}]
    /\ asked \in [Devices -> Seq(Requests)]

\* A dialog is a test or is for an action; a device that is not set up has none.
DialogsMeantFor ==
    \A d \in Devices :
        /\ asked[d] # <<>> => m_testLogin[d] \/ m_actionId[d] \in Actions
        /\ host[d] \in {"none", "stored"} => asked[d] = <<>> /\ m_state[d] = "Init"

\* Who may be asked to send a mail has a client, unless the test of a device in use
\* failed.
ClientsThere ==
    ~disturbed => \A d \in Devices : Configured(d) \/ asked[d] # <<>> => d \in m_clients

MailInv ==
    /\ undefined => disturbed
    /\ MailTyped /\ DialogsMeantFor /\ ClientsThere /\ Mail!MailDelivered
    /\ \A d \in Devices : Dialog(d)

\* The answers still to come, after the first of them or a part of it
LEMMA StillAsked ==
    ASSUME NEW s \in Seq(Requests), s # <<>>, NEW cut \in BOOLEAN
    PROVE  LET w == IF cut THEN <<"rest">> \o Tail(s) ELSE Tail(s) IN
           /\ w \in Seq(Requests)
           /\ (\A i \in 1..Len(s) : s[i] \notin Logins)
                  => \A i \in 1..Len(w) : w[i] \notin Logins
           /\ (\A i \in 1..Len(s) - 1 : s[i] \notin Logins)
                  => \A i \in 1..Len(w) - 1 : w[i] \notin Logins
           /\ Len(s) = 1 /\ ~cut => w = <<>>
<1> DEFINE t == Tail(s)
<1>1. t \in Seq(Requests) /\ Len(t) = Len(s) - 1 /\ \A i \in 1..Len(t) : t[i] = s[i + 1]
  OBVIOUS
<1>2. Len(s) \in Nat /\ Len(s) > 0
  OBVIOUS
<1>3. CASE cut
  <2> DEFINE w == <<"rest">> \o t
  <2>1. w \in Seq(Requests) /\ Len(w) = Len(s) /\ w[1] = "rest"
    <3>1. "rest" \in Requests
      BY DEF Requests, Mail!Commands
    <3>2. <<"rest">> \in Seq(Requests) /\ Len(<<"rest">>) = 1 /\ <<"rest">>[1] = "rest"
      BY <3>1
    <3>3. QED
      BY <1>1, <1>2, <3>2
  <2>2. \A i \in 2..Len(w) : w[i] = s[i]
    BY <1>1, <1>2
  <2>3. "rest" \notin Logins
    BY DEF Logins
  <2>4. QED
    BY <1>3, <2>1, <2>2, <2>3, <1>2
<1>4. CASE ~cut
  BY <1>1, <1>2, <1>4
<1>5. QED
  BY <1>3, <1>4

\* The steps of the dialog: which answer they wait for and what they ask next.
LEMMA ProceedFacts ==
    ASSUME MailTyped, NEW d \in Devices, NEW code, NEW w, Mail!Proceed(d, code, w)
    PROVE  \E next, x :
               /\ m_state' = [m_state EXCEPT ![d] = next]
               /\ asked' = [asked EXCEPT ![d] = Append(w, x)]
               /\ \/ /\ m_state[d] \in BeforeLogin /\ next \in BeforeLogin
                     /\ x \in Mail!Commands \ Logins
                  \/ /\ m_state[d] \in BeforeLogin /\ x \in Logins
                     /\ next = Mail!LoggedIn(d)
                  \/ /\ m_state[d] = "Mail" /\ code = "235" /\ next = "Rcpt" /\ x = "MAIL"
                  \/ m_state[d] = "Rcpt" /\ next = "Data" /\ x = "RCPT"
                  \/ m_state[d] = "Data" /\ next = "Body" /\ x = "DATA"
                  \/ m_state[d] = "Body" /\ next = "Quit" /\ x = m_actionId[d]
<1>1. PICK step \in Mail!Steps(d) :
          /\ step.state = m_state[d] /\ code \in step.codes
          /\ m_state' = [m_state EXCEPT ![d] = step.next]
          /\ asked' = [asked EXCEPT ![d] = Append(w, step.send)]
  BY DEF Mail!Proceed
<1> DEFINE Is(state, codes, send, next) ==
        /\ step.state = state /\ step.codes = codes
        /\ step.send = send /\ step.next = next
<1>2. \/ \E next \in {"Authentification", "StartTls", "HandShake"} :
           Is("Init", {"220"}, "EHLO", next)
      \/ Is("HandShake", {"220", "250"}, "EHLO", "Authentification")
      \/ Is("StartTls", {"250"}, "STARTTLS", "HandShake")
      \/ Is("Authentification", {"250"}, "AUTH PLAIN", Mail!LoggedIn(d))
      \/ Is("Authentification", {"250"}, "AUTH LOGIN", "User")
      \/ Is("User", {"334"}, "user", "Password")
      \/ Is("Password", {"334"}, "password", Mail!LoggedIn(d))
      \/ Is("Mail", {"235"}, "MAIL", "Rcpt")
      \/ Is("Rcpt", {"250"}, "RCPT", "Data")
      \/ Is("Data", {"250"}, "DATA", "Body")
      \/ Is("Body", {"354"}, m_actionId[d], "Quit")
  <2> DEFINE Step(state, codes, send, next) ==
          [state |-> state, codes |-> codes, send |-> send, next |-> next]
             first == IF d \in Unencrypted THEN "Authentification"
                      ELSE IF d \in Tls THEN "StartTls" ELSE "HandShake"
  <2>1. first \in {"Authentification", "StartTls", "HandShake"}
    OBVIOUS
  <2>2. \/ step = Step("Init", {"220"}, "EHLO", first)
        \/ step = Step("HandShake", {"220", "250"}, "EHLO", "Authentification")
        \/ step = Step("StartTls", {"250"}, "STARTTLS", "HandShake")
        \/ step = Step("Authentification", {"250"}, "AUTH PLAIN", Mail!LoggedIn(d))
        \/ step = Step("Authentification", {"250"}, "AUTH LOGIN", "User")
        \/ step = Step("User", {"334"}, "user", "Password")
        \/ step = Step("Password", {"334"}, "password", Mail!LoggedIn(d))
        \/ step = Step("Mail", {"235"}, "MAIL", "Rcpt")
        \/ step = Step("Rcpt", {"250"}, "RCPT", "Data")
        \/ step = Step("Data", {"250"}, "DATA", "Body")
        \/ step = Step("Body", {"354"}, m_actionId[d], "Quit")
    BY <1>1 DEF Mail!Steps
  <2>3. \A state, codes, send, next :
            step = Step(state, codes, send, next) => Is(state, codes, send, next)
    OBVIOUS
  <2> HIDE DEF first, Step, Is
  <2>4. QED
    BY <2>1, <2>2, <2>3
<1>3. \/ /\ step.state \in BeforeLogin /\ step.next \in BeforeLogin
         /\ step.send \in Mail!Commands \ Logins
      \/ step.state \in BeforeLogin /\ step.send \in Logins /\ step.next = Mail!LoggedIn(d)
      \/ /\ step.state = "Mail" /\ step.codes = {"235"} /\ step.next = "Rcpt"
         /\ step.send = "MAIL"
      \/ step.state = "Rcpt" /\ step.next = "Data" /\ step.send = "RCPT"
      \/ step.state = "Data" /\ step.next = "Body" /\ step.send = "DATA"
      \/ step.state = "Body" /\ step.next = "Quit" /\ step.send = m_actionId[d]
  BY <1>2 DEF BeforeLogin, Mail!Commands, Logins
<1>4. QED
  BY <1>1, <1>3

\* The answer that the plugin reads tells whether the request was a login.
LEMMA CodeOfLogin ==
    ASSUME NEW request \in Requests,
           Mail!Agrees(request) = "235"
    PROVE  request \in Logins
BY DEF Requests, Mail!Commands, Logins, Mail!Agrees

\* What is left of an answer, and what the plugin does with it
LEMMA ReadDataKeeps ==
    ASSUME MailInv, NEW d \in Devices, asked[d] # <<>>,
           NEW agrees \in BOOLEAN, NEW cut \in BOOLEAN, Mail!ReadData(d, agrees, cut)
    PROVE  MailInv'
<1> DEFINE request == Head(asked[d])
           code == IF agrees THEN Mail!Agrees(request) ELSE "500"
           w == IF cut THEN <<"rest">> \o Tail(asked[d]) ELSE Tail(asked[d])
<1>1. /\ UNCHANGED <<undefined, m_actionId>>
      /\ cut => agrees /\ request = "EHLO"
      /\ accepted' = IF request \in Actions /\ agrees THEN accepted \cup {request} ELSE accepted
      /\ \/ Mail!Proceed(d, code, w)
         \/ Mail!TestLoginFinished(d, code)
         \/ Mail!MailSent(d, code, w)
         \/ Mail!Close(d)
         \/ Mail!Ignore(d, code, w)
  BY DEF Mail!ReadData
<1>2. asked[d] \in Seq(Requests)
  BY DEF MailInv, MailTyped
<1>3. /\ request = asked[d][1] /\ request \in Requests
      /\ Len(asked[d]) \in Nat /\ Len(asked[d]) > 0
  BY <1>2
<1>4. /\ w \in Seq(Requests)
      /\ (\A i \in 1..Len(asked[d]) : asked[d][i] \notin Logins)
             => \A i \in 1..Len(w) : w[i] \notin Logins
      /\ (\A i \in 1..Len(asked[d]) - 1 : asked[d][i] \notin Logins)
             => \A i \in 1..Len(w) - 1 : w[i] \notin Logins
      /\ Len(asked[d]) = 1 /\ ~cut => w = <<>>
  BY <1>2, StillAsked
<1>5. code = "235" => request \in Logins
  BY <1>3, CodeOfLogin
<1> HIDE DEF w, code, request
<1>6. CASE Mail!Proceed(d, code, w)
  <2>1. PICK next, x :
            /\ m_state' = [m_state EXCEPT ![d] = next]
            /\ asked' = [asked EXCEPT ![d] = Append(w, x)]
            /\ \/ /\ m_state[d] \in BeforeLogin /\ next \in BeforeLogin
                  /\ x \in Mail!Commands \ Logins
               \/ /\ m_state[d] \in BeforeLogin /\ x \in Logins
                  /\ next = Mail!LoggedIn(d)
               \/ /\ m_state[d] = "Mail" /\ code = "235" /\ next = "Rcpt" /\ x = "MAIL"
               \/ m_state[d] = "Rcpt" /\ next = "Data" /\ x = "RCPT"
               \/ m_state[d] = "Data" /\ next = "Body" /\ x = "DATA"
               \/ m_state[d] = "Body" /\ next = "Quit" /\ x = m_actionId[d]
    BY <1>6, ProceedFacts DEF MailInv
  <2>2. UNCHANGED <<host, acts, lost, disturbed, m_clients, m_testLogin>>
    BY <1>6 DEF Mail!Proceed
  <2>3. m_testLogin[d] \/ m_actionId[d] \in Actions
    BY DEF MailInv, DialogsMeantFor
  <2>4. m_state[d] \in AfterLogin => m_actionId[d] \in Actions
    BY DEF MailInv, Dialog
  <2>5. x \in Requests
    BY <2>1, <2>4 DEF Requests, Mail!Commands, Logins, AfterLogin
  <2>6. next \in BeforeLogin \cup AfterLogin \cup {"TestLoginFinished"}
    BY <2>1 DEF AfterLogin, Mail!LoggedIn
  <2>7. /\ Append(w, x) \in Seq(Requests) /\ Len(Append(w, x)) = Len(w) + 1
        /\ Append(w, x)[Len(w) + 1] = x /\ Append(w, x) # <<>>
        /\ \A i \in 1..Len(w) : Append(w, x)[i] = w[i]
    BY <1>4, <2>5
  <2>8. m_state'[d] = next /\ asked'[d] = Append(w, x) /\ m_actionId'[d] = m_actionId[d]
    BY <1>1, <2>1 DEF MailInv, MailTyped
  <2>9. \A e \in Devices \ {d} :
            m_state'[e] = m_state[e] /\ asked'[e] = asked[e] /\ m_actionId'[e] = m_actionId[e]
    BY <1>1, <2>1 DEF MailInv, MailTyped
  <2>10. Len(w) \in Nat
    BY <1>4
  <2> HIDE DEF MailInv
  <2>11. Dialog(d)'
    <3>1. CASE m_state[d] \in BeforeLogin /\ next \in BeforeLogin /\ x \in Mail!Commands \ Logins
      <4>1. \A i \in 1..Len(w) : w[i] \notin Logins
        BY <1>4, <3>1 DEF MailInv, Dialog
      <4>2. \A i \in 1..Len(Append(w, x)) : Append(w, x)[i] \notin Logins
        BY <4>1, <2>7, <2>10, <3>1
      <4>3. QED
        BY <4>2, <3>1, <2>8 DEF Dialog, BeforeLogin, AfterLogin
    <3>2. CASE m_state[d] \in BeforeLogin /\ x \in Logins /\ next = Mail!LoggedIn(d)
      <4>1. \A i \in 1..Len(w) : w[i] \notin Logins
        BY <1>4, <3>2 DEF MailInv, Dialog
      <4>2. \A i \in 1..Len(Append(w, x)) - 1 : Append(w, x)[i] \notin Logins
        BY <4>1, <2>7, <2>10
      <4>3. next = "TestLoginFinished" \/ (next = "Mail" /\ m_actionId[d] \in Actions)
        BY <2>3, <3>2 DEF Mail!LoggedIn
      <4>4. QED
        BY <4>2, <4>3, <2>8 DEF Dialog, BeforeLogin, AfterLogin
    <3>3. CASE m_state[d] = "Mail" /\ code = "235" /\ next = "Rcpt" /\ x = "MAIL"
      <4>1. request \in Logins /\ ~cut
        BY <1>1, <1>5, <3>3 DEF Logins
      <4>2. Len(asked[d]) = 1
        <5>1. \A i \in 1..Len(asked[d]) - 1 : asked[d][i] \notin Logins
          BY <3>3 DEF MailInv, Dialog
        <5>2. \A n \in Nat : n > 0 /\ n # 1 => 1 \in 1..n - 1
          OBVIOUS
        <5>3. QED
          BY <4>1, <1>3, <5>1, <5>2
      <4>3. QED
        BY <4>1, <4>2, <1>4, <2>4, <2>8, <3>3 DEF Dialog, BeforeLogin, AfterLogin
    <3>4. CASE /\ m_state[d] \in {"Rcpt", "Data", "Body"}
               /\ <<m_state[d], next, x>> \in {<<"Rcpt", "Data", "RCPT">>,
                      <<"Data", "Body", "DATA">>, <<"Body", "Quit", m_actionId[d]>>}
      <4>1. asked[d] \in {<<"MAIL">>, <<"RCPT">>, <<"DATA">>}
        BY <3>4 DEF MailInv, Dialog
      <4>2. w = <<>>
        BY <4>1, <1>1, <1>3, <1>4
      <4>3. QED
        BY <4>2, <2>4, <2>8, <3>4 DEF Dialog, BeforeLogin, AfterLogin
    <3>5. QED
      BY <2>1, <3>1, <3>2, <3>3, <3>4
  <2>12. MailTyped'
    BY <1>1, <2>1, <2>2, <2>6, <2>7 DEF MailInv, MailTyped
  <2>13. DialogsMeantFor'
    BY <1>1, <2>2, <2>3, <2>8, <2>9 DEF MailInv, DialogsMeantFor
  <2>14. ClientsThere'
    BY <2>2, <2>8, <2>9 DEF MailInv, ClientsThere, Configured
  <2>15. \A e \in Devices : Dialog(e)'
    BY <2>9, <2>11 DEF MailInv, Dialog
  <2>16. QED
    BY <1>1, <2>2, <2>12, <2>13, <2>14, <2>15 DEF MailInv, Mail!MailDelivered
<1>7. CASE Mail!TestLoginFinished(d, code)
  <2>1. /\ UNCHANGED <<acts, m_state>>
        /\ asked' = [asked EXCEPT ![d] = <<>>]
        /\ m_testLogin' = [m_testLogin EXCEPT ![d] = FALSE]
        /\ disturbed => disturbed'
        /\ m_state[d] = "TestLoginFinished"
    BY <1>7 DEF Mail!TestLoginFinished
  <2>2. /\ DOMAIN host' = Devices
        /\ \A e \in Devices \ {d} : host'[e] = host[e]
        /\ host'[d] \in {"none", "stored"} => host[d] \in {"none", "stored"}
    BY <1>7 DEF Mail!TestLoginFinished, Mail!SetupFinished, Mail!SetupResult, MailInv, MailTyped
  <2>3. /\ asked'[d] = <<>>
        /\ \A e \in Devices \ {d} : asked'[e] = asked[e] /\ m_testLogin'[e] = m_testLogin[e]
    BY <2>1 DEF MailInv, MailTyped
  <2>4. ClientsThere'
    <3>1. \A e \in Devices \ {d} : e \in m_clients => e \in m_clients'
      BY <1>7 DEF Mail!TestLoginFinished
    <3>2. CASE code = "235"
      BY <1>7, <2>1, <2>2, <2>3, <3>1, <3>2
      DEF Mail!TestLoginFinished, MailInv, ClientsThere, Configured
    <3>3. CASE code # "235"
      <4>1. ~disturbed' => ~Configured(d) /\ ~disturbed
        BY <1>7, <3>3 DEF Mail!TestLoginFinished, Mail!Configured, Configured
      <4>2. ~Configured(d) => ~Configured(d)'
        BY <1>7, <3>3 DEF Mail!TestLoginFinished, Mail!SetupFinished, Mail!SetupResult,
               Configured, MailInv, MailTyped
      <4>3. QED
        BY <2>2, <2>3, <3>1, <4>1, <4>2 DEF MailInv, ClientsThere, Configured
    <3>4. QED
      BY <3>2, <3>3
  <2>5. MailTyped'
    <3>1. <<>> \in Seq(Requests)
      OBVIOUS
    <3>2. QED
      BY <1>1, <2>1, <2>2, <3>1 DEF MailInv, MailTyped
  <2>6. DialogsMeantFor'
    BY <1>1, <2>1, <2>2, <2>3 DEF MailInv, DialogsMeantFor
  <2>7. \A e \in Devices : Dialog(e)'
    BY <1>1, <2>1, <2>3 DEF MailInv, Dialog, BeforeLogin, AfterLogin
  <2>8. QED
    BY <1>1, <2>1, <2>4, <2>5, <2>6, <2>7 DEF MailInv, Mail!MailDelivered
<1>8. CASE Mail!MailSent(d, code, w)
  <2>1. /\ m_state[d] = "Quit" /\ code = "250"
        /\ m_state' = [m_state EXCEPT ![d] = "Close"]
        /\ asked' = [asked EXCEPT ![d] = Append(w, "QUIT")]
        /\ UNCHANGED <<host, lost, disturbed, m_clients, m_testLogin>>
        /\ acts' = [acts EXCEPT ![m_actionId[d]] = Mail!Answer(@)]
    BY <1>8 DEF Mail!MailSent, Mail!ActionFinished
  <2>2. m_actionId[d] \in Actions /\ asked[d] = <<m_actionId[d]>>
    BY <2>1 DEF MailInv, Dialog, AfterLogin
  <2>3. request = m_actionId[d] /\ agrees
    BY <1>3, <2>1, <2>2 DEF code
  <2>4. Append(w, "QUIT") \in Seq(Requests) /\ Append(w, "QUIT") # <<>>
    <3>1. "QUIT" \in Requests
      BY DEF Requests, Mail!Commands
    <3>2. QED
      BY <1>4, <3>1
  <2>5. MailTyped'
    BY <1>1, <2>1, <2>4 DEF MailInv, MailTyped, AfterLogin
  <2>6. /\ m_state'[d] = "Close" /\ asked'[d] = Append(w, "QUIT")
        /\ \A e \in Devices \ {d} : m_state'[e] = m_state[e] /\ asked'[e] = asked[e]
    BY <2>1 DEF MailInv, MailTyped
  <2>7. \A e \in Devices : Dialog(e)'
    BY <1>1, <2>2, <2>6 DEF MailInv, Dialog, BeforeLogin, AfterLogin
  <2>8. DialogsMeantFor' /\ ClientsThere'
    BY <1>1, <2>1, <2>2, <2>6 DEF MailInv, DialogsMeantFor, ClientsThere, Configured
  <2>9. Mail!MailDelivered'
    BY <1>1, <2>1, <2>2, <2>3 DEF MailInv, MailTyped, Mail!MailDelivered
  <2>10. QED
    BY <1>1, <2>1, <2>5, <2>7, <2>8, <2>9 DEF MailInv
<1>9. CASE Mail!Close(d)
  <2>1. /\ asked' = [asked EXCEPT ![d] = <<>>]
        /\ UNCHANGED <<host, acts, lost, disturbed, m_state, m_clients, m_testLogin>>
    BY <1>9 DEF Mail!Close
  <2>2. MailTyped'
    <3>1. <<>> \in Seq(Requests)
      OBVIOUS
    <3>2. QED
      BY <1>1, <2>1, <3>1 DEF MailInv, MailTyped
  <2>3. /\ asked'[d] = <<>>
        /\ \A e \in Devices \ {d} : asked'[e] = asked[e]
    BY <2>1 DEF MailInv, MailTyped
  <2>4. \A e \in Devices : Dialog(e)'
    BY <1>1, <2>1, <2>3 DEF MailInv, Dialog, BeforeLogin, AfterLogin
  <2>5. DialogsMeantFor' /\ ClientsThere' /\ Mail!MailDelivered'
    BY <1>1, <2>1, <2>3
    DEF MailInv, DialogsMeantFor, ClientsThere, Configured, Mail!MailDelivered
  <2>6. QED
    BY <1>1, <2>1, <2>2, <2>4, <2>5 DEF MailInv
<1>10. CASE Mail!Ignore(d, code, w)
  <2>1. /\ asked' = [asked EXCEPT ![d] = w]
        /\ UNCHANGED <<host, acts, disturbed, m_state, m_clients, m_testLogin>>
    BY <1>10 DEF Mail!Ignore
  <2>2. MailTyped'
    BY <1>1, <1>4, <2>1 DEF MailInv, MailTyped
  <2>3. /\ asked'[d] = w
        /\ \A e \in Devices \ {d} : asked'[e] = asked[e]
    BY <2>1 DEF MailInv, MailTyped
  <2>4. m_state[d] \in {"Rcpt", "Data", "Body", "Quit"} => w = <<>>
    <3>1. m_state[d] \in {"Rcpt", "Data", "Body", "Quit"}
              => Len(asked[d]) = 1 /\ (request \in Actions \/ request \in {"MAIL", "RCPT", "DATA"})
      BY <1>3 DEF MailInv, Dialog, AfterLogin
    <3>2. "EHLO" \notin Actions
      BY PluginsAssumption DEF Mail!Commands
    <3>3. QED
      BY <1>1, <1>4, <3>1, <3>2
  <2>5. Dialog(d)'
    BY <1>1, <1>4, <2>1, <2>3, <2>4 DEF MailInv, Dialog, BeforeLogin, AfterLogin
  <2>6. \A e \in Devices : Dialog(e)'
    BY <1>1, <2>1, <2>3, <2>5 DEF MailInv, Dialog
  <2>7. DialogsMeantFor' /\ ClientsThere' /\ Mail!MailDelivered'
    BY <1>1, <2>1, <2>3
    DEF MailInv, DialogsMeantFor, ClientsThere, Configured, Mail!MailDelivered
  <2>8. QED
    BY <1>1, <2>1, <2>2, <2>6, <2>7 DEF MailInv
<1>11. QED
  BY <1>1, <1>6, <1>7, <1>8, <1>9, <1>10

\* What a new connection is asked
LEMMA ConnectAsked ==
    /\ <<"connect">> \in Seq(Requests) /\ <<"connect">> # <<>>
    /\ \A i \in 1..Len(<<"connect">>) : <<"connect">>[i] \notin Logins
<1>1. "connect" \in Requests /\ "connect" \notin Logins
  BY DEF Requests, Mail!Commands, Logins
<1>2. Len(<<"connect">>) = 1 /\ <<"connect">>[1] = "connect"
  OBVIOUS
<1>3. \A i \in 1..Len(<<"connect">>) : i = 1
  BY <1>2
<1>4. <<"connect">> \in Seq(Requests) /\ <<"connect">> # <<>>
  BY <1>1
<1>5. QED
  BY <1>1, <1>2, <1>3, <1>4

\* The action ids are none of the protocol's requests.
LEMMA MailInvariance == Spec => [](which = "mail" => MailInv)
<1>1. Mail!Init => MailInv
  BY DEF Mail!Init, Mail!HostInit, Mail!MailInit, MailInv, MailTyped, DialogsMeantFor,
         ClientsThere, Mail!MailDelivered, Dialog, BeforeLogin, AfterLogin, Configured
<1>2. MailInv /\ [Mail!Next]_(Mail!vars) => MailInv'
  <2> SUFFICES ASSUME MailInv, [Mail!Next]_(Mail!vars) PROVE MailInv'
    OBVIOUS
  <2>1. CASE UNCHANGED Mail!vars
    BY <2>1 DEF Mail!vars, Mail!hostVars, Mail!mailVars, MailInv, MailTyped, DialogsMeantFor,
           ClientsThere, Mail!MailDelivered, Dialog, Configured
  <2>2. ASSUME NEW d \in Devices, Mail!SetupDevice(d) PROVE MailInv'
    <3>1. /\ host[d] \in {"none", "stored"}
          /\ host' = [host EXCEPT ![d] = IF @ = "none" THEN "waiting" ELSE "loading"]
          /\ m_clients' = m_clients \cup {d}
          /\ m_testLogin' = [m_testLogin EXCEPT ![d] = TRUE]
          /\ asked' = [asked EXCEPT ![d] = <<"connect">>]
          /\ UNCHANGED <<acts, disturbed, undefined, m_state, m_actionId, accepted>>
      BY <2>2 DEF Mail!SetupDevice, Mail!NotSetUp, Mail!SetupAsync
    <3>2. /\ <<"connect">> \in Seq(Requests) /\ <<"connect">> # <<>>
          /\ \A i \in 1..Len(<<"connect">>) : <<"connect">>[i] \notin Logins
      BY ConnectAsked
    <3>3. MailTyped'
      BY <3>1, <3>2 DEF MailInv, MailTyped
    <3>4. /\ asked'[d] = <<"connect">> /\ m_testLogin'[d] /\ host'[d] \in {"waiting", "loading"}
          /\ \A e \in Devices \ {d} : /\ asked'[e] = asked[e] /\ host'[e] = host[e]
                                      /\ m_testLogin'[e] = m_testLogin[e]
      BY <3>1 DEF MailInv, MailTyped
    <3>5. m_state[d] = "Init"
      BY <3>1 DEF MailInv, DialogsMeantFor
    <3>6. Dialog(d)'
      BY <3>1, <3>2, <3>4, <3>5 DEF Dialog, BeforeLogin, AfterLogin
    <3>7. \A e \in Devices : Dialog(e)'
      BY <3>1, <3>4, <3>6 DEF MailInv, Dialog
    <3>8. DialogsMeantFor' /\ ClientsThere' /\ Mail!MailDelivered'
      BY <3>1, <3>4
      DEF MailInv, DialogsMeantFor, ClientsThere, Configured, Mail!MailDelivered
    <3>9. QED
      BY <3>1, <3>3, <3>7, <3>8 DEF MailInv
  <2>3. ASSUME NEW d \in Devices, NEW a \in Actions, ~undefined, Mail!SendMail(a, d)
        PROVE  MailInv'
    <3>1. /\ acts[a] = "idle" /\ Configured(d)
          /\ UNCHANGED <<host, disturbed, m_clients, m_testLogin, accepted>>
      BY <2>3 DEF Mail!SendMail, Mail!CanExecute, Mail!Configured, Configured
    <3>2. CASE d \notin m_clients
      <4>1. undefined' /\ UNCHANGED <<acts, m_state, m_actionId, asked>>
        BY <2>3, <3>2 DEF Mail!SendMail
      <4>2. disturbed
        BY <3>1, <3>2 DEF MailInv, ClientsThere
      <4>3. MailTyped' /\ DialogsMeantFor' /\ ClientsThere' /\ Mail!MailDelivered'
        BY <3>1, <4>1 DEF MailInv, MailTyped, DialogsMeantFor, ClientsThere, Configured,
               Mail!MailDelivered
      <4>4. \A e \in Devices : Dialog(e)'
        BY <4>1 DEF MailInv, Dialog
      <4>5. QED
        BY <3>1, <4>2, <4>3, <4>4 DEF MailInv
    <3>3. CASE d \in m_clients
      <4>1. /\ acts' = [acts EXCEPT ![a] = "running"]
            /\ m_actionId' = [m_actionId EXCEPT ![d] = a]
            /\ m_state' = [m_state EXCEPT ![d] = "Init"]
            /\ asked' = [asked EXCEPT ![d] = <<"connect">>]
            /\ UNCHANGED undefined
        BY <2>3, <3>3 DEF Mail!SendMail, Mail!ExecuteAsync
      <4>2. /\ <<"connect">> \in Seq(Requests) /\ <<"connect">> # <<>>
            /\ \A i \in 1..Len(<<"connect">>) : <<"connect">>[i] \notin Logins
        BY ConnectAsked
      <4>3. MailTyped'
        BY <3>1, <4>1, <4>2 DEF MailInv, MailTyped, BeforeLogin
      <4>4. /\ asked'[d] = <<"connect">> /\ m_state'[d] = "Init" /\ m_actionId'[d] = a
            /\ \A e \in Devices \ {d} : /\ asked'[e] = asked[e] /\ m_state'[e] = m_state[e]
                                        /\ m_actionId'[e] = m_actionId[e]
        BY <4>1 DEF MailInv, MailTyped
      <4>5. Dialog(d)'
        BY <4>2, <4>4 DEF Dialog, AfterLogin
      <4>6. \A e \in Devices : Dialog(e)'
        BY <4>4, <4>5 DEF MailInv, Dialog
      <4>7. DialogsMeantFor' /\ ClientsThere'
        BY <3>1, <3>3, <4>4 DEF MailInv, DialogsMeantFor, ClientsThere, Configured
      <4>8. Mail!MailDelivered'
        BY <3>1, <4>1 DEF MailInv, MailTyped, Mail!MailDelivered
      <4>9. QED
        BY <3>1, <4>1, <4>3, <4>6, <4>7, <4>8 DEF MailInv
    <3>4. QED
      BY <3>2, <3>3
  <2>4. ASSUME NEW d \in Devices, Mail!DeviceRemoved(d) PROVE MailInv'
    <3>1. /\ host' = [host EXCEPT ![d] = "gone"]
          /\ m_clients' = m_clients \ {d}
          /\ m_testLogin' = [m_testLogin EXCEPT ![d] = FALSE]
          /\ m_actionId' = [m_actionId EXCEPT ![d] = None]
          /\ asked' = [asked EXCEPT ![d] = <<>>]
          /\ UNCHANGED <<acts, disturbed, undefined, m_state, accepted>>
      BY <2>4 DEF Mail!DeviceRemoved, Mail!Removed
    <3>2. MailTyped'
      <4>1. <<>> \in Seq(Requests)
        OBVIOUS
      <4>2. QED
        BY <3>1, <4>1 DEF MailInv, MailTyped
    <3>3. /\ asked'[d] = <<>> /\ host'[d] = "gone"
          /\ \A e \in Devices \ {d} : /\ asked'[e] = asked[e] /\ host'[e] = host[e]
                                      /\ m_testLogin'[e] = m_testLogin[e]
                                      /\ m_actionId'[e] = m_actionId[e]
      BY <3>1 DEF MailInv, MailTyped
    <3>4. \A e \in Devices : Dialog(e)'
      BY <3>1, <3>3 DEF MailInv, Dialog, BeforeLogin, AfterLogin
    <3>5. DialogsMeantFor' /\ ClientsThere' /\ Mail!MailDelivered'
      BY <3>1, <3>3
      DEF MailInv, DialogsMeantFor, ClientsThere, Configured, Mail!MailDelivered
    <3>6. QED
      BY <3>1, <3>2, <3>4, <3>5 DEF MailInv
  <2>5. ASSUME NEW d \in Devices, Mail!Answered(d) PROVE MailInv'
    BY <2>5, ReadDataKeeps DEF Mail!Answered
  <2>6. ASSUME NEW d \in Devices, Mail!Disconnected(d) PROVE MailInv'
    <3>1. /\ asked' = [asked EXCEPT ![d] = <<>>]
          /\ UNCHANGED <<host, acts, disturbed, undefined, m_clients, m_state, m_testLogin,
                         m_actionId, accepted>>
      BY <2>6 DEF Mail!Disconnected
    <3>2. MailTyped'
      <4>1. <<>> \in Seq(Requests)
        OBVIOUS
      <4>2. QED
        BY <3>1, <4>1 DEF MailInv, MailTyped
    <3>3. asked'[d] = <<>> /\ \A e \in Devices \ {d} : asked'[e] = asked[e]
      BY <3>1 DEF MailInv, MailTyped
    <3>4. \A e \in Devices : Dialog(e)'
      BY <3>1, <3>3 DEF MailInv, Dialog, BeforeLogin, AfterLogin
    <3>5. DialogsMeantFor' /\ ClientsThere' /\ Mail!MailDelivered'
      BY <3>1, <3>3
      DEF MailInv, DialogsMeantFor, ClientsThere, Configured, Mail!MailDelivered
    <3>6. QED
      BY <3>1, <3>2, <3>4, <3>5 DEF MailInv
  <2>7. QED
    BY <2>1, <2>2, <2>3, <2>4, <2>5, <2>6 DEF Mail!Next
<1>3. Init => (which = "mail" => MailInv)
  BY <1>1 DEF Init, HostInit, Mail!Init, Mail!HostInit
<1>4. (which = "mail" => MailInv) /\ [Next]_vars => (which = "mail" => MailInv)'
  BY <1>2, OnePlugin
<1>5. QED
  BY <1>3, <1>4, PTL DEF Spec

\* An action is answered only when the server has taken its mail, however mails replace
\* each other and answers are cut (readData(), which knows an answer by its code alone).
THEOREM MailDeliveredCorrect == Spec => []MailDelivered
<1>1. (which = "mail" => MailInv) => MailDelivered
  BY DEF MailInv, MailDelivered
<1>2. QED
  BY <1>1, MailInvariance, PTL

-----------------------------------------------------------------------------
(***************************************************************************)
(* Date and time                                                           *)
(***************************************************************************)


\* While no today device is there nobody looks for its place.
TimeInv ==
    /\ undefined => disturbed
    /\ DOMAIN host = Devices /\ DOMAIN m_duskOffset = Devices
    /\ m_locationReplies \in Nat
    /\ ~disturbed /\ m_todayDevice = None => m_locationReplies = 0
    /\ Time!AlarmsKnowTimes

LEMMA TimeInvariance == Spec => [](which = "time" => TimeInv)
<1>. USE DEF Time!AlarmsKnowTimes, Time!m_alarms, Time!Configured, Time!CalculateOffsetTime
<1>1. ASSUME Time!Init PROVE TimeInv
  <2>1. m_locationReplies \in Nat /\ m_locationReplies = 0
    BY <1>1 DEF Time!Init, Time!DateTimeInit
  <2>2. ~undefined /\ DOMAIN host = Devices /\ DOMAIN m_duskOffset = Devices
    BY <1>1 DEF Time!Init, Time!HostInit, Time!DateTimeInit
  <2>3. Time!AlarmsKnowTimes
    BY <1>1 DEF Time!Init, Time!HostInit, Time!DateTimeInit
  <2>4. QED
    BY <2>1, <2>2, <2>3 DEF TimeInv
<1>2. TimeInv /\ [Time!Next]_(Time!vars) => TimeInv'
  <2> SUFFICES ASSUME TimeInv, [Time!Next]_(Time!vars) PROVE TimeInv'
    OBVIOUS
  <2>0. m_locationReplies \in Nat
    BY DEF TimeInv
  <2>1. CASE UNCHANGED Time!vars
    BY <2>1 DEF Time!vars, Time!hostVars, Time!timeVars, TimeInv
  <2>2. ASSUME NEW d \in Devices, Time!SetupDevice(d) PROVE TimeInv'
    <3>1. /\ UNCHANGED <<disturbed, undefined, kind, m_dusk>>
          /\ m_duskOffset' = [m_duskOffset EXCEPT ![d] = Time!CalculateOffsetTime(m_dusk)]
          /\ DOMAIN host' = Devices
          /\ \A e \in Devices \ {d} : host'[e] = host[e]
      BY <2>2 DEF Time!SetupDevice, Time!SetupReturns, TimeInv
    <3>2. Time!AlarmsKnowTimes'
      BY <3>1 DEF TimeInv
    <3>3. \/ m_todayDevice' = d /\ m_locationReplies' = m_locationReplies + 1
          \/ UNCHANGED <<m_todayDevice, m_locationReplies>>
      BY <2>2 DEF Time!SetupDevice
    <3>4. m_locationReplies' \in Nat
      BY <2>0, <3>3
    <3>5. ~disturbed /\ m_todayDevice' = None => m_locationReplies' = 0
      BY <3>3, PluginHostAssumption DEF TimeInv
    <3>6. QED
      BY <3>1, <3>2, <3>4, <3>5 DEF TimeInv
  <2>3. ASSUME NEW d \in Devices, Time!DeviceRemoved(d) PROVE TimeInv'
    <3>1. /\ UNCHANGED <<undefined, kind, m_dusk, m_duskOffset, m_locationReplies>>
          /\ host' = [host EXCEPT ![d] = "gone"]
          /\ m_todayDevice' = IF kind[d] = "today" THEN None ELSE m_todayDevice
      BY <2>3 DEF Time!DeviceRemoved, Time!Removed
    <3>2. Time!AlarmsKnowTimes'
      BY <3>1 DEF TimeInv
    <3>3. /\ disturbed => disturbed'
          /\ ~disturbed' => ~disturbed /\ ~ (kind[d] = "today" /\ m_locationReplies > 0)
      BY <2>3 DEF Time!DeviceRemoved
    <3>4. ~(m_locationReplies > 0) => m_locationReplies = 0
      BY <2>0
    <3>5. ~disturbed' /\ m_todayDevice' = None => m_locationReplies = 0
      BY <3>1, <3>3, <3>4 DEF TimeInv
    <3>6. QED
      BY <3>1, <3>2, <3>3, <3>5 DEF TimeInv
  <2>4. ASSUME NEW d \in Devices, NEW a \in Actions, Time!ExecuteAction(a, d) PROVE TimeInv'
    BY <2>4 DEF Time!ExecuteAction, TimeInv
  <2>5. CASE Time!OnSecondChanged
    <3>1. /\ UNCHANGED <<hostVars, kind, m_todayDevice, m_dusk, m_duskOffset>>
          /\ \/ m_locationReplies' = m_locationReplies + 1 /\ m_todayDevice # None
             \/ m_locationReplies' = m_locationReplies + 0
      BY <2>5 DEF Time!OnSecondChanged, Time!hostVars, hostVars
    <3>2. m_locationReplies' \in Nat
      BY <2>0, <3>1
    <3>3. m_locationReplies + 0 = m_locationReplies
      BY <2>0
    <3>4. ~disturbed /\ m_todayDevice = None => m_locationReplies' = 0
      BY <3>1, <3>3 DEF TimeInv
    <3>5. QED
      BY <3>1, <3>2, <3>4 DEF hostVars, TimeInv
  <2>6. ASSUME NEW d \in Devices, Time!OnTimeout(d) PROVE TimeInv'
    BY <2>6 DEF Time!OnTimeout, Time!hostVars, TimeInv
  <2>7. CASE Time!TimePasses
    BY <2>7 DEF Time!TimePasses, Time!hostVars, TimeInv
  <2>8. ASSUME NEW ok \in BOOLEAN, ~undefined, Time!LocationReply(ok) PROVE TimeInv'
    <3>1. /\ m_locationReplies > 0 /\ m_locationReplies' = m_locationReplies - 1
          /\ UNCHANGED <<host, disturbed, kind, m_todayDevice, m_dusk, m_duskOffset>>
      BY <2>8 DEF Time!LocationReply
    <3>2. m_locationReplies # 0 /\ m_locationReplies' \in Nat
      BY <2>0, <3>1
    <3>3. undefined' => m_todayDevice = None
      BY <2>8 DEF Time!LocationReply
    <3>4. disturbed \/ m_todayDevice # None
      BY <3>2 DEF TimeInv
    <3>5. QED
      BY <3>1, <3>2, <3>3, <3>4 DEF TimeInv
  <2>9. ASSUME NEW ok \in BOOLEAN, Time!TimeReply(ok) PROVE TimeInv'
    BY <2>9 DEF Time!TimeReply, Time!UpdateTimes, Time!hostVars, TimeInv
  <2>10. QED
    BY <2>1, <2>2, <2>3, <2>4, <2>5, <2>6, <2>7, <2>8, <2>9 DEF Time!Next
<1>3. Init => (which = "time" => TimeInv)
  BY <1>1 DEF Init, HostInit, Time!Init, Time!HostInit
<1>4. (which = "time" => TimeInv) /\ [Next]_vars => (which = "time" => TimeInv)'
  BY <1>2, OnePlugin
<1>5. QED
  BY <1>3, <1>4, PTL DEF Spec

\* Each alarm counts from the dusk that the plugin knows, whatever the order of alarms,
\* today devices and answers of the services.
THEOREM AlarmsKnowTimesCorrect == Spec => []AlarmsKnowTimes
<1>1. (which = "time" => TimeInv) => AlarmsKnowTimes
  BY DEF TimeInv, AlarmsKnowTimes
<1>2. QED
  BY <1>1, TimeInvariance, PTL

-----------------------------------------------------------------------------
(***************************************************************************)
(* The command launcher                                                    *)
(***************************************************************************)


\* A process that lives belongs to a device that is configured, unless a device was
\* removed while one of its processes lived.
LauncherInv ==
    /\ undefined => disturbed
    /\ DOMAIN host = Devices
    /\ process \in [Actions -> {"none", "starting", "running", "not running"}]
    /\ deviceOf \in [Actions -> Devices \cup {None}]
    /\ ~disturbed => \A p \in Actions :
           process[p] \in {"starting", "running"} =>
               deviceOf[p] \in Devices /\ Configured(deviceOf[p])

LEMMA LauncherInvariance == Spec => [](which = "launcher" => LauncherInv)
<1>1. Launcher!Init => LauncherInv
  BY DEF Launcher!Init, Launcher!HostInit, Launcher!CommandLauncherInit, LauncherInv
<1>2. LauncherInv /\ [Launcher!Next]_(Launcher!vars) => LauncherInv'
  <2> SUFFICES ASSUME LauncherInv, [Launcher!Next]_(Launcher!vars) PROVE LauncherInv'
    OBVIOUS
  <2>. USE PluginHostAssumption
       DEF LauncherInv, Configured, Launcher!Configured, Launcher!HasDevice, Launcher!Alive,
           Launcher!m_applications
  <2>1. CASE UNCHANGED Launcher!vars
    BY <2>1 DEF Launcher!vars, Launcher!hostVars, Launcher!launcherVars
  <2>2. ASSUME NEW d \in Devices, NEW ok \in BOOLEAN, Launcher!SetupDevice(d, ok)
        PROVE  LauncherInv'
    BY <2>2 DEF Launcher!SetupDevice, Launcher!SetupReturns, Launcher!NotSetUp,
                Launcher!launcherVars
  <2>3. ASSUME NEW d \in Devices, NEW a \in Actions, Launcher!Start(a, d) PROVE LauncherInv'
    <3>1. Configured(d) /\ UNCHANGED <<host, disturbed, undefined>>
      BY <2>3 DEF Launcher!Start, Launcher!CanExecute
    <3>2. \/ UNCHANGED <<process, deviceOf>>
          \/ /\ process' = [process EXCEPT ![a] = "starting"]
             /\ deviceOf' = [deviceOf EXCEPT ![a] = d]
      BY <2>3 DEF Launcher!Start
    <3>3. CASE UNCHANGED <<process, deviceOf>>
      BY <3>1, <3>3
    <3>4. CASE /\ process' = [process EXCEPT ![a] = "starting"]
               /\ deviceOf' = [deviceOf EXCEPT ![a] = d]
      <4>1. ASSUME NEW p \in Actions, p # a
            PROVE  process'[p] = process[p] /\ deviceOf'[p] = deviceOf[p]
        BY <3>4, <4>1
      <4>2. deviceOf'[a] = d
        BY <3>4
      <4>3. QED
        BY <3>1, <3>4, <4>1, <4>2
    <3>5. QED
      BY <3>2, <3>3, <3>4
  <2>4. ASSUME NEW d \in Devices, NEW a \in Actions, Launcher!Kill(a, d) PROVE LauncherInv'
    BY <2>4 DEF Launcher!Kill
  <2>5. ASSUME NEW d \in Devices, Launcher!DeviceRemoved(d) PROVE LauncherInv'
    BY <2>5 DEF Launcher!DeviceRemoved, Launcher!Removed
  <2>6. ASSUME NEW p \in Actions, ~undefined, Launcher!ProcessRuns(p) PROVE LauncherInv'
    BY <2>6 DEF Launcher!ProcessRuns
  <2>7. ASSUME NEW p \in Actions, ~undefined, Launcher!Ends(p) PROVE LauncherInv'
    BY <2>7 DEF Launcher!Ends, Launcher!Killed
  <2>8. ASSUME NEW p \in Actions, ~undefined, Launcher!StartFails(p) PROVE LauncherInv'
    BY <2>8 DEF Launcher!StartFails, Launcher!Killed
  <2>9. QED
    BY <2>1, <2>2, <2>3, <2>4, <2>5, <2>6, <2>7, <2>8 DEF Launcher!Next
<1>3. Init => (which = "launcher" => LauncherInv)
  BY <1>1 DEF Init, HostInit, Launcher!Init, Launcher!HostInit
<1>4. (which = "launcher" => LauncherInv) /\ [Next]_vars => (which = "launcher" => LauncherInv)'
  BY <1>2, OnePlugin
<1>5. QED
  BY <1>3, <1>4, PTL DEF Spec

-----------------------------------------------------------------------------
(***************************************************************************)
(* Avea                                                                    *)
(***************************************************************************)


\* A bulb that counts as available has its services: only the uninitialised flag of a new
\* bulb may say otherwise.
AveaInv ==
    /\ undefined => disturbed
    /\ aveaLink \in [Devices -> {"none", "off", "on", "found"}]
    /\ m_isAvailable \in [Devices -> BOOLEAN]
    /\ DOMAIN host = Devices
    /\ ~disturbed => \A d \in Devices :
           Configured(d) /\ m_isAvailable[d] => aveaLink[d] = "found"

LEMMA AveaInvariance == Spec => [](which = "avea" => AveaInv)
<1>1. Avea!Init => AveaInv
  BY DEF Avea!Init, Avea!HostInit, Avea!AveaInit, AveaInv, Configured
<1>2. AveaInv /\ [Avea!Next]_(Avea!vars) => AveaInv'
  <2> SUFFICES ASSUME AveaInv, [Avea!Next]_(Avea!vars) PROVE AveaInv'
    OBVIOUS
  <2>. USE DEF AveaInv, Configured, Avea!Configured
  <2>1. CASE UNCHANGED Avea!vars
    BY <2>1 DEF Avea!vars, Avea!hostVars, Avea!bulbVars
  <2>2. ASSUME NEW d \in Devices, ~undefined, Avea!SetupDevice(d) PROVE AveaInv'
    BY <2>2 DEF Avea!SetupDevice, Avea!SetupReturns, Avea!NotSetUp
  <2>3. ASSUME NEW d \in Devices, Avea!Connected(d) PROVE AveaInv'
    BY <2>3 DEF Avea!Connected, Avea!hostVars
  <2>4. ASSUME NEW d \in Devices, Avea!ServicesDiscovered(d) PROVE AveaInv'
    BY <2>4 DEF Avea!ServicesDiscovered, Avea!hostVars
  <2>5. ASSUME NEW d \in Devices, Avea!Disconnected(d) PROVE AveaInv'
    BY <2>5 DEF Avea!Disconnected
  <2>6. ASSUME NEW d \in Devices, Avea!DeviceRemoved(d) PROVE AveaInv'
    BY <2>6 DEF Avea!DeviceRemoved, Avea!Removed
  <2>7. ASSUME NEW d \in Devices, NEW a \in Actions, Avea!NoService(a, d) PROVE AveaInv'
    BY <2>7 DEF Avea!NoService, Avea!CanExecute, Avea!bulbVars
  <2>8. ASSUME UNCHANGED <<host, disturbed, undefined, aveaLink, m_isAvailable>> PROVE AveaInv'
    BY <2>8
  <2>9. ASSUME NEW d \in Devices,
               Avea!Confirmed(d) \/ Avea!WriteFails(d)
                   \/ \E a \in Actions : Avea!ReturnsAtOnce(a, d) \/ Avea!SetMood(a, d)
                          \/ \E colour \in Colours : Avea!SetColour(a, d, colour)
        PROVE  UNCHANGED <<host, disturbed, undefined, aveaLink, m_isAvailable>>
    BY <2>9 DEF Avea!Confirmed, Avea!WriteFails, Avea!ReturnsAtOnce, Avea!SetMood,
                Avea!SetColour, Avea!bulbVars
  <2>10. QED
    BY <2>1, <2>2, <2>3, <2>4, <2>5, <2>6, <2>7, <2>8, <2>9 DEF Avea!Next
<1>3. Init => (which = "avea" => AveaInv)
  BY <1>1 DEF Init, HostInit, Avea!Init, Avea!HostInit
<1>4. (which = "avea" => AveaInv) /\ [Next]_vars => (which = "avea" => AveaInv)'
  BY <1>2, OnePlugin
<1>5. QED
  BY <1>3, <1>4, PTL DEF Spec

-----------------------------------------------------------------------------
(***************************************************************************)
(* Kodi media centres, LG smart TVs and WeMo switches                      *)
(***************************************************************************)


\* Kodi and WeMo look up what they need before they use it.
LEMMA KodiInvariance == Spec => [](which = "kodi" => undefined = FALSE)
<1>1. Upnp!HostInit => undefined = FALSE
  BY DEF Upnp!HostInit
<1>2. undefined = FALSE /\ [Upnp!KodiNext]_<<hostVars, Upnp!kodiVars>> => (undefined = FALSE)'
  BY DEF hostVars, Upnp!hostVars, Upnp!KodiNext, Upnp!KodiSetupDevice, Upnp!Connected,
         Upnp!ConnectFails, Upnp!Disconnected, Upnp!KodiGuhTimer, Upnp!KodiDeviceRemoved,
         Upnp!KodiExecuteAction, Upnp!KodiActionResponse, Upnp!VersionResponse,
         Upnp!UpdateResponse, Upnp!ResponseCut, Upnp!Responds
<1>3. Init => (which = "kodi" => undefined = FALSE)
  BY <1>1 DEF Init, HostInit, Upnp!HostInit
<1>4. (which = "kodi" => undefined = FALSE) /\ [Next]_vars => (which = "kodi" => undefined = FALSE)'
  BY <1>2, OnePlugin
<1>5. QED
  BY <1>3, <1>4, PTL DEF Spec

LEMMA WemoInvariance == Spec => [](which = "wemo" => undefined = FALSE)
<1>1. Upnp!HostInit => undefined = FALSE
  BY DEF Upnp!HostInit
<1>2. undefined = FALSE /\ [Upnp!WemoNext]_<<hostVars, Upnp!wemoVars>> => (undefined = FALSE)'
  BY DEF hostVars, Upnp!hostVars, Upnp!WemoNext, Upnp!WemoSetupDevice, Upnp!WemoGuhTimer,
         Upnp!WemoDeviceRemoved, Upnp!SetPower, Upnp!RefreshReply, Upnp!SetPowerError,
         Upnp!SetPowerReply, Upnp!WemoAnswered
<1>3. Init => (which = "wemo" => undefined = FALSE)
  BY <1>1 DEF Init, HostInit, Upnp!HostInit
<1>4. (which = "wemo" => undefined = FALSE) /\ [Next]_vars => (which = "wemo" => undefined = FALSE)'
  BY <1>2, OnePlugin
<1>5. QED
  BY <1>3, <1>4, PTL DEF Spec

\* Whatever waits for the answer of a TV is of a device that has a TV, unless a device was
\* removed while something waited.
TvInv ==
    /\ undefined => disturbed
    /\ infoRequests \in [Devices -> Int]
    /\ m_asyncSetup \subseteq Devices
    /\ ~disturbed => /\ m_asyncSetup \subseteq m_tvList
                     /\ paired \subseteq m_tvList
                     /\ \A d \in Devices : infoRequests[d] > 0 => d \in m_tvList

LEMMA TvInvariance == Spec => [](which = "tv" => TvInv)
<1>1. Upnp!HostInit /\ Upnp!LgSmartTvInit => TvInv
  BY DEF Upnp!HostInit, Upnp!LgSmartTvInit, TvInv
<1>2. TvInv /\ [Upnp!TvNext]_<<hostVars, Upnp!tvVars>> => TvInv'
  <2> SUFFICES ASSUME TvInv, [Upnp!TvNext]_<<hostVars, Upnp!tvVars>> PROVE TvInv'
    OBVIOUS
  <2>. USE DEF TvInv
  <2>1. CASE UNCHANGED <<hostVars, Upnp!tvVars>>
    BY <2>1 DEF hostVars, Upnp!tvVars
  <2>2. ASSUME UNCHANGED <<disturbed, undefined, m_tvList, m_asyncSetup, infoRequests>>,
               paired' \subseteq paired
        PROVE  TvInv'
    BY <2>2
  <2>3. ASSUME NEW d \in Devices, Upnp!SetupStoredDevice(d) PROVE TvInv'
    BY <2>3 DEF Upnp!SetupStoredDevice, Upnp!TvSetupDevice
  <2>4. ASSUME NEW d \in Devices, NEW ok \in BOOLEAN, Upnp!PairingReply(d, ok) PROVE TvInv'
    BY <2>4 DEF Upnp!PairingReply, Upnp!TvSetupDevice
  <2>5. ASSUME NEW d \in Devices, NEW ok \in BOOLEAN, ~undefined, Upnp!SetupReply(d, ok)
        PROVE  TvInv'
    BY <2>5 DEF Upnp!SetupReply
  <2>6. ASSUME NEW d \in Devices, Upnp!TvDeviceRemoved(d) PROVE TvInv'
    BY <2>6 DEF Upnp!TvDeviceRemoved
  <2>7. CASE Upnp!TvGuhTimer
    BY <2>7 DEF Upnp!TvGuhTimer, Upnp!hostVars
  <2>8. ASSUME NEW d \in Devices, NEW ok \in BOOLEAN, ~undefined, Upnp!InfoReply(d, ok)
        PROVE  TvInv'
    BY <2>8 DEF Upnp!InfoReply
  <2>9. ASSUME NEW d \in Devices,
               Upnp!DisplayPin(d) \/ Upnp!ConfirmPairing(d) \/ Upnp!ByeBye(d)
                   \/ \E a \in Actions : Upnp!TvExecuteAction(a, d)
        PROVE  TvInv'
    BY <2>9, <2>2 DEF Upnp!DisplayPin, Upnp!ConfirmPairing, Upnp!ByeBye, Upnp!hostVars,
                      Upnp!TvExecuteAction
  <2>10. ASSUME NEW a \in Actions, Upnp!TvActionReply(a) PROVE TvInv'
    BY <2>10, <2>2 DEF Upnp!TvActionReply
  <2>11. QED
    BY <2>1, <2>3, <2>4, <2>5, <2>6, <2>7, <2>8, <2>9, <2>10 DEF Upnp!TvNext, Upnp!Replies
<1>3. Init => (which = "tv" => TvInv)
  BY <1>1 DEF Init, HostInit, Upnp!HostInit
<1>4. (which = "tv" => TvInv) /\ [Next]_vars => (which = "tv" => TvInv)'
  BY <1>2, OnePlugin
<1>5. QED
  BY <1>3, <1>4, PTL DEF Spec

-----------------------------------------------------------------------------
(***************************************************************************)
(* Netatmo, OpenWeatherMap and aWATTar                                     *)
(***************************************************************************)


\* The requests of a connection that is removed are forgotten, but for those for its
\* stations.
Gone(d) ==
    /\ d \notin m_authentications /\ d \notin tokenTimer
    /\ m_tokenRequests[d] = 0 /\ m_refreshTokenRequests[d] = 0
    /\ ~disturbed => m_refreshRequest[d] = 0

NetatmoInv ==
    /\ undefined => disturbed
    /\ DOMAIN host = Devices
    /\ m_tokenRequests \in [Devices -> Nat]
    /\ m_refreshTokenRequests \in [Devices -> Nat]
    /\ m_refreshRequest \in [Devices -> Nat]
    /\ \A d \in Devices : host[d] = "gone" => Gone(d)

LEMMA NetatmoInvariance == Spec => [](which = "netatmo" => NetatmoInv)
<1>1. Online!HostInit /\ Online!NetatmoInit => NetatmoInv
  BY DEF Online!HostInit, Online!NetatmoInit, NetatmoInv
<1>2. NetatmoInv /\ [Online!NetatmoNext]_<<hostVars, Online!netatmoVars>> => NetatmoInv'
  <2> SUFFICES ASSUME NetatmoInv, [Online!NetatmoNext]_<<hostVars, Online!netatmoVars>>
               PROVE  NetatmoInv'
    OBVIOUS
  <2>. USE DEF NetatmoInv, Gone
  <2>1. CASE UNCHANGED <<hostVars, Online!netatmoVars>>
    BY <2>1 DEF hostVars, Online!netatmoVars
  <2>2. ASSUME NEW d \in Devices, Online!SetupConnection(d) PROVE NetatmoInv'
    BY <2>2 DEF Online!SetupConnection, Online!SetupAsync, Online!NotSetUp, Online!More
  <2>3. ASSUME NEW d \in Devices, Online!SetupStation(d) PROVE NetatmoInv'
    BY <2>3 DEF Online!SetupStation, Online!SetupReturns, Online!netatmoVars
  <2>4. ASSUME NEW d \in Devices, Online!NetatmoDeviceRemoved(d) PROVE NetatmoInv'
    <3>1. m_refreshRequest[d] \in Nat
      OBVIOUS
    <3>6. disturbed' = (disturbed \/ m_refreshRequest[d] > 0)
      BY <2>4 DEF Online!NetatmoDeviceRemoved
    <3>7. ~disturbed' => ~disturbed
      BY <3>6
    <3>8. ~disturbed' => ~(m_refreshRequest[d] > 0)
      BY <3>6
    <3>9. ~disturbed' => m_refreshRequest[d] = 0
      BY <3>8, <3>1
    <3>2. ~disturbed' => ~disturbed /\ m_refreshRequest'[d] = 0
      BY <2>4, <3>9, <3>7 DEF Online!NetatmoDeviceRemoved
    <3>3. \A e \in Devices \ {d} : host'[e] = host[e] /\ (Gone(e) => Gone(e)')
      BY <2>4 DEF Online!NetatmoDeviceRemoved, Online!Removed
    <3>4. Gone(d)'
      BY <2>4, <3>2 DEF Online!NetatmoDeviceRemoved
    <3>5. QED
      BY <2>4, <3>3, <3>4 DEF Online!NetatmoDeviceRemoved, Online!Removed
  <2>5. ASSUME NEW d \in Devices, NEW a \in Actions, Online!NetatmoExecuteAction(a, d)
        PROVE  NetatmoInv'
    BY <2>5 DEF Online!NetatmoExecuteAction, Online!netatmoVars
  <2>6. CASE Online!NetatmoGuhTimer
    BY <2>6 DEF Online!NetatmoGuhTimer, Online!More, Online!hostVars
  \* An answer to a device that is not gone
  <2>7. ASSUME NEW d \in Devices, NEW ok \in BOOLEAN, host[d] # "gone",
               Online!AuthenticationChanged(d, ok)
        PROVE  /\ DOMAIN host' = Devices
               /\ m_refreshRequest' \in [Devices -> Nat]
               /\ \A e \in Devices : host'[e] = "gone" =>
                      host[e] = "gone" /\ m_refreshRequest'[e] = m_refreshRequest[e]
    BY <2>7 DEF Online!AuthenticationChanged, Online!SetupFinished, Online!SetupResult,
                Online!More
  <2>8. ASSUME NEW d \in Devices, NEW ok \in BOOLEAN, NEW expires \in BOOLEAN, host[d] # "gone",
               Online!Timer(d, ok, expires)
        PROVE  tokenTimer' \subseteq tokenTimer \cup {d}
    BY <2>8 DEF Online!Timer
  <2>9. ASSUME NEW d \in Devices, NEW ok \in BOOLEAN, NEW expires \in BOOLEAN,
               Online!TokenReply(d, ok, expires)
        PROVE  NetatmoInv'
    <3>1. host[d] # "gone"
      BY <2>9 DEF Online!TokenReply
    <3>2. QED
      BY <2>7, <2>8, <2>9, <3>1 DEF Online!TokenReply, Online!Less
  <2>10. ASSUME NEW d \in Devices, Online!RefreshTimeout(d) PROVE NetatmoInv'
    BY <2>10 DEF Online!RefreshTimeout, Online!More, Online!hostVars
  <2>11. ASSUME NEW d \in Devices, NEW ok \in BOOLEAN, NEW expires \in BOOLEAN,
                Online!RefreshTokenReply(d, ok, expires)
         PROVE  NetatmoInv'
    <3>1. host[d] # "gone"
      BY <2>11 DEF Online!RefreshTokenReply
    <3>2. \/ UNCHANGED <<host, m_refreshRequest>>
          \/ Online!AuthenticationChanged(d, ok)
      BY <2>11 DEF Online!RefreshTokenReply
    <3>3. QED
      BY <2>7, <2>8, <2>11, <3>1, <3>2 DEF Online!RefreshTokenReply, Online!Less
  <2>12. ASSUME NEW d \in Devices, NEW answer, NEW stations,
                ~undefined, Online!NetatmoRefreshReply(d, answer, stations)
         PROVE  NetatmoInv'
    <3>5. m_refreshRequest[d] \in Nat /\ m_refreshRequest[d] > 0
      BY <2>12 DEF Online!NetatmoRefreshReply
    <3>6. undefined' => host[d] = "gone"
      BY <2>12 DEF Online!NetatmoRefreshReply
    <3>7. host[d] = "gone" => disturbed
      BY <3>5
    <3>1. undefined' => disturbed
      BY <3>6, <3>7
    <3>2. \A e \in Devices : host'[e] = "gone" => host[e] = "gone"
      BY <2>12 DEF Online!NetatmoRefreshReply
    <3>8. m_refreshRequest' = [m_refreshRequest EXCEPT ![d] = @ - 1]
      BY <2>12 DEF Online!NetatmoRefreshReply, Online!Less
    <3>3. m_refreshRequest' \in [Devices -> Nat]
          /\ \A e \in Devices : m_refreshRequest[e] = 0 => m_refreshRequest'[e] = 0
      BY <3>5, <3>8
    <3>4. QED
      BY <2>12, <3>1, <3>2, <3>3 DEF Online!NetatmoRefreshReply
  <2>13. QED
    BY <2>1, <2>2, <2>3, <2>4, <2>5, <2>6, <2>9, <2>10, <2>11, <2>12
    DEF Online!NetatmoNext, Online!Authenticates
<1>3. Init => (which = "netatmo" => NetatmoInv)
  BY <1>1 DEF Init, HostInit, Online!HostInit
<1>4. (which = "netatmo" => NetatmoInv) /\ [Next]_vars => (which = "netatmo" => NetatmoInv)'
  BY <1>2, OnePlugin
<1>5. QED
  BY <1>3, <1>4, PTL DEF Spec

\* Only an answer that is an error leaves an entry of a deleted reply.
WeatherInv == (undefined => disturbed) /\ (~disturbed => deleted = {})

LEMMA WeatherInvariance == Spec => [](which = "weather" => WeatherInv)
<1>1. Online!HostInit /\ Online!OpenWeatherMapInit => WeatherInv
  BY DEF Online!HostInit, Online!OpenWeatherMapInit, WeatherInv
<1>2. WeatherInv /\ [Online!WeatherNext]_<<hostVars, Online!weatherVars>> => WeatherInv'
  <2> SUFFICES ASSUME WeatherInv, [Online!WeatherNext]_<<hostVars, Online!weatherVars>>
               PROVE  WeatherInv'
    OBVIOUS
  <2>. USE DEF WeatherInv
  <2>1. ASSUME NEW d \in Devices, NEW ok \in BOOLEAN, Online!WeatherReply(d, ok)
        PROVE  WeatherInv'
    BY <2>1 DEF Online!WeatherReply
  <2>2. ASSUME NEW d \in Devices, ~undefined, Online!WeatherDeviceRemoved(d)
        PROVE  WeatherInv'
    BY <2>2 DEF Online!WeatherDeviceRemoved
  <2>3. CASE UNCHANGED <<disturbed, undefined, deleted>>
    BY <2>3
  <2>4. QED
    BY <2>1, <2>2, <2>3
    DEF hostVars, Online!hostVars, Online!weatherVars, Online!WeatherNext,
        Online!WeatherSetupDevice, Online!RefreshWeather, Online!OnTimeout,
        Online!DiscoverDevices, Online!SearchAnswered, Online!SearchError,
        Online!AutodetectResponse, Online!SearchResponse
<1>3. Init => (which = "weather" => WeatherInv)
  BY <1>1 DEF Init, HostInit, Online!HostInit
<1>4. (which = "weather" => WeatherInv) /\ [Next]_vars => (which = "weather" => WeatherInv)'
  BY <1>2, OnePlugin
<1>5. QED
  BY <1>3, <1>4, PTL DEF Spec

\* Only numbers that were never set are read, and what happens then is noted at once.
LEMMA AwattarInvariance == Spec => [](which = "awattar" => UndefinedOnlyIfDisturbed)
<1>1. Online!HostInit => UndefinedOnlyIfDisturbed
  BY DEF Online!HostInit, UndefinedOnlyIfDisturbed
<1>2. UndefinedOnlyIfDisturbed /\ [Online!AwattarNext]_<<hostVars, Online!awattarVars>>
          => UndefinedOnlyIfDisturbed'
  BY DEF UndefinedOnlyIfDisturbed, hostVars, Online!hostVars, Online!awattarVars,
         Online!AwattarNext, Online!AwattarSetupDevice, Online!AwattarDeviceRemoved,
         Online!AwattarGuhTimer, Online!SetSyncMode, Online!SetManualSgMode, Online!ReadUnset,
         Online!PriceReply, Online!ReadUserData, Online!UserDataReply, Online!UserDataUseless,
         Online!PumpsFound, Online!PumpReply
<1>3. Init => (which = "awattar" => UndefinedOnlyIfDisturbed)
  BY <1>1 DEF Init, HostInit, Online!HostInit
<1>4. (which = "awattar" => UndefinedOnlyIfDisturbed) /\ [Next]_vars => (which = "awattar" => UndefinedOnlyIfDisturbed)'
  BY <1>2, OnePlugin
<1>5. QED
  BY <1>3, <1>4, PTL DEF Spec

-----------------------------------------------------------------------------
(***************************************************************************)
(* What all plugins promise                                                *)
(***************************************************************************)

\* No plugin uses an object that is deleted, missing or not initialised before something
\* has happened that its module names: most often a device is removed, or its connection
\* ends, while a request for it waits.
THEOREM UndefinedCorrect == Spec => []UndefinedOnlyIfDisturbed
<1>1. Spec => [](which \in {"avea", "kodi", "tv", "mail", "time", "launcher", "wemo", "weather",
                            "netatmo", "awattar"})
  <2> DEFINE Chosen == which \in {"avea", "kodi", "tv", "mail", "time", "launcher", "wemo",
                                  "weather", "netatmo", "awattar"}
  <2>1. Init => Chosen
    BY DEF Init
  <2>2. Chosen /\ [Next]_vars => Chosen'
    BY OnePlugin
  <2>3. QED
    BY <2>1, <2>2, PTL DEF Spec
<1>2. /\ which \in {"avea", "kodi", "tv", "mail", "time", "launcher", "wemo", "weather",
                    "netatmo", "awattar"}
      /\ which = "mail" => MailInv
      /\ which = "time" => TimeInv
      /\ which = "launcher" => LauncherInv
      /\ which = "avea" => AveaInv
      /\ which = "kodi" => undefined = FALSE
      /\ which = "wemo" => undefined = FALSE
      /\ which = "tv" => TvInv
      /\ which = "netatmo" => NetatmoInv
      /\ which = "weather" => WeatherInv
      /\ which = "awattar" => UndefinedOnlyIfDisturbed
      => UndefinedOnlyIfDisturbed
  BY DEF UndefinedOnlyIfDisturbed, MailInv, TimeInv, LauncherInv, AveaInv, TvInv, NetatmoInv,
         WeatherInv
<1>3. QED
  BY <1>1, <1>2, MailInvariance, TimeInvariance, LauncherInvariance, AveaInvariance,
     KodiInvariance, WemoInvariance, TvInvariance, NetatmoInvariance, WeatherInvariance,
     AwattarInvariance, PTL
=============================================================================
