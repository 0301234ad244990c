-------------------------------- MODULE Mail --------------------------------
(***************************************************************************)
(* The mail notification plugin and its SMTP client.  A device is set up   *)
(* by a login that is only a test; a mail logs in again.  The client is a  *)
(* machine that waits for one code in each of its states.                  *)
(***************************************************************************)
EXTENDS PluginHost

CONSTANTS
    Tls, Unencrypted,    \* the accounts that do not use SSL
    Plain                \* the accounts that do not use AUTH LOGIN

VARIABLES
    m_clients,     \* the devices that have a client
    m_state,       \* device -> state of its client
    m_testLogin,   \* device -> BOOLEAN
    m_actionId,    \* device -> the action whose mail is m_message, or None
    asked,         \* device -> what the server has to answer, in order.  A message is
                   \* its action, "rest" the rest of an answer that is cut.
    accepted       \* the actions whose mail the server has taken

mailVars == <<m_clients, m_state, m_testLogin, m_actionId, asked, accepted>>
vars == <<hostVars, mailVars>>

MailInit ==
    /\ m_clients = {}
    /\ m_state = [d \in Devices |-> "Init"]
    /\ m_testLogin = [d \in Devices |-> FALSE]
    /\ m_actionId = [d \in Devices |-> None]
    /\ asked = [d \in Devices |-> <<>>]
    /\ accepted = {}

Init == HostInit /\ MailInit

\* What the server is asked, but for the messages
Commands == {"connect", "STARTTLS", "EHLO", "rest", "MAIL", "RCPT", "AUTH LOGIN", "user",
             "password", "AUTH PLAIN", "DATA", "QUIT"}

\* What nobody answers when the server stops to
Stuck(d) == (IF m_testLogin[d] THEN {d} ELSE {}) \cup ({m_actionId[d]} \cap Running)

\* The code of a server that agrees
Agrees(request) ==
    CASE request \in {"connect", "STARTTLS"} -> "220"
      [] request \in {"EHLO", "rest", "MAIL", "RCPT"} \cup Actions -> "250"
      [] request \in {"AUTH LOGIN", "user"} -> "334"
      [] request \in {"AUTH PLAIN", "password"} -> "235"
      [] request = "DATA" -> "354"
      [] request = "QUIT" -> "221"

\* What readData() sends and the state it goes to when the code is the one the state
\* waits for; LoggedIn is the state that waits for the end of the login.
LoggedIn(d) == IF m_testLogin[d] THEN "TestLoginFinished" ELSE "Mail"

Steps(d) ==
    LET Step(state, codes, send, next) ==
            [state |-> state, codes |-> codes, send |-> send, next |-> next]
    IN { Step("Init", {"220"}, "EHLO", IF d \in Unencrypted THEN "Authentification"
                                       ELSE IF d \in Tls THEN "StartTls" ELSE "HandShake"),
         Step("HandShake", {"220", "250"}, "EHLO", "Authentification"),
         Step("StartTls", {"250"}, "STARTTLS", "HandShake"),
         IF d \in Plain THEN Step("Authentification", {"250"}, "AUTH PLAIN", LoggedIn(d))
         ELSE Step("Authentification", {"250"}, "AUTH LOGIN", "User"),
         Step("User", {"334"}, "user", "Password"),
         Step("Password", {"334"}, "password", LoggedIn(d)),
         Step("Mail", {"235"}, "MAIL", "Rcpt"),
         Step("Rcpt", {"250"}, "RCPT", "Data"),
         Step("Data", {"250"}, "DATA", "Body"),
         Step("Body", {"354"}, m_actionId[d], "Quit") }

-----------------------------------------------------------------------------
(* Calls of the device manager *)

\* setupDevice() and testLogin()
SetupDevice(d) ==
    /\ NotSetUp(d)
    /\ SetupAsync(d)
    /\ m_clients' = m_clients \cup {d}
    /\ m_testLogin' = [m_testLogin EXCEPT ![d] = TRUE]
    /\ asked' = [asked EXCEPT ![d] = <<"connect">>]
    /\ UNCHANGED <<acts, lost, disturbed, undefined, m_state, m_actionId, accepted>>

\* executeAction() and sendMail(): the socket is closed, a login that is tested goes
\* on in the new connection and the mail is not sent.
SendMail(a, d) ==
    /\ CanExecute(a, d)
    /\ IF d \notin m_clients
       THEN undefined' = TRUE /\ UNCHANGED <<acts, lost, m_state, m_actionId, asked>>
       ELSE /\ ExecuteAsync(a)
            /\ m_actionId' = [m_actionId EXCEPT ![d] = a]
            /\ m_state' = [m_state EXCEPT ![d] = "Init"]
            /\ asked' = [asked EXCEPT ![d] = <<"connect">>]
            /\ lost' = lost \cup ({m_actionId[d]} \cap Running)
                            \cup (IF m_testLogin[d] THEN {a} ELSE {})
            /\ UNCHANGED undefined
    /\ UNCHANGED <<host, disturbed, m_clients, m_testLogin, accepted>>

\* deviceRemoved()
DeviceRemoved(d) ==
    /\ Configured(d)
    /\ Removed(d)
    /\ m_clients' = m_clients \ {d}
    /\ m_testLogin' = [m_testLogin EXCEPT ![d] = FALSE]
    /\ m_actionId' = [m_actionId EXCEPT ![d] = None]
    /\ asked' = [asked EXCEPT ![d] = <<>>]
    /\ lost' = lost \cup Stuck(d)
    /\ UNCHANGED <<acts, disturbed, undefined, m_state, accepted>>

-----------------------------------------------------------------------------
(* readData() *)

\* The code is the one the state waits for: the next request is sent.
Proceed(d, code, waiting) ==
    \E step \in Steps(d) :
        /\ step.state = m_state[d] /\ code \in step.codes
        /\ m_state' = [m_state EXCEPT ![d] = step.next]
        /\ asked' = [asked EXCEPT ![d] = Append(waiting, step.send)]
        /\ UNCHANGED <<host, acts, lost, disturbed, m_clients, m_testLogin>>

\* TestLoginFinishedState, with testLoginFinished() of the plugin: any code ends it,
\* and the client of a login that failed is deleted.
TestLoginFinished(d, code) ==
    LET ok == code = "235" IN
    /\ m_state[d] = "TestLoginFinished"
    /\ SetupFinished(d, ok)
    /\ m_testLogin' = [m_testLogin EXCEPT ![d] = FALSE]
    /\ m_clients' = IF ok THEN m_clients ELSE m_clients \ {d}
    /\ disturbed' = (disturbed \/ (~ok /\ Configured(d)))
    /\ asked' = [asked EXCEPT ![d] = <<>>]
    /\ UNCHANGED <<acts, lost, m_state>>

\* Mutant of MailSent.
MailSent_AnyCode(d, code, waiting) ==
    /\ m_state[d] = "Quit"
    /\ ActionFinished(m_actionId[d])
    /\ m_state' = [m_state EXCEPT ![d] = "Close"]
    /\ asked' = [asked EXCEPT ![d] = Append(waiting, "QUIT")]
    /\ UNCHANGED <<host, lost, disturbed, m_clients, m_testLogin>>

\* QuitState, with sendMailFinished() of the plugin
MailSent(d, code, waiting) ==
    /\ m_state[d] = "Quit" /\ code = "250"
    /\ ActionFinished(m_actionId[d])
    /\ m_state' = [m_state EXCEPT ![d] = "Close"]
    /\ asked' = [asked EXCEPT ![d] = Append(waiting, "QUIT")]
    /\ UNCHANGED <<host, lost, disturbed, m_clients, m_testLogin>>

\* CloseState: the connection is closed whatever the code.
Close(d) ==
    /\ m_state[d] = "Close"
    /\ asked' = [asked EXCEPT ![d] = <<>>]
    /\ UNCHANGED <<host, acts, lost, disturbed, m_state, m_clients, m_testLogin>>

\* Any other code is read and forgotten: sendMailFinished(false) is out of reach.
Ignore(d, code, waiting) ==
    /\ m_state[d] \notin {"TestLoginFinished", "Close"}
    /\ ~ (m_state[d] = "Quit" /\ code = "250")
    /\ ~ \E step \in Steps(d) : step.state = m_state[d] /\ code \in step.codes
    /\ asked' = [asked EXCEPT ![d] = waiting]
    /\ lost' = IF waiting = <<>> THEN lost \cup Stuck(d) ELSE lost
    /\ UNCHANGED <<host, acts, disturbed, m_state, m_clients, m_testLogin>>

\* The server answers what it was asked first, or refuses it.  The answer to EHLO
\* has several lines, and the rest of them may come later.
ReadData(d, agrees, cut) ==
    LET request == Head(asked[d])
        code == IF agrees THEN Agrees(request) ELSE "500"
        waiting == IF cut THEN <<"rest">> \o Tail(asked[d]) ELSE Tail(asked[d])
    IN
    /\ cut => agrees /\ request = "EHLO"
    /\ request = "rest" => agrees
    /\ accepted' = IF request \in Actions /\ agrees THEN accepted \cup {request} ELSE accepted
    /\ \/ Proceed(d, code, waiting)
       \/ TestLoginFinished(d, code)
       \/ MailSent(d, code, waiting)
       \/ Close(d)
       \/ Ignore(d, code, waiting)
    /\ UNCHANGED <<undefined, m_actionId>>

Answered(d) == asked[d] # <<>> /\ \E agrees, cut \in BOOLEAN : ReadData(d, agrees, cut)

\* socketError(): the server or the network closes the connection, nobody is told.
Disconnected(d) ==
    /\ asked[d] # <<>>
    /\ asked' = [asked EXCEPT ![d] = <<>>]
    /\ lost' = lost \cup Stuck(d)
    /\ UNCHANGED <<host, acts, disturbed, undefined, m_clients, m_state, m_testLogin,
                   m_actionId, accepted>>

Next ==
    /\ ~undefined
    /\ \E d \in Devices :
        \/ SetupDevice(d) \/ DeviceRemoved(d) \/ Answered(d) \/ Disconnected(d)
        \/ \E a \in Actions : SendMail(a, d)

\* The server answers in time or the connection ends (fair).
DeviceProgress(d) == ~undefined /\ (Answered(d) \/ Disconnected(d))

-----------------------------------------------------------------------------

\* An action is answered only when the server has taken its mail: readData() tells one
\* code from another by the state alone, while mails replace each other and answers
\* are cut.
MailDelivered == \A a \in Actions : acts[a] \in {"done", "again"} => a \in accepted
=============================================================================
