---------------------------- MODULE EventsClient ----------------------------
(***************************************************************************)
(* The events client of the web application                                 *)
(* (taiga-front/app/coffee/modules/events.coffee): one web socket with a    *)
(* heartbeat, messages buffered until it is open, and a new attempt some    *)
(* time after it has failed or closed.                                      *)
(*                                                                         *)
(* The browser runs one listener or timer at a time; a failed socket fires  *)
(* its error and its close event in one task.  A link may go silent without *)
(* an event.  Of the server the model keeps what it knows of the present    *)
(* socket; it takes the messages in order and ignores subscriptions that    *)
(* come before an accepted auth (taiga-events/src/ws/client.js:76, :106).   *)
(* The notifications that onOpen subscribes to are the key Base.            *)
(***************************************************************************)
EXTENDS Integers, FiniteSets, Sequences

CONSTANTS
    Keys,                 \* the routing keys of the pages
    Base,                 \* the routing key of the notifications
    maxConnectionErrors,  \* eventsMaxConnectionErrors
    maxMissedHeartbeats,  \* eventsMaxMissedHeartbeats
    MaxPages,             \* bound on the subscriptions of pages
    MaxLogins             \* bound on the log-ins

ASSUME BaseAssumption == Base \notin Keys
ASSUME LimitsAssumption ==
    /\ maxConnectionErrors \in Nat /\ maxMissedHeartbeats \in Nat
    /\ MaxPages \in Nat /\ MaxLogins \in Nat

VARIABLES
    loggedIn,     \* there is a token that the server accepts
    ws,           \* the socket that @.ws refers to
    alive,        \* its link delivers
    connected, error, errors, pendingMessages,
    heartbeat,    \* the heartbeat's interval is set
    missedHeartbeats,
    timers,       \* attempts that setTimeout has scheduled
    scopes,       \* the keys whose page will unsubscribe when it is left
    authed, known,   \* the server: has authenticated the socket, knows its keys
    asked,        \* history: keys that pages asked for while the socket was open
    withToken,    \* history: what loggedIn was when the socket opened
    pages, logins \* how often a page has subscribed, and somebody logged in

socket == <<ws, alive, connected, error, errors, heartbeat, timers>>
messages == <<pendingMessages, authed, known>>
past == <<asked, withToken>>
vars == <<loggedIn, socket, messages, missedHeartbeats, scopes, past, pages, logins>>

Auth == [cmd |-> "auth"]
Ping == [cmd |-> "ping"]
Sub(k) == [cmd |-> "subscribe", routing_key |-> k]
Unsub(k) == [cmd |-> "unsubscribe", routing_key |-> k]

Message == {Auth, Ping} \cup UNION {{Sub(k), Unsub(k)} : k \in Keys \cup {Base}}

TypeOK ==
    /\ loggedIn \in BOOLEAN /\ alive \in BOOLEAN
    /\ ws \in {"none", "connecting", "open", "closed"}
    /\ connected \in BOOLEAN /\ error \in BOOLEAN
    /\ errors \in Nat
    /\ pendingMessages \in Seq(Message)
    /\ heartbeat \in BOOLEAN
    /\ missedHeartbeats \in 0..maxMissedHeartbeats
    /\ timers \in Nat
    /\ scopes \subseteq Keys /\ asked \subseteq Keys
    /\ authed \in BOOLEAN /\ known \subseteq Keys \cup {Base}
    /\ withToken \in BOOLEAN
    /\ pages \in 0..MaxPages /\ logins \in 0..MaxLogins

Init ==
    /\ loggedIn \in BOOLEAN
    /\ ws = "none" /\ alive = TRUE
    /\ connected = FALSE /\ error = FALSE /\ errors = 0
    /\ pendingMessages = <<>>
    /\ heartbeat = FALSE /\ missedHeartbeats = 0
    /\ timers = 0
    /\ scopes = {} /\ asked = {}
    /\ authed = FALSE /\ known = {} /\ withToken = FALSE
    /\ pages = 0 /\ logins = 0

-----------------------------------------------------------------------------
(* Messages. *)

\* The server takes the messages one after the other.
Deliver(msgs) ==
    LET n == Len(msgs)
        Last(k) == \A j \in 1..n : msgs[j] # Unsub(k)
        Taken(i) == authed \/ (loggedIn /\ \E j \in 1..i : msgs[j] = Auth)
    IN
    /\ authed' = (authed \/ (loggedIn /\ \E j \in 1..n : msgs[j] = Auth))
    /\ known' = {k \in known : Last(k)} \cup
                {k \in Keys \cup {Base} : \E i \in 1..n :
                    /\ msgs[i] = Sub(k) /\ Taken(i)
                    /\ \A j \in i..n : msgs[j] # Unsub(k)}

\* Variant: the buffer is sent and kept.
SendMessagesAgain(msgs, isConnected, state) ==
    /\ pendingMessages' = pendingMessages \o msgs
    /\ IF isConnected /\ state = "open" /\ alive THEN Deliver(pendingMessages \o msgs)
       ELSE UNCHANGED <<authed, known>>

\* sendMessage: the buffer is emptied, and the socket throws while it connects.
SendMessages(msgs, isConnected, state) ==
    IF ~isConnected
    THEN pendingMessages' = pendingMessages \o msgs /\ UNCHANGED <<authed, known>>
    ELSE /\ pendingMessages' = <<>>
         /\ IF state = "open" /\ alive THEN Deliver(pendingMessages \o msgs)
            ELSE UNCHANGED <<authed, known>>

-----------------------------------------------------------------------------
(* The connection. *)

\* setupConnection: the old socket loses its listeners, so that nobody hears
\* that it closes.
SetupConnection ==
    /\ ws' = "connecting" /\ alive' = TRUE
    /\ error' = FALSE /\ heartbeat' = FALSE
    /\ authed' = FALSE /\ known' = {} /\ asked' = {}
    /\ UNCHANGED <<connected, errors, withToken>>

\* The application starts.
Start ==
    /\ ws = "none"
    /\ SetupConnection
    /\ UNCHANGED <<loggedIn, pendingMessages, timers, missedHeartbeats, scopes, pages, logins>>

\* The answer to the log-in form.
Login ==
    /\ ws # "none" /\ logins < MaxLogins
    /\ logins' = logins + 1
    /\ loggedIn' = TRUE
    /\ SetupConnection
    /\ UNCHANGED <<pendingMessages, timers, missedHeartbeats, scopes, pages>>

\* A token comes and goes in ways that leave the socket alone: a registration
\* or an accepted invitation and a refreshed token set one; a log-out, the
\* submission of any of these forms and a refused refresh remove it, and it
\* runs out.
TokenAlone ==
    /\ ws # "none"
    /\ loggedIn' = ~loggedIn
    /\ UNCHANGED <<socket, messages, missedHeartbeats, scopes, past, pages, logins>>

TryAgain ==
    /\ timers > 0
    /\ timers' = timers - 1
    /\ SetupConnection
    /\ UNCHANGED <<loggedIn, pendingMessages, missedHeartbeats, scopes, pages, logins>>

\* onOpen: auth goes to the end of the buffer, the notifications after it.
OnOpen ==
    /\ ws = "connecting"
    /\ ws' = "open"
    /\ connected' = TRUE
    /\ withToken' = loggedIn
    /\ SendMessages(<<Auth>> \o (IF error THEN <<>> ELSE <<Sub(Base)>>), TRUE, "open")
    /\ heartbeat' = TRUE
    /\ missedHeartbeats' = IF heartbeat THEN missedHeartbeats ELSE 0
    /\ UNCHANGED <<loggedIn, alive, error, errors, timers, scopes, asked, pages,
                   logins>>

\* Variant: no new attempt after a socket has closed.
OnCloseForGood ==
    /\ ws = "open"
    /\ ws' = "closed"
    /\ connected' = FALSE /\ heartbeat' = FALSE
    /\ UNCHANGED <<loggedIn, alive, error, errors, timers, messages, missedHeartbeats,
                   scopes, past, pages, logins>>

\* onClose; only an open socket closes without an error.
OnClose ==
    /\ ws = "open"
    /\ ws' = "closed"
    /\ connected' = FALSE /\ heartbeat' = FALSE
    /\ timers' = IF error THEN timers ELSE timers + 1
    /\ UNCHANGED <<loggedIn, alive, error, errors, messages, missedHeartbeats, scopes,
                   past, pages, logins>>

\* onError and the onClose that follows it.
OnError ==
    /\ ws \in {"connecting", "open"}
    /\ ws' = "closed"
    /\ error' = TRUE
    /\ errors' = errors + 1
    /\ timers' = IF errors' < maxConnectionErrors THEN timers + 1 ELSE timers
    /\ connected' = FALSE /\ heartbeat' = FALSE
    /\ UNCHANGED <<loggedIn, alive, messages, missedHeartbeats, scopes, past, pages, logins>>

GoSilent ==
    /\ ws = "open" /\ alive
    /\ alive' = FALSE
    /\ UNCHANGED <<loggedIn, ws, connected, error, errors, heartbeat, timers, messages,
                   missedHeartbeats, scopes, past, pages, logins>>

-----------------------------------------------------------------------------
(* The heartbeat. *)

\* Variant: one heartbeat too many.
BeatLate ==
    /\ heartbeat
    /\ IF missedHeartbeats > maxMissedHeartbeats
       THEN SetupConnection /\ UNCHANGED <<missedHeartbeats, pendingMessages, timers>>
       ELSE /\ missedHeartbeats' = missedHeartbeats + 1
            /\ SendMessages(<<Ping>>, connected, ws)
            /\ UNCHANGED <<socket, past>>
    /\ UNCHANGED <<loggedIn, scopes, pages, logins>>

\* Variant: the missed heartbeats have no consequence.
BeatOnly ==
    /\ heartbeat /\ missedHeartbeats < maxMissedHeartbeats
    /\ missedHeartbeats' = missedHeartbeats + 1
    /\ SendMessages(<<Ping>>, connected, ws)
    /\ UNCHANGED <<loggedIn, socket, past, scopes, pages, logins>>

Beat ==
    /\ heartbeat
    /\ IF missedHeartbeats >= maxMissedHeartbeats
       THEN SetupConnection /\ UNCHANGED <<missedHeartbeats, pendingMessages, timers>>
       ELSE /\ missedHeartbeats' = missedHeartbeats + 1
            /\ SendMessages(<<Ping>>, connected, ws)
            /\ UNCHANGED <<socket, past>>
    /\ UNCHANGED <<loggedIn, scopes, pages, logins>>

Pong ==
    /\ ws = "open" /\ alive /\ missedHeartbeats > 0
    /\ missedHeartbeats' = 0
    /\ UNCHANGED <<loggedIn, socket, messages, scopes, past, pages, logins>>

-----------------------------------------------------------------------------
(* The pages.  Nothing is remembered of a subscription asked for after an   *)
(* error; when the socket throws, the page's clean-up is not registered.    *)

Subscribe(k) ==
    /\ ws # "none" /\ ~error /\ pages < MaxPages
    /\ pages' = pages + 1
    /\ SendMessages(<<Sub(k)>>, connected, ws)
    /\ scopes' = IF connected /\ ws = "connecting" THEN scopes ELSE scopes \cup {k}
    /\ asked' = IF ws = "open" THEN asked \cup {k} ELSE asked
    /\ UNCHANGED <<loggedIn, socket, missedHeartbeats, withToken, logins>>

Destroy(k) ==
    /\ k \in scopes
    /\ scopes' = scopes \ {k}
    /\ IF error THEN UNCHANGED <<messages, asked>>
       ELSE SendMessages(<<Unsub(k)>>, connected, ws) /\ asked' = asked \ {k}
    /\ UNCHANGED <<loggedIn, socket, missedHeartbeats, withToken, pages, logins>>

-----------------------------------------------------------------------------
Next == \/ Start \/ Login \/ TokenAlone \/ TryAgain \/ OnOpen \/ OnClose \/ OnError \/ GoSilent
        \/ Beat \/ Pong
        \/ \E k \in Keys : Subscribe(k) \/ Destroy(k)

\* An attempt ends one way or the other, timers and intervals fire; nothing
\* forces an open socket to fail.
AttemptEnds == ws = "connecting" /\ (OnOpen \/ OnError)

Spec == /\ Init /\ [][Next]_vars
        /\ WF_vars(Start) /\ WF_vars(AttemptEnds)
        /\ WF_vars(TryAgain) /\ WF_vars(Beat)
-----------------------------------------------------------------------------
\* A client without a socket will try again, or has met the limit of errors:
\* no order of errors, closings, logins and timers leaves it waiting for nothing.
NeverStuck == ws = "closed" => timers > 0 \/ errors >= maxConnectionErrors

\* Over a link that delivers, the server has authenticated the socket exactly
\* if there was a token when it opened, whatever became of the token since; and
\* then it knows the notifications and exactly the keys that pages have asked
\* for on this socket and not given up, whatever was buffered while there was
\* none.  Keys of an earlier socket are gone.
ServerKnows ==
    ws = "open" /\ alive =>
        /\ authed = withToken
        /\ known = IF withToken THEN asked \cup {Base} ELSE {}

\* However a connection is lost, silently included, one comes back over which
\* the notifications are subscribed to if there was a token when it opened,
\* unless the errors have reached their limit.
Restored ==
    ~alive \/ ws # "open" ~>
        \/ ws = "open" /\ alive /\ (withToken => Base \in known)
        \/ errors >= maxConnectionErrors
=============================================================================
