------------------------- MODULE EventsClient_proofs -------------------------
(***************************************************************************)
(* What holds of EventsClient for any set of keys and any limits of errors  *)
(* and heartbeats.                                                          *)
(***************************************************************************)
EXTENDS EventsClient, SequenceTheorems, TLAPS

-----------------------------------------------------------------------------
(* What the server makes of the messages *)

PageMessage == {Ping} \cup {Sub(k) : k \in Keys} \cup {Unsub(k) : k \in Keys}

LEMMA MessagesDiffer ==
    /\ Auth # Ping /\ Auth \notin PageMessage
    /\ \A k, l : /\ Sub(k) # Auth /\ Unsub(k) # Auth /\ Sub(k) # Ping /\ Unsub(k) # Ping
                 /\ Sub(k) # Unsub(l)
                 /\ Sub(k) = Sub(l) => k = l
                 /\ Unsub(k) = Unsub(l) => k = l
  <1>1. /\ Auth.cmd = "auth" /\ Ping.cmd = "ping"
        /\ \A k : /\ Sub(k).cmd = "subscribe" /\ Unsub(k).cmd = "unsubscribe"
                  /\ Sub(k).routing_key = k /\ Unsub(k).routing_key = k
    BY DEF Auth, Ping, Sub, Unsub
  <1> QED
    BY <1>1 DEF PageMessage

LEMMA PageMessages == PageMessage \subseteq Message /\ Auth \in Message /\ Sub(Base) \in Message
  BY DEF PageMessage, Message

LEMMA PairConcat ==
    ASSUME NEW a, NEW b
    PROVE  <<a>> \o <<b>> = <<a, b>>
  <1> DEFINE S == {a, b}
             s == <<a>>
             t == <<b>>
             u == <<a, b>>
  <1>1. /\ s \in Seq(S) /\ Len(s) = 1 /\ s[1] = a
        /\ t \in Seq(S) /\ Len(t) = 1 /\ t[1] = b
        /\ u \in Seq(S) /\ Len(u) = 2 /\ u[1] = a /\ u[2] = b
    OBVIOUS
  <1> HIDE DEF S, s, t, u
  <1>2. s \o t \in Seq(S) /\ Len(s \o t) = 2 /\ (s \o t)[1] = a /\ (s \o t)[2] = b
    BY <1>1, ConcatProperties
  <1>3. s \o t = u
    BY <1>1, <1>2, SeqEqual
  <1> QED
    BY <1>3 DEF s, t, u

\* One message over an open socket whose buffer is empty.
LEMMA DeliverOne ==
    ASSUME NEW m, Deliver(<<>> \o <<m>>), authed \in BOOLEAN, known \subseteq Keys \cup {Base}
    PROVE  /\ m # Auth => authed' = authed
           /\ m = Ping => known' = known
           /\ \A k \in Keys : /\ m = Sub(k) => known' = known \cup (IF authed THEN {k} ELSE {})
                              /\ m = Unsub(k) => known' = known \ {k}
  <1> DEFINE s == <<m>>
  <1>1. <<>> \o <<m>> = s /\ Len(s) = 1 /\ s[1] = m /\ 1..Len(s) = {1}
    OBVIOUS
  <1>2. Deliver(s)
    BY <1>1
  <1> HIDE DEF s
  <1>3. m # Auth => authed' = authed
    BY <1>1, <1>2 DEF Deliver
  <1>4. ASSUME m # Auth
        PROVE  known' = {k \in known : m # Unsub(k)} \cup
                        {k \in Keys \cup {Base} : m = Sub(k) /\ authed /\ m # Unsub(k)}
    <2>1. \A i \in 1..1 : i..Len(s) = {1} /\ 1..i = {1}
      BY <1>1
    <2> QED
      BY <1>1, <1>2, <1>4, <2>1 DEF Deliver
  <1> QED
    BY <1>3, <1>4, MessagesDiffer

\* The messages that a new socket starts with: what is before auth is ignored.
LEMMA DeliverFirst ==
    ASSUME NEW p \in Seq(PageMessage), Deliver(p \o <<Auth, Sub(Base)>>),
           authed = FALSE, known = {}, loggedIn \in BOOLEAN
    PROVE  authed' = loggedIn /\ known' = IF loggedIn THEN {Base} ELSE {}
  <1> DEFINE s == p \o <<Auth, Sub(Base)>>
             n == Len(p)
  <1>1. /\ n \in Nat /\ Len(s) = n + 2 /\ s[n + 1] = Auth /\ s[n + 2] = Sub(Base)
        /\ \A i \in 1..n : s[i] \in PageMessage
    <2> DEFINE q == <<Auth, Sub(Base)>>
    <2>1. q \in Seq(Message) /\ Len(q) = 2 /\ q[1] = Auth /\ q[2] = Sub(Base)
      BY PageMessages
    <2>2. p \in Seq(Message) /\ n \in Nat /\ \A i \in 1..n : p[i] \in PageMessage
      BY PageMessages
    <2> HIDE DEF q
    <2>3. s = p \o q
      BY DEF q
    <2> QED
      BY <2>1, <2>2, <2>3, ConcatProperties
  <1>2. Deliver(s)
    OBVIOUS
  <1> HIDE DEF s, n
  <1>3. \A i \in 1..Len(s) : /\ s[i] = Auth <=> i = n + 1
                             /\ \A k : s[i] = Sub(k) /\ i > n => i = n + 2 /\ k = Base
    BY <1>1, MessagesDiffer
  <1>4. authed' = loggedIn
    BY <1>1, <1>2, <1>3 DEF Deliver
  <1>5. ASSUME NEW k \in known' PROVE loggedIn /\ k = Base
    <2>1. PICK i \in 1..Len(s) : /\ s[i] = Sub(k)
                                 /\ loggedIn /\ \E j \in 1..i : s[j] = Auth
      BY <1>2 DEF Deliver
    <2>2. PICK j \in 1..i : s[j] = Auth
      BY <2>1
    <2>3. j \in 1..Len(s) /\ i > n
      BY <1>1, <1>3, <2>2
    <2> QED
      BY <1>3, <2>1, <2>3
  <1>6. loggedIn => Base \in known'
    <2>1. n + 2 \in 1..Len(s) /\ n + 1 \in 1..(n + 2) /\ (n + 2)..Len(s) = {n + 2}
      BY <1>1
    <2> QED
      BY <1>1, <1>2, <2>1, MessagesDiffer DEF Deliver
  <1> QED
    BY <1>4, <1>5, <1>6


-----------------------------------------------------------------------------
(* The invariant *)

ClientType == TypeOK /\ pendingMessages \in Seq(PageMessage)

\* A socket with an error is closed; an open one has its heartbeat and an empty
\* buffer; the server knows nothing yet of one that connects.
SocketInv ==
    /\ error => ws = "closed"
    /\ heartbeat <=> ws = "open"
    /\ ws = "open" => connected = TRUE /\ pendingMessages = <<>>
    /\ ws = "connecting" => authed = FALSE /\ known = {} /\ asked = {}

KnownInv ==
    ws = "open" /\ alive =>
        authed = withToken /\ known = IF withToken THEN asked \cup {Base} ELSE {}

ClientInv == ClientType /\ SocketInv /\ NeverStuck /\ KnownInv

LEMMA ClientInit == Init => ClientInv
  <1> SUFFICES ASSUME Init PROVE ClientInv
    OBVIOUS
  <1>1. <<>> \in Seq(PageMessage) /\ <<>> \in Seq(Message)
    OBVIOUS
  <1>2. 0 \in Nat /\ 0 \in 0..maxMissedHeartbeats /\ 0 \in 0..MaxPages /\ 0 \in 0..MaxLogins
    BY LimitsAssumption
  <1>3. ClientType
    BY <1>1, <1>2 DEF Init, ClientType, TypeOK
  <1> QED
    BY <1>3 DEF Init, ClientInv, SocketInv, NeverStuck, KnownInv

LEMMA PendingType ==
    ASSUME pendingMessages' \in Seq(PageMessage)
    PROVE  pendingMessages' \in Seq(Message)
  BY PageMessages, SeqMonotonic

\* A new socket has forgotten everything about the old one.
LEMMA SetupSafe ==
    ASSUME ClientInv, SetupConnection, loggedIn' \in BOOLEAN,
           timers' \in Nat, logins' \in 0..MaxLogins, UNCHANGED <<pendingMessages, missedHeartbeats, scopes, pages>>
    PROVE  ClientInv'
  BY DEF SetupConnection, ClientInv, ClientType, TypeOK, SocketInv, NeverStuck, KnownInv

LEMMA OpenSafe ==
    ASSUME ClientInv, OnOpen
    PROVE  ClientInv'
  <1>1. /\ ws = "connecting" /\ ws' = "open" /\ connected' = TRUE /\ heartbeat' = TRUE
        /\ SendMessages(<<Auth, Sub(Base)>>, TRUE, "open")
        /\ missedHeartbeats' \in {missedHeartbeats, 0} /\ withToken' = loggedIn
        /\ UNCHANGED <<loggedIn, alive, error, errors, timers, scopes, asked, pages, logins>>
    <2>1. ws = "connecting" /\ error = FALSE
      BY DEF OnOpen, ClientInv, SocketInv, ClientType, TypeOK
    <2>2. <<Auth>> \o <<Sub(Base)>> = <<Auth, Sub(Base)>>
      BY PairConcat
    <2> QED
      BY <2>1, <2>2 DEF OnOpen
  <1>2. authed = FALSE /\ known = {} /\ asked = {} /\ pendingMessages \in Seq(PageMessage)
    BY <1>1 DEF ClientInv, SocketInv, ClientType
  <1>3. pendingMessages' = <<>>
    BY <1>1 DEF SendMessages
  <1>4. IF alive THEN authed' = loggedIn /\ known' = IF loggedIn THEN {Base} ELSE {}
        ELSE UNCHANGED <<authed, known>>
    <2>1. CASE alive
      <3>1. Deliver(pendingMessages \o <<Auth, Sub(Base)>>)
        BY <1>1, <2>1 DEF SendMessages
      <3> QED
        BY <1>2, <2>1, <3>1, DeliverFirst DEF ClientInv, ClientType, TypeOK
    <2>2. CASE ~alive
      BY <1>1, <2>2 DEF SendMessages
    <2> QED
      BY <2>1, <2>2
  <1>5. ClientType'
    BY <1>1, <1>2, <1>3, <1>4, EmptySeq, LimitsAssumption
       DEF ClientInv, ClientType, TypeOK
  <1> QED
    BY <1>1, <1>2, <1>3, <1>4, <1>5 DEF ClientInv, SocketInv, NeverStuck, KnownInv

\* The socket closes, with or without an error.
LEMMA CloseSafe ==
    ASSUME ClientInv, OnClose \/ OnError
    PROVE  ClientInv'
  <1>1. /\ ws' = "closed" /\ connected' = FALSE /\ heartbeat' = FALSE
        /\ UNCHANGED <<loggedIn, alive, messages, missedHeartbeats, scopes, asked, withToken,
                       pages, logins>>
    BY DEF OnClose, OnError, past
  <1>2. /\ error' \in BOOLEAN /\ errors' \in Nat /\ timers' \in Nat
        /\ timers' > 0 \/ errors' >= maxConnectionErrors
    <2>1. CASE OnClose
      <3>1. error = FALSE
        BY <2>1 DEF OnClose, ClientInv, ClientType, TypeOK, SocketInv
      <3> QED
        BY <2>1, <3>1 DEF OnClose, ClientInv, ClientType, TypeOK
    <2>2. CASE OnError
      BY <2>2, LimitsAssumption DEF OnError, ClientInv, ClientType, TypeOK
    <2> QED
      BY <2>1, <2>2
  <1>3. ClientType'
    BY <1>1, <1>2 DEF messages, ClientInv, ClientType, TypeOK
  <1> QED
    BY <1>1, <1>2, <1>3 DEF messages, ClientInv, SocketInv, NeverStuck, KnownInv

LEMMA SilentSafe ==
    ASSUME ClientInv, GoSilent \/ Pong
    PROVE  ClientInv'
  <1>1. /\ alive' \in {alive, FALSE} /\ missedHeartbeats' \in {missedHeartbeats, 0}
        /\ UNCHANGED <<loggedIn, ws, connected, error, errors, heartbeat, timers, messages,
                       scopes, asked, withToken, pages, logins>>
    BY DEF GoSilent, Pong, socket, past
  <1>2. alive' \in BOOLEAN /\ (alive' => alive)
    <2>1. alive \in BOOLEAN
      BY DEF ClientInv, ClientType, TypeOK
    <2>2. CASE alive' = alive
      BY <2>1, <2>2
    <2>3. CASE alive' = FALSE
      BY <2>3
    <2> QED
      BY <1>1, <2>2, <2>3
  <1>3. missedHeartbeats' \in 0..maxMissedHeartbeats
    BY <1>1, LimitsAssumption DEF ClientInv, ClientType, TypeOK
  <1>4. ClientType'
    BY <1>1, <1>2, <1>3 DEF messages, ClientInv, ClientType, TypeOK
  <1> QED
    BY <1>1, <1>2, <1>4 DEF messages, ClientInv, SocketInv, NeverStuck, KnownInv

\* One message of a page or of the heartbeat goes to the server, to the buffer
\* or nowhere.
LEMMA OneMessage ==
    ASSUME ClientInv, NEW m \in PageMessage, SendMessages(<<m>>, connected, ws)
    PROVE  /\ pendingMessages' \in Seq(PageMessage)
           /\ ws = "open" => pendingMessages' = <<>>
           /\ ~(ws = "open" /\ alive) => UNCHANGED <<authed, known>>
           /\ ws = "open" /\ alive =>
                 /\ authed' = authed
                 /\ m = Ping => known' = known
                 /\ \A k \in Keys :
                       /\ m = Sub(k) => known' = known \cup (IF authed THEN {k} ELSE {})
                       /\ m = Unsub(k) => known' = known \ {k}
  <1>1. pendingMessages \in Seq(PageMessage)
    BY DEF ClientInv, ClientType
  <1>2. pendingMessages' \in Seq(PageMessage)
    <2>1. <<m>> \in Seq(PageMessage)
      OBVIOUS
    <2>2. pendingMessages \o <<m>> \in Seq(PageMessage)
      BY <1>1, <2>1, ConcatProperties
    <2> QED
      BY <2>2, EmptySeq DEF SendMessages
  <1>3. ws = "open" => pendingMessages' = <<>>
    BY DEF SendMessages, ClientInv, SocketInv
  <1>4. ~(ws = "open" /\ alive) => UNCHANGED <<authed, known>>
    BY DEF SendMessages
  <1>5. ws = "open" /\ alive => Deliver(<<>> \o <<m>>)
    BY DEF SendMessages, ClientInv, SocketInv
  <1>6. m # Auth /\ authed \in BOOLEAN /\ known \subseteq Keys \cup {Base}
    BY MessagesDiffer DEF ClientInv, ClientType, TypeOK
  <1> HIDE DEF PageMessage
  <1> QED
    BY <1>2, <1>3, <1>4, <1>5, <1>6, DeliverOne

LEMMA BeatSafe ==
    ASSUME ClientInv, Beat
    PROVE  ClientInv'
  <1>1. CASE missedHeartbeats >= maxMissedHeartbeats
    <2>1. SetupConnection /\ UNCHANGED <<loggedIn, timers, pendingMessages, missedHeartbeats, scopes, pages, logins>>
      BY <1>1 DEF Beat
    <2> QED
      BY <2>1, SetupSafe DEF ClientInv, ClientType, TypeOK
  <1>2. CASE ~(missedHeartbeats >= maxMissedHeartbeats)
    <2>1. /\ missedHeartbeats' = missedHeartbeats + 1
          /\ SendMessages(<<Ping>>, connected, ws)
          /\ UNCHANGED <<loggedIn, socket, asked, withToken, scopes, pages, logins>>
      BY <1>2 DEF Beat, past
    <2>2. missedHeartbeats' \in 0..maxMissedHeartbeats
      BY <1>2, <2>1, LimitsAssumption DEF ClientInv, ClientType, TypeOK
    <2>3. ws = "open" /\ Ping \in PageMessage
      BY DEF Beat, ClientInv, SocketInv, PageMessage
    <2>4. /\ pendingMessages' \in Seq(PageMessage) /\ pendingMessages' = <<>>
          /\ UNCHANGED <<authed, known>>
      BY <2>1, <2>3, OneMessage
    <2>5. pendingMessages' \in Seq(Message)
      BY <2>4, PendingType
    <2> QED
      BY <2>1, <2>2, <2>3, <2>4, <2>5
         DEF socket, ClientInv, ClientType, TypeOK, SocketInv, NeverStuck, KnownInv
  <1> QED
    BY <1>1, <1>2

LEMMA SubscribeSafe ==
    ASSUME ClientInv, NEW k \in Keys, Subscribe(k)
    PROVE  ClientInv'
  <1>1. /\ SendMessages(<<Sub(k)>>, connected, ws) /\ Sub(k) \in PageMessage
        /\ pages' = pages + 1 /\ pages < MaxPages
        /\ scopes' \in {scopes, scopes \cup {k}}
        /\ asked' = IF ws = "open" THEN asked \cup {k} ELSE asked
        /\ UNCHANGED <<loggedIn, socket, missedHeartbeats, withToken, logins>>
    BY DEF Subscribe, PageMessage
  <1>2. /\ pendingMessages' \in Seq(PageMessage)
        /\ ws = "open" => pendingMessages' = <<>>
        /\ ~(ws = "open" /\ alive) => UNCHANGED <<authed, known>>
        /\ ws = "open" /\ alive =>
              authed' = authed /\ known' = known \cup (IF authed THEN {k} ELSE {})
    BY <1>1, OneMessage
  <1>3. pendingMessages' \in Seq(Message)
    BY <1>2, PendingType
  <1>4. ClientType'
    BY <1>1, <1>2, <1>3, LimitsAssumption DEF socket, ClientInv, ClientType, TypeOK
  <1>5. KnownInv'
    BY <1>1, <1>2 DEF socket, ClientInv, KnownInv, ClientType, TypeOK
  <1> QED
    BY <1>1, <1>2, <1>4, <1>5 DEF socket, ClientInv, SocketInv, NeverStuck

LEMMA DestroySafe ==
    ASSUME ClientInv, NEW k \in Keys, Destroy(k)
    PROVE  ClientInv'
  <1>1. /\ scopes' = scopes \ {k} /\ Unsub(k) \in PageMessage
        /\ UNCHANGED <<loggedIn, socket, missedHeartbeats, withToken, pages, logins>>
    BY DEF Destroy, PageMessage
  <1>2. CASE error
    BY <1>1, <1>2
       DEF Destroy, socket, messages, ClientInv, ClientType, TypeOK, SocketInv, NeverStuck, KnownInv
  <1>3. CASE ~error
    <2>1. SendMessages(<<Unsub(k)>>, connected, ws) /\ asked' = asked \ {k}
      BY <1>3 DEF Destroy
    <2>2. /\ pendingMessages' \in Seq(PageMessage)
          /\ ws = "open" => pendingMessages' = <<>>
          /\ ~(ws = "open" /\ alive) => UNCHANGED <<authed, known>>
          /\ ws = "open" /\ alive => authed' = authed /\ known' = known \ {k}
      BY <1>1, <2>1, OneMessage
    <2>3. pendingMessages' \in Seq(Message)
      BY <2>2, PendingType
    <2>4. ClientType'
      BY <1>1, <2>1, <2>2, <2>3 DEF socket, ClientInv, ClientType, TypeOK
    <2>5. KnownInv'
      BY <1>1, <2>1, <2>2, BaseAssumption DEF socket, ClientInv, KnownInv, ClientType, TypeOK
    <2> QED
      BY <1>1, <2>1, <2>2, <2>4, <2>5 DEF socket, ClientInv, SocketInv, NeverStuck
  <1> QED
    BY <1>2, <1>3

LEMMA ClientNext == ClientInv /\ [Next]_vars => ClientInv'
  <1> SUFFICES ASSUME ClientInv, [Next]_vars PROVE ClientInv'
    OBVIOUS
  <1>1. CASE Start \/ Login \/ TryAgain
    <2>1. /\ SetupConnection /\ UNCHANGED <<pendingMessages, missedHeartbeats, scopes, pages>>
          /\ loggedIn' \in {loggedIn, TRUE}
          /\ timers' = timers \/ (timers > 0 /\ timers' = timers - 1)
          /\ logins' = logins \/ (logins < MaxLogins /\ logins' = logins + 1)
      BY <1>1 DEF Start, Login, TryAgain
    <2>2. loggedIn' \in BOOLEAN
      BY <2>1 DEF ClientInv, ClientType, TypeOK
    <2>3. timers' \in Nat /\ logins' \in 0..MaxLogins
      BY <2>1, LimitsAssumption DEF ClientInv, ClientType, TypeOK
    <2> QED
      BY <2>1, <2>2, <2>3, SetupSafe
  <1>2. CASE UNCHANGED vars
    BY <1>2 DEF vars, socket, messages, past, ClientInv, ClientType, TypeOK, SocketInv, NeverStuck,
                KnownInv
  <1>3. CASE TokenAlone
    BY <1>3 DEF TokenAlone, socket, messages, past, ClientInv, ClientType, TypeOK, SocketInv,
                NeverStuck, KnownInv
  <1> QED
    BY <1>1, <1>2, <1>3, OpenSafe, CloseSafe, SilentSafe, BeatSafe, SubscribeSafe, DestroySafe
       DEF Next

LEMMA ClientInvariant == Spec => []ClientInv
  BY ClientInit, ClientNext, PTL DEF Spec

-----------------------------------------------------------------------------
(* The theorems *)

\* The variables of the client keep their types, for any limits.
THEOREM ClientTypeCorrect == Spec => []TypeOK
  <1>1. ClientInv => TypeOK
    BY DEF ClientInv, ClientType
  <1> QED
    BY <1>1, ClientInvariant, PTL

\* No order of errors, closings, logins and timers leaves a client without a
\* socket that will not try again before it has met the limit of errors
\* (onError, onClose and setupConnection of events.coffee).
THEOREM NeverStuckHolds == Spec => []NeverStuck
  <1>1. ClientInv => NeverStuck
    BY DEF ClientInv
  <1> QED
    BY <1>1, ClientInvariant, PTL

\* Over a link that delivers, the server has authenticated the socket exactly
\* if it opened with a token, and knows what the pages have asked for on it,
\* whatever was buffered before and wherever the token has gone since (onOpen
\* and sendMessage).
THEOREM ServerKnowsHolds == Spec => []ServerKnows
  <1>1. ClientInv => ServerKnows
    BY DEF ClientInv, KnownInv, ServerKnows
  <1> QED
    BY <1>1, ClientInvariant, PTL
=============================================================================
