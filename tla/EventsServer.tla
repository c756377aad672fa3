---------------------------- MODULE EventsServer ----------------------------
(***************************************************************************)
(* The events server (taiga-events/src): web socket clients subscribe to    *)
(* routing keys, and the server keeps a RabbitMQ channel per client with a  *)
(* consumer per subscription (ws/client.js, rabbitmq/client.js).            *)
(*                                                                         *)
(* Node runs one callback at a time; what interleaves are the commands and  *)
(* disconnections of the clients, the answers of the broker, and the other   *)
(* users of the broker.  A set-up is a chain of requests, and the exchange   *)
(* it binds to is shared: it goes with its last bound queue (autoDelete),    *)
(* whoever's that was, and a publisher of taiga-back declares it again.  The *)
(* binding and the consumer are asked for together, and are one step here.   *)
(* A queue goes with its consumer, so the bound queues are the consumers'.   *)
(* An exception or a rejected promise that nobody handles ends the process   *)
(* (index.js:72, 77); a server started again has no clients, so the          *)
(* behaviour ends there.  The broker and the amqplib client are external:    *)
(* the requests of a channel that is closed, or is then used, are rejected.  *)
(* The connection is there from the start (the health check makes it).       *)
(***************************************************************************)
EXTENDS Integers, FiniteSets, Sequences

CONSTANTS
    Clients,      \* web socket connections
    Keys,         \* routing keys
    NoTable,      \* subs[client_id] is undefined
    MaxCommands   \* MaxCommands[c]: bound on the subscriptions and withdrawals of c

ASSUME NoTableAssumption == NoTable \notin [Keys -> Nat]
ASSUME MaxCommandsAssumption == MaxCommands \in [Clients -> Nat]

VARIABLES
    process,     \* "up", or why it has ended
    broker,      \* the connection to RabbitMQ is there
    exchange,    \* RabbitMQ has the exchange "events"
    overlapped,  \* history: clients that sent a command, or whose socket
                 \* closed, while a request of theirs was on its way
    ws,          \* the web sockets
    auth,        \* the clients that have authenticated
    wanted,      \* wanted[c]: the keys of subscriptionManager.subscriptions
    channel,     \* channel[c]: "pending" in pendingChannels, "open" in chs
    waiting,     \* waiting[c]: what runs when the pending channel is there
    settingUp,   \* settingUp[c]: the set-ups, with what they have asked for
    cancelling,  \* cancelling[c]: tags whose cancellation has been asked for
    subs,        \* subs[c][k]: the consumer tag of a key; 0 if undefined
    consumers,   \* consumers[c]: the consumers that the broker has
    made,        \* made[c]: how many consumers c has had
    commands     \* commands[c]: how many commands c has sent

outside == <<broker, exchange>>
client == <<overlapped, ws, auth, wanted, commands>>
server == <<channel, waiting, settingUp, cancelling, subs, consumers, made>>
vars == <<process, outside, client, server>>

Consumer == [tag : Nat \ {0}, key : Keys]
SettingUp == [key : Keys, asked : {"exchange", "queue", "consumer"}]
Nothing == [starts |-> <<>>, stops |-> {}]

TypeOK ==
    /\ process \in {"up", "exception", "lost", "unbound", "rejection"}
    /\ broker \in BOOLEAN /\ exchange \in BOOLEAN
    /\ overlapped \subseteq Clients
    /\ ws \in [Clients -> {"new", "open", "closed"}]
    /\ auth \subseteq Clients
    /\ wanted \in [Clients -> SUBSET Keys]
    /\ channel \in [Clients -> {"none", "pending", "open", "closing", "closed"}]
    /\ waiting \in [Clients -> [starts : Seq(Keys), stops : SUBSET Keys]]
    /\ settingUp \in [Clients -> Seq(SettingUp)]
    /\ cancelling \in [Clients -> SUBSET (Nat \ {0})]
    /\ subs \in [Clients -> {NoTable} \cup [Keys -> Nat]]
    /\ consumers \in [Clients -> SUBSET Consumer]
    /\ made \in [Clients -> Nat]
    /\ commands \in [Clients -> Nat]

Init ==
    /\ process = "up"
    /\ broker = TRUE /\ exchange = FALSE
    /\ overlapped = {}
    /\ ws = [c \in Clients |-> "new"]
    /\ auth = {}
    /\ wanted = [c \in Clients |-> {}]
    /\ channel = [c \in Clients |-> "none"]
    /\ waiting = [c \in Clients |-> Nothing]
    /\ settingUp = [c \in Clients |-> <<>>]
    /\ cancelling = [c \in Clients |-> {}]
    /\ subs = [c \in Clients |-> NoTable]
    /\ consumers = [c \in Clients |-> {}]
    /\ made = [c \in Clients |-> 0]
    /\ commands = [c \in Clients |-> 0]

up == process = "up"

\* c has a request on its way, other than the closing of its channel.
Asking(c) == channel[c] = "pending" \/ settingUp[c] # <<>> \/ cancelling[c] # {}

\* No request of c is on its way.
Quiet(c) == ~Asking(c) /\ channel[c] # "closing"

-----------------------------------------------------------------------------
(* The process. *)

Exit(why) == process' = why /\ UNCHANGED <<settingUp, cancelling>>

Asked(starts) == [i \in DOMAIN starts |-> [key |-> starts[i], asked |-> "exchange"]]

\* The tags that the continuations of unsubscribe find.
Tags(c, stops) == {subs[c][k] : k \in stops} \ {0}

\* A continuation cannot go on: unsubscribe looks its tag up in a table that
\* the first consumer creates, and a request of a dead channel is refused.
Refused(c, starts, stops) ==
    \/ stops # {} /\ subs[c] = NoTable
    \/ ~broker /\ (starts # <<>> \/ Tags(c, stops) # {})

\* The continuations of subscribe and unsubscribe.
Perform(c, starts, stops) ==
    IF Refused(c, starts, stops)
    THEN Exit("rejection")
    ELSE /\ settingUp' = [settingUp EXCEPT ![c] = @ \o Asked(starts)]
         /\ cancelling' = [cancelling EXCEPT ![c] = @ \cup Tags(c, stops)]
         /\ UNCHANGED process

\* Variant: a second request for a pending channel replaces the first.
GetLast(c, starts, stops) ==
    CASE channel[c] = "open" ->
            Perform(c, starts, stops) /\ UNCHANGED <<channel, waiting>>
      [] channel[c] # "open" /\ ~broker ->
            Exit("rejection") /\ UNCHANGED <<channel, waiting>>
      [] OTHER ->
            /\ channel' = [channel EXCEPT ![c] = "pending"]
            /\ waiting' = [waiting EXCEPT ![c] = [starts |-> starts, stops |-> stops]]
            /\ UNCHANGED <<process, settingUp, cancelling>>

\* channels.get: with the channel there the continuations run, else they wait
\* for it.  A connection that has been closed is still the one it returns.
Get(c, starts, stops) ==
    CASE channel[c] = "open" ->
            Perform(c, starts, stops) /\ UNCHANGED <<channel, waiting>>
      [] channel[c] # "open" /\ ~broker ->
            Exit("rejection") /\ UNCHANGED <<channel, waiting>>
      [] OTHER ->
            /\ channel' = [channel EXCEPT ![c] = "pending"]
            /\ waiting' = [waiting EXCEPT ![c].starts = @ \o starts,
                                          ![c].stops = @ \cup stops]
            /\ UNCHANGED <<process, settingUp, cancelling>>

Noted(c) ==
    overlapped' = IF Quiet(c) THEN overlapped ELSE overlapped \cup {c}

Counted(c) ==
    /\ commands[c] < MaxCommands[c]
    /\ commands' = [commands EXCEPT ![c] = @ + 1]

Connect(c) ==
    /\ up /\ ws[c] = "new"
    /\ ws' = [ws EXCEPT ![c] = "open"]
    /\ UNCHANGED <<process, outside, server, overlapped, auth, wanted, commands>>

Authenticate(c) ==
    /\ up /\ ws[c] = "open"
    /\ c \notin auth
    /\ auth' = auth \cup {c}
    /\ UNCHANGED <<process, outside, server, overlapped, ws, wanted, commands>>

\* Before it has authenticated a client's subscriptions are ignored.  A key
\* that is there already is stopped and started again.
Subscribe(c, k) ==
    /\ up /\ ws[c] = "open"
    /\ Counted(c) /\ Noted(c)
    /\ c \in auth
    /\ wanted' = [wanted EXCEPT ![c] = @ \cup {k}]
    /\ Get(c, <<k>>, {k} \cap wanted[c])
    /\ UNCHANGED <<outside, ws, auth, subs, consumers, made>>

\* Variant: a key that was never subscribed to is not ignored.
UnsubscribeAny(c, k) ==
    /\ up /\ ws[c] = "open"
    /\ Counted(c) /\ Noted(c)
    /\ wanted' = [wanted EXCEPT ![c] = @ \ {k}]
    /\ Get(c, <<>>, {k})
    /\ UNCHANGED <<outside, ws, auth, subs, consumers, made>>

Unsubscribe(c, k) ==
    /\ up /\ ws[c] = "open"
    /\ Counted(c) /\ Noted(c)
    /\ k \in wanted[c]
    /\ wanted' = [wanted EXCEPT ![c] = @ \ {k}]
    /\ Get(c, <<>>, {k})
    /\ UNCHANGED <<outside, ws, auth, subs, consumers, made>>

\* Variant: the channel is not closed with the socket.
CloseSocketOnly(c) ==
    /\ up /\ ws[c] = "open"
    /\ Noted(c)
    /\ ws' = [ws EXCEPT ![c] = "closed"]
    /\ wanted' = [wanted EXCEPT ![c] = {}]
    /\ subs' = [subs EXCEPT ![c] = NoTable]
    /\ UNCHANGED <<process, outside, auth, commands, channel, waiting, settingUp,
                   cancelling, consumers, made>>

\* The socket closes: its owner leaves, or the network drops it.  Only a
\* channel that is in chs is closed; a dead one refuses even that.
Close(c) ==
    /\ up /\ ws[c] = "open"
    /\ Noted(c)
    /\ ws' = [ws EXCEPT ![c] = "closed"]
    /\ wanted' = [wanted EXCEPT ![c] = {}]
    /\ subs' = [subs EXCEPT ![c] = NoTable]
    /\ channel' = [channel EXCEPT ![c] = IF @ = "open" /\ broker THEN "closing" ELSE @]
    /\ process' = IF channel[c] = "open" /\ ~broker THEN "rejection" ELSE process
    /\ UNCHANGED <<outside, auth, commands, waiting, settingUp, cancelling, consumers,
                   made>>

\* The handler of a socket's errors is not bound to its client, and that of
\* messages reads fields of null and calls indexOf on what is not a string:
\* both throw.
Fails(c) ==
    /\ up /\ ws[c] = "open"
    /\ process' = "exception"
    /\ UNCHANGED <<outside, client, server>>

-----------------------------------------------------------------------------
(* The answers of the broker. *)

\* Variant: the promise of a pending channel is never resolved.
ChannelOpenedAlone(c) ==
    /\ up /\ broker /\ channel[c] = "pending"
    /\ channel' = [channel EXCEPT ![c] = "open"]
    /\ waiting' = [waiting EXCEPT ![c] = Nothing]
    /\ UNCHANGED <<process, outside, client, settingUp, cancelling, subs, consumers, made>>

ChannelOpened(c) ==
    /\ up /\ broker /\ channel[c] = "pending"
    /\ channel' = [channel EXCEPT ![c] = "open"]
    /\ waiting' = [waiting EXCEPT ![c] = Nothing]
    /\ Perform(c, waiting[c].starts, waiting[c].stops)
    /\ UNCHANGED <<outside, client, subs, consumers, made>>

\* The set-up whose request the channel answers next.
First(c) == Head(settingUp[c])

Answers(c, request) ==
    /\ up /\ broker /\ channel[c] = "open"
    /\ settingUp[c] # <<>> /\ First(c).asked = request

GoesOn(c, request) ==
    settingUp' = [settingUp EXCEPT ![c] =
                     Append(Tail(@), [key |-> First(c).key, asked |-> request])]

\* assertExchange creates the exchange if it is not there.
ExchangeAsserted(c) ==
    /\ Answers(c, "exchange")
    /\ GoesOn(c, "queue")
    /\ exchange' = TRUE
    /\ UNCHANGED <<process, broker, client, channel, waiting, cancelling, subs, consumers,
                   made>>

QueueAsserted(c) ==
    /\ Answers(c, "queue")
    /\ GoesOn(c, "consumer")
    /\ UNCHANGED <<process, outside, client, channel, waiting, cancelling, subs, consumers,
                   made>>

\* Variant: a consumer without a tag of its own.
SetUpUntagged(c) ==
    /\ Answers(c, "consumer") /\ exchange
    /\ settingUp' = [settingUp EXCEPT ![c] = Tail(@)]
    /\ consumers' = [consumers EXCEPT ![c] = @ \cup {[tag |-> 0, key |-> First(c).key]}]
    /\ UNCHANGED <<process, outside, client, channel, waiting, cancelling, subs, made>>

\* The queue is bound, the consumer exists, and registerSubscription notes its
\* tag.
SetUp(c) ==
    LET key == First(c).key
        tag == made[c] + 1
    IN
    /\ Answers(c, "consumer") /\ exchange
    /\ settingUp' = [settingUp EXCEPT ![c] = Tail(@)]
    /\ made' = [made EXCEPT ![c] = tag]
    /\ consumers' = [consumers EXCEPT ![c] = @ \cup {[tag |-> tag, key |-> key]}]
    /\ subs' = [subs EXCEPT ![c] =
                   [(IF @ = NoTable THEN [k \in Keys |-> 0] ELSE @) EXCEPT ![key] = tag]]
    /\ UNCHANGED <<process, outside, client, channel, waiting, cancelling>>

\* The exchange has gone since this set-up asserted it: the broker closes the
\* channel.
Unbound(c) ==
    /\ Answers(c, "consumer") /\ ~exchange
    /\ process' = "unbound"
    /\ UNCHANGED <<outside, client, server>>

\* The exchange stays as long as a queue is bound to it.
Unbind ==
    exchange' = (exchange /\ (consumers' = consumers \/ \E d \in Clients : consumers'[d] # {}))

Cancelled(c, tag) ==
    /\ up /\ broker /\ channel[c] = "open" /\ tag \in cancelling[c]
    /\ cancelling' = [cancelling EXCEPT ![c] = @ \ {tag}]
    /\ consumers' = [consumers EXCEPT ![c] = {x \in @ : x.tag # tag}]
    /\ Unbind
    /\ UNCHANGED <<process, broker, client, channel, waiting, settingUp, subs, made>>

\* The channel has ended.  A request that was on its way is rejected, and
\* nobody handles that.
ChannelEnded(c) ==
    /\ up /\ broker /\ channel[c] = "closing"
    /\ process' = IF Asking(c) THEN "rejection" ELSE process
    /\ channel' = [channel EXCEPT ![c] = "closed"]
    /\ consumers' = [consumers EXCEPT ![c] = {}]
    /\ Unbind
    /\ UNCHANGED <<broker, client, waiting, settingUp, cancelling, subs, made>>

-----------------------------------------------------------------------------
(* The others. *)

\* taiga-back publishes an event, and declares the exchange first.
Publish ==
    /\ up /\ broker /\ ~exchange
    /\ exchange' = TRUE
    /\ UNCHANGED <<process, broker, client, server>>

\* The connection breaks: it emits an error that nobody listens to.
BrokerLost ==
    /\ up /\ broker
    /\ broker' = FALSE
    /\ process' = "lost"
    /\ UNCHANGED <<exchange, client, server>>

\* RabbitMQ closes the connection in good order (a shutdown): it only emits
\* "close".  What was on its way is rejected; if nothing was, the server stays,
\* with channels that are dead.
BrokerClosed ==
    /\ up /\ broker
    /\ broker' = FALSE
    /\ process' = IF \E c \in Clients : Asking(c) THEN "rejection" ELSE process
    /\ channel' = [c \in Clients |-> IF channel[c] = "closing" THEN "closed" ELSE channel[c]]
    /\ consumers' = [c \in Clients |-> {}]
    /\ UNCHANGED <<exchange, client, waiting, settingUp, cancelling, subs, made>>

-----------------------------------------------------------------------------
Command(c) == \/ Connect(c) \/ Authenticate(c) \/ Close(c) \/ Fails(c)
              \/ \E k \in Keys : Subscribe(c, k) \/ Unsubscribe(c, k)
Reply(c) == \/ ChannelOpened(c) \/ ExchangeAsserted(c) \/ QueueAsserted(c)
            \/ SetUp(c) \/ Unbound(c) \/ ChannelEnded(c)
            \/ \E tag \in cancelling[c] : Cancelled(c, tag)

Next == \/ Publish \/ BrokerLost \/ BrokerClosed
        \/ \E c \in Clients : Command(c) \/ Reply(c)

\* While the connection lasts the broker answers every request.
Spec == Init /\ [][Next]_vars /\ \A c \in Clients : WF_vars(Reply(c))
-----------------------------------------------------------------------------
Consumed(c) == {x.key : x \in consumers[c]}

\* With the connection there and nothing of a client on its way, every key it
\* has subscribed to has a consumer (subscription-manager.js:35), however
\* hastily it subscribed and unsubscribed and whoever else comes and goes.
Served ==
    \A c \in Clients :
        up /\ broker /\ ws[c] = "open" /\ Quiet(c) => wanted[c] \subseteq Consumed(c)

\* For a client whose commands, and whose end, each found the one before it
\* done, there is one consumer per key it wants and no other, whatever the
\* other clients do (client.js:200-235): no event is delivered twice, and a
\* connection that has been closed leaves nothing behind.
PatientExact ==
    \A c \in Clients \ overlapped : up /\ broker /\ Quiet(c) =>
        /\ Consumed(c) = wanted[c]
        /\ \A x, y \in consumers[c] : x.key = y.key => x = y

\* While the connection lasts, only a client that did not wait for a request of
\* its own, or lost its socket meanwhile, can make the process end by a
\* rejected promise of channels.get, cancel or close (client.js:73-117, 219).
PatientServerStays == process = "rejection" => ~broker \/ overlapped # {}

\* A subscription is served in the end, unless it is withdrawn, the connection
\* goes or the process ends (client.js:200).
EventuallyServed ==
    \A c \in Clients, k \in Keys :
        k \in wanted[c] ~> (k \in Consumed(c) \/ k \notin wanted[c] \/ ~up \/ ~broker)

\* What CHANGELOG.md:65 says was fixed: with nothing on its way, no channel
\* outlives the web socket it was made for.
ChannelsClosed ==
    \A c \in Clients : up /\ broker /\ ws[c] = "closed" /\ Quiet(c) => channel[c] # "open"

\* The health check "RabbitMQ server is alive" (health-check/index.js:42): it
\* only asks for the cached connection.
RabbitMQProbe == up

\* The check answers what its comment says it checks, the status of RabbitMQ.
ProbeTells == RabbitMQProbe => broker
=============================================================================
