# A TLA+ verification of Scrint

Scrint is Taiga with four additions for Scrum teams: Planning Poker, daily
meetings, task selection with a sprint task board, and reviews and
retrospectives. This directory holds TLA+ modules translated from its source,
TLC configurations that check them on small instances, and theorems about them
that TLAPS checks for every value of the constants. Paths below are relative to
the repository root; `pp/` stands for `taiga-back/planning_poker/` and `se/`
for `taiga-back/sprint_execution/`.

To check a run: `tlc -config <run>.cfg <module>.tla`; to check the proofs:
`tlapm <module>_proofs.tla`. `PROJECT.json` lists the runs, the source lines
behind every definition, the mutants and the theorems.

## 1. Inventory

### The processes

- **The back end** (`taiga-back`, Django). The development server
  (`python manage.py runserver`, README.md:71) is one process with one thread
  per request. The container (`taiga-back/docker/entrypoint.sh:25`) runs gunicorn
  with three processes of one request at a time. `ATOMIC_REQUESTS` is set at the
  top level of `settings/common.py`, where Django does not look for it, so every
  ORM statement commits by itself unless a view opens a transaction, and no view
  of `planning_poker` or `sprint_execution` does.
- **The database**, shared by all processes.
- **The Django cache**, `LocMemCache` (`settings/common.py:40`): one per process.
- **The events server** (`taiga-events`, Node) between RabbitMQ and web sockets.
- **The web client** (`taiga-front`, AngularJS).

### The components

| Component | State it keeps | Operations | Talks to | What is hard |
|---|---|---|---|---|
| Planning Poker, voting (`pp/views.py`, `serializers.py`, `models.py`) | sessions, their stories, one estimation per session, story and user, its `final` mark | POST, PUT, PATCH, DELETE of an estimation; update of a session; status, summary, export, capacity check | memberships of Taiga; notification stream | requests interleave statement by statement; stale rows and stale session columns are written back; members come and go; a worker dies between commits |
| Planning Poker, notifications (`pp/views.py:28-35, 651-671`) | a deque of at most 100 messages per process; a position per open stream | `send_sse_message`, `sse_notifications` | voting handlers append; browsers read | threads share the deque; positions are stale when it shifts; the bound |
| Sprint execution, event stream (`se/sse.py`) | one slot with the latest event, per process | `send_sse_message`, `task_event_stream` | task and meeting views publish | all generators test, send and reset the same slot |
| Retrospective voting (`se/views.py:1122-1256, 1365-1450`) | items of the retrospective (database); a counter per item and a mark per user and item (cache) | POST of the items, POST of a vote | cache of one process | check-then-act on the cache; expiry after a day; restart; several caches |
| Daily meetings (`se/views.py:224-450`) | a meeting per project and day, a response per member | first look of the day, POST of a meeting, of a response | memberships | look up, then create, under unique constraints; partial edits |
| Task selection (`se/views.py:56-222`) | a one-to-one selection per task | select, bulk select, withdraw | sprint event stream; Taiga tasks | lost races, failure in the middle of a batch, events in another order than commits |
| Task board (`se/views.py:590-620`) | status and assignee of Taiga's tasks | PATCH of the status | Taiga tasks | whole-row writes around the version check |
| Reviews, mood, action items, reports (`se/views.py`, `se/utils.py`) | rows of the database | create, replace, list, export | -- | little state; arithmetic and layout |
| Taiga events (`taiga-back/taiga/events`) | -- | publish on commit | RabbitMQ | events after commit; broker errors swallowed |
| Events server (`taiga-events/src`) | channels, subscriptions and the table of clients | auth, subscribe, unsubscribe, ping, close | RabbitMQ, browsers | awaits between test and use of the tables; disconnects in the middle; an exchange shared with everybody; errors that end the process |
| Events client (`taiga-front/app/coffee/modules/events.coffee`) | connection, buffered messages, missed heartbeats | connect, subscribe, heartbeat, reconnect | events server | reconnection, order of authentication and subscriptions |
| Poker client (`taiga-front/.../planningpoker/main.coffee`) | session, story and estimations on the screen | poll, vote, change story | REST API | answers out of order |
| Optimistic concurrency control (`taiga/projects/occ`, `base/decorators.py`, `projects/history`) | version and history of an object; an advisory lock per key | versioned edit; bulk requests and the task board around it | all Taiga objects | load before lock, both locks released before the commit, versions counted in history entries, writers that ignore the check |
| Automatic closing (`taiga/projects/userstories`, `tasks`, `milestones`: `signals.py`, `services.py`) | `is_closed` of stories, `closed` of sprints | saves, deletions, drags, bulk creation and bulk moves, edits and deletions of statuses | signal handlers that save and so run further handlers | derived flags, computed from rows that others are changing; handlers inside handlers |
| Votes, likes, notifications, timeline, webhooks, users, import and export | rows of the database | -- | -- | upstream code, used unchanged |


### What makes each component correct

- *Voting*: an announced consensus was one; no consensus is missed; nobody who
  may vote is left out; a final story belongs to its session; the views agree.
- *Streams*: order, no duplicates, no gap while there is no reason for one, and
  nobody who stays is forgotten.
- *Retrospective*: a counter shows neither more than the votes cast nor, without
  overlap and loss, less; one vote per user; nobody is refused unduly; a new list
  starts without votes.
- *Daily meetings*: everybody is in the same meeting; an answer once given stays
  until it is edited.
- *Task selection*: what the boards were last told of a task is true.
- *Events server and client*: a client that is gone has no consumers left; a
  client that is connected ends up with the subscriptions it asked for.
- *Concurrency control*: two edits of one field from one version are not both
  accepted; versions count edits; the history rebuilds the row.
- *Closing*: a story is closed exactly when its work is, a sprint when its
  stories are.

The hazards behind these, each at its line, are the `hazards` of
`PROJECT.json`.

## 2. Plan

Written, in this order, the core of the repository's own code first:

1. `PlanningPoker`, with the abstract `ConsensusBoard`, and
   `PlanningPoker_proofs`.
2. `PokerStream` and `SprintStream`, two implementations of the abstract
   `EventFeed`, with `EventStreams_proofs`.
3. `RetroVoting` with `RetroVoting_proofs`.
4. `EventsServer` with `EventsServer_proofs`, and `EventsClient` with
   `EventsClient_proofs`.
5. `Closing` with `Closing_proofs`.
6. `Occ`, with the task board and the bulk requests, and `Occ_proofs`.
7. `SprintDesk` (task selection, daily meetings) with `SprintDesk_proofs`.

What would come next:

- `EventsClient` and `EventsServer` side by side. `EventsClient` has, of the
  server, the authentication and the keys it knows; `EventsServer` has, of the
  client, commands in any order. Composing them would check that the commands
  of the former are "patient" in the sense of the latter.
- The order numbers of boards and backlogs
  (`taiga/projects/userstories/services.py`), as functions on sequences checked
  against a reference order.

## 3. The modules

### PlanningPoker (`pp/views.py:439-578`)

One session and one story stand for all: every query of the handler is filtered by
both. `est[u]` is the row of user `u` or `NoRow`, and `est[a]`, for `a` in the
constant `Away`, a row of another story or session; `role[u]` the membership; `active`
and `linked` the session's columns; `notices` what was handed to the notification
stream. A POST is a process `r` with a record `req[r]` for its local variables
(`existing_estimation`, `total_estimators`, `final_estimation`, the session's
`is_active` as read at the start) and one action per statement that another request
can tell apart:

| Action | Statement |
|---|---|
| `Start` | lookups, project and role checks, with their 404 and 403 |
| `Find`, `Validate`, `Save` | `existing_estimation`; `is_valid` (cards and the unique-together validator); `save`, which writes back every column of a found row, or does `update_or_create` |
| `CountSeats`, `Tally` | the two counts and their comparison |
| `ReadValues` | the set of values: one value, or "sin consenso" |
| `MarkFinal`, `CheckLinked`, `AddStory`, `SaveSession`, `Notify` | the consensus branch, commit by commit |

The rest of the world is `Kill` (the worker dies; what is committed stays),
`ChangeRole` (the members page; that the last admin has to stay is left out),
`Destroy` (the inherited DELETE) and `UpdateSession`; `MaxChurn` bounds how many of
these happen. A PUT or PATCH `e` is a process of its own: `LoadRow` reads a row and
applies the body to it, `ValidateRow` is the unique-together validator, `SaveRow`
writes every column. The serializer has all fields of the model, so the row may
get another user, or leave for another story or session (a place in `Away`), or come
from there; the tally does not run. `Spec` has all of these; `VotingSpec` has
none (a fixed membership and requests that are carried through), and
`FairVotingSpec` adds that an accepted request goes on.

The three views of a consensus are `StatusConsensus`, `SummaryConsensus` and
`ExportConsensus`; the last two go through the stories linked to the session only.

Abstractions: a member with the `Eligible` role that never posts stands for a
pending invitation, which counts as a seat. The body of a POST names things by
`Targets`: "here" is a story of this session's project, "foreign" one of another,
"missing" an unknown id. A `final` field in the body of a POST is not modelled
(the web client sends none); PUT and PATCH may set it.

### ConsensusBoard

The promise to the audience: a board of at most one vote per user; somebody
who looks while all votes shown are `v` may announce `v`, then or later, and
nobody announces anything else. `PlanningPoker!BoardSpec` is this
specification under the mapping `votes` = the values of the rows, `seen` =
the `final_estimation` of the running handlers, `announced` = the notices.

### EventFeed, Generators, PokerStream, SprintStream

`EventFeed` says what both streams promise: a subscriber gets published
messages, each at most once, in order of publication. `Generators` has what
both implementations share: messages that are numbers, generators with a place, and
what their subscribers got. A generator has a step for each access to the shared
state: `Look` or `LookAtSlot` (the test of the loop), `Send` or `SendSlot` (the state
is read again and yielded), `Advance` or `Reset`. The sleep is the guard of the
look. A subscriber that leaves closes the generator at its `yield` (`Disconnect`,
`Leave`).

- `PokerStream` (`pp/views.py:28-35, 651-671`): `sse_message_queue` is bounded by
  `MaxLen` (100 in the code) and drops its oldest message.
- `SprintStream` (`se/sse.py`): `latest_event` is one slot. `received[s]`
  are the events its subscriber got; "data: None", which it gets when another
  generator has emptied the slot between test and send, is no event, and
  `gotNone` has the streams to which that happened.

Both are per process; with several processes each has its own stream, and a
subscriber gets what its process published. The models are of one process.

### RetroVoting (`se/views.py:1122-1256, 1365-1450`)

`votes[w][i]` and `voted[w]` are the cache entries of process `w`; a vote is the
steps `Begin` (lookups), `CheckVoted`, `ReadVotes`, `WriteVotes`,
`RememberVoter`, one per cache call. `threaded` chooses, once and for all, between
the development server and gunicorn; in the latter a process takes a request
only when it has finished the one before (`Free`). The lookup compares an index
with the length of the list only, so a negative one passes (`Indexes` has -1 for all
of them). `Post` is the `update_or_create` of the items, and `SaveAccuracy` the end of
the same handler: a second save of the whole row that it has in memory, if the
sprint has points, and, on an update, the call of `_clear_voting_cache`, which removes
nothing; `saving` has what a POST holds between the two. `Expire` and
`Restart` lose entries, at most `MaxLosses` times. A counter that is absent
counts as 0, as in the code. The two lists of items share no key, so one stands
for both. `overlapped` is a history variable: the votes that were served while another
was being served on the same counter (`Meets`).

### EventsServer (`taiga-events/src/rabbitmq/client.js`, `ws/client.js`, `subscription-manager.js`)

Node runs one callback at a time, so an action is a stretch of code between two
awaits: the commands of a web socket (`Connect`, `Authenticate`, `Subscribe`,
`Unsubscribe`), its end (`Close`: its owner leaves or the network drops it, at any
time), and the answers of RabbitMQ. `channel[c]` is the place of a client in
`chs` and `pendingChannels`; commands that find it pending are in `waiting[c]`;
`subs[c]` is the table of consumer tags, which does not exist before the first
consumer does. `Get` is `channels.get`, `Perform` what runs when the channel is there.

A set-up is a chain of requests (`ExchangeAsserted`, `QueueAsserted`, `SetUp`), and
what it binds to is shared: the exchange is autoDelete and goes with its last bound
queue, whoever's that was (`Unbind`), until somebody asserts it again, a publisher of
`taiga-back` included (`Publish`). A set-up that finds it gone has its channel closed by
the broker, and the process ends (`Unbound`). `bindQueue` and `consume` are sent in
one callback without waiting and are one step.

`process` is "up" or why it has ended: an exception of `handleError`
or `handleMessage` (`Fails`, a socket error or a malformed message), a broken connection
(`BrokerLost`), an exchange that has gone, or a rejected promise that nobody handles.
`BrokerClosed` is a close in good order by RabbitMQ: amqplib emits "close" and no
error, requests on their way are rejected, and when there are none the server stays
up with the dead connection, without consumers; whatever is asked of it next
is rejected. `overlapped` is a history variable: the clients that sent a command, or
lost their socket, while a request of their own was on its way. A token is accepted, or
the command changes nothing. `RabbitMQProbe` is the part of the health check that
looks at the cached connection.

### EventsClient (`taiga-front/app/coffee/modules/events.coffee`)

The present socket with its listeners (an old one loses them in
`stopExistingConnection`), `pendingMessages`, the heartbeat, the attempts that
`setTimeout` has scheduled (`timers`), and of the server what it knows of this
socket (`authed`, `known`). `Login`, the log-in form's success, sets the token and makes
a new socket; `TokenAlone` is every other way in which a token comes or goes
(a registration, an accepted invitation, a refresh; a log-out, the submission of
a form, a refused refresh), and leaves the socket as it is. A missed heartbeat makes
a new socket too, `GoSilent` stops a link without an event. `asked` and
`withToken` are history variables: the keys that pages asked for while this socket
was open, and whether there was a token when it opened.

### Closing (`taiga/projects/*/signals.py`, `services.py`)

A request has a sequence of steps left to do (`work`), one per statement that
writes or recomputes; a handler that saves an object puts the steps of that
object's handlers in front. `seen` holds the flags of the objects a request has
in memory: `close_userstory` and its like compare with these. `onlyClosing` chooses
between the two promises that can be kept: one request at a time, or overlapping
requests that only close things.

`ChangeSomething` lists the requests: a task saved or created (`TaskViewSet` gives it
its story's sprint), or moved to a sprint alone (`move_tasks_to_sprint`); a story
saved or created; a task or a story deleted; stories created in bulk with the handlers
disconnected; a story dragged on the kanban or the backlog, moved in bulk; tasks moved
in bulk; a task status or story status edited; a status deleted and its items given
another. Left out are the deletion of a sprint, importers, bulk requests of several
items at once, and what is made of these (promoting a task saves a story and deletes a
task; issues count, and are moved in bulk, like storyless tasks).

The history variable `unchecked` names the stories and sprints that an operation
has changed without the handlers and that nobody has computed since; `forgotten` the
sprints that a story left while its previous version was overwritten
(section 6). A save of a story's flag runs the handlers of the
story with the previous version already overwritten: when the last step left is the
check of the sprint that the story has left, `SaveFlag` drops it. Stories are
finitely many, because an edit of a status goes through them one after
the other (`StoriesAssumption`).

### Occ (`taiga/projects/occ/mixins.py`, `base/decorators.py`, `history/services.py`)

One row with its version and history. An edit is `Fetch` (the client reads),
`Load` (`TaskViewSet.update` reads the object, before the lock), `Lock`,
`ReadVersion`, `Check`, `Save`, then its snapshot, `Release`, `Commit` or `Abort`: the
lock of the key ends inside the transaction, and what PostgreSQL adds is that a row
written by an open transaction makes the next writer wait (`Open = {}`) and that others
read committed rows only. A bulk request is `BulkWrite` (one UPDATE, which commits),
then its snapshot and `BulkCommit`; the sprint task board is `BoardLoad`, `BoardSave`.

`take_snapshot` is the same for edits and bulk requests: `Freeze` takes the history's
lock of the key and reads the row anew (an edit sees its own write), `Enter` compares
it with what the entries rebuild, adds the difference and gives the lock back, while the
transaction goes on. So another snapshot may be taken in the *gap* between
the end of somebody's lock and the commit: it does not see the uncommitted entry, nor
the uncommitted row. `history` has the entries of all transactions, in the order in
which they were written, with the one who wrote them; `Visible` are those that others
see (neither open nor rolled back), and `Snapshot(entries, at)` is what
`get_last_snapshot_for_key` builds from the entries at some places. A field's value is
the request that wrote it. `committed`, `overlapped` and `outside` are history variables
for the properties: the edits that are in, those that had the lock while another was
uncommitted, and which of "bulk", "board" and "gap" has happened. Not modelled: entries
that hold a comment alone, snapshots of attachments and custom attributes, and the full
snapshot that every `MAX_PARTIAL_DIFFS` entries make (it rebuilds to the same).

### SprintDesk (`se/views.py:79-219, 266-450`)

The views that look for a row and then create it. Each request has an `op` and a
place `pc`; a query, a save and a notice are steps of their own. The unique
constraints (`selected`, `meeting`, `response` hold at most one row each) decide
races: `CreateSelected` answers an error, or, in the bulk view, looks again as
`get_or_create` does; `CreateMeeting` and `CreateResponse` end in an unhandled
`IntegrityError` ("error"). `told[t]` is what the event stream last said of a task.
`raced` is a history variable: the tasks and users that overlapping requests
were about; `latest` the last request that saved each answer.

## 4. The runs

| Run | Checks | Shows |
|---|---|---|
| `poker_votes` | `ConsensusNotMissed`, `EveryoneVoted`, `ViewsAgree`, `FinalLinked` | with a fixed membership, however three POSTs overlap, whoever saves the last vote sees it counted; a final story gets linked |
| `poker_churn` | `TypeOK`, `BoardSpec` | with a PUT or PATCH that may move a row, and a step of the rest of the world, anywhere between the statements of two votes, what is announced was unanimous |
| `poker_stream` | `TypeOK`, `GaplessUntilFull`, `FeedSpec`, `GetsToTheLimit` | the feed, and progress up to the length of the deque |
| `poker_stalls` | `KeepsNotifying` (violated) | after `MaxLen` messages a stream is silent for ever |
| `sprint_stream` | `SlotTypeOK`, `NoneNeedsTwo`, `FeedSpec`, `LastEventArrives` | order and no duplicates; only the races named lose an event |
| `retro_votes` | `TypeOK`, `NoPhantomVotes`, `LoneVotesStand`, `LoneExact`, `RefusedOnlyAfterVote` | what a race, an expiry and a restart can and cannot do to the counters; as long as the list is not replaced, a vote that met no other stands and is the only one of its user |
| `events_server` | `TypeOK`, `Served`, `PatientExact`, `PatientServerStays`, `EventuallyServed` | while the connection to RabbitMQ lasts, whoever stays connected is served, hasty or not; a client whose commands never met a request of its own has exactly one consumer per key, and no such client ends the process by a rejected promise |
| `events_client` | `TypeOK`, `NeverStuck`, `ServerKnows`, `Restored` | no order of errors, closings, log-ins, tokens that come and go, and timers leaves the client waiting for nothing; the server knows exactly what this socket asked for; notifications come back |
| `closing` | `TypeOK`, `SerialExact`, `ClosingExact` | requests one at a time leave exact flags, but for the stories and sprints that were changed, or skipped, without a computation since; overlapping requests that close things miss no closing |
| `occ` | `TypeOK`, `VersionCounts`, `ConflictRefused`, `HistoryExact`, `EveryEditEnds` | versions are exact although the lock ends early; conflicts that the lock orders are refused; the history rebuilds the row unless the board wrote or a snapshot was taken in another's gap; no deadlock of the locks |
| `occ_survive` | `EditsSurvive` (violated) | two accepted edits of different fields: one is lost |
| `sprint_desk` | `TypeOK`, `SettledTruth`, `OneMeeting`, `AnswersKept` | the last event about a task is true unless requests about it overlapped; one meeting; partial answers add up |

Seven more configurations, one property each, state what a comment, a docstring or the
change log says, or what follows from it, and TLC refutes them; section 6 says what
they show. They are `poker_everyone` (`TallySeesEveryone`) and `poker_final`
(`FinalRowsAgree`) of `MCPlanningPoker`, `retro_clear` (`ClearedOnUpdate`) and
`retro_once` (`VotesOnce`) of `MCRetroVoting`, `events_leftover` (`ChannelsClosed`)
and `events_probe` (`ProbeTells`) of `MCEventsServer`, and `closing_prev`
(`PreviousSprintChecked`) of `MCClosing`.

**Bounds.** Three requests are the least with which a first vote races with a
changed one while a third completes the board; two cards tell agreement from
disagreement. `poker_votes` has two estimators, so that a
consensus needs two users, and one observer who is turned away; its targets are the
story and one that does not exist. `poker_churn` has two estimators too, two POSTs with
the cards 3 and 5 or with 4, which is no card, on this story or on one of another
project, one PUT or PATCH that can take a row to the other user, to the one place in
`Away` or back, and one step of churn, at any point: the fragile cases (a row deleted
between `Find` and `Save`, a death between `MarkFinal` and `AddStory`) need one. The
theorems remove these bounds. For the streams, five messages through a deque
of three make it drop two, so that positions shift under both generators;
two generators are enough for one to interfere with the other. In
`retro_votes` three votes of two members and an outsider in one process let two votes
race while a third comes before or after, and the second list puts another item at
index 0; one index past the list and a negative one are posted too; one loss
separates a counter from its marks. Processes share nothing but the list, so a
second one only matters to `retro_once`, whose question it is.

In `events_server` the three commands of one client subscribe, unsubscribe and
subscribe again, on the same key or on two, while the channel is pending or open; the
clients share the process and the exchange, and the other one, with one command, comes
and goes: its queue may be the last one bound to the exchange, and it is there to be
stopped by the first. `events_client` reaches its limit of errors (3) and of missed
heartbeats (2), with two log-ins; two keys and three subscriptions let one key be
given up and asked for again while another stays. `closing` has two of everything: a
move needs two sprints or stories, and a flag that must stay open because of another
item needs two items; two requests overlap, or follow one another. `occ` has two edits
that race and one request of the other two kinds, which may be either; two fields make
edits conflict or not. `sprint_desk` has four requests: a bulk selection of two tasks,
another story's selection in its way, and two more to withdraw or follow; or two first
requests of the day and two responses, for which a meeting must be there. One user is
enough because responses of different users touch different rows, which the theorem
`AnswersKeptHolds` confirms for any number.

**Deadlock** is switched off everywhere because the instances end: the POSTs are
finitely many, and when all are answered, or all messages published and
subscribers gone or waiting, nothing is left to do.

**Symmetry** is used only where no liveness is checked: requests in `poker_churn`,
requests and members in `retro_votes`, and in `closing`, `closing_prev` and
`sprint_desk` requests and the things they are about.

**Fairness.** `FairVotingSpec` lets an accepted request take its next step: the
handler has no lock to wait for and its worker is scheduled. It holds only with
`VotingSpec`, where no worker dies. A generator loops for ever with a sleep of a
second, so `PokerStream` and `SprintStream` give weak fairness to each generator;
nothing obliges views to publish, or subscribers to come or go. In `EventsServer`
RabbitMQ answers the requests of a channel (`WF` of `Reply` per client) while the
connection lasts; nothing obliges a client to do anything. In `EventsClient` an
attempt to connect ends, with an open socket or an error (`AttemptEnds`), and timers
and intervals fire (`TryAgain`, `Beat`); nothing obliges an open socket to fail, a
log-in to happen or a pong to come. In `Occ` an edit that was sent takes its next step
whenever it is not waiting for a lock (`EditStep`), and so does a bulk request that
has begun its snapshot (`BulkStep`), since it may have the history's lock; weak
fairness is enough for `EveryEditEnds` because an edit has to wait for the lock of the
key only finitely often when the edits are finitely many.

**Mutants.** Each property of a passing run has a variant of one definition,
marked "Faulty variant" or "Variant" in its module, under which TLC finds it violated.

## 5. What is proved

TLAPS checks all of the following for any sets of users, requests, clients, keys,
fields, tasks, stories and sprints, and any bounds. The assumptions are the named
`ASSUME`s of the modules: the users and requests of the poker, the requests of the
retrospective and the stories of `Closing` are finite, sets of different things are
disjoint where the code has different tables for them, posted values are integers,
patched ones are cards, bounds are natural numbers, and "none" is not one of the
things. Every invariant that a passing run checks is proved, and both refinements.

- `TypeCorrect` (`PlanningPoker_proofs`): the type invariant under `Spec`.
  It is not inductive alone, because `Save` writes the posted value into a row;
  `TInv` adds that a request at "save" has a card in hand, and `EditInHand` that a PUT
  or PATCH past its load has a row in hand.
- `EveryoneVotedHolds`, `ViewsAgreeHolds` (same module): under `VotingSpec`. `VInv`
  says that roles are those of the start, that only estimators get past `Start` and so
  have rows, that a handler about to tally holds the number of estimators, that a
  row's id names a request of the row's user (`RowsOwned`), and that once a handler is
  past `Tally`, a row is final (on the board, or in the hands of a handler that may
  write it back) or a notice is out, every estimator has a row. A subset of the
  estimators that has as many members is all of them, and that is where finiteness is
  used. `ViewsAgreeHolds` is about the summary and the export too, which show linked
  stories only, and needs for them what `ConsensusNotMissedHolds` proves: with no
  request running, a unanimous story is linked.
- `ConsensusNotMissedHolds`: the deepest one. `NInv` adds: while the board is
  unanimous, either all is settled (rows final, story linked, value notified) or
  some running handler *captures* it: it is on its way to the tally, or past it
  with this very value, having done its part so far. A step of another
  handler either keeps the votes as they are, or is a `Save`, whose own handler
  then captures the board. That is also why a stale `final` written back does
  no lasting harm: the handler that writes it tallies afterwards.
- `BoardHolds` (same module): `Spec => BoardSpec`, with crashes churn and edits that
  move rows. `BInv` adds that a handler has an agreed value only from `MarkFinal` to
  `Notify` (`AgreedLate`), and `IdInv`: rows on the board have different ids, and the
  id of a request that has not saved is on no row. Without it a row written back could
  be a second vote of one user. Each action is mapped to an action of the board or to
  a stutter: `Save` and `SaveRow` to `Cast` or, when the row goes from one user to
  another, `Move`; `Destroy` to `Cast`, `ReadValues` to `See`, `Notify` to `Announce`,
  `Kill` to `Forget` unless another handler has seen the same value.
- `StreamTypeCorrect`, `FeedHolds`, `GaplessHolds` (`EventStreams_proofs`): for any
  length of the deque. `SInv` says that the deque holds the newest messages in a
  row and has dropped none before it was full, that a generator at position
  n has sent n messages, and that none of them is newer than what stands at the
  n-th place of the deque now. The last survives a shift of the deque, because a
  place only ever comes to hold a newer message, and it makes the next message
  newer than all before it.
- `SlotTypeCorrect`, `SlotFeedHolds`, `NoneNeedsTwoHolds` (same module): for any
  number of streams of the sprint events. `SlotNewer`: the event in the slot is newer
  than all that the subscriber of a waiting generator got, because whoever
  has sent an event empties the slot before it looks again, and what comes into the
  slot meanwhile is the newest of all. `SlotAlone`: a lone generator that has seen an
  event finds one when it sends.
- `VotingTypeCorrect`, `NoPhantomVotesHolds` (`RetroVoting_proofs`): `NPInv`
  adds that a number read and not yet written back is covered by the votes
  counted then, and that only finished requests are accepted. Counted votes
  only grow, except by a restart, which also empties the counters and ends
  the handlers that might write to them.
- `RefusalHolds` (same module): `CodeInv` says that a request has no answer before it
  is done, and `VotedInv` that every mark is the trace of an accepted vote.
- `LoneVotesStandHolds`, `LoneExactHolds` (same module): for any number of processes
  and votes. `LoneInv` has three parts, for as long as no entry is lost. `OverlapInv`:
  of two handlers that are busy on one counter both are in `overlapped`. `StandsInv`:
  neither the counter nor a value that some handler is about to increment is ever
  below the number of votes that have been counted without meeting another, and the
  counter is at least 1 when any vote has been counted. `MarkInv`: an accepted vote
  has left its mark; a vote that meets nobody finds none before itself once it has
  passed the check, and lets no other of its user pass after itself. With
  `NoPhantomVotes` from above, the counter of an item on which nobody met is exact.
- `ServerTypeCorrect`, `ServedHolds`, `PatientExactHolds`, `PatientServerStaysHolds`
  (`EventsServer_proofs`): for any number of clients, keys and commands. Each action
  concerns one client, and a lemma (`SameOthers`) leaves the others alone but for the
  exchange, which all share. `AllServed` says that while the process is up and has its
  connection, each client satisfies `ServedInv`: `TagsInv` says that the tags in the
  table and those being cancelled have been given out, and that two keys never share
  one; `StagesInv` ties the channel, the table and the waiting commands to the stage
  of the socket; `WantedInv`, that a key that is wanted is on its way, or the consumer
  in the table is there and nobody is cancelling it. A hasty unsubscribe can leave a
  consumer too many, never one too few. `PatientInv` is about the clients that are not
  in `overlapped`: `RestInv`, `PendingInv` and `OpenInv` describe the three situations
  of a client that has at most one command on its way, whatever the other clients do.
- `ClientTypeCorrect`, `NeverStuckHolds`, `ServerKnowsHolds` (`EventsClient_proofs`):
  for any keys and limits. `SocketInv` ties the socket, its heartbeat, its error and
  the buffer together: an open socket has nothing buffered, a connecting one is
  unknown to the server. `KnownInv` says what the server knows, in terms of the token
  that there was when the socket opened (`withToken`), and its proof needs what a
  message does (`DeliverOne`) and what a sequence of messages that ends in the
  authentication does (`DeliverFirst`): all before it is without effect.
- `VersionCountsHolds` (`Occ_proofs`): the lock of the key does not protect the
  counter, because it ends before the commit. `RowLockInv` says why the counter is
  exact all the same: at most one transaction has written the row and not
  committed, and, as long as the task board stays away, it holds the successor
  of the committed version. It is part of `CountInv`, which the next three build on.
- `OccTypeCorrect`, `HistoryExactHolds`, `ConflictRefusedHolds` (same module): for any
  number of edits, other requests and fields. Who has the history's lock is part of
  `TypeOK`: whoever has frozen the row and not yet entered. `HistInv` has six parts.
  `QueueInv`: as long as no snapshot was taken in a gap, one request at a time is
  between its `Freeze` and its commit. `OwnInv` places the entries: an edit has none
  before its snapshot, and those of the open transaction are the last. `SnapshotInv`
  says that the visible entries rebuild the row, and with those of the open
  transaction the object it is about to commit; the lemma behind it is that an entry
  appended with the difference to a snapshot turns this snapshot into the new row.
  `AloneInv` says that nobody writes the row while an edit that does not overlap has
  the lock. `SinceInv` is what makes counting entries by versions sound: for every
  client there is a place `p` in the history such that what it has read is what the
  first `p` entries rebuild, and the version has grown since by at least the number of
  visible entries behind `p` (an edit without a difference adds a version and no
  entry, never the reverse). A field that changed has an entry behind `p`, which the
  window reaches: so the edit is refused.
- `DeskTypeCorrect`, `OneMeetingHolds`, `SettledTruthHolds`, `AnswersKeptHolds`
  (`SprintDesk_proofs`): for any number of requests, tasks, stories, members and
  questions. `PlaceInv` says what a request at each place is doing and has in
  memory; with it each action has one lemma that is used by all four theorems.
  `MeetingInv` adds that the meeting's own request has ended. `Exclusive` says that
  what two running requests are both about is in `raced`, and makes the rest
  local: `TaskInv` says what a request knows of its task while it deletes or tells,
  and that what was told is true or about to be told again; `AnswerInv` that an
  edit has the stored row in memory.

- `ClosingTypeCorrect`, `SerialExactHolds`, `ClosingExactHolds` (`Closing_proofs`):
  for any number of requests and items. `ShapeInv` says what the sequence of steps of
  a request looks like: one operation, or steps of which only the first saves a flag.
  With it one lemma per action (`...Does`) says what the action does to the rows, the
  flags and the *set* of steps that are left, and the sequences are gone from the rest
  of the proof. Two arguments stand on these. `ClosingInv`, for overlapping requests
  that only close things: no flag, stored, in memory or about to be saved, is ahead of
  the work it speaks of (`ClosingBelow`), and a flag that is behind has a step on its
  way that will compute it or save it as true (`ClosingPending`); a request that finds
  the work unfinished may leave, because whoever finishes it computes again.
  `SerialFlags`, for requests one at a time: every flag, but those of the stories and
  sprints in `unchecked` and `forgotten`, is right or a step on its way makes it so,
  and a flag about to be saved is the right one. A step that saves a story's flag
  while its handlers run is the delicate one: these add the computation of the story's
  sprint before the flag counts.

Only model-checked: what holds under fairness (`FinalLinked`, `GetsToTheLimit`,
`LastEventArrives`, `EventuallyServed`, `Restored`, `EveryEditEnds`), since the
prover does neither liveness nor `ENABLED`; and the nine properties that are
violated: `KeepsNotifying`, `EditsSurvive`, `TallySeesEveryone`, `FinalRowsAgree`,
`ClearedOnUpdate`, `VotesOnce`, `ChannelsClosed`, `ProbeTells`, `PreviousSprintChecked`.

## 6. What the runs found

Two runs refute what the repository says of itself (the `findings`):

1. `poker_stalls`: a stream stops at the 100th message (`pp/views.py:658`).
2. `occ_survive`: `TaskViewSet.update` loads the object before the lock
   (`taiga/projects/tasks/api.py:178`) and does not load it again, so two edits of
   different fields, both accepted, do not both survive.

So do the seven further configurations:

3. `poker_everyone`: the tally compares two numbers (`pp/views.py:523`), so the row of
   a member who has left or changed role counts for one who has not voted; the comment
   at line 499 is "Verificar si todos los miembros que pueden estimar han votado".
4. `poker_final`: nothing takes the `final` mark back (`pp/views.py:545`); a vote
   changed after the consensus makes rows of different values final, while
   `pp/models.py:49` has the column "para identificar si la estimación es la final".
5. `retro_clear`: `_clear_voting_cache`, introduced by "Limpiar caché de votos si se
   está actualizando" (`se/views.py:1175`), clears nothing, so a new list starts with
   the votes, and the refusals, of the old one. `LoneVotesStand`, `LoneExact` and
   `RefusedOnlyAfterVote` therefore speak of a list that was not replaced.
6. `retro_once`: a second vote should be told "Ya has votado por este item"
   (`se/views.py:1426`); a double click is counted twice, and so is a vote in each
   process.
7. `events_leftover`: a client that leaves while its channel is pending keeps a
   channel (`taiga-events/src/rabbitmq/client.js:74`); `taiga-events/CHANGELOG.md:65`
   has "Fixed a critical bug related to channels not closed after WS connections
   ended."
8. `events_probe`: the health check says "RabbitMQ server is alive" of a cached
   connection that RabbitMQ has closed (`taiga-events/src/health-check/index.js:41`).
9. `closing_prev`: the previous version is kept "for use it on the post_save handler"
   (`userstories/signals.py:27`), but saving a story with another status and another
   sprint at once saves its flag inside the handlers; these run again and overwrite
   it (line 35), so the sprint that the story has left is not recomputed.

Observed while modelling, and part of the models:

- `ATOMIC_REQUESTS` (`settings/common.py:82`) stands outside `DATABASES` and has no
  effect; the steps of a request are commits of their own wherever the code
  opens no transaction.
- `Occ`: history entries and versions are not in step (an edit that changes nothing
  has a version and no entry, a bulk snapshot the reverse), and the modified fields
  are found by counting entries; the task board writes the version back that it read.
  The history's lock ends before `take_snapshot`'s transaction commits, so a snapshot
  taken in between sees neither its entry nor its row and the history no longer
  rebuilds the row; without "gap" in its premise `HistoryExact` is violated.
- `PlanningPoker`: a PUT or PATCH can give an estimation to another user, and
  no tally runs after it; it can make a board unanimous without an announcement.
- `SprintDesk`: a selection and a withdrawal of one task that overlap may leave
  the boards told the opposite of what is stored, and first requests of the day
  that overlap may end in a 500. `SettledTruth`, `AnswersKept` and `OneMeeting` say
  exactly how far this goes.
- `EventsServer`: several things end the process, for all clients: an unsubscribe that
  overtakes the set-up of the first subscription (only a hasty client does that), but
  also a socket error (`handleError` is not bound), the message `null` or a routing key
  that is no string, and another client's last queue going away in the middle of a
  set-up, with the exchange. A connection that RabbitMQ closes in good order
  leaves the server up, without consumers, until somebody sends a command.
- `EventsClient`: `connected` stays true after `stopExistingConnection`, so a
  page that subscribes while the new socket connects loses its message; what was
  buffered before the socket opens goes out before the authentication and is
  ignored; after a reconnection only the notifications are subscribed to again.
- `Closing`: a save of a whole story row that was loaded earlier writes an old flag
  back; bulk moves and bulk creations run no handlers, and a status edit saves stories
  without looking at their sprints, so flags stay wrong until something computes
  them; a task can be in another sprint than its story; the deletion of a story
  disconnects the handlers of tasks for the whole process while it lasts.

## 7. What is not modelled, and why

- Creation and deletion of sessions, participants and capacity arithmetic of
  Planning Poker: single statements, or read-only.
- Action items and mood of a retrospective, reviews and their approvals,
  reports and exports: no interaction between requests, or layout.
- Emission of events by the back end (`taiga/events`): an event is published when
  its transaction has committed, and an error of the broker is logged and
  forgotten; no state is kept between two events.
- The Planning Poker page: it polls and shows the list of whichever answer came
  last; nothing in it says which answer is newer.
- The order numbers of boards and backlogs, points, the deletion of a sprint, importers,
  bulk requests of several items, and issues (which count like storyless tasks) in
  `Closing`; refused tokens in
  `EventsServer`; the callbacks of a delivered message in `EventsClient`.
- The death of a worker outside `PlanningPoker` and `Occ`: the views of
  `SprintDesk` then stop between two commits, as a slow request does.
- Taiga's upstream code (users, authentication, permissions, votes, timeline,
  notifications, webhooks, import and export), used unchanged, and the
  presentation layers (`taiga-front-next`, templates, translations).
- A session closed while a vote is in flight is opened again by
  `SaveSession`: the write is in the model, but no text or test of the
  repository promises otherwise, so no property is stated of it.
