--------------------------- MODULE PlanningPoker ---------------------------
(***************************************************************************)
(* Voting on one user story in one Planning Poker session                   *)
(* (taiga-back/planning_poker).                                             *)
(*                                                                         *)
(* The views run in autocommit: ATOMIC_REQUESTS is set at the top level of  *)
(* settings/common.py, where Django does not read it, and no view of this   *)
(* application opens a transaction.  Every ORM statement commits by itself  *)
(* and the statements of concurrent requests interleave, so a POST to       *)
(* /estimations/ is a process with one action per statement that another    *)
(* request can tell apart.                                                  *)
(*                                                                         *)
(* Every query of the handler is filtered by the session and the story, so  *)
(* one session and one story stand for all of them.  PUT and PATCH may move *)
(* a row to another user, story or session; the places for rows outside     *)
(* this story are the constant Away.                                        *)
(***************************************************************************)
EXTENDS Integers, FiniteSets

CONSTANTS
    Estimators, \* members whose role may estimate at the start
    Observers,  \* members who are Product Owner, Scrum Master or Stakeholder
    Requests,   \* POSTs to EstimationViewSet.create; also the ids of the rows
                \* they create
    Edits,      \* PUTs and PATCHes of a row
    Away,       \* places of rows in other stories or sessions; also the ids
                \* of the rows that are there at the start
    Posted,     \* the estimation_value fields the POSTs carry
    Patched,    \* the cards that PUTs and PATCHes write, or that stand Away
    Targets,    \* what the POSTs may name: a subset of AllTargets
    NoRow,      \* the query found no estimation
    NoValue,    \* no agreed value
    MaxChurn    \* bound on the steps of the rest of the world

Users == Estimators \cup Observers

\* The cards EstimationSerializer accepts.
Deck == {0, 1, 2, 3, 5, 8, 13, 20, 40, 100}

\* A story of the session's project, one of another project, or an id that
\* does not exist (of a session, a story or a user).
AllTargets == {"here", "foreign", "missing"}

\* The unique key of a row: its user, for this session and story, or a place
\* elsewhere.
Places == Users \cup Away

Row == [id : Requests \cup Away, value : Deck, final : BOOLEAN]

ASSUME UsersAssumption ==
    /\ IsFiniteSet(Estimators)
    /\ IsFiniteSet(Observers)
    /\ Estimators \cap Observers = {}
ASSUME AwayAssumption == Away \cap (Users \cup Requests) = {}
ASSUME PostedAssumption == Posted \subseteq Int
ASSUME PatchedAssumption == Patched \subseteq Deck
ASSUME TargetsAssumption == Targets \subseteq AllTargets
ASSUME NoRowAssumption == NoRow \notin Row \cup Deck \cup Places
ASSUME NoValueAssumption == NoValue \notin Deck
ASSUME MaxChurnAssumption == MaxChurn \in Nat

VARIABLES
    role,       \* role[u]: the membership of u in the project
    est,        \* est[u]: the row of u for this story, or NoRow; and est[a]:
                \* the row at a place elsewhere
    active,     \* the session row's is_active
    linked,     \* the story is among session.user_stories
    notices,    \* what was handed to send_sse_message: a value, or NoValue
                \* for "sin consenso"
    req,        \* the requests and the local variables of their handlers
    edit,       \* the PUTs and PATCHes and the instances they have in memory
    churns      \* how many steps of the rest of the world there were

vars == <<role, est, active, linked, notices, req, edit, churns>>

RoleKind == {"estimator", "observer", "none"}

Idle == {"queued", "done"}
Control == Idle \cup
    {"find", "validate", "save", "seats", "tally", "values",
     "mark", "check", "add", "touch", "notify"}

Handler ==
    [pc : Control,
     user : Users, value : Posted,
     row : Row \cup {NoRow},        \* existing_estimation
     active : BOOLEAN,              \* session.is_active as first read
     seats : Nat,                   \* total_estimators
     agreed : Deck \cup {NoValue},  \* final_estimation
     code : {0, 200, 201, 400, 403, 404, 500}]

Editor ==
    [pc : {"queued", "validate", "save", "done"},
     row : Row \cup {NoRow},        \* the instance, with the body applied
     to : Places \cup {NoRow}]       \* the key it has then

TypeOK ==
    /\ role \in [Users -> RoleKind]
    /\ est \in [Places -> Row \cup {NoRow}]
    /\ active \in BOOLEAN
    /\ linked \in BOOLEAN
    /\ notices \subseteq Deck \cup {NoValue}
    /\ req \in [Requests -> Handler]
    /\ edit \in [Edits -> Editor]
    /\ churns \in 0..MaxChurn

-----------------------------------------------------------------------------
(* Queries *)

\* Memberships but for the non-estimating roles.
Eligible == {u \in Users : role[u] = "estimator"}

Voters == {u \in Users : est[u] # NoRow}

ValuesShown == {est[u].value : u \in Voters}

\* A request outside its handler: waiting to be taken, or answered.
Outside(pc, u, v, code) ==
    [pc |-> pc, user |-> u, value |-> v, row |-> NoRow, active |-> TRUE,
     seats |-> 0, agreed |-> NoValue, code |-> code]

\* Nobody has voted on this story; elsewhere there are rows at A.
Standing(A, v) ==
    [p \in Places |-> IF p \in A THEN [id |-> p, value |-> v, final |-> FALSE] ELSE NoRow]

Init ==
    /\ role = [u \in Users |-> IF u \in Estimators THEN "estimator" ELSE "observer"]
    /\ \E A \in SUBSET Away, v \in Patched : est = Standing(A, v)
    /\ active = TRUE
    /\ linked \in BOOLEAN
    /\ notices = {}
    /\ req \in [Requests -> {Outside("queued", u, v, 0) : u \in Users, v \in Posted}]
    /\ edit = [e \in Edits |-> [pc |-> "queued", row |-> NoRow, to |-> NoRow]]
    /\ churns = 0

-----------------------------------------------------------------------------
(* EstimationViewSet.create *)

At(r, pc) == req[r].pc = pc

\* The handler of r goes on with h.
Continue(r, h) == req' = [req EXCEPT ![r] = h]

\* The handler returns; its local variables are gone.
Answer(r, code) == Continue(r, Outside("done", req[r].user, req[r].value, code))

Success(r) == IF req[r].row = NoRow THEN 201 ELSE 200

Database == <<role, est, active, linked, notices>>

\* Faulty variant: every member may vote.
StartAnyMember(r, t) ==
    /\ At(r, "queued")
    /\ \/ t = "missing" /\ Answer(r, 404)
       \/ t = "foreign" /\ Answer(r, 403)
       \/ t = "here" /\ Continue(r, [req[r] EXCEPT !.pc = "find", !.active = active])
    /\ UNCHANGED Database

\* The lookups, the project check and the role check, in the order of their
\* early returns; t is what the body names.
Start(r, t) ==
    /\ At(r, "queued")
    /\ \/ /\ t = "missing"
          /\ Answer(r, 404)
       \/ /\ t = "foreign" \/ (t = "here" /\ role[req[r].user] # "estimator")
          /\ Answer(r, 403)
       \/ /\ t = "here" /\ role[req[r].user] = "estimator"
          /\ Continue(r, [req[r] EXCEPT !.pc = "find", !.active = active])
    /\ UNCHANGED Database

Find(r) ==
    /\ At(r, "find")
    /\ Continue(r, [req[r] EXCEPT !.pc = "validate", !.row = est[req[r].user]])
    /\ UNCHANGED Database

\* Another row than this one has the key p: what the unique-together validator
\* of the serializer and the unique constraint ask.
Held(p, row) == est[p] # NoRow /\ (row = NoRow \/ row.id # est[p].id)

Taken(r) == Held(req[r].user, req[r].row)

\* instance.save(): UPDATE by primary key, which takes the row from wherever it
\* is now to the key of the instance, or INSERT when there is no such row.
Put(p, row) ==
    est' = [q \in Places |->
              IF q = p THEN row
              ELSE IF est[q] # NoRow /\ est[q].id = row.id THEN NoRow ELSE est[q]]

\* Faulty variant: the unique check without the card check.
ValidateAnyCard(r) ==
    /\ At(r, "validate")
    /\ IF ~Taken(r) THEN Continue(r, [req[r] EXCEPT !.pc = "save"]) ELSE Answer(r, 400)
    /\ UNCHANGED Database

Validate(r) ==
    /\ At(r, "validate")
    /\ IF req[r].value \in Deck /\ ~Taken(r)
       THEN Continue(r, [req[r] EXCEPT !.pc = "save"])
       ELSE Answer(r, 400)
    /\ UNCHANGED Database

\* The row the handler writes.  An update writes back every column of the row
\* it found, "final" included; update_or_create locks the row and changes only
\* the value.
Written(r) ==
    LET now == est[req[r].user]
    IN  IF req[r].row # NoRow
        THEN [req[r].row EXCEPT !.value = req[r].value]
        ELSE IF now # NoRow
             THEN [now EXCEPT !.value = req[r].value]
             ELSE [id |-> r, value |-> req[r].value, final |-> FALSE]

\* Faulty variant: only a first vote is tallied, a changed one is answered at
\* once.
SaveTalliesFirstVotes(r) ==
    /\ At(r, "save")
    /\ Put(req[r].user, Written(r))
    /\ IF req[r].row = NoRow
       THEN Continue(r, [req[r] EXCEPT !.pc = "seats"])
       ELSE Answer(r, 200)
    /\ UNCHANGED <<role, active, linked, notices>>

\* Saving an instance whose row is gone inserts it again, and that meets the
\* unique constraint when the user has a newer row.
Save(r) ==
    /\ At(r, "save")
    /\ \/ /\ req[r].row # NoRow /\ Taken(r)
          /\ Answer(r, 500)
          /\ UNCHANGED est
       \/ /\ req[r].row = NoRow \/ ~Taken(r)
          /\ Put(req[r].user, Written(r))
          /\ Continue(r, [req[r] EXCEPT !.pc = "seats"])
    /\ UNCHANGED <<role, active, linked, notices>>

CountSeats(r) ==
    /\ At(r, "seats")
    /\ Continue(r, [req[r] EXCEPT !.pc = "tally", !.seats = Cardinality(Eligible)])
    /\ UNCHANGED Database

\* Faulty variant: the tally does not wait for the last voter.
TallyAnyVotes(r) ==
    /\ At(r, "tally")
    /\ IF Cardinality(Voters) > 0 /\ req[r].seats > 0
       THEN Continue(r, [req[r] EXCEPT !.pc = "values"])
       ELSE Answer(r, Success(r))
    /\ UNCHANGED Database

Tally(r) ==
    /\ At(r, "tally")
    /\ IF Cardinality(Voters) = req[r].seats /\ req[r].seats > 0
       THEN Continue(r, [req[r] EXCEPT !.pc = "values"])
       ELSE Answer(r, Success(r))
    /\ UNCHANGED Database

\* Faulty variant: the value just posted stands for the values read.
ReadOwnValue(r) ==
    /\ At(r, "values")
    /\ Continue(r, [req[r] EXCEPT !.pc = "mark", !.agreed = req[r].value])
    /\ UNCHANGED Database

ReadValues(r) ==
    /\ At(r, "values")
    /\ \/ \E v \in Deck :
            /\ ValuesShown = {v}
            /\ Continue(r, [req[r] EXCEPT !.pc = "mark", !.agreed = v])
       \/ /\ \A v \in Deck : ValuesShown # {v}
          /\ Continue(r, [req[r] EXCEPT !.pc = "notify"])
    /\ UNCHANGED Database

MarkFinal(r) ==
    /\ At(r, "mark")
    /\ est' = [p \in Places |->
                 IF p \in Voters THEN [est[p] EXCEPT !.final = TRUE] ELSE est[p]]
    /\ Continue(r, [req[r] EXCEPT !.pc = "check"])
    /\ UNCHANGED <<role, active, linked, notices>>

\* Faulty variant: the association test is inverted.
CheckLinkedInverted(r) ==
    /\ At(r, "check")
    /\ Continue(r, [req[r] EXCEPT !.pc = IF linked THEN "add" ELSE "notify"])
    /\ UNCHANGED Database

CheckLinked(r) ==
    /\ At(r, "check")
    /\ Continue(r, [req[r] EXCEPT !.pc = IF linked THEN "notify" ELSE "add"])
    /\ UNCHANGED Database

AddStory(r) ==
    /\ At(r, "add")
    /\ linked' = TRUE
    /\ Continue(r, [req[r] EXCEPT !.pc = "touch"])
    /\ UNCHANGED <<role, est, active, notices>>

\* session.save() writes back every column read at the start.
SaveSession(r) ==
    /\ At(r, "touch")
    /\ active' = req[r].active
    /\ Continue(r, [req[r] EXCEPT !.pc = "notify"])
    /\ UNCHANGED <<role, est, linked, notices>>

Notify(r) ==
    /\ At(r, "notify")
    /\ notices' = notices \cup {req[r].agreed}
    /\ Answer(r, Success(r))
    /\ UNCHANGED <<role, est, active, linked>>

\* What the handler of an accepted request does next.
Work(r) ==
    \/ Find(r) \/ Validate(r) \/ Save(r)
    \/ CountSeats(r) \/ Tally(r) \/ ReadValues(r)
    \/ MarkFinal(r) \/ CheckLinked(r) \/ AddStory(r) \/ SaveSession(r)
    \/ Notify(r)

-----------------------------------------------------------------------------
(* The rest of the world *)

\* The worker that runs the handler dies: what it committed stays.
Kill(r) ==
    /\ req[r].pc \notin Idle
    /\ Answer(r, 0)
    /\ UNCHANGED Database

\* The members page gives u another role or removes the membership; the rows
\* of u stay.  Who is an admin, and so has to stay, is left out.
ChangeRole(u) ==
    /\ \E k \in RoleKind \ {role[u]} : role' = [role EXCEPT ![u] = k]
    /\ UNCHANGED <<est, active, linked, notices, req>>

\* DELETE /estimations/<id>/ of the row at p.
Destroy(p) ==
    /\ est[p] # NoRow
    /\ est' = [est EXCEPT ![p] = NoRow]
    /\ UNCHANGED <<role, active, linked, notices, req>>

\* PUT and PATCH /estimations/<id>/, which tally nothing: the row at p is
\* loaded and the fields of the body are applied to it.  All fields of the
\* model are among them: the value, "final", and the user, the story and the
\* session, which together are the key.
LoadRow(e, p) ==
    /\ edit[e].pc = "queued"
    /\ est[p] # NoRow
    /\ \E to \in Places, v \in Patched \cup {est[p].value}, f \in BOOLEAN :
         edit' = [edit EXCEPT ![e] =
                    [pc |-> "validate",
                     row |-> [id |-> est[p].id, value |-> v, final |-> f],
                     to |-> to]]
    /\ UNCHANGED <<Database, req>>

EndEdit(e) == edit' = [edit EXCEPT ![e] = [pc |-> "done", row |-> NoRow, to |-> NoRow]]

\* The unique-together validator: 400, or go on.
ValidateRow(e) ==
    /\ edit[e].pc = "validate"
    /\ IF Held(edit[e].to, edit[e].row)
       THEN EndEdit(e)
       ELSE edit' = [edit EXCEPT ![e].pc = "save"]
    /\ UNCHANGED <<Database, req>>

\* serializer.save(), which meets the unique constraint or writes every column.
SaveRow(e) ==
    /\ edit[e].pc = "save"
    /\ EndEdit(e)
    /\ IF Held(edit[e].to, edit[e].row)
       THEN UNCHANGED est
       ELSE Put(edit[e].to, edit[e].row)
    /\ UNCHANGED <<role, active, linked, notices, req>>

\* PUT and PATCH /planning-sessions/<id>/
UpdateSession ==
    /\ active' \in BOOLEAN
    /\ linked' \in BOOLEAN
    /\ UNCHANGED <<role, est, notices, req>>

-----------------------------------------------------------------------------
(* Specifications *)

VotingNext ==
    /\ \E r \in Requests : (\E t \in Targets : Start(r, t)) \/ Work(r)
    /\ UNCHANGED <<edit, churns>>

\* An edit whose worker dies takes no further step.
EditNext ==
    /\ \E e \in Edits : (\E p \in Places : LoadRow(e, p)) \/ ValidateRow(e) \/ SaveRow(e)
    /\ UNCHANGED churns

Disturb ==
    \/ \E r \in Requests : Kill(r)
    \/ \E u \in Users : ChangeRole(u)
    \/ \E p \in Places : Destroy(p)
    \/ UpdateSession

Churn ==
    /\ churns < MaxChurn
    /\ churns' = churns + 1
    /\ Disturb
    /\ UNCHANGED edit

Next == VotingNext \/ EditNext \/ Churn

\* Everything the program can do.
Spec == Init /\ [][Next]_vars

\* A session as the web client drives it: people vote, the membership stays
\* as it is, and every request that is accepted is carried through.
VotingSpec == Init /\ [][VotingNext]_vars
FairVotingSpec == VotingSpec /\ \A r \in Requests : WF_vars(Work(r) /\ UNCHANGED <<edit, churns>>)

-----------------------------------------------------------------------------
(* The read-only views *)

\* estimation_status: nobody missing and one value.
StatusConsensus ==
    /\ Cardinality(Voters) >= Cardinality(Eligible)
    /\ \E v \in Deck : ValuesShown = {v}

\* session_summary: of the session's stories, as many votes as voters and one
\* value.
SummaryConsensus ==
    /\ linked
    /\ \E v \in Deck : ValuesShown = {v}
    /\ Cardinality(Voters) = Cardinality(Eligible)

\* export_excel: of the session's stories, one value among the votes there are.
ExportConsensus ==
    /\ linked
    /\ \E v \in Deck : ValuesShown = {v}

-----------------------------------------------------------------------------
(* Properties *)

Quiet == \A r \in Requests : req[r].pc \in Idle

AllFinal == \A u \in Voters : est[u].final

\* With a fixed membership, however the POSTs of the voters overlap (votes
\* changed, first votes racing, stale rows written back over the final mark),
\* no consensus is missed: once no request is in flight, a story on which
\* estimation_status shows a consensus has all its rows marked final, belongs
\* to the session, and its value was notified.
ConsensusNotMissed ==
    Quiet /\ StatusConsensus =>
        /\ AllFinal
        /\ linked
        /\ ValuesShown \subseteq notices

\* With a fixed membership a consensus is marked, linked or notified only when
\* every eligible member has a vote: counting rows and seats by two separate
\* queries is enough ("Verificar si todos los miembros que pueden estimar han
\* votado", views.py:499).
EveryoneVoted ==
    /\ \A r \in Requests :
         req[r].pc \in {"mark", "check", "add", "touch"} => Eligible \subseteq Voters
    /\ notices # {} => Eligible \subseteq Voters
    /\ (\E u \in Voters : est[u].final) => Eligible \subseteq Voters

\* The three views of a consensus ask different things: estimation_status not
\* whether the session has the story, the export not whether all have voted.
\* With a fixed membership they do not contradict each other: what the summary
\* shows the other two show, and, once no request is in flight, a consensus on
\* the status view is on the other two.
ViewsAgree ==
    /\ SummaryConsensus => StatusConsensus /\ ExportConsensus
    /\ Quiet /\ StatusConsensus => SummaryConsensus /\ ExportConsensus

\* A story with a final estimation ends up in the session it was estimated in.
FinalLinked == (\E u \in Users : est[u] # NoRow /\ est[u].final) ~> linked

\* The abstract promise, which holds with any churn: what is notified as the
\* consensus was unanimous when the handler looked.
Board == INSTANCE ConsensusBoard WITH
    Values <- Deck,
    NoVote <- NoRow,
    votes <- [u \in Users |-> IF est[u] = NoRow THEN NoRow ELSE est[u].value],
    seen <- {req[r].agreed : r \in Requests} \ {NoValue},
    announced <- notices \ {NoValue}

BoardSpec == Board!Spec

\* "Verificar si todos los miembros que pueden estimar han votado"
\* (views.py:499): a tally that lets a consensus through finds a vote of every
\* member who may estimate.
TallySeesEveryone ==
    [][\A r \in Requests :
         At(r, "tally") /\ req'[r].pc = "values" => Eligible \subseteq Voters]_vars

\* "identificar si la estimacion es la final" (models.py:49): the rows marked
\* final for a story carry one value.
FinalRowsAgree ==
    \A u, w \in Voters : est[u].final /\ est[w].final => est[u].value = est[w].value

=============================================================================
