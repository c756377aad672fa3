----------------------------- MODULE SprintDesk -----------------------------
(***************************************************************************)
(* The views of sprint_execution that look for a row and then create it:    *)
(* the selection of tasks for the sprint (a task is selected at most once,  *)
(* task is one-to-one), the daily meeting of today (one per project and     *)
(* date) and a member's response to it (one per meeting and user).          *)
(*                                                                         *)
(* Each query, save and notice is a step and a commit of its own; a         *)
(* constraint that fails is an answer to some of the views and an           *)
(* unexpected error in the others.  One project on one day.  A row is       *)
(* identified by the request that created it.                               *)
(***************************************************************************)
EXTENDS Integers, Sequences

CONSTANTS
    Tasks, Stories, Users,
    Questions,  \* the obligatory questions of a daily response
    Requests, None

Answers == [Questions -> Requests \cup {None}]
Selection == [story : Stories, by : Requests]
Response == [by : Requests, answers : [Questions -> Requests]]
Codes == {"none", "ok", "already", "refused", "missing", "error"}

ASSUME DeskAssumption ==
    /\ None \notin Requests \cup Stories \cup Selection \cup Response
    /\ Requests \cap Codes = {}

VARIABLES
    selected,   \* SelectedTask: [story, by] of each task, or None
    meeting,    \* DailyMeeting of today, or None
    response,   \* DailyResponse of each user: [by, answers], or None
    told,       \* the last event about each task: its story, or None
    op, pc,     \* what a request wants and how far it is
    object,     \* the row that a request has in memory
    answer,     \* what a request has been answered
    \* history
    raced,      \* the tasks and users that overlapping requests were about
    latest      \* the last request that saved each answer of each user

vars == <<selected, meeting, response, told, op, pc, object, answer, raced, latest>>

Ops ==
    [do : {"select", "unselect"}, story : Stories, tasks : {<<t>> : t \in Tasks}] \cup
    [do : {"bulk"}, story : Stories,
     tasks : {q \in Tasks \X Tasks : q[1] # q[2]}] \cup
    [do : {"today"}, master : BOOLEAN] \cup
    [do : {"post"}] \cup
    [do : {"respond"}, user : Users, questions : (SUBSET Questions) \ {{}}]

IsSelection(o) == o.do \in {"select", "bulk"}
IsMeeting(o) == o.do \in {"today", "post"}
About(o) ==
    IF IsSelection(o) \/ o.do = "unselect"
    THEN {o.tasks[i] : i \in DOMAIN o.tasks}
    ELSE IF o.do = "respond" THEN {o.user} ELSE {}

Active == {r \in Requests : pc[r] \notin {"new", "end"}}

\* A request in memory: a bulk request has the tasks that are left.
TaskOp == [do : {"select", "bulk", "unselect"}, story : Stories, tasks : Seq(Tasks) \ {<<>>}]
MeetingOp == [do : {"today"}, master : BOOLEAN] \cup [do : {"post"}]
RespondOp == [do : {"respond"}, user : Users, questions : SUBSET Questions]

TypeOK ==
    /\ selected \in [Tasks -> Selection \cup {None}]
    /\ told \in [Tasks -> Stories \cup {None}]
    /\ meeting \in Requests \cup {None}
    /\ response \in [Users -> Response \cup {None}] /\ latest \in [Users -> Answers]
    /\ op \in [Requests -> [do : {"none"}] \cup TaskOp \cup MeetingOp \cup RespondOp]
    /\ pc \in [Requests -> {"new", "look", "create", "again", "tell", "delete",
                            "update", "end"}]
    /\ object \in [Requests -> Selection \cup Response \cup {None}]
    /\ answer \in [Requests -> Requests \cup Codes]
    /\ raced \subseteq Tasks \cup Users

Init ==
    /\ selected = [t \in Tasks |-> None] /\ told = [t \in Tasks |-> None]
    /\ meeting = None
    /\ response = [u \in Users |-> None]
    /\ op = [r \in Requests |-> [do |-> "none"]]
    /\ pc = [r \in Requests |-> "new"]
    /\ object = [r \in Requests |-> None]
    /\ answer = [r \in Requests |-> "none"]
    /\ raced = {}
    /\ latest = [u \in Users |-> [q \in Questions |-> None]]

\* A response needs the number of a meeting.
Begin(r) ==
    /\ pc[r] = "new"
    /\ \E o \in Ops :
           /\ o.do = "respond" => meeting # None
           /\ op' = [op EXCEPT ![r] = o]
           /\ raced' = raced \cup (About(o) \cap UNION {About(op[q]) : q \in Active})
    /\ pc' = [pc EXCEPT ![r] = "look"]
    /\ UNCHANGED <<selected, meeting, response, told, object, answer, latest>>

At(r, place) == pc[r] = place
Goto(r, place) == pc' = [pc EXCEPT ![r] = place] /\ UNCHANGED <<op, answer>>
End(r, what) ==
    /\ pc' = [pc EXCEPT ![r] = "end"]
    /\ answer' = [answer EXCEPT ![r] = what]
    /\ UNCHANGED op

-----------------------------------------------------------------------------
(* Selecting tasks. *)

Task(r) == Head(op[r].tasks)
Has(row, story) == row # None /\ row.story = story

\* A bulk request goes on with its next task.
NextTask(r, what) ==
    IF Len(op[r].tasks) = 1 THEN End(r, what)
    ELSE /\ op' = [op EXCEPT ![r].tasks = Tail(@)]
         /\ pc' = [pc EXCEPT ![r] = "look"]
         /\ UNCHANGED answer

LookSelected(r) ==
    /\ At(r, "look") /\ IsSelection(op[r])
    /\ IF Has(selected[Task(r)], op[r].story)
       THEN NextTask(r, IF op[r].do = "select" THEN "already" ELSE "ok")
       ELSE Goto(r, "create")
    /\ UNCHANGED <<selected, meeting, response, told, object, raced, latest>>

\* Variant: a task that another story has is announced as selected.
CreateSelectedAnyway(r) ==
    /\ At(r, "create") /\ IsSelection(op[r])
    /\ selected' = [selected EXCEPT ![Task(r)] =
                       IF @ = None THEN [story |-> op[r].story, by |-> r] ELSE @]
    /\ Goto(r, "tell")
    /\ UNCHANGED <<meeting, response, told, object, raced, latest>>

\* objects.create, or get_or_create, which looks again after an IntegrityError.
CreateSelected(r) ==
    /\ At(r, "create") /\ IsSelection(op[r])
    /\ IF selected[Task(r)] = None
       THEN /\ selected' = [selected EXCEPT ![Task(r)] = [story |-> op[r].story, by |-> r]]
            /\ Goto(r, "tell")
       ELSE /\ IF op[r].do = "bulk" THEN Goto(r, "again") ELSE End(r, "refused")
            /\ UNCHANGED selected
    /\ UNCHANGED <<meeting, response, told, object, raced, latest>>

LookAgain(r) ==
    /\ At(r, "again")
    /\ IF Has(selected[Task(r)], op[r].story) THEN NextTask(r, "ok") ELSE End(r, "refused")
    /\ UNCHANGED <<selected, meeting, response, told, object, raced, latest>>

TellSelected(r) ==
    /\ At(r, "tell") /\ IsSelection(op[r])
    /\ told' = [told EXCEPT ![Task(r)] = op[r].story]
    /\ NextTask(r, "ok")
    /\ UNCHANGED <<selected, meeting, response, object, raced, latest>>

\* UnselectTaskView: the row that was found is deleted, if it is still there.
LookUnselect(r) ==
    /\ At(r, "look") /\ op[r].do = "unselect"
    /\ object' = [object EXCEPT ![r] = selected[Task(r)]]
    /\ IF Has(selected[Task(r)], op[r].story) THEN Goto(r, "delete") ELSE End(r, "missing")
    /\ UNCHANGED <<selected, meeting, response, told, raced, latest>>

Unselect(r) ==
    /\ At(r, "delete")
    /\ selected' = [selected EXCEPT ![Task(r)] = IF @ = object[r] THEN None ELSE @]
    /\ Goto(r, "tell")
    /\ UNCHANGED <<meeting, response, told, object, raced, latest>>

TellUnselected(r) ==
    /\ At(r, "tell") /\ op[r].do = "unselect"
    /\ told' = [told EXCEPT ![Task(r)] = None]
    /\ End(r, "ok")
    /\ UNCHANGED <<selected, meeting, response, object, raced, latest>>

-----------------------------------------------------------------------------
(* The daily meeting. *)

\* GET of today finds the meeting, or creates it for the Scrum Master; POST is
\* the Scrum Master's and refuses a second meeting.
LookMeeting(r) ==
    /\ At(r, "look") /\ IsMeeting(op[r])
    /\ IF meeting # None
       THEN End(r, IF op[r].do = "today" THEN meeting ELSE "refused")
       ELSE IF op[r].do = "today" /\ ~op[r].master THEN End(r, "missing")
       ELSE Goto(r, "create")
    /\ UNCHANGED <<selected, meeting, response, told, object, raced, latest>>

\* Variant: no constraint on project and date.
CreateAnotherMeeting(r) ==
    /\ At(r, "create") /\ IsMeeting(op[r])
    /\ meeting' = r /\ End(r, r)
    /\ UNCHANGED <<selected, response, told, object, raced, latest>>

\* The constraint on project and date; nobody catches the IntegrityError.
CreateMeeting(r) ==
    /\ At(r, "create") /\ IsMeeting(op[r])
    /\ IF meeting = None
       THEN meeting' = r /\ End(r, r)
       ELSE UNCHANGED meeting /\ End(r, "error")
    /\ UNCHANGED <<selected, response, told, object, raced, latest>>

\* Variant: a first response may be partial.
LookResponsePartial(r) ==
    /\ At(r, "look") /\ op[r].do = "respond"
    /\ object' = [object EXCEPT ![r] = response[op[r].user]]
    /\ Goto(r, IF response[op[r].user] # None THEN "update" ELSE "create")
    /\ UNCHANGED <<selected, meeting, response, told, raced, latest>>

\* A response that exists is edited, in memory.
LookResponse(r) ==
    /\ At(r, "look") /\ op[r].do = "respond"
    /\ object' = [object EXCEPT ![r] = response[op[r].user]]
    /\ IF response[op[r].user] # None THEN Goto(r, "update")
       ELSE IF op[r].questions = Questions THEN Goto(r, "create")
       ELSE End(r, "refused")
    /\ UNCHANGED <<selected, meeting, response, told, raced, latest>>

Answered(r, before) ==
    [q \in Questions |-> IF q \in op[r].questions THEN r ELSE before[q]]
Remember(r) == latest' = [latest EXCEPT ![op[r].user] = Answered(r, @)]

CreateResponse(r) ==
    LET u == op[r].user IN
    /\ At(r, "create") /\ op[r].do = "respond"
    /\ IF response[u] = None
       THEN /\ response' = [response EXCEPT ![u] =
                               [by |-> r, answers |-> Answered(r, latest[u])]]
            /\ Remember(r) /\ End(r, "ok")
       ELSE UNCHANGED <<response, latest>> /\ End(r, "error")
    /\ UNCHANGED <<selected, meeting, told, object, raced>>

\* Variant: the answers that are not sent are cleared.
UpdateWholeResponse(r) ==
    /\ At(r, "update")
    /\ response' = [response EXCEPT ![op[r].user] =
                       [object[r] EXCEPT !.answers = Answered(r, [q \in Questions |-> None])]]
    /\ Remember(r) /\ End(r, "ok")
    /\ UNCHANGED <<selected, meeting, told, object, raced>>

UpdateResponse(r) ==
    /\ At(r, "update")
    /\ response' = [response EXCEPT ![op[r].user] =
                       [object[r] EXCEPT !.answers = Answered(r, @)]]
    /\ Remember(r) /\ End(r, "ok")
    /\ UNCHANGED <<selected, meeting, told, object, raced>>

-----------------------------------------------------------------------------
Next == \E r \in Requests :
    \/ Begin(r)
    \/ LookSelected(r) \/ CreateSelected(r) \/ LookAgain(r) \/ TellSelected(r)
    \/ LookUnselect(r) \/ Unselect(r) \/ TellUnselected(r)
    \/ LookMeeting(r) \/ CreateMeeting(r)
    \/ LookResponse(r) \/ CreateResponse(r) \/ UpdateResponse(r)

Spec == Init /\ [][Next]_vars

-----------------------------------------------------------------------------
Idle(x) == \A r \in Active : x \notin About(op[r])

\* Whatever was refused half-way, the last event about a task says for which
\* story it is selected, if no two requests about the task overlapped.
SettledTruth ==
    \A t \in Tasks \ raced :
        Idle(t) => told[t] = IF selected[t] = None THEN None ELSE selected[t].story

\* However the first requests of a day overlap, everybody who is answered
\* with a meeting is in the same one, and only a request that lost a race
\* against its creation ends in an error.
OneMeeting ==
    \A r \in Requests : IsMeeting(op[r]) =>
        /\ answer[r] \in Requests => answer[r] = meeting
        /\ answer[r] = "error" => meeting \notin {None, r}

\* A user whose requests do not overlap finds every answer as last saved, the
\* partial ones included.
AnswersKept ==
    \A u \in Users \ raced :
        response[u] # None => response[u].answers = latest[u]
=============================================================================
