------------------------------ MODULE Closing ------------------------------
(***************************************************************************)
(* The automatic closing of user stories and sprints (signals.py and        *)
(* services.py of taiga/projects/userstories, tasks, issues, milestones).   *)
(* A story is closed when its tasks are, or its status when it has none; a  *)
(* sprint when its stories, storyless tasks and issues are.  The flags      *)
(* is_closed and closed are stored: every save of an item recomputes them   *)
(* afterwards, one statement (and, without transactions, one commit) after  *)
(* the other, and the save of a story's own flag runs the story's handlers  *)
(* again inside the handlers.                                               *)
(*                                                                         *)
(* Some operations write without the handlers; what they leave wrong stays  *)
(* so until the next computation.                                           *)
(*                                                                         *)
(* Two kinds of behaviour are of interest: requests one at a time, and      *)
(* overlapping requests that only close things.  Statuses are always set,   *)
(* and an issue is like a storyless task.  What a request still has to do   *)
(* is a sequence of steps.                                                  *)
(***************************************************************************)
EXTENDS Integers, FiniteSets, Sequences

CONSTANTS
    Tasks, Stories, Sprints,
    None,      \* no story, no sprint
    Requests   \* the requests that save something

ASSUME IdAssumption ==
    /\ None \notin Stories \cup Sprints
    /\ Tasks \cap Stories = {} /\ Stories \cap Sprints = {}
ASSUME StoriesAssumption == IsFiniteSet(Stories)

VARIABLES
    onlyClosing, \* requests overlap and only close; else one at a time
    exists,      \* the tasks and stories that exist
    task, story, \* their rows; done is the is_closed of the status
    closed,      \* milestone.closed
    work,        \* work[r]: the steps that r has to do
    begun,       \* the requests that have begun
    seen,        \* seen[r]: the flags of the objects that r has loaded
    unchecked,   \* history: stories and sprints changed without the handlers
    forgotten    \* history: sprints that a story left and nobody computed since

rows == <<exists, task, story, closed>>
vars == <<onlyClosing, rows, work, begun, seen, unchecked, forgotten>>

TaskRow == [done : BOOLEAN, story : Stories \cup {None}, sprint : Sprints \cup {None}]
StoryRow == [done : BOOLEAN, is_closed : BOOLEAN, sprint : Sprints \cup {None}]

NewStory == [done |-> FALSE, is_closed |-> FALSE, sprint |-> None]

TasksOf(s) == {t \in exists \cap Tasks : task[t].story = s}
StoriesIn(m) == {s \in exists \cap Stories : story[s].sprint = m}
StorylessIn(m) == {t \in exists \cap Tasks : task[t].story = None /\ task[t].sprint = m}

calculate_userstory_is_closed(s) ==
    IF TasksOf(s) = {} THEN story[s].done ELSE \A t \in TasksOf(s) : task[t].done

calculate_milestone_is_closed(m) ==
    /\ StoriesIn(m) \cup StorylessIn(m) # {}
    /\ \A s \in StoriesIn(m) : story[s].is_closed
    /\ \A t \in StorylessIn(m) : task[t].done

\* The flags tell the truth, but for what is excused and empty sprints.
Exact(excused) ==
    /\ \A s \in (exists \cap Stories) \ excused :
           story[s].is_closed = calculate_userstory_is_closed(s)
    /\ \A m \in Sprints \ excused :
           StoriesIn(m) \cup StorylessIn(m) # {} =>
               closed[m] = calculate_milestone_is_closed(m)

TypeOK ==
    /\ onlyClosing \in BOOLEAN
    /\ exists \subseteq Tasks \cup Stories
    /\ task \in [Tasks -> TaskRow] /\ story \in [Stories -> StoryRow]
    /\ closed \in [Sprints -> BOOLEAN]
    /\ begun \subseteq Requests
    /\ seen \in [Requests -> [stories : [Stories -> BOOLEAN], sprints : [Sprints -> BOOLEAN]]]
    /\ unchecked \subseteq Stories \cup Sprints /\ forgotten \subseteq Sprints
    /\ \A t \in exists \cap Tasks : task[t].story # None =>
           /\ task[t].story \in exists
           /\ onlyClosing => task[t].sprint = story[task[t].story].sprint

Flags == [stories |-> [s \in Stories |-> story[s].is_closed], sprints |-> closed]

Init ==
    /\ onlyClosing \in BOOLEAN
    /\ exists \in SUBSET (Tasks \cup Stories)
    /\ task \in [Tasks -> TaskRow] /\ story \in [Stories -> StoryRow]
    /\ \A s \in Stories \ exists : story[s] = NewStory
    /\ \A t \in Tasks : task[t].story # None =>
           task[t].story \in exists /\ task[t].sprint = story[task[t].story].sprint
    /\ \A t \in Tasks \ exists :
           task[t] = [done |-> FALSE, story |-> None, sprint |-> None]
    /\ closed \in [Sprints -> BOOLEAN]
    /\ Exact({})
    /\ work = [r \in Requests |-> <<>>]
    /\ begun = {}
    /\ seen = [r \in Requests |-> Flags]
    /\ unchecked = {} /\ forgotten = {}

-----------------------------------------------------------------------------
(* Steps. *)

Step(do, id) == IF id = None THEN <<>> ELSE <<[do |-> do, id |-> id]>>
IfMoved(old, new, step) == IF old = new THEN <<>> ELSE step

MayBegin(r) == r \notin begun /\ (onlyClosing \/ \A q \in Requests : work[q] = <<>>)

Begin(r, op) ==
    /\ begun' = begun \cup {r}
    /\ work' = [work EXCEPT ![r] = <<op>>]
    /\ seen' = [seen EXCEPT ![r] = Flags]
    /\ UNCHANGED <<onlyClosing, rows, unchecked, forgotten>>

Doing(r, do) == work[r] # <<>> /\ Head(work[r]).do = do
Then(r, steps) == work' = [work EXCEPT ![r] = steps \o Tail(@)]
Excuse(ids) == unchecked' = unchecked \cup (ids \ {None})
Checked(id) == unchecked' = unchecked \ {id} /\ forgotten' = forgotten \ {id}

\* The stories are computed, in some order.
ThenStories(r, stories) ==
    \E q \in [1..Cardinality(stories) -> stories] :
        /\ \A s \in stories : \E i \in DOMAIN q : q[i] = s
        /\ Then(r, [i \in DOMAIN q |-> [do |-> "calcStory", id |-> q[i]]])

\* The sprint of a story's tasks follows the story.
WithTasks(s, m) ==
    [t \in Tasks |-> IF t \in TasksOf(s) THEN [task[t] EXCEPT !.sprint = m] ELSE task[t]]

\* Items get a status that is closed, or one that is not.
WithDone(row, items, done) ==
    [x \in DOMAIN row |-> IF x \in items THEN [row[x] EXCEPT !.done = done] ELSE row[x]]

-----------------------------------------------------------------------------
(* Saving and deleting (task and story signals). *)

\* Variant: the story that the task has left is not computed again.
SaveTaskForward(r) ==
    LET op == Head(work[r]) IN
    /\ Doing(r, "saveTask")
    /\ exists' = exists \cup {op.id}
    /\ task' = [task EXCEPT ![op.id] = op.row]
    /\ Then(r, Step("calcStory", op.row.story) \o Step("calcSprint", op.row.sprint))
    /\ UNCHANGED <<onlyClosing, story, closed, begun, seen, unchecked, forgotten>>

SaveTask(r) ==
    LET op == Head(work[r])
        old == IF op.id \in exists THEN task[op.id] ELSE op.row
    IN
    /\ Doing(r, "saveTask")
    /\ exists' = exists \cup {op.id}
    /\ task' = [task EXCEPT ![op.id] = op.row]
    /\ Then(r, Step("calcStory", op.row.story)
               \o IfMoved(old.story, op.row.story, Step("calcStory", old.story))
               \o Step("calcSprint", op.row.sprint)
               \o IfMoved(old.sprint, op.row.sprint, Step("calcSprint", old.sprint)))
    /\ UNCHANGED <<onlyClosing, story, closed, begun, seen, unchecked, forgotten>>

\* The story may be new.  The whole row is written, with the flag as it was
\* loaded.
SaveStory(r) ==
    LET op == Head(work[r])
        old == story[op.id].sprint
    IN
    /\ Doing(r, "saveStory")
    /\ exists' = exists \cup {op.id}
    /\ story' = [story EXCEPT ![op.id] =
                    [done |-> op.done, is_closed |-> seen[r].stories[op.id],
                     sprint |-> op.sprint]]
    /\ task' = WithTasks(op.id, op.sprint)
    /\ Then(r, Step("calcStory", op.id) \o Step("calcSprint", op.sprint)
               \o IfMoved(old, op.sprint, Step("calcPrev", old)))
    /\ UNCHANGED <<onlyClosing, closed, begun, seen, unchecked, forgotten>>

DeleteTask(r) ==
    LET id == Head(work[r]).id IN
    /\ Doing(r, "deleteTask")
    /\ exists' = exists \ {id}
    /\ Then(r, Step("calcStory", task[id].story) \o Step("tryClose", task[id].sprint))
    /\ UNCHANGED <<onlyClosing, task, story, closed, begun, seen, unchecked, forgotten>>

\* Variant: the tasks stay.
DeleteStoryOnly(r) ==
    LET id == Head(work[r]).id IN
    /\ Doing(r, "deleteStory")
    /\ exists' = exists \ {id}
    /\ story' = [story EXCEPT ![id] = NewStory]
    /\ seen' = [seen EXCEPT ![r].stories[id] = FALSE]
    /\ Then(r, Step("tryClose", story[id].sprint))
    /\ unchecked' = unchecked \ {id}
    /\ UNCHANGED <<onlyClosing, task, closed, begun, forgotten>>

\* The tasks go first, with their handlers disconnected.
DeleteStory(r) ==
    LET id == Head(work[r]).id IN
    /\ Doing(r, "deleteStory")
    /\ exists' = exists \ ({id} \cup TasksOf(id))
    /\ story' = [story EXCEPT ![id] = NewStory]
    /\ seen' = [seen EXCEPT ![r].stories[id] = FALSE]
    /\ Then(r, Step("tryClose", story[id].sprint))
    /\ unchecked' = unchecked \ {id}
    /\ UNCHANGED <<onlyClosing, task, closed, begun, forgotten>>

-----------------------------------------------------------------------------
(* Operations that write without the handlers. *)

\* create_userstories_in_bulk: outside sprints, the flag down.
CreateInBulk(r) ==
    LET op == Head(work[r]) IN
    /\ Doing(r, "createBulk")
    /\ exists' = exists \cup {op.id}
    /\ story' = [story EXCEPT ![op.id] = [NewStory EXCEPT !.done = op.done]]
    /\ Then(r, <<>>)
    /\ Excuse(IF op.done THEN {op.id} ELSE {})
    /\ UNCHANGED <<onlyClosing, task, closed, begun, seen, forgotten>>

\* update_userstories_kanban_order_in_bulk: the story is loaded after the update.
DragOnKanban(r) ==
    LET op == Head(work[r]) IN
    /\ Doing(r, "kanban")
    /\ story' = [story EXCEPT ![op.id].done = op.done]
    /\ Then(r, Step("calcStory", op.id))
    /\ seen' = [seen EXCEPT ![r] = Flags]
    /\ UNCHANGED <<onlyClosing, exists, task, closed, begun, unchecked, forgotten>>

\* update_userstories_backlog_or_sprint_order_in_bulk
DragOnBacklog(r) ==
    LET op == Head(work[r])
        old == story[op.id].sprint
    IN
    /\ Doing(r, "backlog")
    /\ story' = [story EXCEPT ![op.id].sprint = op.sprint]
    /\ task' = WithTasks(op.id, op.sprint)
    /\ Then(r, Step("calcSprint", old)
               \o IfMoved(old, op.sprint, Step("calcSprint", op.sprint)))
    /\ UNCHANGED <<onlyClosing, exists, closed, begun, seen, unchecked, forgotten>>

\* update_userstories_milestone_in_bulk of userstories/services.py.
MoveInBulk(r) ==
    LET op == Head(work[r]) IN
    /\ Doing(r, "bulk")
    /\ story' = [story EXCEPT ![op.id].sprint = op.sprint]
    /\ task' = WithTasks(op.id, op.sprint)
    /\ Then(r, <<>>)
    /\ Excuse({story[op.id].sprint, op.sprint})
    /\ UNCHANGED <<onlyClosing, exists, closed, begun, seen, forgotten>>

\* update_tasks_milestone_in_bulk of tasks/services.py.
MoveTasksInBulk(r) ==
    LET op == Head(work[r]) IN
    /\ Doing(r, "bulkTasks")
    /\ task' = [task EXCEPT ![op.id].sprint = op.sprint]
    /\ Then(r, <<>>)
    /\ Excuse(IF task[op.id].story = None THEN {task[op.id].sprint, op.sprint} ELSE {})
    /\ UNCHANGED <<onlyClosing, exists, story, closed, begun, seen, forgotten>>

\* A task status is edited: the stories of its tasks are computed again, the
\* sprints of storyless tasks are not.
EditTaskStatus(r) ==
    LET op == Head(work[r])
        changed == {t \in op.items : task[t].done # op.done}
    IN
    /\ Doing(r, "taskStatus")
    /\ task' = WithDone(task, op.items, op.done)
    /\ ThenStories(r, {task[t].story : t \in op.items} \ {None})
    /\ Excuse({task[t].sprint : t \in {u \in changed : task[u].story = None}})
    /\ UNCHANGED <<onlyClosing, exists, story, closed, begun, seen, forgotten>>

\* A story status is edited.
EditStoryStatus(r) ==
    LET op == Head(work[r]) IN
    /\ Doing(r, "storyStatus")
    /\ story' = WithDone(story, op.items, op.done)
    /\ ThenStories(r, op.items)
    /\ UNCHANGED <<onlyClosing, exists, task, closed, begun, seen, unchecked, forgotten>>

\* A status is deleted, and its tasks or its stories are given another.
DeleteStatus(r) ==
    LET op == Head(work[r])
        tasks == {t \in op.items \cap Tasks : task[t].done # op.done}
        stories == {s \in op.items \cap Stories : story[s].done # op.done}
    IN
    /\ Doing(r, "deleteStatus")
    /\ task' = WithDone(task, op.items, op.done)
    /\ story' = WithDone(story, op.items, op.done)
    /\ Then(r, <<>>)
    /\ Excuse(stories \cup
              {IF task[t].story = None THEN task[t].sprint ELSE task[t].story : t \in tasks})
    /\ UNCHANGED <<onlyClosing, exists, closed, begun, seen, forgotten>>

-----------------------------------------------------------------------------
(* Recomputing the flags. *)

\* close_userstory and open_userstory look at the object's own flag.
CalcStory(r) ==
    LET id == Head(work[r]).id
        value == calculate_userstory_is_closed(id)
    IN
    /\ Doing(r, "calcStory")
    /\ Then(r, IF value = seen[r].stories[id] THEN <<>>
               ELSE <<[do |-> "saveFlag", id |-> id, value |-> value]>>)
    /\ Checked(id)
    /\ UNCHANGED <<onlyClosing, rows, begun, seen>>

\* Variant: the flag is saved with the handlers disconnected.
SaveFlagSilently(r) ==
    LET op == Head(work[r]) IN
    /\ Doing(r, "saveFlag")
    /\ story' = [story EXCEPT ![op.id].is_closed = op.value]
    /\ seen' = [seen EXCEPT ![r].stories[op.id] = op.value]
    /\ Then(r, <<>>)
    /\ UNCHANGED <<onlyClosing, exists, task, closed, begun, unchecked, forgotten>>

\* The flag is saved, and the story's handlers run within the handler: they read
\* the row that has just been written as the previous version, so that the last
\* step, the check of the sprint that the story has left, finds nothing moved.
SaveFlag(r) ==
    LET op == Head(work[r])
        rest == Tail(work[r])
        n == Len(rest)
        skipped == n > 0 /\ rest[n].do = "calcPrev"
    IN
    /\ Doing(r, "saveFlag")
    /\ story' = [story EXCEPT ![op.id].is_closed = op.value]
    /\ seen' = [seen EXCEPT ![r].stories[op.id] = op.value]
    /\ work' = [work EXCEPT ![r] =
                   Step("calcStory", op.id) \o Step("calcSprint", story[op.id].sprint)
                   \o (IF skipped THEN SubSeq(rest, 1, n - 1) ELSE rest)]
    /\ forgotten' = IF skipped THEN forgotten \cup {rest[n].id} ELSE forgotten
    /\ task' = WithTasks(op.id, story[op.id].sprint)
    /\ UNCHANGED <<onlyClosing, exists, closed, begun, unchecked>>

\* After a deletion the sprint may only be closed.
CalcSprint(r) ==
    LET step == Head(work[r])
        value == calculate_milestone_is_closed(step.id)
    IN
    /\ \E do \in {"calcSprint", "calcPrev", "tryClose"} : Doing(r, do)
    /\ Then(r, IF value = seen[r].sprints[step.id] \/ (step.do = "tryClose" /\ ~value)
               THEN <<>>
               ELSE <<[do |-> "saveClosed", id |-> step.id, value |-> value]>>)
    /\ IF step.do = "tryClose" THEN UNCHANGED <<unchecked, forgotten>> ELSE Checked(step.id)
    /\ UNCHANGED <<onlyClosing, rows, begun, seen>>

SaveClosed(r) ==
    LET op == Head(work[r]) IN
    /\ Doing(r, "saveClosed")
    /\ closed' = [closed EXCEPT ![op.id] = op.value]
    /\ seen' = [seen EXCEPT ![r].sprints[op.id] = op.value]
    /\ Then(r, <<>>)
    /\ UNCHANGED <<onlyClosing, exists, task, story, begun, unchecked, forgotten>>

-----------------------------------------------------------------------------
(* Requests. *)

\* A task is saved with its story's sprint, but move_tasks_to_sprint moves it
\* alone.
TaskRows == {x \in TaskRow : x.story # None =>
                x.story \in exists /\ x.sprint = story[x.story].sprint}

OfOneStatus(row) == {X \in SUBSET (exists \cap DOMAIN row) :
                         X # {} /\ \A x, y \in X : row[x].done = row[y].done}

CloseSomething ==
    {[do |-> "saveTask", id |-> t, row |-> [task[t] EXCEPT !.done = TRUE]]
        : t \in exists \cap Tasks} \cup
    {[do |-> "kanban", id |-> s, done |-> TRUE] : s \in exists \cap Stories}

ChangeSomething ==
    [do : {"saveTask"}, id : Tasks, row : TaskRows] \cup
    {[do |-> "saveTask", id |-> t, row |-> [task[t] EXCEPT !.sprint = m]]
        : t \in exists \cap Tasks, m \in Sprints} \cup
    [do : {"saveStory"}, id : Stories, done : BOOLEAN, sprint : Sprints \cup {None}] \cup
    [do : {"deleteTask"}, id : exists \cap Tasks] \cup
    [do : {"deleteStory"}, id : exists \cap Stories] \cup
    [do : {"createBulk"}, id : Stories \ exists, done : BOOLEAN] \cup
    [do : {"kanban"}, id : exists \cap Stories, done : BOOLEAN] \cup
    [do : {"backlog"}, id : exists \cap Stories, sprint : Sprints \cup {None}] \cup
    [do : {"bulk"}, id : exists \cap Stories, sprint : Sprints] \cup
    [do : {"bulkTasks"}, id : exists \cap Tasks, sprint : Sprints] \cup
    [do : {"taskStatus"}, items : OfOneStatus(task), done : BOOLEAN] \cup
    [do : {"storyStatus"}, items : OfOneStatus(story), done : BOOLEAN] \cup
    [do : {"deleteStatus"}, items : OfOneStatus(task) \cup OfOneStatus(story), done : BOOLEAN]

Work(r) ==
    \/ SaveTask(r) \/ SaveStory(r) \/ DeleteTask(r) \/ DeleteStory(r)
    \/ CreateInBulk(r) \/ DragOnKanban(r) \/ DragOnBacklog(r) \/ MoveInBulk(r)
    \/ MoveTasksInBulk(r) \/ EditTaskStatus(r) \/ EditStoryStatus(r) \/ DeleteStatus(r)
    \/ CalcStory(r) \/ SaveFlag(r) \/ CalcSprint(r) \/ SaveClosed(r)

Next == \E r \in Requests :
    \/ /\ MayBegin(r)
       /\ \E op \in IF onlyClosing THEN CloseSomething ELSE ChangeSomething : Begin(r, op)
    \/ Work(r)

Spec == Init /\ [][Next]_vars
-----------------------------------------------------------------------------
Idle == \A r \in Requests : work[r] = <<>>

\* After any requests, one at a time, the flags are what the rows say, but for
\* what was written without the handlers, or skipped by them, and has not been
\* computed since: the next save of the item puts right what a bulk write left.
SerialExact == ~onlyClosing /\ Idle => Exact(unchecked \cup forgotten)

\* When overlapping requests only close tasks and stories, no closing is
\* missed, whatever they read before each other's writes.
ClosingExact == onlyClosing /\ Idle => Exact({})

\* The handlers that run after a save know the sprint that a story has left.
PreviousSprintChecked == ~onlyClosing /\ Idle => Exact(unchecked)
=============================================================================
