--------------------------- MODULE Closing_proofs ---------------------------
(***************************************************************************)
(* Proofs about Closing, for any sets of tasks, stories, sprints and       *)
(* requests (finitely many stories).                                       *)
(*                                                                         *)
(* First, what a request has to do always has the same shape (ShapeInv): an*)
(* operation and nothing else, or steps that compute flags, of which only  *)
(* the first may save one.  One lemma per action (...Does) then says what  *)
(* the action does to the rows and to the set of steps, with the sequences *)
(* gone.  On top of these stand two arguments that have no state in common:*)
(* requests that overlap and only close (ClosingInv), where no flag is ever*)
(* ahead of what it says and one that is behind is on its way, and requests*)
(* one at a time (SerialExactInv), where a flag is right or on its way.    *)
(***************************************************************************)
EXTENDS Closing, FiniteSetTheorems, TLAPS
-----------------------------------------------------------------------------
(* Sequences of steps *)

\* The steps that compute a flag, and those that save what was computed.
Calcs ==
    [do : {"calcStory"}, id : Stories] \cup
    [do : {"calcSprint", "calcPrev", "tryClose"}, id : Sprints]
Saves ==
    [do : {"saveFlag"}, id : Stories, value : BOOLEAN] \cup
    [do : {"saveClosed"}, id : Sprints, value : BOOLEAN]

\* The steps of a list.
Els(steps) == {steps[i] : i \in DOMAIN steps}

\* One list after another.
LEMMA ElsConcat ==
    ASSUME NEW S, NEW a \in Seq(S), NEW b \in Seq(S)
    PROVE  a \o b \in Seq(S) /\ Els(a \o b) = Els(a) \cup Els(b)
  <1>1. /\ a \o b \in Seq(S) /\ Len(a \o b) = Len(a) + Len(b)
        /\ \A i \in 1..Len(a) : (a \o b)[i] = a[i]
        /\ \A i \in 1..Len(b) : (a \o b)[Len(a) + i] = b[i]
        /\ Len(a) \in Nat /\ Len(b) \in Nat
        /\ DOMAIN a = 1..Len(a) /\ DOMAIN b = 1..Len(b)
    OBVIOUS
  <1>2. DOMAIN (a \o b) = 1..(Len(a) + Len(b))
    OBVIOUS
  <1>3. ASSUME NEW i \in 1..(Len(a) + Len(b)) PROVE (a \o b)[i] \in Els(a) \cup Els(b)
    <2>1. CASE i <= Len(a)
      <3>1. i \in 1..Len(a)
        BY <1>1, <2>1
      <3> QED
        BY <1>1, <3>1 DEF Els
    <2>2. CASE i > Len(a)
      <3>1. PICK j \in 1..Len(b) : i = Len(a) + j
        <4>1. i - Len(a) \in 1..Len(b) /\ i = Len(a) + (i - Len(a))
          BY <1>1, <2>2
        <4> QED
          BY <4>1
      <3> QED
        BY <1>1, <3>1 DEF Els
    <2> QED
      BY <1>1, <2>1, <2>2
  <1>4. ASSUME NEW i \in 1..Len(a) PROVE a[i] \in Els(a \o b)
    <2>1. i \in 1..(Len(a) + Len(b)) /\ (a \o b)[i] = a[i]
      BY <1>1
    <2> QED
      BY <1>2, <2>1 DEF Els
  <1>5. ASSUME NEW i \in 1..Len(b) PROVE b[i] \in Els(a \o b)
    <2>1. Len(a) + i \in 1..(Len(a) + Len(b)) /\ (a \o b)[Len(a) + i] = b[i]
      BY <1>1
    <2> QED
      BY <1>2, <2>1 DEF Els
  <1> QED
    BY <1>1, <1>2, <1>3, <1>4, <1>5 DEF Els

\* A list is its first step and the others.
LEMMA ElsTail ==
    ASSUME NEW S, NEW a \in Seq(S), a # <<>>
    PROVE  /\ Head(a) \in S /\ Tail(a) \in Seq(S)
           /\ Els(a) = {Head(a)} \cup Els(Tail(a))
           /\ \A i \in DOMAIN Tail(a) : Tail(a)[i] = a[i + 1] /\ i + 1 \in DOMAIN a /\ i + 1 > 1
  <1>1. /\ Len(a) \in Nat /\ Len(a) > 0 /\ DOMAIN a = 1..Len(a)
        /\ Tail(a) \in Seq(S) /\ Len(Tail(a)) = Len(a) - 1
        /\ Head(a) = a[1] /\ Head(a) \in S
        /\ \A i \in 1..(Len(a) - 1) : Tail(a)[i] = a[i + 1]
    OBVIOUS
  <1>2. DOMAIN Tail(a) = 1..(Len(a) - 1)
    BY <1>1
  <1>3. \A i \in 1..(Len(a) - 1) : i + 1 \in 1..Len(a) /\ i + 1 > 1
    BY <1>1
  <1>4. \A i \in 1..Len(a) : i = 1 \/ (i - 1 \in 1..(Len(a) - 1) /\ i = (i - 1) + 1)
    BY <1>1
  <1>5. Els(a) \subseteq {Head(a)} \cup Els(Tail(a))
    <2>1. ASSUME NEW i \in 1..Len(a) PROVE a[i] \in {Head(a)} \cup Els(Tail(a))
      <3>1. CASE i = 1
        BY <1>1, <3>1
      <3>2. CASE i # 1
        <4>1. PICK j \in 1..(Len(a) - 1) : i = j + 1
          BY <1>4, <3>2
        <4> QED
          BY <1>1, <1>2, <4>1 DEF Els
      <3> QED
        BY <3>1, <3>2
    <2> QED
      BY <1>1, <2>1 DEF Els
  <1>6. {Head(a)} \cup Els(Tail(a)) \subseteq Els(a)
    <2>1. 1 \in 1..Len(a)
      BY <1>1
    <2> QED
      BY <1>1, <1>2, <1>3, <2>1 DEF Els
  <1> QED
    BY <1>1, <1>2, <1>3, <1>5, <1>6

\* All steps but the last one.
LEMMA ElsFront ==
    ASSUME NEW S, NEW a \in Seq(S), NEW n, n = Len(a), n > 0
    PROVE  /\ SubSeq(a, 1, n - 1) \in Seq(S)
           /\ Els(a) = Els(SubSeq(a, 1, n - 1)) \cup {a[n]} /\ a[n] \in S
  <1>1. n \in Nat /\ DOMAIN a = 1..n /\ n \in 1..n /\ a[n] \in S
    OBVIOUS
  <1>2. /\ SubSeq(a, 1, n - 1) \in Seq(S) /\ Len(SubSeq(a, 1, n - 1)) = n - 1
        /\ \A i \in 1..(n - 1) : SubSeq(a, 1, n - 1)[i] = a[i]
    BY <1>1
  <1>3. DOMAIN SubSeq(a, 1, n - 1) = 1..(n - 1)
    BY <1>2
  <1>4. \A i \in 1..n : i = n \/ i \in 1..(n - 1)
    BY <1>1
  <1>5. \A i \in 1..(n - 1) : i \in 1..n
    BY <1>1
  <1> QED
    BY <1>1, <1>2, <1>3, <1>4, <1>5 DEF Els

\* A step, if there is something to compute.
LEMMA ElsStep ==
    ASSUME NEW do, NEW id
    PROVE  Els(Step(do, id)) = IF id = None THEN {} ELSE {[do |-> do, id |-> id]}
  BY DEF Els, Step

LEMMA StepType ==
    ASSUME NEW do, NEW id,
           \/ do = "calcStory" /\ id \in Stories \cup {None}
           \/ do \in {"calcSprint", "calcPrev", "tryClose"} /\ id \in Sprints \cup {None}
    PROVE  Step(do, id) \in Seq(Calcs)
  <1>1. id # None => [do |-> do, id |-> id] \in Calcs
    BY DEF Calcs
  <1>2. Step(do, id) \in {<<>>, <<[do |-> do, id |-> id]>>}
    BY DEF Step
  <1>3. \A x \in Calcs : <<x>> \in Seq(Calcs)
    OBVIOUS
  <1>4. <<>> \in Seq(Calcs)
    OBVIOUS
  <1>5. id = None => Step(do, id) = <<>>
    BY DEF Step
  <1> QED
    BY <1>1, <1>2, <1>3, <1>4, <1>5

LEMMA ElsNone == Els(<<>>) = {} /\ \A S : <<>> \in Seq(S)
  BY DEF Els

-----------------------------------------------------------------------------
(* What a request has to do *)

Operations == IF onlyClosing THEN CloseSomething ELSE ChangeSomething
OpKinds == {"saveTask", "saveStory", "deleteTask", "deleteStory", "createBulk", "kanban",
            "backlog", "bulk", "bulkTasks", "taskStatus", "storyStatus", "deleteStatus"}

Steps(r) == Els(work[r])

\* A request has its operation to do, or steps of which only the first can be
\* the save of a flag.
ToDo(steps) ==
    \/ \E op \in Operations : steps = <<op>>
    \/ /\ steps \in Seq(Calcs \cup Saves)
       /\ \A i \in DOMAIN steps : i > 1 => steps[i] \in Calcs

WorkInv ==
    /\ DOMAIN work = Requests /\ work = [r \in Requests |-> work[r]]
    /\ \A r \in Requests : ToDo(work[r])
    /\ \A r \in Requests \ begun : work[r] = <<>>

\* One at a time: the others are idle, and what is loaded is what is stored.
SerialInv ==
    ~onlyClosing =>
        /\ \A q, r \in Requests : work[q] # <<>> /\ work[r] # <<>> => q = r
        /\ \A r \in Requests : work[r] # <<>> => seen[r] = Flags

ShapeInv == TypeOK /\ WorkInv /\ SerialInv

\* Operations and the steps that follow them have different names.
LEMMA OperationKinds ==
    ASSUME NEW op \in Operations
    PROVE  op.do \in OpKinds
  <1>1. CASE onlyClosing
    BY <1>1 DEF Operations, CloseSomething, OpKinds
  <1>2. CASE ~onlyClosing
    BY <1>2 DEF Operations, ChangeSomething, OpKinds
  <1> QED
    BY <1>1, <1>2

\* Who does an operation has nothing else to do.
LEMMA Operating ==
    ASSUME WorkInv, NEW r \in Requests, NEW do \in OpKinds, Doing(r, do)
    PROVE  \E op \in Operations : /\ work[r] = <<op>> /\ op.do = do
                                  /\ Head(work[r]) = op /\ Tail(work[r]) = <<>>
  <1>1. CASE \E op \in Operations : work[r] = <<op>>
    <2>1. PICK op \in Operations : work[r] = <<op>>
      BY <1>1
    <2>2. Head(<<op>>) = op /\ Tail(<<op>>) = <<>>
      OBVIOUS
    <2> QED
      BY <2>1, <2>2 DEF Doing
  <1>2. CASE work[r] \in Seq(Calcs \cup Saves)
    <2>1. Head(work[r]) \in Calcs \cup Saves
      BY <1>2 DEF Doing
    <2>2. \A x \in Calcs \cup Saves : x.do \notin OpKinds
      BY DEF Calcs, Saves, OpKinds
    <2> QED
      BY <2>1, <2>2 DEF Doing
  <1> QED
    BY <1>1, <1>2 DEF WorkInv, ToDo

\* Who recomputes has more to recompute.
LEMMA Computing ==
    ASSUME WorkInv, NEW r \in Requests, work[r] # <<>>, Head(work[r]).do \notin OpKinds
    PROVE  /\ Head(work[r]) \in Calcs \cup Saves
           /\ Tail(work[r]) \in Seq(Calcs)
           /\ Steps(r) = {Head(work[r])} \cup Els(Tail(work[r]))
  <1>1. work[r] \in Seq(Calcs \cup Saves) /\ \A i \in DOMAIN work[r] : i > 1 => work[r][i] \in Calcs
    <2>1. ASSUME NEW op \in Operations, work[r] = <<op>> PROVE FALSE
      <3>1. Head(<<op>>) = op
        OBVIOUS
      <3> QED
        BY <2>1, <3>1, OperationKinds
    <2> QED
      BY <2>1 DEF WorkInv, ToDo
  <1>2. /\ Head(work[r]) \in Calcs \cup Saves
        /\ Tail(work[r]) \in Seq(Calcs \cup Saves)
        /\ Els(work[r]) = {Head(work[r])} \cup Els(Tail(work[r]))
        /\ \A i \in DOMAIN Tail(work[r]) : Tail(work[r])[i] \in Calcs
    BY <1>1, ElsTail
  <1>3. \A t \in Seq(Calcs \cup Saves) : (\A i \in DOMAIN t : t[i] \in Calcs) => t \in Seq(Calcs)
    OBVIOUS
  <1> QED
    BY <1>2, <1>3 DEF Steps

\* r goes on with other steps, only the first of which may save a flag; what
\* the others want to do they can still do.
LEMMA ShapeStep ==
    ASSUME ShapeInv, NEW r \in Requests, NEW new,
           work[r] # <<>>, work' = [work EXCEPT ![r] = new],
           \/ new \in Seq(Calcs)
           \/ \E x \in Saves, t \in Seq(Calcs) : new = <<x>> \o t,
           TypeOK', UNCHANGED <<onlyClosing, begun>>,
           onlyClosing => Operations \subseteq Operations',
           ~onlyClosing /\ new # <<>> => seen'[r] = Flags'
    PROVE  ShapeInv'
  <1>1. new \in Seq(Calcs \cup Saves) /\ \A i \in DOMAIN new : i > 1 => new[i] \in Calcs
    <2>1. CASE new \in Seq(Calcs)
      BY <2>1
    <2>2. ASSUME NEW x \in Saves, NEW t \in Seq(Calcs), new = <<x>> \o t
          PROVE  new \in Seq(Calcs \cup Saves) /\ \A i \in DOMAIN new : i > 1 => new[i] \in Calcs
      <3>1. <<x>> \in Seq(Calcs \cup Saves) /\ t \in Seq(Calcs \cup Saves) /\ Tail(new) = t
        BY <2>2
      <3>2. new \in Seq(Calcs \cup Saves) /\ Len(new) = Len(t) + 1 /\ DOMAIN new = 1..Len(new)
        BY <2>2, <3>1
      <3>3. \A i \in DOMAIN new : i > 1 => i - 1 \in 1..Len(t) /\ new[i] = t[i - 1]
        BY <2>2, <3>2
      <3>4. \A i \in 1..Len(t) : t[i] \in Calcs
        OBVIOUS
      <3> QED
        BY <3>2, <3>3, <3>4
    <2> QED
      BY <2>1, <2>2
  <1>2. /\ DOMAIN work' = Requests /\ work' = [q \in Requests |-> work'[q]]
        /\ work'[r] = new /\ \A q \in Requests \ {r} : work'[q] = work[q]
    BY DEF ShapeInv, WorkInv
  <1>3. ASSUME NEW q \in Requests PROVE ToDo(work[q])' \/ (~onlyClosing /\ work[q] = <<>>) \/ q = r
    <2>1. q # r /\ ~onlyClosing => work[q] = <<>>
      BY DEF ShapeInv, SerialInv
    <2>2. CASE q # r /\ onlyClosing
      <3>1. ToDo(work[q]) /\ work'[q] = work[q]
        BY <1>2, <2>2 DEF ShapeInv, WorkInv
      <3> QED
        BY <2>2, <3>1 DEF ToDo
    <2> QED
      BY <2>1, <2>2
  <1>4. WorkInv'
    <2>1. ASSUME NEW q \in Requests PROVE ToDo(work[q])'
      <3>1. CASE q = r
        BY <1>1, <1>2, <3>1 DEF ToDo
      <3>2. CASE q # r /\ work[q] = <<>>
        <4>1. work'[q] = <<>>
          BY <1>2, <3>2
        <4>2. <<>> \in Seq(Calcs \cup Saves) /\ DOMAIN <<>> = {}
          OBVIOUS
        <4> QED
          BY <4>1, <4>2 DEF ToDo
      <3> QED
        BY <1>3, <3>1, <3>2
    <2> QED
      BY <1>2, <2>1 DEF ShapeInv, WorkInv
  <1>5. SerialInv'
    BY <1>2 DEF ShapeInv, SerialInv
  <1> QED
    BY <1>4, <1>5 DEF ShapeInv

\* The same for the form in which most steps are written.
LEMMA ShapeThen ==
    ASSUME ShapeInv, NEW r \in Requests, NEW steps \in Seq(Calcs),
           work[r] # <<>>, Tail(work[r]) \in Seq(Calcs), Then(r, steps),
           TypeOK', UNCHANGED <<onlyClosing, begun>>,
           onlyClosing => Operations \subseteq Operations',
           ~onlyClosing /\ steps \o Tail(work[r]) # <<>> => seen'[r] = Flags'
    PROVE  /\ ShapeInv'
           /\ Steps(r)' = Els(steps) \cup Els(Tail(work[r]))
           /\ \A q \in Requests \ {r} : Steps(q)' = Steps(q)
  <1>1. work' = [work EXCEPT ![r] = steps \o Tail(work[r])]
    BY DEF Then
  <1>2. steps \o Tail(work[r]) \in Seq(Calcs) /\ Els(steps \o Tail(work[r])) = Els(steps) \cup Els(Tail(work[r]))
    BY ElsConcat
  <1>3. work'[r] = steps \o Tail(work[r]) /\ \A q \in Requests \ {r} : work'[q] = work[q]
    BY <1>1 DEF ShapeInv, WorkInv
  <1>4. ShapeInv'
    BY <1>1, <1>2, ShapeStep
  <1> QED
    BY <1>2, <1>3, <1>4 DEF Steps

-----------------------------------------------------------------------------
(* What each step does *)

calc(do, id) == [do |-> do, id |-> id]

\* The steps that a list of possible steps becomes.
LEMMA TwoSteps ==
    ASSUME NEW a \in Seq(Calcs), NEW b \in Seq(Calcs)
    PROVE  a \o b \in Seq(Calcs) /\ Els(a \o b) = Els(a) \cup Els(b)
  BY ElsConcat

\* In a closing behaviour nothing moves and nothing is deleted.
LEMMA StillOffered ==
    ASSUME TypeOK, TypeOK', onlyClosing, UNCHANGED <<onlyClosing, exists>>,
           \A t \in Tasks : task'[t].story = task[t].story /\ task'[t].sprint = task[t].sprint
    PROVE  Operations \subseteq Operations'
  <1>1. \A t \in Tasks : [task[t] EXCEPT !.done = TRUE] = [task'[t] EXCEPT !.done = TRUE]
    <2>1. \A t \in Tasks : task[t] \in TaskRow /\ task'[t] \in TaskRow
      BY DEF TypeOK
    <2>2. ASSUME NEW x \in TaskRow, NEW y \in TaskRow, x.story = y.story, x.sprint = y.sprint
          PROVE  [x EXCEPT !.done = TRUE] = [y EXCEPT !.done = TRUE]
      BY <2>2 DEF TaskRow
    <2> QED
      BY <2>1, <2>2
  <1> QED
    BY <1>1 DEF Operations, CloseSomething

\* The flags that a request alone has loaded.
LEMMA LoadedAlone ==
    ASSUME ShapeInv, ~onlyClosing, NEW r \in Requests, work[r] # <<>>
    PROVE  /\ seen[r] = Flags
           /\ \A s \in Stories : seen[r].stories[s] = story[s].is_closed
           /\ \A m \in Sprints : seen[r].sprints[m] = closed[m]
           /\ \A q \in Requests \ {r} : work[q] = <<>>
  BY DEF ShapeInv, SerialInv, Flags

\* r does its operation, and recomputes flags from then on.
Starts(r) ==
    /\ ShapeInv' /\ work[r] # <<>>
    /\ Steps(r) \subseteq Operations /\ Steps(r)' \subseteq Calcs
    /\ \A q \in Requests \ {r} : Steps(q)' = Steps(q)

LEMMA OperationStep ==
    ASSUME ShapeInv, NEW r \in Requests, NEW op \in Operations,
           work[r] = <<op>>, Tail(work[r]) = <<>>,
           NEW steps \in Seq(Calcs), Then(r, steps),
           TypeOK', UNCHANGED <<onlyClosing, begun>>,
           onlyClosing => Operations \subseteq Operations',
           ~onlyClosing /\ steps # <<>> => seen'[r] = Flags'
    PROVE  Starts(r) /\ Steps(r)' = Els(steps)
  <1>1. /\ work[r] # <<>> /\ Tail(work[r]) \in Seq(Calcs) /\ Els(Tail(work[r])) = {}
        /\ steps \o Tail(work[r]) = steps
    BY ElsNone
  <1>2. /\ ShapeInv' /\ Steps(r)' = Els(steps)
        /\ \A q \in Requests \ {r} : Steps(q)' = Steps(q)
    BY <1>1, ShapeThen
  <1>3. Steps(r) \subseteq Operations
    BY DEF Steps, Els
  <1>4. Els(steps) \subseteq Calcs
    BY DEF Els
  <1> QED
    BY <1>1, <1>2, <1>3, <1>4 DEF Starts

\* A task is saved.
LEMMA SaveTaskDoes ==
    ASSUME ShapeInv, NEW r \in Requests, SaveTask(r)
    PROVE  \E t \in Tasks, x \in TaskRow :
               /\ exists' = exists \cup {t} /\ task' = [task EXCEPT ![t] = x]
               /\ UNCHANGED <<onlyClosing, story, closed, seen, unchecked, forgotten>>
               /\ Starts(r)
               /\ x.story # None => calc("calcStory", x.story) \in Steps(r)'
               /\ x.sprint # None => calc("calcSprint", x.sprint) \in Steps(r)'
               /\ t \in exists /\ task[t].story # None =>
                      calc("calcStory", task[t].story) \in Steps(r)'
               /\ t \in exists /\ task[t].sprint # None =>
                      calc("calcSprint", task[t].sprint) \in Steps(r)'
               /\ \A y \in Steps(r)' : y.do \notin {"calcPrev", "tryClose"}
               /\ onlyClosing => /\ t \in exists /\ x.done
                                 /\ x.story = task[t].story /\ x.sprint = task[t].sprint
  <1>1. PICK op \in Operations : /\ work[r] = <<op>> /\ op.do = "saveTask"
                                 /\ Head(work[r]) = op /\ Tail(work[r]) = <<>>
    BY Operating DEF SaveTask, OpKinds, ShapeInv
  <1>2. PICK t, x : t = op.id /\ x = op.row
    OBVIOUS
  <1>3. /\ t \in Tasks /\ x \in TaskRow
        /\ x.story # None => x.story \in exists
        /\ onlyClosing => /\ t \in exists /\ x.done
                          /\ x.story = task[t].story /\ x.sprint = task[t].sprint
    <2>1. CASE onlyClosing
      <3>1. t \in exists \cap Tasks /\ x = [task[t] EXCEPT !.done = TRUE]
        <4>1. PICK u \in exists \cap Tasks :
                  op = [do |-> "saveTask", id |-> u, row |-> [task[u] EXCEPT !.done = TRUE]]
          BY <1>1, <2>1 DEF Operations, CloseSomething
        <4> QED
          BY <1>2, <4>1
      <3>2. task[t] \in TaskRow
        BY <3>1 DEF ShapeInv, TypeOK
      <3>3. x \in TaskRow /\ x.done /\ x.story = task[t].story /\ x.sprint = task[t].sprint
        BY <3>1, <3>2 DEF TaskRow
      <3> QED
        BY <3>1, <3>3 DEF ShapeInv, TypeOK
    <2>2. CASE ~onlyClosing
      <3>1. \/ op \in [do : {"saveTask"}, id : Tasks, row : TaskRows]
            \/ op \in {[do |-> "saveTask", id |-> u, row |-> [task[u] EXCEPT !.sprint = m]]
                          : u \in exists \cap Tasks, m \in Sprints}
        BY <1>1, <2>2 DEF Operations, ChangeSomething
      <3>2. CASE op \in [do : {"saveTask"}, id : Tasks, row : TaskRows]
        BY <1>2, <2>2, <3>2 DEF TaskRows
      <3>3. CASE op \in {[do |-> "saveTask", id |-> u, row |-> [task[u] EXCEPT !.sprint = m]]
                           : u \in exists \cap Tasks, m \in Sprints}
        <4>1. PICK u \in exists \cap Tasks, m \in Sprints :
                  op = [do |-> "saveTask", id |-> u, row |-> [task[u] EXCEPT !.sprint = m]]
          BY <3>3
        <4>2. t = u /\ x = [task[u] EXCEPT !.sprint = m]
          BY <1>2, <4>1
        <4>3. task[u] \in TaskRow /\ (task[u].story # None => task[u].story \in exists)
          BY DEF ShapeInv, TypeOK
        <4>4. x \in TaskRow /\ x.story = task[u].story
          BY <4>2, <4>3 DEF TaskRow
        <4> QED
          BY <2>2, <4>2, <4>3, <4>4
      <3> QED
        BY <3>1, <3>2, <3>3
    <2> QED
      BY <2>1, <2>2
  <1>4. PICK old : old = IF t \in exists THEN task[t] ELSE x
    OBVIOUS
  <1>5. /\ exists' = exists \cup {t} /\ task' = [task EXCEPT ![t] = x]
        /\ UNCHANGED <<onlyClosing, story, closed, begun, seen, unchecked, forgotten>>
        /\ Then(r, Step("calcStory", x.story)
                   \o IfMoved(old.story, x.story, Step("calcStory", old.story))
                   \o Step("calcSprint", x.sprint)
                   \o IfMoved(old.sprint, x.sprint, Step("calcSprint", old.sprint)))
    BY <1>1, <1>2, <1>4 DEF SaveTask
  <1>6. old \in TaskRow
    BY <1>3, <1>4 DEF ShapeInv, TypeOK
  <1>7. PICK a, b, c, d : /\ a = Step("calcStory", x.story)
                          /\ b = IfMoved(old.story, x.story, Step("calcStory", old.story))
                          /\ c = Step("calcSprint", x.sprint)
                          /\ d = IfMoved(old.sprint, x.sprint, Step("calcSprint", old.sprint))
    OBVIOUS
  <1>8. /\ a \in Seq(Calcs) /\ Els(a) = IF x.story = None THEN {} ELSE {calc("calcStory", x.story)}
        /\ c \in Seq(Calcs) /\ Els(c) = IF x.sprint = None THEN {} ELSE {calc("calcSprint", x.sprint)}
    BY <1>3, <1>7, StepType, ElsStep DEF TaskRow, calc
  <1>9. /\ b \in Seq(Calcs)
        /\ Els(b) = IF old.story = x.story \/ old.story = None THEN {}
                    ELSE {calc("calcStory", old.story)}
        /\ d \in Seq(Calcs)
        /\ Els(d) = IF old.sprint = x.sprint \/ old.sprint = None THEN {}
                    ELSE {calc("calcSprint", old.sprint)}
    <2>1. old.story \in Stories \cup {None} /\ old.sprint \in Sprints \cup {None}
      BY <1>6 DEF TaskRow
    <2>2. PICK e, f : e = Step("calcStory", old.story) /\ f = Step("calcSprint", old.sprint)
      OBVIOUS
    <2>3. /\ e \in Seq(Calcs) /\ Els(e) = IF old.story = None THEN {} ELSE {calc("calcStory", old.story)}
          /\ f \in Seq(Calcs) /\ Els(f) = IF old.sprint = None THEN {} ELSE {calc("calcSprint", old.sprint)}
      BY <2>1, <2>2, StepType, ElsStep DEF calc
    <2>4. b = IfMoved(old.story, x.story, e) /\ d = IfMoved(old.sprint, x.sprint, f)
      BY <1>7, <2>2
    <2>5. b \in Seq(Calcs) /\ Els(b) = IF old.story = x.story THEN {} ELSE Els(e)
      BY <2>3, <2>4, ElsNone DEF IfMoved
    <2>6. d \in Seq(Calcs) /\ Els(d) = IF old.sprint = x.sprint THEN {} ELSE Els(f)
      BY <2>3, <2>4, ElsNone DEF IfMoved
    <2> QED
      BY <2>3, <2>5, <2>6
  <1>10. PICK steps : steps = a \o b \o c \o d
    OBVIOUS
  <1>11. steps \in Seq(Calcs) /\ Els(steps) = Els(a) \cup Els(b) \cup Els(c) \cup Els(d)
    <2>1. a \o b \in Seq(Calcs) /\ Els(a \o b) = Els(a) \cup Els(b)
      BY <1>8, <1>9, TwoSteps
    <2>2. a \o b \o c \in Seq(Calcs) /\ Els(a \o b \o c) = Els(a) \cup Els(b) \cup Els(c)
      BY <1>8, <2>1, TwoSteps
    <2> QED
      BY <1>9, <1>10, <2>2, TwoSteps
  <1>12. TypeOK'
    <2>1. task' \in [Tasks -> TaskRow] /\ exists' \subseteq Tasks \cup Stories
      BY <1>3, <1>5 DEF ShapeInv, TypeOK
    <2>2. ASSUME NEW u \in exists' \cap Tasks, task'[u].story # None
          PROVE  /\ task'[u].story \in exists'
                 /\ onlyClosing' => task'[u].sprint = story'[task'[u].story].sprint
      <3>1. CASE u = t
        <4>1. task'[u] = x
          BY <1>3, <1>5, <3>1 DEF ShapeInv, TypeOK
        <4>2. onlyClosing => u \in exists /\ x.story = task[u].story /\ x.sprint = task[u].sprint
          BY <1>3, <3>1
        <4> QED
          BY <1>3, <1>5, <2>2, <4>1, <4>2 DEF ShapeInv, TypeOK
      <3>2. CASE u # t
        <4>1. task'[u] = task[u] /\ u \in exists
          BY <1>3, <1>5, <2>2, <3>2 DEF ShapeInv, TypeOK
        <4> QED
          BY <1>5, <2>2, <4>1 DEF ShapeInv, TypeOK
      <3> QED
        BY <3>1, <3>2
    <2> QED
      BY <1>5, <2>1, <2>2 DEF ShapeInv, TypeOK
  <1>13. onlyClosing => Operations \subseteq Operations'
    <2>1. onlyClosing => exists' = exists /\ \A u \in Tasks :
              task'[u].story = task[u].story /\ task'[u].sprint = task[u].sprint
      BY <1>3, <1>5 DEF ShapeInv, TypeOK
    <2> QED
      BY <1>5, <1>12, <2>1, StillOffered DEF ShapeInv
  <1>14. ~onlyClosing => seen'[r] = Flags'
    BY <1>1, <1>5 DEF ShapeInv, SerialInv, Flags
  <1>15. Starts(r) /\ Steps(r)' = Els(steps)
    <2>1. Then(r, steps)
      BY <1>5, <1>7, <1>10
    <2> QED
      BY <1>1, <1>5, <1>11, <1>12, <1>13, <1>14, <2>1, OperationStep
  <1>16. /\ x.story # None => calc("calcStory", x.story) \in Steps(r)'
         /\ x.sprint # None => calc("calcSprint", x.sprint) \in Steps(r)'
         /\ t \in exists /\ task[t].story # None => calc("calcStory", task[t].story) \in Steps(r)'
         /\ t \in exists /\ task[t].sprint # None => calc("calcSprint", task[t].sprint) \in Steps(r)'
    <2>1. t \in exists => old = task[t]
      BY <1>4
    <2> QED
      BY <1>8, <1>9, <1>11, <1>15, <2>1
  <1>17. \A y \in Steps(r)' : y.do \notin {"calcPrev", "tryClose"}
    BY <1>8, <1>9, <1>11, <1>15 DEF calc
  <1>18. UNCHANGED <<onlyClosing, story, closed, seen, unchecked, forgotten>>
    BY <1>5
  <1> HIDE DEF calc
  <1> QED
    BY <1>3, <1>5, <1>15, <1>16, <1>17, <1>18

\* The sprint of a task follows its story's.
LEMMA MovedTasks ==
    ASSUME TypeOK, NEW s \in Stories, NEW m \in Sprints \cup {None}, task' = WithTasks(s, m)
    PROVE  /\ task' \in [Tasks -> TaskRow]
           /\ \A t \in Tasks : /\ task'[t].story = task[t].story /\ task'[t].done = task[t].done
                               /\ task[t].story = None => task'[t] = task[t]
           /\ onlyClosing /\ m = story[s].sprint => task' = task
  <1>1. task \in [Tasks -> TaskRow] /\ \A t \in Tasks : task[t] \in TaskRow
    BY DEF TypeOK
  <1>2. s # None
    BY IdAssumption
  <1>3. \A x \in TaskRow : /\ [x EXCEPT !.sprint = m] \in TaskRow
                           /\ [x EXCEPT !.sprint = m].story = x.story
                           /\ [x EXCEPT !.sprint = m].done = x.done
                           /\ x.sprint = m => [x EXCEPT !.sprint = m] = x
    BY DEF TaskRow
  <1>4. ASSUME NEW t \in Tasks
        PROVE  task'[t] = IF t \in TasksOf(s) THEN [task[t] EXCEPT !.sprint = m] ELSE task[t]
    BY DEF WithTasks
  <1>5. ASSUME NEW t \in Tasks
        PROVE  /\ task'[t] \in TaskRow /\ task'[t].story = task[t].story
               /\ task'[t].done = task[t].done
               /\ t \notin TasksOf(s) => task'[t] = task[t]
               /\ task[t].sprint = m => task'[t] = task[t]
    BY <1>1, <1>3, <1>4
  <1>6. task' \in [Tasks -> TaskRow]
    BY <1>5 DEF WithTasks
  <1>7. \A t \in Tasks : task[t].story = None => t \notin TasksOf(s)
    BY <1>2 DEF TasksOf
  <1>8. ASSUME onlyClosing, m = story[s].sprint PROVE task' = task
    <2>1. ASSUME NEW t \in TasksOf(s) PROVE task[t].sprint = m
      BY <1>2, <1>8 DEF TasksOf, TypeOK
    <2>2. \A t \in Tasks : task'[t] = task[t]
      BY <1>5, <2>1
    <2> QED
      BY <1>1, <1>6, <2>2
  <1> QED
    BY <1>5, <1>6, <1>7, <1>8

\* A story is saved, or created, with the flag that was stored.
LEMMA SaveStoryDoes ==
    ASSUME ShapeInv, NEW r \in Requests, SaveStory(r)
    PROVE  \E s \in Stories, m \in Sprints \cup {None}, done \in BOOLEAN :
               /\ ~onlyClosing
               /\ exists' = exists \cup {s}
               /\ story' = [story EXCEPT ![s] = [done |-> done, is_closed |-> story[s].is_closed,
                                                 sprint |-> m]]
               /\ task' = WithTasks(s, m)
               /\ UNCHANGED <<onlyClosing, closed, seen, unchecked, forgotten>>
               /\ Starts(r)
               /\ calc("calcStory", s) \in Steps(r)'
               /\ m # None => calc("calcSprint", m) \in Steps(r)'
               /\ story[s].sprint \notin {m, None} => calc("calcPrev", story[s].sprint) \in Steps(r)'
  <1>1. PICK op \in Operations : /\ work[r] = <<op>> /\ op.do = "saveStory"
                                 /\ Head(work[r]) = op /\ Tail(work[r]) = <<>>
    BY Operating DEF SaveStory, OpKinds, ShapeInv
  <1>2. ~onlyClosing
    BY <1>1 DEF Operations, CloseSomething
  <1>3. PICK s, m, done, old : s = op.id /\ m = op.sprint /\ done = op.done /\ old = story[s].sprint
    OBVIOUS
  <1>4. s \in Stories /\ m \in Sprints \cup {None} /\ done \in BOOLEAN
    BY <1>1, <1>2, <1>3 DEF Operations, ChangeSomething
  <1>5. seen[r].stories[s] = story[s].is_closed /\ seen[r] = Flags
    BY <1>1, <1>2, <1>4, LoadedAlone
  <1>6. /\ story' = [story EXCEPT ![s] = [done |-> done, is_closed |-> story[s].is_closed, sprint |-> m]]
        /\ task' = WithTasks(s, m) /\ exists' = exists \cup {s}
        /\ UNCHANGED <<onlyClosing, closed, begun, seen, unchecked, forgotten>>
        /\ Then(r, Step("calcStory", s) \o Step("calcSprint", m)
                   \o IfMoved(old, m, Step("calcPrev", old)))
    BY <1>1, <1>3, <1>5 DEF SaveStory
  <1>7. story[s] \in StoryRow
    BY <1>4 DEF ShapeInv, TypeOK
  <1>8. /\ story' \in [Stories -> StoryRow] /\ story'[s].sprint = m
        /\ story'[s].is_closed = story[s].is_closed
        /\ \A u \in Stories \ {s} : story'[u] = story[u]
    BY <1>4, <1>6, <1>7 DEF ShapeInv, TypeOK, StoryRow
  <1>9. TypeOK'
    <2>1. /\ task' \in [Tasks -> TaskRow]
          /\ \A t \in Tasks : task'[t].story = task[t].story
      BY <1>4, <1>6, MovedTasks DEF ShapeInv
    <2>2. exists' \subseteq Tasks \cup Stories /\ exists' \cap Tasks = exists \cap Tasks
      BY <1>4, <1>6, IdAssumption DEF ShapeInv, TypeOK
    <2>3. \A t \in exists' \cap Tasks : task'[t].story # None => task'[t].story \in exists'
      BY <1>6, <2>1, <2>2 DEF ShapeInv, TypeOK
    <2> QED
      BY <1>2, <1>6, <1>8, <2>1, <2>2, <2>3 DEF ShapeInv, TypeOK
  <1>10. Flags' = Flags
    BY <1>6, <1>8 DEF Flags
  <1>11. PICK a, b, c : /\ a = Step("calcStory", s) /\ b = Step("calcSprint", m)
                        /\ c = IfMoved(old, m, Step("calcPrev", old))
    OBVIOUS
  <1>12. /\ a \in Seq(Calcs) /\ Els(a) = {calc("calcStory", s)}
         /\ b \in Seq(Calcs) /\ Els(b) = IF m = None THEN {} ELSE {calc("calcSprint", m)}
    <2>1. s # None
      BY <1>4, IdAssumption
    <2> QED
      BY <1>4, <1>11, <2>1, StepType, ElsStep DEF calc
  <1>13. c \in Seq(Calcs) /\ Els(c) = IF old \in {m, None} THEN {} ELSE {calc("calcPrev", old)}
    <2>1. old \in Sprints \cup {None}
      BY <1>3, <1>7 DEF StoryRow
    <2>2. PICK d : d = Step("calcPrev", old)
      OBVIOUS
    <2>3. d \in Seq(Calcs) /\ Els(d) = IF old = None THEN {} ELSE {calc("calcPrev", old)}
      BY <2>1, <2>2, StepType, ElsStep DEF calc
    <2> QED
      BY <1>11, <2>2, <2>3, ElsNone DEF IfMoved
  <1>14. PICK steps : steps = a \o b \o c
    OBVIOUS
  <1>15. steps \in Seq(Calcs) /\ Els(steps) = Els(a) \cup Els(b) \cup Els(c)
    <2>1. a \o b \in Seq(Calcs) /\ Els(a \o b) = Els(a) \cup Els(b)
      BY <1>12, TwoSteps
    <2> QED
      BY <1>13, <1>14, <2>1, TwoSteps
  <1>16. Starts(r) /\ Steps(r)' = Els(steps)
    <2>1. Then(r, steps)
      BY <1>6, <1>11, <1>14
    <2>2. seen'[r] = Flags'
      BY <1>5, <1>6, <1>10
    <2> QED
      BY <1>1, <1>2, <1>6, <1>9, <1>15, <2>1, <2>2, OperationStep
  <1>17. /\ calc("calcStory", s) \in Steps(r)'
         /\ m # None => calc("calcSprint", m) \in Steps(r)'
         /\ story[s].sprint \notin {m, None} => calc("calcPrev", story[s].sprint) \in Steps(r)'
    BY <1>3, <1>12, <1>13, <1>15, <1>16
  <1> HIDE DEF calc
  <1> QED
    <2>1. s \in Stories /\ m \in Sprints \cup {None} /\ done \in BOOLEAN
      BY <1>4
    <2>2. UNCHANGED <<onlyClosing, closed, seen, unchecked, forgotten>>
      BY <1>6
    <2> QED
      BY <1>2, <1>6, <1>16, <1>17, <2>1, <2>2

\* A task is deleted.
LEMMA DeleteTaskDoes ==
    ASSUME ShapeInv, NEW r \in Requests, DeleteTask(r)
    PROVE  \E t \in exists \cap Tasks :
               /\ ~onlyClosing
               /\ exists' = exists \ {t}
               /\ UNCHANGED <<onlyClosing, task, story, closed, seen, unchecked, forgotten>>
               /\ Starts(r)
               /\ task[t].story # None => calc("calcStory", task[t].story) \in Steps(r)'
               /\ task[t].sprint # None => calc("tryClose", task[t].sprint) \in Steps(r)'
  <1>1. PICK op \in Operations : /\ work[r] = <<op>> /\ op.do = "deleteTask"
                                 /\ Head(work[r]) = op /\ Tail(work[r]) = <<>>
    BY Operating DEF DeleteTask, OpKinds, ShapeInv
  <1>2. ~onlyClosing
    BY <1>1 DEF Operations, CloseSomething
  <1>3. PICK t : t = op.id
    OBVIOUS
  <1>4. t \in exists \cap Tasks
    BY <1>1, <1>2, <1>3 DEF Operations, ChangeSomething
  <1>5. /\ exists' = exists \ {t}
        /\ UNCHANGED <<onlyClosing, task, story, closed, begun, seen, unchecked, forgotten>>
        /\ Then(r, Step("calcStory", task[t].story) \o Step("tryClose", task[t].sprint))
    BY <1>1, <1>3 DEF DeleteTask
  <1>6. task[t] \in TaskRow
    BY <1>4 DEF ShapeInv, TypeOK
  <1>7. TypeOK'
    <2>1. ASSUME NEW u \in exists' \cap Tasks, task'[u].story # None
          PROVE  task'[u].story \in exists'
      <3>1. task[u].story \in exists /\ task[u] \in TaskRow
        BY <1>5, <2>1 DEF ShapeInv, TypeOK
      <3>2. task[u].story \in Stories
        BY <1>5, <2>1, <3>1 DEF TaskRow
      <3>3. task[u].story # t
        BY <1>4, <3>2, IdAssumption
      <3> QED
        BY <1>5, <3>1, <3>3
    <2> QED
      BY <1>2, <1>5, <2>1 DEF ShapeInv, TypeOK
  <1>8. PICK a, b : a = Step("calcStory", task[t].story) /\ b = Step("tryClose", task[t].sprint)
    OBVIOUS
  <1>9. /\ a \in Seq(Calcs)
        /\ Els(a) = IF task[t].story = None THEN {} ELSE {calc("calcStory", task[t].story)}
        /\ b \in Seq(Calcs)
        /\ Els(b) = IF task[t].sprint = None THEN {} ELSE {calc("tryClose", task[t].sprint)}
    BY <1>6, <1>8, StepType, ElsStep DEF calc, TaskRow
  <1>10. PICK steps : steps = a \o b
    OBVIOUS
  <1>11. steps \in Seq(Calcs) /\ Els(steps) = Els(a) \cup Els(b)
    BY <1>9, <1>10, TwoSteps
  <1>12. Starts(r) /\ Steps(r)' = Els(steps)
    <2>1. Then(r, steps)
      BY <1>5, <1>8, <1>10
    <2>2. seen'[r] = Flags'
      BY <1>1, <1>2, <1>5, LoadedAlone DEF Flags
    <2> QED
      BY <1>1, <1>2, <1>5, <1>7, <1>11, <2>1, <2>2, OperationStep
  <1> QED
    BY <1>2, <1>4, <1>5, <1>9, <1>11, <1>12

\* A story is deleted with its tasks.
LEMMA DeleteStoryDoes ==
    ASSUME ShapeInv, NEW r \in Requests, DeleteStory(r)
    PROVE  \E s \in exists \cap Stories :
               /\ ~onlyClosing
               /\ exists' = exists \ ({s} \cup TasksOf(s))
               /\ \A u \in Stories \ {s} : story'[u] = story[u]
               /\ unchecked' = unchecked \ {s}
               /\ UNCHANGED <<onlyClosing, task, closed, forgotten>>
               /\ Starts(r)
               /\ story[s].sprint # None => calc("tryClose", story[s].sprint) \in Steps(r)'
  <1>1. PICK op \in Operations : /\ work[r] = <<op>> /\ op.do = "deleteStory"
                                 /\ Head(work[r]) = op /\ Tail(work[r]) = <<>>
    BY Operating DEF DeleteStory, OpKinds, ShapeInv
  <1>2. ~onlyClosing
    BY <1>1 DEF Operations, CloseSomething
  <1>3. PICK s : s = op.id
    OBVIOUS
  <1>4. s \in exists \cap Stories
    BY <1>1, <1>2, <1>3 DEF Operations, ChangeSomething
  <1>5. PICK steps : steps = Step("tryClose", story[s].sprint)
    OBVIOUS
  <1>6. /\ exists' = exists \ ({s} \cup TasksOf(s))
        /\ story' = [story EXCEPT ![s] = NewStory]
        /\ seen' = [seen EXCEPT ![r].stories[s] = FALSE]
        /\ unchecked' = unchecked \ {s}
        /\ UNCHANGED <<onlyClosing, task, closed, begun, forgotten>>
        /\ Then(r, steps)
    BY <1>1, <1>3, <1>5 DEF DeleteStory
  <1>7. story[s] \in StoryRow
    BY <1>4 DEF ShapeInv, TypeOK
  <1>8. /\ story' \in [Stories -> StoryRow] /\ story'[s] = NewStory
        /\ \A u \in Stories \ {s} : story'[u] = story[u]
    <2>1. NewStory \in StoryRow
      BY DEF NewStory, StoryRow
    <2> QED
      BY <1>4, <1>6, <2>1 DEF ShapeInv, TypeOK
  <1>9. TypeOK'
    <2>1. ASSUME NEW u \in exists' \cap Tasks, task'[u].story # None
          PROVE  task'[u].story \in exists'
      <3>1. /\ u \in exists \cap Tasks /\ u \notin TasksOf(s) /\ task'[u] = task[u]
            /\ task[u].story \in exists /\ task[u] \in TaskRow
        BY <1>6, <2>1 DEF ShapeInv, TypeOK
      <3>2. task[u].story \in Stories /\ task[u].story # s
        BY <2>1, <3>1 DEF TaskRow, TasksOf
      <3>3. task[u].story \notin TasksOf(s)
        BY <3>2, IdAssumption DEF TasksOf
      <3> QED
        BY <1>6, <3>1, <3>2, <3>3
    <2>2. seen' \in [Requests -> [stories : [Stories -> BOOLEAN], sprints : [Sprints -> BOOLEAN]]]
      BY <1>4, <1>6 DEF ShapeInv, TypeOK
    <2> QED
      BY <1>2, <1>6, <1>8, <2>1, <2>2 DEF ShapeInv, TypeOK
  <1>10. /\ steps \in Seq(Calcs)
         /\ Els(steps) = IF story[s].sprint = None THEN {} ELSE {calc("tryClose", story[s].sprint)}
    BY <1>5, <1>7, StepType, ElsStep DEF calc, StoryRow
  <1>11. Starts(r) /\ Steps(r)' = Els(steps)
    <2>1. seen'[r] = Flags'
      <3>1. seen[r] = Flags
        BY <1>1, <1>2, LoadedAlone
      <3>2. PICK value \in BOOLEAN : value = FALSE
        OBVIOUS
      <3>3. seen'[r] = [seen[r] EXCEPT !.stories[s] = value]
        BY <1>6, <3>2 DEF ShapeInv, TypeOK
      <3>4. Flags' = [stories |-> [u \in Stories |-> IF u = s THEN value ELSE story[u].is_closed],
                      sprints |-> closed]
        BY <1>6, <1>8, <3>2 DEF Flags, NewStory
      <3> QED
        BY <3>1, <3>3, <3>4 DEF Flags
    <2> QED
      BY <1>1, <1>2, <1>6, <1>9, <1>10, <2>1, OperationStep
  <1> QED
    BY <1>2, <1>4, <1>6, <1>8, <1>10, <1>11

LEMMA FlagsType ==
    ASSUME TypeOK
    PROVE  Flags \in [stories : [Stories -> BOOLEAN], sprints : [Sprints -> BOOLEAN]]
  <1>1. \A s \in Stories : story[s].is_closed \in BOOLEAN
    BY DEF TypeOK, StoryRow
  <1> QED
    BY <1>1 DEF Flags, TypeOK

\* A story is dragged on the kanban, and loaded afterwards.
LEMMA DragOnKanbanDoes ==
    ASSUME ShapeInv, NEW r \in Requests, DragOnKanban(r)
    PROVE  \E s \in exists \cap Stories, done \in BOOLEAN :
               /\ story' = [story EXCEPT ![s].done = done]
               /\ seen' = [seen EXCEPT ![r] = Flags]
               /\ UNCHANGED <<onlyClosing, exists, task, closed, unchecked, forgotten>>
               /\ Starts(r) /\ Steps(r)' = {calc("calcStory", s)}
               /\ onlyClosing => done
  <1>1. PICK op \in Operations : /\ work[r] = <<op>> /\ op.do = "kanban"
                                 /\ Head(work[r]) = op /\ Tail(work[r]) = <<>>
    BY Operating DEF DragOnKanban, OpKinds, ShapeInv
  <1>2. PICK s, done : s = op.id /\ done = op.done
    OBVIOUS
  <1>3. s \in exists \cap Stories /\ done \in BOOLEAN /\ (onlyClosing => done)
    <2>1. CASE onlyClosing
      <3>1. op \in {[do |-> "kanban", id |-> u, done |-> TRUE] : u \in exists \cap Stories}
        <4>1. op \in CloseSomething
          BY <2>1 DEF Operations
        <4>2. ~\E t \in exists \cap Tasks :
                  op = [do |-> "saveTask", id |-> t, row |-> [task[t] EXCEPT !.done = TRUE]]
          BY <1>1
        <4> QED
          BY <4>1, <4>2 DEF CloseSomething
      <3>2. PICK u \in exists \cap Stories : op = [do |-> "kanban", id |-> u, done |-> TRUE]
        BY <3>1
      <3> QED
        BY <1>2, <3>2
    <2>2. CASE ~onlyClosing
      BY <1>1, <1>2, <2>2 DEF Operations, ChangeSomething
    <2> QED
      BY <2>1, <2>2
  <1>4. PICK steps : steps = Step("calcStory", s)
    OBVIOUS
  <1>5. /\ story' = [story EXCEPT ![s].done = done]
        /\ seen' = [seen EXCEPT ![r] = Flags]
        /\ UNCHANGED <<onlyClosing, exists, task, closed, begun, unchecked, forgotten>>
        /\ Then(r, steps)
    BY <1>1, <1>2, <1>4 DEF DragOnKanban
  <1>6. /\ story' \in [Stories -> StoryRow]
        /\ \A u \in Stories : story'[u].sprint = story[u].sprint
                              /\ story'[u].is_closed = story[u].is_closed
    <2>1. story[s] \in StoryRow
      BY <1>3 DEF ShapeInv, TypeOK
    <2>2. [story[s] EXCEPT !.done = done] \in StoryRow
      BY <1>3, <2>1 DEF StoryRow
    <2> QED
      BY <1>3, <1>5, <2>1, <2>2 DEF ShapeInv, TypeOK, StoryRow
  <1>7. TypeOK'
    <2>1. seen' \in [Requests -> [stories : [Stories -> BOOLEAN], sprints : [Sprints -> BOOLEAN]]]
      BY <1>5, FlagsType DEF ShapeInv, TypeOK
    <2>2. ASSUME NEW t \in exists' \cap Tasks, task'[t].story # None
          PROVE  /\ task'[t].story \in exists'
                 /\ onlyClosing' => task'[t].sprint = story'[task'[t].story].sprint
      <3>1. /\ task[t].story \in exists
            /\ onlyClosing => task[t].sprint = story[task[t].story].sprint
            /\ task[t].story \in Stories
        BY <1>5, <2>2 DEF ShapeInv, TypeOK, TaskRow
      <3> QED
        BY <1>5, <1>6, <3>1
    <2> QED
      BY <1>5, <1>6, <2>1, <2>2 DEF ShapeInv, TypeOK
  <1>8. steps \in Seq(Calcs) /\ Els(steps) = {calc("calcStory", s)}
    BY <1>3, <1>4, IdAssumption, StepType, ElsStep DEF calc
  <1>9. Starts(r) /\ Steps(r)' = Els(steps)
    <2>1. onlyClosing => Operations \subseteq Operations'
      BY <1>5, <1>7, StillOffered DEF ShapeInv
    <2>2. seen'[r] = Flags'
      <3>1. seen'[r] = Flags
        BY <1>5 DEF ShapeInv, TypeOK
      <3>2. Flags' = Flags
        BY <1>5, <1>6 DEF Flags
      <3> QED
        BY <3>1, <3>2
    <2> QED
      BY <1>1, <1>5, <1>7, <1>8, <2>1, <2>2, OperationStep
  <1>10. Steps(r)' = {calc("calcStory", s)}
    BY <1>8, <1>9
  <1>11. UNCHANGED <<onlyClosing, exists, task, closed, unchecked, forgotten>>
    BY <1>5
  <1> QED
    BY <1>3, <1>5, <1>9, <1>10, <1>11

\* What moving a story to another sprint does to the rows.
LEMMA MovedStory ==
    ASSUME ShapeInv, ~onlyClosing, NEW s \in exists \cap Stories, NEW m \in Sprints \cup {None},
           story' = [story EXCEPT ![s].sprint = m], task' = WithTasks(s, m),
           unchecked' \subseteq Stories \cup Sprints,
           UNCHANGED <<onlyClosing, exists, closed, begun, seen, forgotten>>
    PROVE  TypeOK' /\ Flags' = Flags
  <1>1. story[s] \in StoryRow
    BY DEF ShapeInv, TypeOK
  <1>2. /\ story' \in [Stories -> StoryRow]
        /\ story'[s].is_closed = story[s].is_closed
        /\ \A u \in Stories \ {s} : story'[u] = story[u]
    <2>1. [story[s] EXCEPT !.sprint = m] \in StoryRow
      BY <1>1 DEF StoryRow
    <2> QED
      BY <1>1, <2>1 DEF ShapeInv, TypeOK, StoryRow
  <1>3. /\ task' \in [Tasks -> TaskRow]
        /\ \A t \in Tasks : task'[t].story = task[t].story
    BY MovedTasks DEF ShapeInv
  <1>4. \A t \in exists' \cap Tasks : task'[t].story # None => task'[t].story \in exists'
    BY <1>3 DEF ShapeInv, TypeOK
  <1> QED
    BY <1>2, <1>3, <1>4 DEF ShapeInv, TypeOK, Flags

\* A story is dragged between the backlog and a sprint.
LEMMA DragOnBacklogDoes ==
    ASSUME ShapeInv, NEW r \in Requests, DragOnBacklog(r)
    PROVE  \E s \in exists \cap Stories, m \in Sprints \cup {None} :
               /\ ~onlyClosing
               /\ story' = [story EXCEPT ![s].sprint = m] /\ task' = WithTasks(s, m)
               /\ UNCHANGED <<onlyClosing, exists, closed, seen, unchecked, forgotten>>
               /\ Starts(r)
               /\ m # None => calc("calcSprint", m) \in Steps(r)'
               /\ story[s].sprint # None => calc("calcSprint", story[s].sprint) \in Steps(r)'
  <1>1. PICK op \in Operations : /\ work[r] = <<op>> /\ op.do = "backlog"
                                 /\ Head(work[r]) = op /\ Tail(work[r]) = <<>>
    BY Operating DEF DragOnBacklog, OpKinds, ShapeInv
  <1>2. ~onlyClosing
    BY <1>1 DEF Operations, CloseSomething
  <1>3. PICK s, m, old : s = op.id /\ m = op.sprint /\ old = story[s].sprint
    OBVIOUS
  <1>4. s \in exists \cap Stories /\ m \in Sprints \cup {None}
    BY <1>1, <1>2, <1>3 DEF Operations, ChangeSomething
  <1>5. PICK a, b : /\ a = Step("calcSprint", old)
                    /\ b = IfMoved(old, m, Step("calcSprint", m))
    OBVIOUS
  <1>6. PICK steps : steps = a \o b
    OBVIOUS
  <1>7. /\ story' = [story EXCEPT ![s].sprint = m] /\ task' = WithTasks(s, m)
        /\ UNCHANGED <<onlyClosing, exists, closed, begun, seen, unchecked, forgotten>>
        /\ Then(r, steps)
    BY <1>1, <1>3, <1>5, <1>6 DEF DragOnBacklog
  <1>8. TypeOK' /\ Flags' = Flags
    <2>1. unchecked' \subseteq Stories \cup Sprints
      BY <1>7 DEF ShapeInv, TypeOK
    <2> QED
      BY <1>2, <1>4, <1>7, <2>1, MovedStory
  <1>9. old \in Sprints \cup {None}
    BY <1>3, <1>4 DEF ShapeInv, TypeOK, StoryRow
  <1>10. a \in Seq(Calcs) /\ Els(a) = IF old = None THEN {} ELSE {calc("calcSprint", old)}
    BY <1>5, <1>9, StepType, ElsStep DEF calc
  <1>11. b \in Seq(Calcs) /\ Els(b) = IF m \in {old, None} THEN {} ELSE {calc("calcSprint", m)}
    <2>1. PICK d : d = Step("calcSprint", m)
      OBVIOUS
    <2>2. d \in Seq(Calcs) /\ Els(d) = IF m = None THEN {} ELSE {calc("calcSprint", m)}
      BY <1>4, <2>1, StepType, ElsStep DEF calc
    <2> QED
      BY <1>5, <2>1, <2>2, ElsNone DEF IfMoved
  <1>12. steps \in Seq(Calcs) /\ Els(steps) = Els(a) \cup Els(b)
    BY <1>6, <1>10, <1>11, TwoSteps
  <1>13. Starts(r) /\ Steps(r)' = Els(steps)
    <2>1. seen'[r] = Flags'
      BY <1>1, <1>2, <1>7, <1>8, LoadedAlone
    <2> QED
      BY <1>1, <1>2, <1>7, <1>8, <1>12, <2>1, OperationStep
  <1>14. /\ m # None => calc("calcSprint", m) \in Steps(r)'
         /\ story[s].sprint # None => calc("calcSprint", story[s].sprint) \in Steps(r)'
    BY <1>3, <1>10, <1>11, <1>12, <1>13
  <1>15. UNCHANGED <<onlyClosing, exists, closed, seen, unchecked, forgotten>>
    BY <1>7
  <1> QED
    BY <1>2, <1>4, <1>7, <1>13, <1>14, <1>15

\* Stories are moved to a sprint in bulk, and nothing is recomputed.
LEMMA MoveInBulkDoes ==
    ASSUME ShapeInv, NEW r \in Requests, MoveInBulk(r)
    PROVE  \E s \in exists \cap Stories, m \in Sprints :
               /\ ~onlyClosing
               /\ story' = [story EXCEPT ![s].sprint = m] /\ task' = WithTasks(s, m)
               /\ unchecked' = unchecked \cup ({story[s].sprint, m} \ {None})
               /\ UNCHANGED <<onlyClosing, exists, closed, seen, forgotten>>
               /\ Starts(r)
  <1>1. PICK op \in Operations : /\ work[r] = <<op>> /\ op.do = "bulk"
                                 /\ Head(work[r]) = op /\ Tail(work[r]) = <<>>
    BY Operating DEF MoveInBulk, OpKinds, ShapeInv
  <1>2. ~onlyClosing
    BY <1>1 DEF Operations, CloseSomething
  <1>3. PICK s, m : s = op.id /\ m = op.sprint
    OBVIOUS
  <1>4. s \in exists \cap Stories /\ m \in Sprints
    BY <1>1, <1>2, <1>3 DEF Operations, ChangeSomething
  <1>5. PICK steps : steps = <<>>
    OBVIOUS
  <1>6. /\ story' = [story EXCEPT ![s].sprint = m] /\ task' = WithTasks(s, m)
        /\ unchecked' = unchecked \cup ({story[s].sprint, m} \ {None})
        /\ UNCHANGED <<onlyClosing, exists, closed, begun, seen, forgotten>>
        /\ Then(r, steps)
    BY <1>1, <1>3, <1>5 DEF MoveInBulk, Excuse
  <1>7. TypeOK' /\ Flags' = Flags
    <2>1. story[s].sprint \in Sprints \cup {None}
      BY <1>4 DEF ShapeInv, TypeOK, StoryRow
    <2>2. unchecked' \subseteq Stories \cup Sprints
      BY <1>4, <1>6, <2>1 DEF ShapeInv, TypeOK
    <2>3. UNCHANGED <<onlyClosing, exists, closed, begun, seen, forgotten>>
      BY <1>6
    <2> QED
      BY <1>2, <1>4, <1>6, <2>2, <2>3, MovedStory
  <1>8. steps \in Seq(Calcs)
    BY <1>5, ElsNone
  <1>9. Starts(r)
    <2>1. seen'[r] = Flags'
      BY <1>1, <1>2, <1>6, <1>7, LoadedAlone
    <2> QED
      BY <1>1, <1>2, <1>6, <1>7, <1>8, <2>1, OperationStep
  <1>10. UNCHANGED <<onlyClosing, exists, closed, seen, forgotten>>
    BY <1>6
  <1> QED
    BY <1>2, <1>4, <1>6, <1>9, <1>10

\* A task is moved to a sprint in bulk, and nothing is recomputed.
LEMMA MoveTasksInBulkDoes ==
    ASSUME ShapeInv, NEW r \in Requests, MoveTasksInBulk(r)
    PROVE  \E t \in exists \cap Tasks, m \in Sprints :
               /\ ~onlyClosing
               /\ task' = [task EXCEPT ![t].sprint = m]
               /\ unchecked \subseteq unchecked'
               /\ task[t].story = None => {task[t].sprint, m} \ {None} \subseteq unchecked'
               /\ UNCHANGED <<onlyClosing, exists, story, closed, forgotten>>
               /\ Starts(r)
  <1>1. PICK op \in Operations : /\ work[r] = <<op>> /\ op.do = "bulkTasks"
                                 /\ Head(work[r]) = op /\ Tail(work[r]) = <<>>
    BY Operating DEF MoveTasksInBulk, OpKinds, ShapeInv
  <1>2. ~onlyClosing
    BY <1>1 DEF Operations, CloseSomething
  <1>3. PICK t, m : t = op.id /\ m = op.sprint
    OBVIOUS
  <1>4. t \in exists \cap Tasks /\ m \in Sprints
    BY <1>1, <1>2, <1>3 DEF Operations, ChangeSomething
  <1>5. PICK steps : steps = <<>>
    OBVIOUS
  <1>6. /\ task' = [task EXCEPT ![t].sprint = m]
        /\ unchecked' = unchecked \cup
               ((IF task[t].story = None THEN {task[t].sprint, m} ELSE {}) \ {None})
        /\ UNCHANGED <<onlyClosing, exists, story, closed, begun, seen, forgotten>>
        /\ Then(r, steps)
    BY <1>1, <1>3, <1>5 DEF MoveTasksInBulk, Excuse
  <1>7. task[t] \in TaskRow
    BY <1>4 DEF ShapeInv, TypeOK
  <1>8. TypeOK' /\ Flags' = Flags
    <2>1. [task[t] EXCEPT !.sprint = m] \in TaskRow /\ [task[t] EXCEPT !.sprint = m].story = task[t].story
      BY <1>4, <1>7 DEF TaskRow
    <2>2. task' \in [Tasks -> TaskRow] /\ \A u \in Tasks : task'[u].story = task[u].story
      BY <1>4, <1>6, <2>1 DEF ShapeInv, TypeOK
    <2>3. \A u \in exists' \cap Tasks : task'[u].story # None => task'[u].story \in exists'
      BY <1>6, <2>2 DEF ShapeInv, TypeOK
    <2>4. unchecked' \subseteq Stories \cup Sprints
      BY <1>4, <1>6, <1>7 DEF ShapeInv, TypeOK, TaskRow
    <2> QED
      BY <1>2, <1>6, <2>2, <2>3, <2>4 DEF ShapeInv, TypeOK, Flags
  <1>9. steps \in Seq(Calcs)
    BY <1>5, ElsNone
  <1>10. Starts(r)
    <2>1. seen'[r] = Flags'
      BY <1>1, <1>2, <1>6, <1>8, LoadedAlone
    <2> QED
      BY <1>1, <1>2, <1>6, <1>8, <1>9, <2>1, OperationStep
  <1>11. /\ unchecked \subseteq unchecked'
         /\ task[t].story = None => {task[t].sprint, m} \ {None} \subseteq unchecked'
    BY <1>6
  <1>12. UNCHANGED <<onlyClosing, exists, story, closed, forgotten>>
    BY <1>6
  <1> QED
    BY <1>2, <1>4, <1>6, <1>10, <1>11, <1>12

\* A story is created in bulk, and nothing is computed.
LEMMA CreateInBulkDoes ==
    ASSUME ShapeInv, NEW r \in Requests, CreateInBulk(r)
    PROVE  \E s \in Stories \ exists, done \in BOOLEAN :
               /\ ~onlyClosing
               /\ exists' = exists \cup {s}
               /\ story'[s] = [NewStory EXCEPT !.done = done]
               /\ \A u \in Stories \ {s} : story'[u] = story[u]
               /\ unchecked \subseteq unchecked'
               /\ done => s \in unchecked'
               /\ UNCHANGED <<onlyClosing, task, closed, forgotten>>
               /\ Starts(r)
  <1>1. PICK op \in Operations : /\ work[r] = <<op>> /\ op.do = "createBulk"
                                 /\ Head(work[r]) = op /\ Tail(work[r]) = <<>>
    BY Operating DEF CreateInBulk, OpKinds, ShapeInv
  <1>2. ~onlyClosing
    BY <1>1 DEF Operations, CloseSomething
  <1>3. PICK s, done : s = op.id /\ done = op.done
    OBVIOUS
  <1>4. s \in Stories \ exists /\ done \in BOOLEAN
    BY <1>1, <1>2, <1>3 DEF Operations, ChangeSomething
  <1>5. PICK steps : steps = <<>>
    OBVIOUS
  <1>6. /\ story' = [story EXCEPT ![s] = [NewStory EXCEPT !.done = done]]
        /\ exists' = exists \cup {s}
        /\ unchecked' = unchecked \cup ((IF done THEN {s} ELSE {}) \ {None})
        /\ UNCHANGED <<onlyClosing, task, closed, begun, seen, forgotten>>
        /\ Then(r, steps)
    BY <1>1, <1>3, <1>5 DEF CreateInBulk, Excuse
  <1>7. /\ story' \in [Stories -> StoryRow] /\ story'[s] = [NewStory EXCEPT !.done = done]
        /\ \A u \in Stories \ {s} : story'[u] = story[u]
    <2>1. [NewStory EXCEPT !.done = done] \in StoryRow
      BY <1>4 DEF NewStory, StoryRow
    <2> QED
      BY <1>4, <1>6, <2>1 DEF ShapeInv, TypeOK
  <1>8. TypeOK'
    <2>1. exists' \subseteq Tasks \cup Stories /\ exists' \cap Tasks = exists \cap Tasks
      BY <1>4, <1>6, IdAssumption DEF ShapeInv, TypeOK
    <2>2. \A t \in exists' \cap Tasks : task'[t].story # None => task'[t].story \in exists'
      BY <1>6, <2>1 DEF ShapeInv, TypeOK
    <2>3. unchecked' \subseteq Stories \cup Sprints
      BY <1>4, <1>6 DEF ShapeInv, TypeOK
    <2> QED
      BY <1>2, <1>6, <1>7, <2>1, <2>2, <2>3 DEF ShapeInv, TypeOK
  <1>9. steps \in Seq(Calcs) /\ Els(steps) = {}
    BY <1>5, ElsNone
  <1>10. Starts(r)
    BY <1>1, <1>2, <1>5, <1>6, <1>8, <1>9, OperationStep
  <1>11. unchecked \subseteq unchecked' /\ (done => s \in unchecked')
    BY <1>4, <1>6, IdAssumption
  <1>12. UNCHANGED <<onlyClosing, task, closed, forgotten>>
    BY <1>6
  <1> QED
    BY <1>2, <1>4, <1>6, <1>7, <1>10, <1>11, <1>12

\* Some items get another status.
Restatused(X, done) ==
    /\ \A t \in Tasks : /\ task'[t].story = task[t].story /\ task'[t].sprint = task[t].sprint
                        /\ task'[t].done = task[t].done \/ (t \in X /\ task[t].done # done)
    /\ \A s \in Stories : /\ story'[s].sprint = story[s].sprint
                          /\ story'[s].is_closed = story[s].is_closed
                          /\ story'[s].done = story[s].done \/ (s \in X /\ story[s].done # done)

LEMMA StatusGiven ==
    ASSUME ShapeInv, ~onlyClosing, NEW X \in SUBSET exists, NEW done \in BOOLEAN,
           task' \in {task, WithDone(task, X, done)}, story' \in {story, WithDone(story, X, done)},
           unchecked' \subseteq Stories \cup Sprints,
           UNCHANGED <<onlyClosing, exists, closed, begun, seen, forgotten>>
    PROVE  TypeOK' /\ Flags' = Flags /\ Restatused(X, done)
  <1>1. /\ task \in [Tasks -> TaskRow] /\ \A t \in Tasks : task[t] \in TaskRow
        /\ story \in [Stories -> StoryRow] /\ \A u \in Stories : story[u] \in StoryRow
        /\ DOMAIN task = Tasks /\ DOMAIN story = Stories
    BY DEF ShapeInv, TypeOK
  <1>2. \A x \in TaskRow : /\ [x EXCEPT !.done = done] \in TaskRow
                           /\ [x EXCEPT !.done = done].story = x.story
                           /\ [x EXCEPT !.done = done].sprint = x.sprint
                           /\ [x EXCEPT !.done = done].done = done
    BY DEF TaskRow
  <1>3. \A x \in StoryRow : /\ [x EXCEPT !.done = done] \in StoryRow
                            /\ [x EXCEPT !.done = done].is_closed = x.is_closed
                            /\ [x EXCEPT !.done = done].sprint = x.sprint
                            /\ [x EXCEPT !.done = done].done = done
    BY DEF StoryRow
  <1>4. ASSUME NEW t \in Tasks
        PROVE  /\ task'[t] \in TaskRow
               /\ task'[t].story = task[t].story /\ task'[t].sprint = task[t].sprint
               /\ task'[t].done = task[t].done \/ (t \in X /\ task[t].done # done)
    <2>1. CASE task'[t] = task[t]
      BY <1>1, <2>1
    <2>2. CASE task' = WithDone(task, X, done) /\ t \in X
      <3>1. task'[t] = [task[t] EXCEPT !.done = done]
        BY <1>1, <2>2 DEF WithDone
      <3> QED
        BY <1>1, <1>2, <2>2, <3>1
    <2>3. CASE task' = WithDone(task, X, done) /\ t \notin X
      BY <1>1, <2>3 DEF WithDone
    <2> QED
      BY <2>1, <2>2, <2>3
  <1>5. ASSUME NEW u \in Stories
        PROVE  /\ story'[u] \in StoryRow
               /\ story'[u].sprint = story[u].sprint /\ story'[u].is_closed = story[u].is_closed
               /\ story'[u].done = story[u].done \/ (u \in X /\ story[u].done # done)
               /\ u \notin X => story'[u] = story[u]
    <2>1. CASE story'[u] = story[u]
      BY <1>1, <2>1
    <2>2. CASE story' = WithDone(story, X, done) /\ u \in X
      <3>1. story'[u] = [story[u] EXCEPT !.done = done]
        BY <1>1, <2>2 DEF WithDone
      <3> QED
        BY <1>1, <1>3, <2>2, <3>1
    <2>3. CASE story' = WithDone(story, X, done) /\ u \notin X
      BY <1>1, <2>3 DEF WithDone
    <2> QED
      BY <2>1, <2>2, <2>3
  <1>6. task' \in [Tasks -> TaskRow] /\ story' \in [Stories -> StoryRow]
    <2>1. task' = [t \in Tasks |-> task'[t]] /\ story' = [u \in Stories |-> story'[u]]
      BY <1>1 DEF WithDone
    <2> QED
      BY <1>4, <1>5, <2>1
  <1>7. \A t \in exists' \cap Tasks : task'[t].story # None => task'[t].story \in exists'
    BY <1>4 DEF ShapeInv, TypeOK
  <1>8. TypeOK'
    BY <1>6, <1>7 DEF ShapeInv, TypeOK
  <1>9. Flags' = Flags
    BY <1>5 DEF Flags
  <1>10. Restatused(X, done)
    BY <1>4, <1>5 DEF Restatused
  <1> QED
    BY <1>8, <1>9, <1>10

\* Stories are computed one after the other.
LEMMA ThenStoriesDoes ==
    ASSUME NEW r \in Requests, NEW S \in SUBSET Stories, ThenStories(r, S)
    PROVE  \E steps \in Seq(Calcs) :
               Then(r, steps) /\ \A s \in S : calc("calcStory", s) \in Els(steps)
  <1>1. PICK n : n = Cardinality(S)
    OBVIOUS
  <1>2. PICK q \in [1..n -> S] :
            /\ \A s \in S : \E i \in DOMAIN q : q[i] = s
            /\ Then(r, [i \in DOMAIN q |-> [do |-> "calcStory", id |-> q[i]]])
    BY <1>1 DEF ThenStories
  <1>3. PICK steps : steps = [i \in 1..n |-> calc("calcStory", q[i])]
    OBVIOUS
  <1>4. Then(r, steps)
    <2>1. DOMAIN q = 1..n
      OBVIOUS
    <2> QED
      BY <1>2, <1>3, <2>1 DEF calc
  <1>5. n \in Nat
    <2>1. IsFiniteSet(S)
      BY StoriesAssumption, FS_Subset
    <2> QED
      BY <1>1, <2>1, FS_CardinalityType
  <1>6. steps \in Seq(Calcs) /\ DOMAIN steps = 1..n
    <2>1. \A i \in 1..n : calc("calcStory", q[i]) \in Calcs
      BY DEF calc, Calcs
    <2> QED
      BY <1>3, <1>5, <2>1
  <1>7. ASSUME NEW s \in S PROVE calc("calcStory", s) \in Els(steps)
    <2>1. PICK i \in 1..n : q[i] = s
      BY <1>2
    <2>2. steps[i] = calc("calcStory", s)
      BY <1>3, <2>1
    <2> QED
      BY <1>6, <2>2 DEF Els
  <1> QED
    BY <1>4, <1>6, <1>7

\* Statuses change, and what they count for is computed or excused.
StatusesChange(r) ==
    /\ ~onlyClosing /\ Starts(r)
    /\ UNCHANGED <<onlyClosing, exists, closed, forgotten>> /\ unchecked \subseteq unchecked'
    /\ \A t \in Tasks : task'[t].story = task[t].story /\ task'[t].sprint = task[t].sprint
    /\ \A s \in Stories : story'[s].sprint = story[s].sprint /\ story'[s].is_closed = story[s].is_closed
    /\ \A t \in exists \cap Tasks :
           \/ task'[t].done = task[t].done
           \/ task[t].story = None /\ task[t].sprint \in unchecked' \cup {None}
           \/ /\ task[t].story # None
              /\ task[t].story \in unchecked' \/ calc("calcStory", task[t].story) \in Steps(r)'
    /\ \A s \in exists \cap Stories :
           \/ story'[s].done = story[s].done
           \/ s \in unchecked' \/ calc("calcStory", s) \in Steps(r)'

\* A task status is edited.
LEMMA EditTaskStatusDoes ==
    ASSUME ShapeInv, NEW r \in Requests, EditTaskStatus(r)
    PROVE  StatusesChange(r)
  <1>1. PICK op \in Operations : /\ work[r] = <<op>> /\ op.do = "taskStatus"
                                 /\ Head(work[r]) = op /\ Tail(work[r]) = <<>>
    BY Operating DEF EditTaskStatus, OpKinds, ShapeInv
  <1>2. ~onlyClosing
    BY <1>1 DEF Operations, CloseSomething
  <1>3. PICK X, done : X = op.items /\ done = op.done
    OBVIOUS
  <1>4. X \in SUBSET (exists \cap Tasks) /\ done \in BOOLEAN
    <2>1. op \in [do : {"taskStatus"}, items : OfOneStatus(task), done : BOOLEAN]
      BY <1>1, <1>2 DEF Operations, ChangeSomething
    <2>2. DOMAIN task = Tasks
      BY DEF ShapeInv, TypeOK
    <2> QED
      BY <1>3, <2>1, <2>2 DEF OfOneStatus
  <1>5. PICK touched : touched = {task[t].story : t \in X} \ {None}
    OBVIOUS
  <1>6. PICK lost : lost = {task[t].sprint : t \in {u \in {t \in X : task[t].done # done} : task[u].story = None}}
    OBVIOUS
  <1>7. /\ task' = WithDone(task, X, done)
        /\ ThenStories(r, touched)
        /\ unchecked' = unchecked \cup (lost \ {None})
        /\ UNCHANGED <<onlyClosing, exists, story, closed, begun, seen, forgotten>>
    BY <1>1, <1>3, <1>5, <1>6 DEF EditTaskStatus, Excuse
  <1>8. touched \subseteq Stories /\ lost \subseteq Sprints \cup {None}
    <2>1. \A t \in Tasks : task[t] \in TaskRow
      BY DEF ShapeInv, TypeOK
    <2> QED
      BY <1>4, <1>5, <1>6, <2>1 DEF TaskRow
  <1>9. PICK steps \in Seq(Calcs) :
            Then(r, steps) /\ \A s \in touched : calc("calcStory", s) \in Els(steps)
    BY <1>7, <1>8, ThenStoriesDoes
  <1>10. TypeOK' /\ Flags' = Flags /\ Restatused(X, done)
    <2>1. unchecked' \subseteq Stories \cup Sprints
      BY <1>7, <1>8 DEF ShapeInv, TypeOK
    <2> QED
      BY <1>2, <1>4, <1>7, <2>1, StatusGiven
  <1>11. Starts(r) /\ Steps(r)' = Els(steps)
    <2>1. seen'[r] = Flags'
      BY <1>1, <1>2, <1>7, <1>10, LoadedAlone
    <2>2. onlyClosing' = onlyClosing /\ begun' = begun
      BY <1>7
    <2> QED
      BY <1>1, <1>2, <1>9, <1>10, <2>1, <2>2, OperationStep
  <1>12. ASSUME NEW t \in exists \cap Tasks, task'[t].done # task[t].done
         PROVE  \/ task[t].story = None /\ task[t].sprint \in unchecked' \cup {None}
                \/ task[t].story # None /\ calc("calcStory", task[t].story) \in Steps(r)'
    <2>1. t \in X /\ task[t].done # done
      BY <1>10, <1>12 DEF Restatused
    <2>2. task[t].story # None => task[t].story \in touched
      BY <1>5, <2>1
    <2>3. task[t].story = None => task[t].sprint \in lost
      BY <1>6, <2>1
    <2> QED
      BY <1>7, <1>9, <1>11, <2>2, <2>3
  <1>13. UNCHANGED <<onlyClosing, exists, closed, forgotten, story>> /\ unchecked \subseteq unchecked'
    BY <1>7
  <1> QED
    BY <1>2, <1>10, <1>11, <1>12, <1>13 DEF StatusesChange, Restatused

\* A story status is edited.
LEMMA EditStoryStatusDoes ==
    ASSUME ShapeInv, NEW r \in Requests, EditStoryStatus(r)
    PROVE  StatusesChange(r)
  <1>1. PICK op \in Operations : /\ work[r] = <<op>> /\ op.do = "storyStatus"
                                 /\ Head(work[r]) = op /\ Tail(work[r]) = <<>>
    BY Operating DEF EditStoryStatus, OpKinds, ShapeInv
  <1>2. ~onlyClosing
    BY <1>1 DEF Operations, CloseSomething
  <1>3. PICK X, done : X = op.items /\ done = op.done
    OBVIOUS
  <1>4. X \in SUBSET (exists \cap Stories) /\ done \in BOOLEAN
    <2>1. op \in [do : {"storyStatus"}, items : OfOneStatus(story), done : BOOLEAN]
      BY <1>1, <1>2 DEF Operations, ChangeSomething
    <2>2. DOMAIN story = Stories
      BY DEF ShapeInv, TypeOK
    <2> QED
      BY <1>3, <2>1, <2>2 DEF OfOneStatus
  <1>5. /\ story' = WithDone(story, X, done)
        /\ ThenStories(r, X)
        /\ UNCHANGED <<onlyClosing, exists, task, closed, begun, seen, unchecked, forgotten>>
    BY <1>1, <1>3 DEF EditStoryStatus
  <1>6. PICK steps \in Seq(Calcs) :
            Then(r, steps) /\ \A s \in X : calc("calcStory", s) \in Els(steps)
    BY <1>4, <1>5, ThenStoriesDoes
  <1>7. TypeOK' /\ Flags' = Flags /\ Restatused(X, done)
    <2>1. unchecked' \subseteq Stories \cup Sprints
      BY <1>5 DEF ShapeInv, TypeOK
    <2> QED
      BY <1>2, <1>4, <1>5, <2>1, StatusGiven
  <1>8. Starts(r) /\ Steps(r)' = Els(steps)
    <2>1. seen'[r] = Flags'
      BY <1>1, <1>2, <1>5, <1>7, LoadedAlone
    <2>2. onlyClosing' = onlyClosing /\ begun' = begun
      BY <1>5
    <2> QED
      BY <1>1, <1>2, <1>6, <1>7, <2>1, <2>2, OperationStep
  <1>9. \A s \in Stories : story'[s].done = story[s].done \/ calc("calcStory", s) \in Steps(r)'
    BY <1>6, <1>7, <1>8 DEF Restatused
  <1>10. UNCHANGED <<onlyClosing, exists, closed, forgotten, task>> /\ unchecked \subseteq unchecked'
    BY <1>5
  <1> QED
    BY <1>2, <1>7, <1>8, <1>9, <1>10 DEF StatusesChange, Restatused

\* A status is deleted.
LEMMA DeleteStatusDoes ==
    ASSUME ShapeInv, NEW r \in Requests, DeleteStatus(r)
    PROVE  StatusesChange(r)
  <1>1. PICK op \in Operations : /\ work[r] = <<op>> /\ op.do = "deleteStatus"
                                 /\ Head(work[r]) = op /\ Tail(work[r]) = <<>>
    BY Operating DEF DeleteStatus, OpKinds, ShapeInv
  <1>2. ~onlyClosing
    BY <1>1 DEF Operations, CloseSomething
  <1>3. PICK X, done, steps : X = op.items /\ done = op.done /\ steps = <<>>
    OBVIOUS
  <1>4. X \in SUBSET exists /\ done \in BOOLEAN
    <2>1. op \in [do : {"deleteStatus"}, items : OfOneStatus(task) \cup OfOneStatus(story),
                  done : BOOLEAN]
      BY <1>1, <1>2 DEF Operations, ChangeSomething
    <2> QED
      BY <1>3, <2>1 DEF OfOneStatus
  <1>5. PICK lost : lost = {IF task[t].story = None THEN task[t].sprint ELSE task[t].story
                               : t \in {t \in X \cap Tasks : task[t].done # done}}
    OBVIOUS
  <1>6. PICK stories : stories = {s \in X \cap Stories : story[s].done # done}
    OBVIOUS
  <1>7. /\ task' = WithDone(task, X, done) /\ story' = WithDone(story, X, done)
        /\ Then(r, steps)
        /\ unchecked' = unchecked \cup ((stories \cup lost) \ {None})
        /\ UNCHANGED <<onlyClosing, exists, closed, begun, seen, forgotten>>
    BY <1>1, <1>3, <1>5, <1>6 DEF DeleteStatus, Excuse
  <1>8. lost \subseteq Stories \cup Sprints \cup {None}
    <2>1. \A t \in Tasks : task[t] \in TaskRow
      BY DEF ShapeInv, TypeOK
    <2> QED
      BY <1>5, <2>1 DEF TaskRow
  <1>9. TypeOK' /\ Flags' = Flags /\ Restatused(X, done)
    <2>1. unchecked' \subseteq Stories \cup Sprints
      BY <1>6, <1>7, <1>8 DEF ShapeInv, TypeOK
    <2> QED
      BY <1>2, <1>4, <1>7, <2>1, StatusGiven
  <1>10. steps \in Seq(Calcs)
    BY <1>3, ElsNone
  <1>11. Starts(r)
    <2>1. seen'[r] = Flags'
      BY <1>1, <1>2, <1>7, <1>9, LoadedAlone
    <2> QED
      BY <1>1, <1>2, <1>7, <1>9, <1>10, <2>1, OperationStep
  <1>12. ASSUME NEW t \in exists \cap Tasks, task'[t].done # task[t].done
         PROVE  \/ task[t].story = None /\ task[t].sprint \in unchecked' \cup {None}
                \/ task[t].story # None /\ task[t].story \in unchecked'
    <2>1. t \in X /\ task[t].done # done
      BY <1>9, <1>12 DEF Restatused
    <2>2. (IF task[t].story = None THEN task[t].sprint ELSE task[t].story) \in lost
      BY <1>5, <2>1
    <2> QED
      BY <1>7, <2>2
  <1>13. \A s \in Stories : story'[s].done = story[s].done \/ s \in unchecked'
    BY <1>6, <1>7, <1>9, IdAssumption DEF Restatused
  <1>14. UNCHANGED <<onlyClosing, exists, closed, forgotten>> /\ unchecked \subseteq unchecked'
    BY <1>7
  <1> QED
    BY <1>2, <1>9, <1>11, <1>12, <1>13, <1>14 DEF StatusesChange, Restatused

save(do, id, value) == [do |-> do, id |-> id, value |-> value]

\* A request begins, on its own or while others are at work.
LEMMA BeginDoes ==
    ASSUME ShapeInv, NEW r \in Requests, NEW op \in Operations, MayBegin(r), Begin(r, op)
    PROVE  /\ ShapeInv'
           /\ Steps(r) = {} /\ Steps(r)' = {op}
           /\ \A q \in Requests \ {r} : Steps(q)' = Steps(q)
           /\ seen' = [seen EXCEPT ![r] = Flags]
           /\ UNCHANGED <<onlyClosing, exists, task, story, closed, unchecked, forgotten>>
           /\ ~onlyClosing => \A q \in Requests : work[q] = <<>>
  <1>1. /\ r \notin begun /\ begun' = begun \cup {r}
        /\ work' = [work EXCEPT ![r] = <<op>>] /\ seen' = [seen EXCEPT ![r] = Flags]
        /\ UNCHANGED <<onlyClosing, exists, task, story, closed, unchecked, forgotten>>
        /\ ~onlyClosing => \A q \in Requests : work[q] = <<>>
    BY DEF MayBegin, Begin, rows
  <1>2. /\ work[r] = <<>>
        /\ DOMAIN work' = Requests /\ work' = [q \in Requests |-> work'[q]]
        /\ work'[r] = <<op>> /\ \A q \in Requests \ {r} : work'[q] = work[q]
    BY <1>1 DEF ShapeInv, WorkInv
  <1>3. Operations' = Operations /\ Flags' = Flags
    BY <1>1 DEF Operations, CloseSomething, ChangeSomething, TaskRows, OfOneStatus, Flags
  <1>4. TypeOK'
    <2>1. seen' \in [Requests -> [stories : [Stories -> BOOLEAN], sprints : [Sprints -> BOOLEAN]]]
      BY <1>1, FlagsType DEF ShapeInv, TypeOK
    <2>2. begun' \subseteq Requests
      BY <1>1 DEF ShapeInv, TypeOK
    <2> QED
      BY <1>1, <2>1, <2>2 DEF ShapeInv, TypeOK
  <1>5. WorkInv'
    <2>1. ASSUME NEW q \in Requests PROVE ToDo(work[q])'
      <3>1. CASE q = r
        BY <1>2, <1>3, <3>1 DEF ToDo
      <3>2. CASE q # r
        <4>1. ToDo(work[q]) /\ work'[q] = work[q]
          BY <1>2, <3>2 DEF ShapeInv, WorkInv
        <4> QED
          BY <1>3, <4>1 DEF ToDo
      <3> QED
        BY <3>1, <3>2
    <2>2. ASSUME NEW q \in Requests \ begun' PROVE work'[q] = <<>>
      BY <1>1, <1>2 DEF ShapeInv, WorkInv
    <2> QED
      BY <1>2, <2>1, <2>2 DEF WorkInv
  <1>6. SerialInv'
    <2>1. seen'[r] = Flags
      BY <1>1 DEF ShapeInv, TypeOK
    <2> QED
      BY <1>1, <1>2, <1>3, <2>1 DEF SerialInv
  <1>7. Steps(r) = {} /\ Steps(r)' = {op} /\ \A q \in Requests \ {r} : Steps(q)' = Steps(q)
    BY <1>2, ElsNone DEF Steps, Els
  <1> QED
    BY <1>1, <1>4, <1>5, <1>6, <1>7 DEF ShapeInv

\* r takes the step x off its list, and puts others in its place.
Replaces(r, x, new) ==
    /\ ShapeInv' /\ work[r] # <<>>
    /\ x \in Steps(r) /\ Steps(r) \subseteq Steps(r)' \cup {x}
    /\ new \subseteq Steps(r)' /\ Steps(r)' \subseteq Calcs \cup new
    /\ Steps(r)' \subseteq Steps(r) \cup new
    /\ \A q \in Requests \ {r} : Steps(q)' = Steps(q)

\* A step that only computes.
LEMMA ComputeStep ==
    ASSUME ShapeInv, NEW r \in Requests, work[r] # <<>>, Tail(work[r]) \in Seq(Calcs),
           NEW x, Steps(r) = {x} \cup Els(Tail(work[r])),
           NEW new \in {<<>>} \cup {<<y>> : y \in Saves}, Then(r, new),
           UNCHANGED <<onlyClosing, exists, task, story, closed, begun, seen>>,
           unchecked' \subseteq unchecked, forgotten' \subseteq forgotten
    PROVE  Replaces(r, x, Els(new))
  <1>1. work' = [work EXCEPT ![r] = new \o Tail(work[r])]
    BY DEF Then
  <1>2. Operations' = Operations /\ Flags' = Flags /\ TypeOK'
    BY DEF Operations, CloseSomething, ChangeSomething, TaskRows, OfOneStatus, Flags, ShapeInv, TypeOK
  <1>3. /\ work'[r] = new \o Tail(work[r]) /\ \A q \in Requests \ {r} : work'[q] = work[q]
    BY <1>1 DEF ShapeInv, WorkInv
  <1>4. Els(new \o Tail(work[r])) = Els(new) \cup Els(Tail(work[r]))
    <2>1. new \in Seq(Saves \cup Calcs)
      <3>1. \A y \in Saves : <<y>> \in Seq(Saves \cup Calcs)
        OBVIOUS
      <3> QED
        BY <3>1, ElsNone
    <2>2. PICK rest : rest = Tail(work[r])
      OBVIOUS
    <2>3. rest \in Seq(Saves \cup Calcs)
      BY <2>2
    <2>4. Els(new \o rest) = Els(new) \cup Els(rest)
      BY <2>1, <2>3, ElsConcat
    <2> QED
      BY <2>2, <2>4
  <1>5. ShapeInv'
    <2>1. \/ new \o Tail(work[r]) \in Seq(Calcs)
          \/ \E y \in Saves, t \in Seq(Calcs) : new \o Tail(work[r]) = <<y>> \o t
      <3>1. CASE new = <<>>
        BY <3>1
      <3>2. CASE new # <<>>
        BY <3>2
      <3> QED
        BY <3>1, <3>2
    <2>2. ~onlyClosing => seen'[r] = Flags'
      BY <1>2, LoadedAlone
    <2> QED
      BY <1>1, <1>2, <2>1, <2>2, ShapeStep
  <1>6. Els(Tail(work[r])) \subseteq Calcs
    BY DEF Els
  <1>7. Steps(r)' = Els(new) \cup Els(Tail(work[r]))
    BY <1>3, <1>4 DEF Steps
  <1>8. \A q \in Requests \ {r} : Steps(q)' = Steps(q)
    BY <1>3 DEF Steps
  <1> QED
    BY <1>5, <1>6, <1>7, <1>8 DEF Replaces

LEMMA ElsOne == \A x : Els(<<x>>) = {x}
  BY DEF Els

LEMMA CalcStoryDoes ==
    ASSUME ShapeInv, NEW r \in Requests, CalcStory(r)
    PROVE  \E s \in Stories, value \in BOOLEAN :
               /\ value = calculate_userstory_is_closed(s)
               /\ Replaces(r, calc("calcStory", s),
                           IF value = seen[r].stories[s] THEN {} ELSE {save("saveFlag", s, value)})
               /\ UNCHANGED <<onlyClosing, exists, task, story, closed, seen, forgotten>>
               /\ unchecked' = unchecked \ {s}
  <1>1. work[r] # <<>> /\ Head(work[r]).do = "calcStory"
    BY DEF CalcStory, Doing
  <1>2. /\ Head(work[r]) \in Calcs \cup Saves /\ Tail(work[r]) \in Seq(Calcs)
        /\ Steps(r) = {Head(work[r])} \cup Els(Tail(work[r]))
    BY <1>1, Computing DEF ShapeInv, OpKinds
  <1>3. PICK x, s, value : /\ x = Head(work[r]) /\ s = x.id
                           /\ value = calculate_userstory_is_closed(s)
    OBVIOUS
  <1>4. s \in Stories /\ x = calc("calcStory", s)
    BY <1>1, <1>2, <1>3 DEF Calcs, Saves, calc
  <1>5. value \in BOOLEAN
    <2>1. story[s].done \in BOOLEAN
      BY <1>4 DEF ShapeInv, TypeOK, StoryRow
    <2> QED
      BY <1>3, <2>1 DEF calculate_userstory_is_closed
  <1>6. PICK new : new = IF value = seen[r].stories[s] THEN <<>> ELSE <<save("saveFlag", s, value)>>
    OBVIOUS
  <1>7. /\ Then(r, new)
        /\ UNCHANGED <<onlyClosing, exists, task, story, closed, begun, seen>>
        /\ unchecked' = unchecked \ {s} /\ forgotten' = forgotten \ {s}
    BY <1>3, <1>6 DEF CalcStory, Checked, rows, save
  <1>8. /\ new \in {<<>>} \cup {<<y>> : y \in Saves}
        /\ Els(new) = IF value = seen[r].stories[s] THEN {} ELSE {save("saveFlag", s, value)}
    <2>1. save("saveFlag", s, value) \in Saves
      BY <1>4, <1>5 DEF save, Saves
    <2> QED
      BY <1>6, <2>1, ElsNone, ElsOne
  <1>9. Replaces(r, x, Els(new))
    BY <1>1, <1>2, <1>3, <1>7, <1>8, ComputeStep
  <1>10. /\ UNCHANGED <<onlyClosing, exists, task, story, closed, seen, forgotten>>
         /\ unchecked' = unchecked \ {s}
    <2>1. s \notin forgotten
      BY <1>4, IdAssumption DEF ShapeInv, TypeOK
    <2> QED
      BY <1>7, <2>1
  <1> QED
    BY <1>3, <1>4, <1>5, <1>8, <1>9, <1>10

LEMMA CalcSprintDoes ==
    ASSUME ShapeInv, NEW r \in Requests, CalcSprint(r)
    PROVE  \E m \in Sprints, do \in {"calcSprint", "calcPrev", "tryClose"}, value \in BOOLEAN :
               /\ value = calculate_milestone_is_closed(m)
               /\ Replaces(r, calc(do, m),
                           IF value = seen[r].sprints[m] \/ (do = "tryClose" /\ ~value) THEN {}
                           ELSE {save("saveClosed", m, value)})
               /\ UNCHANGED <<onlyClosing, exists, task, story, closed, seen>>
               /\ IF do = "tryClose" THEN UNCHANGED <<unchecked, forgotten>> ELSE Checked(m)
  <1>1. work[r] # <<>> /\ Head(work[r]).do \in {"calcSprint", "calcPrev", "tryClose"}
    BY DEF CalcSprint, Doing
  <1>2. /\ Head(work[r]) \in Calcs \cup Saves /\ Tail(work[r]) \in Seq(Calcs)
        /\ Steps(r) = {Head(work[r])} \cup Els(Tail(work[r]))
    BY <1>1, Computing DEF ShapeInv, OpKinds
  <1>3. PICK x, m, do, value : /\ x = Head(work[r]) /\ m = x.id /\ do = x.do
                               /\ value = calculate_milestone_is_closed(m)
    OBVIOUS
  <1>4. m \in Sprints /\ do \in {"calcSprint", "calcPrev", "tryClose"} /\ x = calc(do, m)
    BY <1>1, <1>2, <1>3 DEF Calcs, Saves, calc
  <1>5. value \in BOOLEAN
    BY <1>3 DEF calculate_milestone_is_closed
  <1>6. PICK new : new = IF value = seen[r].sprints[m] \/ (do = "tryClose" /\ ~value) THEN <<>>
                         ELSE <<save("saveClosed", m, value)>>
    OBVIOUS
  <1>7. /\ Then(r, new)
        /\ UNCHANGED <<onlyClosing, exists, task, story, closed, begun, seen>>
        /\ IF do = "tryClose" THEN UNCHANGED <<unchecked, forgotten>> ELSE Checked(m)
    BY <1>3, <1>6 DEF CalcSprint, rows, save
  <1>8. /\ new \in {<<>>} \cup {<<y>> : y \in Saves}
        /\ Els(new) = IF value = seen[r].sprints[m] \/ (do = "tryClose" /\ ~value) THEN {}
                      ELSE {save("saveClosed", m, value)}
    <2>1. save("saveClosed", m, value) \in Saves
      BY <1>4, <1>5 DEF save, Saves
    <2> QED
      BY <1>6, <2>1, ElsNone, ElsOne
  <1>9. Replaces(r, x, Els(new))
    <2>1. unchecked' \subseteq unchecked /\ forgotten' \subseteq forgotten
      BY <1>7 DEF Checked
    <2> QED
      BY <1>1, <1>2, <1>3, <1>7, <1>8, <2>1, ComputeStep
  <1>10. /\ UNCHANGED <<onlyClosing, exists, task, story, closed, seen>>
         /\ IF do = "tryClose" THEN UNCHANGED <<unchecked, forgotten>> ELSE Checked(m)
    BY <1>7
  <1> QED
    BY <1>3, <1>4, <1>5, <1>8, <1>9, <1>10

\* The flag of a story is saved, and the story's handlers run again.
LEMMA SaveFlagDoes ==
    ASSUME ShapeInv, NEW r \in Requests, SaveFlag(r)
    PROVE  \E s \in Stories, value \in BOOLEAN :
               /\ save("saveFlag", s, value) \in Steps(r)
               /\ story' = [story EXCEPT ![s].is_closed = value]
               /\ seen' = [seen EXCEPT ![r].stories[s] = value]
               /\ \A t \in Tasks : /\ task'[t].story = task[t].story /\ task'[t].done = task[t].done
                                   /\ task[t].story = None => task'[t] = task[t]
               /\ onlyClosing => task' = task
               /\ UNCHANGED <<onlyClosing, exists, closed, unchecked>>
               /\ forgotten \subseteq forgotten'
               /\ ShapeInv' /\ work[r] # <<>> /\ Steps(r)' \subseteq Calcs
               /\ calc("calcStory", s) \in Steps(r)'
               /\ story[s].sprint # None => calc("calcSprint", story[s].sprint) \in Steps(r)'
               /\ \A y \in Steps(r) :
                      \/ y \in Steps(r)' \/ y = save("saveFlag", s, value)
                      \/ y.do = "calcPrev" /\ y.id \in forgotten'
               /\ \A y \in Steps(r)' : y \in Steps(r) \/ y.do \notin {"calcPrev", "tryClose"}
               /\ \A q \in Requests \ {r} : Steps(q)' = Steps(q)
  <1>1. work[r] # <<>> /\ Head(work[r]).do = "saveFlag"
    BY DEF SaveFlag, Doing
  <1>2. /\ Head(work[r]) \in Calcs \cup Saves /\ Tail(work[r]) \in Seq(Calcs)
        /\ Steps(r) = {Head(work[r])} \cup Els(Tail(work[r]))
    BY <1>1, Computing DEF ShapeInv, OpKinds
  <1>3. PICK x, s, value, rest, n, m : /\ x = Head(work[r]) /\ s = x.id /\ value = x.value
                                       /\ rest = Tail(work[r]) /\ n = Len(rest)
                                       /\ m = story[s].sprint
    OBVIOUS
  <1>4. /\ s \in Stories /\ value \in BOOLEAN /\ x = save("saveFlag", s, value)
        /\ rest \in Seq(Calcs) /\ n \in Nat
    BY <1>1, <1>2, <1>3 DEF Calcs, Saves, save
  <1>5. PICK skipped \in BOOLEAN : skipped <=> n > 0 /\ rest[n].do = "calcPrev"
    OBVIOUS
  <1>6. PICK kept : kept = IF skipped THEN SubSeq(rest, 1, n - 1) ELSE rest
    OBVIOUS
  <1>7. PICK new : new = Step("calcStory", s) \o Step("calcSprint", m) \o kept
    OBVIOUS
  <1>8. /\ story' = [story EXCEPT ![s].is_closed = value]
        /\ seen' = [seen EXCEPT ![r].stories[s] = value]
        /\ work' = [work EXCEPT ![r] = new]
        /\ forgotten' = IF skipped THEN forgotten \cup {rest[n].id} ELSE forgotten
        /\ task' = WithTasks(s, m)
        /\ UNCHANGED <<onlyClosing, exists, closed, begun, unchecked>>
    BY <1>3, <1>5, <1>6, <1>7 DEF SaveFlag
  <1>9. /\ story' \in [Stories -> StoryRow]
        /\ \A u \in Stories : /\ story'[u].sprint = story[u].sprint
                              /\ story'[u].is_closed = IF u = s THEN value ELSE story[u].is_closed
    <2>1. story[s] \in StoryRow
      BY <1>4 DEF ShapeInv, TypeOK
    <2>2. [story[s] EXCEPT !.is_closed = value] \in StoryRow
      BY <1>4, <2>1 DEF StoryRow
    <2> QED
      BY <1>4, <1>8, <2>1, <2>2 DEF ShapeInv, TypeOK, StoryRow
  <1>10. /\ task' \in [Tasks -> TaskRow]
         /\ \A t \in Tasks : /\ task'[t].story = task[t].story /\ task'[t].done = task[t].done
                             /\ task[t].story = None => task'[t] = task[t]
         /\ onlyClosing => task' = task
    <2>1. m \in Sprints \cup {None}
      BY <1>3, <1>4 DEF ShapeInv, TypeOK, StoryRow
    <2> QED
      BY <1>3, <1>4, <1>8, <2>1, MovedTasks DEF ShapeInv
  <1>11. /\ skipped => /\ rest[n].id \in Sprints /\ rest[n] \in Calcs
                       /\ rest[n].do = "calcPrev"
         /\ kept \in Seq(Calcs) /\ Els(kept) \subseteq Els(rest)
         /\ \A y \in Els(rest) : y \in Els(kept) \/ (skipped /\ y = rest[n])
    <2>1. CASE skipped
      <3>1. /\ SubSeq(rest, 1, n - 1) \in Seq(Calcs) /\ rest[n] \in Calcs
            /\ Els(rest) = Els(SubSeq(rest, 1, n - 1)) \cup {rest[n]}
        <4>1. rest \in Seq(Calcs) /\ n = Len(rest) /\ n > 0
          BY <1>3, <1>4, <1>5, <2>1
        <4> HIDE DEF Calcs
        <4> QED
          BY <4>1, ElsFront
      <3>2. rest[n].id \in Sprints
        BY <1>5, <2>1, <3>1 DEF Calcs
      <3>3. kept = SubSeq(rest, 1, n - 1) /\ rest[n].do = "calcPrev"
        BY <1>5, <1>6, <2>1
      <3> QED
        BY <2>1, <3>1, <3>2, <3>3
    <2>2. CASE ~skipped
      <3>1. kept = rest
        BY <1>6, <2>2
      <3> QED
        BY <1>4, <2>2, <3>1
    <2> QED
      BY <2>1, <2>2
  <1>12. TypeOK'
    <2>1. seen' \in [Requests -> [stories : [Stories -> BOOLEAN], sprints : [Sprints -> BOOLEAN]]]
      BY <1>4, <1>8 DEF ShapeInv, TypeOK
    <2>2. forgotten' \subseteq Sprints
      BY <1>8, <1>11 DEF ShapeInv, TypeOK
    <2>3. ASSUME NEW t \in exists' \cap Tasks, task'[t].story # None
          PROVE  /\ task'[t].story \in exists'
                 /\ onlyClosing' => task'[t].sprint = story'[task'[t].story].sprint
      <3>1. /\ task[t].story \in exists
            /\ onlyClosing => task[t].sprint = story[task[t].story].sprint
            /\ task[t].story \in Stories
        BY <1>8, <1>10, <2>3 DEF ShapeInv, TypeOK, TaskRow
      <3> QED
        BY <1>8, <1>9, <1>10, <3>1
    <2> QED
      BY <1>8, <1>9, <1>10, <2>1, <2>2, <2>3 DEF ShapeInv, TypeOK
  <1>13. PICK a, b : a = Step("calcStory", s) /\ b = Step("calcSprint", m)
    OBVIOUS
  <1>14. /\ a \in Seq(Calcs) /\ Els(a) = {calc("calcStory", s)}
         /\ b \in Seq(Calcs) /\ Els(b) = IF m = None THEN {} ELSE {calc("calcSprint", m)}
    <2>1. s # None /\ m \in Sprints \cup {None}
      BY <1>3, <1>4, IdAssumption DEF ShapeInv, TypeOK, StoryRow
    <2> QED
      BY <1>4, <1>13, <2>1, StepType, ElsStep DEF calc
  <1>15. new \in Seq(Calcs) /\ Els(new) = Els(a) \cup Els(b) \cup Els(kept)
    <2>1. a \o b \in Seq(Calcs) /\ Els(a \o b) = Els(a) \cup Els(b)
      BY <1>14, TwoSteps
    <2> QED
      BY <1>7, <1>11, <1>13, <2>1, TwoSteps
  <1>16. ShapeInv'
    <2>1. onlyClosing => Operations \subseteq Operations'
      BY <1>8, <1>12, <1>10, StillOffered DEF ShapeInv
    <2>2. ~onlyClosing => seen'[r] = Flags'
      <3>1. ASSUME ~onlyClosing PROVE seen'[r] = Flags'
        <4>1. seen[r] = Flags
          BY <1>1, <3>1, LoadedAlone
        <4>2. seen'[r] = [seen[r] EXCEPT !.stories[s] = value]
          BY <1>8 DEF ShapeInv, TypeOK
        <4>3. Flags' = [stories |-> [u \in Stories |-> IF u = s THEN value ELSE story[u].is_closed],
                        sprints |-> closed]
          BY <1>8, <1>9 DEF Flags
        <4> QED
          BY <4>1, <4>2, <4>3 DEF Flags
      <3> QED
        BY <3>1
    <2> QED
      BY <1>1, <1>8, <1>12, <1>15, <2>1, <2>2, ShapeStep
  <1>17. work'[r] = new /\ \A q \in Requests \ {r} : work'[q] = work[q]
    BY <1>8 DEF ShapeInv, WorkInv
  <1>18. Steps(r)' = Els(new) /\ \A q \in Requests \ {r} : Steps(q)' = Steps(q)
    BY <1>17 DEF Steps
  <1>19. Steps(r)' \subseteq Calcs
    BY <1>15, <1>18 DEF Els
  <1>20. Steps(r) = {x} \cup Els(rest)
    BY <1>2, <1>3
  <1>21. \A y \in Steps(r) : \/ y \in Steps(r)' \/ y = save("saveFlag", s, value)
                             \/ y.do = "calcPrev" /\ y.id \in forgotten'
    BY <1>4, <1>8, <1>11, <1>15, <1>18, <1>20
  <1>22. \A y \in Steps(r)' : y \in Steps(r) \/ y.do \notin {"calcPrev", "tryClose"}
    BY <1>11, <1>14, <1>15, <1>18, <1>20 DEF calc
  <1>23. /\ save("saveFlag", s, value) \in Steps(r) /\ calc("calcStory", s) \in Steps(r)'
         /\ story[s].sprint # None => calc("calcSprint", story[s].sprint) \in Steps(r)'
    BY <1>3, <1>4, <1>14, <1>15, <1>18, <1>20
  <1>24. UNCHANGED <<onlyClosing, exists, closed, unchecked>> /\ forgotten \subseteq forgotten'
    BY <1>8
  <1> HIDE DEF calc, save
  <1> QED
    BY <1>1, <1>4, <1>8, <1>16, <1>18, <1>19, <1>21, <1>22, <1>23, <1>24, <1>10

\* The flag of a sprint is saved.
LEMMA SaveClosedDoes ==
    ASSUME ShapeInv, NEW r \in Requests, SaveClosed(r)
    PROVE  \E m \in Sprints, value \in BOOLEAN :
               /\ closed' = [closed EXCEPT ![m] = value]
               /\ seen' = [seen EXCEPT ![r].sprints[m] = value]
               /\ Replaces(r, save("saveClosed", m, value), {})
               /\ UNCHANGED <<onlyClosing, exists, task, story, unchecked, forgotten>>
  <1>1. work[r] # <<>> /\ Head(work[r]).do = "saveClosed"
    BY DEF SaveClosed, Doing
  <1>2. /\ Head(work[r]) \in Calcs \cup Saves /\ Tail(work[r]) \in Seq(Calcs)
        /\ Steps(r) = {Head(work[r])} \cup Els(Tail(work[r]))
    BY <1>1, Computing DEF ShapeInv, OpKinds
  <1>3. PICK x, m, value, steps : /\ x = Head(work[r]) /\ m = x.id /\ value = x.value
                                  /\ steps = <<>>
    OBVIOUS
  <1>4. m \in Sprints /\ value \in BOOLEAN /\ x = save("saveClosed", m, value)
    BY <1>1, <1>2, <1>3 DEF Calcs, Saves, save
  <1>5. /\ closed' = [closed EXCEPT ![m] = value]
        /\ seen' = [seen EXCEPT ![r].sprints[m] = value]
        /\ Then(r, steps)
        /\ UNCHANGED <<onlyClosing, exists, task, story, begun, unchecked, forgotten>>
    BY <1>3 DEF SaveClosed
  <1>6. TypeOK'
    <2>1. seen' \in [Requests -> [stories : [Stories -> BOOLEAN], sprints : [Sprints -> BOOLEAN]]]
      BY <1>4, <1>5 DEF ShapeInv, TypeOK
    <2> QED
      BY <1>4, <1>5, <2>1 DEF ShapeInv, TypeOK
  <1>7. /\ ShapeInv' /\ Steps(r)' = Els(steps) \cup Els(Tail(work[r]))
        /\ \A q \in Requests \ {r} : Steps(q)' = Steps(q)
    <2>1. onlyClosing => Operations \subseteq Operations'
      BY <1>5, <1>6, StillOffered DEF ShapeInv
    <2>2. ~onlyClosing => seen'[r] = Flags'
      <3>1. ASSUME ~onlyClosing PROVE seen'[r] = Flags'
        <4>1. seen[r] = Flags
          BY <1>1, <3>1, LoadedAlone
        <4>2. seen'[r] = [seen[r] EXCEPT !.sprints[m] = value]
          BY <1>5 DEF ShapeInv, TypeOK
        <4> QED
          BY <1>5, <4>1, <4>2 DEF Flags
      <3> QED
        BY <3>1
    <2>3. steps \in Seq(Calcs) /\ onlyClosing' = onlyClosing /\ begun' = begun
      BY <1>3, <1>5, ElsNone
    <2> QED
      BY <1>1, <1>2, <1>5, <1>6, <2>1, <2>2, <2>3, ShapeThen
  <1>8. Els(steps) = {} /\ Els(Tail(work[r])) \subseteq Calcs
    BY <1>2, <1>3, ElsNone DEF Els
  <1>9. Replaces(r, save("saveClosed", m, value), {})
    BY <1>1, <1>2, <1>3, <1>4, <1>7, <1>8 DEF Replaces
  <1>10. UNCHANGED <<onlyClosing, exists, task, story, unchecked, forgotten>>
    BY <1>5
  <1> QED
    BY <1>4, <1>5, <1>9, <1>10

-----------------------------------------------------------------------------
(* The types *)

\* At first nobody has anything to do.
LEMMA ShapeInit ==
    ASSUME Init
    PROVE  ShapeInv
  <1>1. \A s \in Stories : story[s].is_closed \in BOOLEAN
    BY DEF Init, StoryRow
  <1>2. Flags \in [stories : [Stories -> BOOLEAN], sprints : [Sprints -> BOOLEAN]]
    BY <1>1 DEF Flags, Init
  <1>3. ASSUME NEW t \in exists \cap Tasks, task[t].story # None
        PROVE  /\ task[t].story \in exists
               /\ onlyClosing => task[t].sprint = story[task[t].story].sprint
    <2>1. task[t].story \in Stories
      BY <1>3 DEF Init, TaskRow
    <2> QED
      BY <1>3, <2>1 DEF Init
  <1>4. TypeOK
    <2>1. seen \in [Requests -> [stories : [Stories -> BOOLEAN], sprints : [Sprints -> BOOLEAN]]]
      BY <1>2 DEF Init
    <2>2. exists \subseteq Tasks \cup Stories /\ closed \in [Sprints -> BOOLEAN]
      BY DEF Init
    <2> QED
      BY <1>3, <2>1, <2>2 DEF Init, TypeOK
  <1>5. WorkInv
    <2>1. \A r \in Requests : work[r] = <<>>
      BY DEF Init
    <2>2. <<>> \in Seq(Calcs \cup Saves) /\ DOMAIN <<>> = {}
      OBVIOUS
    <2>3. \A r \in Requests : ToDo(work[r])
      BY <2>1, <2>2 DEF ToDo
    <2> QED
      BY <2>1, <2>3 DEF Init, WorkInv
  <1>6. SerialInv
    BY DEF Init, SerialInv
  <1> QED
    BY <1>4, <1>5, <1>6 DEF ShapeInv

LEMMA ShapeStutter ==
    ASSUME ShapeInv, UNCHANGED vars
    PROVE  ShapeInv'
  <1>1. UNCHANGED <<onlyClosing, exists, task, story, closed, work, begun, seen, unchecked, forgotten>>
    BY DEF vars, rows
  <1>2. Operations' = Operations /\ Flags' = Flags
    BY <1>1 DEF Operations, CloseSomething, ChangeSomething, TaskRows, OfOneStatus, Flags
  <1>3. TypeOK'
    BY <1>1 DEF ShapeInv, TypeOK
  <1>4. WorkInv'
    BY <1>1, <1>2 DEF ShapeInv, WorkInv, ToDo
  <1>5. SerialInv'
    BY <1>1, <1>2 DEF ShapeInv, SerialInv
  <1> QED
    BY <1>3, <1>4, <1>5 DEF ShapeInv

\* Every action keeps the shape, as the lemmas about the actions say.
LEMMA ShapeNext ==
    ASSUME ShapeInv, [Next]_vars
    PROVE  ShapeInv'
  <1>1. ASSUME NEW r \in Requests, NEW op \in Operations, MayBegin(r), Begin(r, op)
        PROVE  ShapeInv'
    BY <1>1, BeginDoes
  <1>2. ASSUME NEW r \in Requests, Work(r)
        PROVE  ShapeInv'
    <2>1. CASE SaveTask(r)
      BY <2>1, SaveTaskDoes DEF Starts
    <2>2. CASE SaveStory(r)
      BY <2>2, SaveStoryDoes DEF Starts
    <2>3. CASE DeleteTask(r)
      BY <2>3, DeleteTaskDoes DEF Starts
    <2>4. CASE DeleteStory(r)
      BY <2>4, DeleteStoryDoes DEF Starts
    <2>5. CASE DragOnKanban(r)
      BY <2>5, DragOnKanbanDoes DEF Starts
    <2>6. CASE DragOnBacklog(r)
      BY <2>6, DragOnBacklogDoes DEF Starts
    <2>7. CASE MoveInBulk(r)
      BY <2>7, MoveInBulkDoes DEF Starts
    <2>8. CASE EditTaskStatus(r)
      BY <2>8, EditTaskStatusDoes DEF StatusesChange, Starts
    <2>9. CASE CalcStory(r)
      BY <2>9, CalcStoryDoes DEF Replaces
    <2>10. CASE SaveFlag(r)
      BY <2>10, SaveFlagDoes
    <2>11. CASE CalcSprint(r)
      BY <2>11, CalcSprintDoes DEF Replaces
    <2>12. CASE SaveClosed(r)
      BY <2>12, SaveClosedDoes DEF Replaces
    <2>13. CASE CreateInBulk(r)
      BY <2>13, CreateInBulkDoes DEF Starts
    <2>14. CASE MoveTasksInBulk(r)
      BY <2>14, MoveTasksInBulkDoes DEF Starts
    <2>15. CASE EditStoryStatus(r)
      BY <2>15, EditStoryStatusDoes DEF StatusesChange, Starts
    <2>16. CASE DeleteStatus(r)
      BY <2>16, DeleteStatusDoes DEF StatusesChange, Starts
    <2> QED
      BY <1>2, <2>1, <2>2, <2>3, <2>4, <2>5, <2>6, <2>7, <2>8, <2>9, <2>10, <2>11, <2>12,
         <2>13, <2>14, <2>15, <2>16 DEF Work
  <1>3. CASE UNCHANGED vars
    BY <1>3, ShapeStutter
  <1> QED
    BY <1>1, <1>2, <1>3 DEF Next, Operations

\* The flags, rows and lists of steps are what they should be, the story of a
\* task exists, and while requests only close things the task is in its story's
\* sprint.  (One at a time, the bulk moves put a task where its story is not.)
THEOREM ClosingTypeCorrect == Spec => []TypeOK
  <1>1. Init => ShapeInv
    BY ShapeInit
  <1>2. ShapeInv /\ [Next]_vars => ShapeInv'
    BY ShapeNext
  <1>3. ShapeInv => TypeOK
    BY DEF ShapeInv
  <1> QED
    BY <1>1, <1>2, <1>3, PTL DEF Spec

-----------------------------------------------------------------------------
(* Overlapping requests that only close *)

NonEmpty(m) == StoriesIn(m) \cup StorylessIn(m) # {}

\* No flag is ahead of what it says, and none is on its way to be.
Founded(x) ==
    /\ x.do \notin {"calcPrev", "tryClose"}
    /\ x.do = "saveFlag" /\ x.id \in exists =>
           x.value /\ calculate_userstory_is_closed(x.id)
    /\ x.do = "saveClosed" /\ NonEmpty(x.id) =>
           x.value /\ calculate_milestone_is_closed(x.id)

ClosingBelow ==
    /\ \A s \in exists \cap Stories :
           story[s].is_closed => calculate_userstory_is_closed(s)
    /\ \A m \in Sprints : NonEmpty(m) /\ closed[m] => calculate_milestone_is_closed(m)
    /\ \A q \in Requests : \A s \in exists \cap Stories :
           seen[q].stories[s] => story[s].is_closed
    /\ \A q \in Requests : \A m \in Sprints : NonEmpty(m) /\ seen[q].sprints[m] => closed[m]
    /\ \A q \in Requests : \A x \in Steps(q) : Founded(x)

\* A flag that is behind is on its way.
StoryComing(s) == \E q \in Requests :
    calc("calcStory", s) \in Steps(q) \/ save("saveFlag", s, TRUE) \in Steps(q)
SprintComing(m) == \E q \in Requests :
    calc("calcSprint", m) \in Steps(q) \/ save("saveClosed", m, TRUE) \in Steps(q)

ClosingPending ==
    /\ \A s \in exists \cap Stories :
           calculate_userstory_is_closed(s) => story[s].is_closed \/ StoryComing(s)
    /\ \A m \in Sprints :
           NonEmpty(m) /\ calculate_milestone_is_closed(m) => closed[m] \/ SprintComing(m)

ClosingInv == ShapeInv /\ (onlyClosing => ClosingBelow /\ ClosingPending)

LEMMA StepKinds ==
    ASSUME ShapeInv, NEW r \in Requests, NEW x \in Steps(r)
    PROVE  x \in Operations \/ x \in Calcs \cup Saves
  <1>1. CASE \E op \in Operations : work[r] = <<op>>
    <2>1. PICK op \in Operations : work[r] = <<op>>
      BY <1>1
    <2> QED
      BY <2>1, ElsOne DEF Steps
  <1>2. CASE work[r] \in Seq(Calcs \cup Saves)
    BY <1>2 DEF Steps, Els
  <1> QED
    BY <1>1, <1>2 DEF ShapeInv, WorkInv, ToDo

LEMMA SaveKinds ==
    ASSUME NEW x \in Calcs \cup Saves
    PROVE  /\ x.do \notin OpKinds
           /\ x.do = "saveFlag" => x.id \in Stories
           /\ x.do = "saveClosed" => x.id \in Sprints
  BY DEF Calcs, Saves, OpKinds

\* Nothing moves, and what is done stays done.
OnlyCloses ==
    /\ UNCHANGED <<onlyClosing, exists>>
    /\ \A t \in exists \cap Tasks : /\ task'[t].story = task[t].story /\ task'[t].sprint = task[t].sprint
                                    /\ task[t].done => task'[t].done
    /\ \A s \in exists \cap Stories : /\ story'[s].sprint = story[s].sprint
                                      /\ story[s].done => story'[s].done

\* The members of stories and sprints stay.
LEMMA SameMembers ==
    ASSUME OnlyCloses
    PROVE  /\ \A s \in Stories : TasksOf(s)' = TasksOf(s)
           /\ \A m \in Sprints : /\ StoriesIn(m)' = StoriesIn(m) /\ StorylessIn(m)' = StorylessIn(m)
                                 /\ NonEmpty(m)' = NonEmpty(m)
  <1>1. \A s \in Stories : TasksOf(s)' = TasksOf(s)
    BY DEF OnlyCloses, TasksOf
  <1>2. \A m \in Sprints : StoriesIn(m)' = StoriesIn(m)
    BY DEF OnlyCloses, StoriesIn
  <1>3. \A m \in Sprints : StorylessIn(m)' = StorylessIn(m)
    BY DEF OnlyCloses, StorylessIn
  <1> QED
    BY <1>1, <1>2, <1>3 DEF NonEmpty

\* What has to be closed stays so.
LEMMA StoriesOnlyClose ==
    ASSUME OnlyCloses, NEW s \in exists \cap Stories, calculate_userstory_is_closed(s)
    PROVE  calculate_userstory_is_closed(s)'
  <1>1. \A t \in TasksOf(s) : task[t].done => task'[t].done
    BY DEF OnlyCloses, TasksOf
  <1>2. TasksOf(s)' = TasksOf(s)
    BY SameMembers
  <1>3. story[s].done => story'[s].done
    BY DEF OnlyCloses
  <1> QED
    BY <1>1, <1>2, <1>3 DEF calculate_userstory_is_closed

LEMMA SprintsOnlyClose ==
    ASSUME OnlyCloses, NEW m \in Sprints, calculate_milestone_is_closed(m),
           \A s \in exists \cap Stories : story[s].is_closed => story'[s].is_closed
    PROVE  calculate_milestone_is_closed(m)'
  <1>1. StoriesIn(m)' = StoriesIn(m) /\ StorylessIn(m)' = StorylessIn(m)
    BY SameMembers
  <1>2. \A t \in StorylessIn(m) : task[t].done => task'[t].done
    BY DEF OnlyCloses, StorylessIn
  <1>3. \A s \in StoriesIn(m) : story[s].is_closed => story'[s].is_closed
    BY DEF StoriesIn
  <1> QED
    BY <1>1, <1>2, <1>3 DEF calculate_milestone_is_closed

\* Flags that are saved are founded, what is seen is stored, and new steps are
\* founded: then no flag is ahead.
LEMMA BelowStep ==
    ASSUME ClosingInv, onlyClosing, OnlyCloses,
           \A s \in exists \cap Stories :
               /\ story[s].is_closed => story'[s].is_closed
               /\ story'[s].is_closed => story[s].is_closed \/ calculate_userstory_is_closed(s),
           \A m \in Sprints : NonEmpty(m) =>
               /\ closed[m] => closed'[m]
               /\ closed'[m] => closed[m] \/ calculate_milestone_is_closed(m),
           \A q \in Requests : \A s \in exists \cap Stories :
               seen'[q].stories[s] => seen[q].stories[s] \/ story'[s].is_closed,
           \A q \in Requests : \A m \in Sprints :
               seen'[q].sprints[m] => seen[q].sprints[m] \/ closed'[m],
           \A q \in Requests : \A x \in Steps(q)' : 
               x \in Steps(q) \/ x \in Operations \/ (x \in Calcs \cup Saves /\ Founded(x))
    PROVE  ClosingBelow'
  <1>1. ClosingBelow /\ exists' = exists
    BY DEF ClosingInv, OnlyCloses
  <1>2. \A s \in exists \cap Stories :
            calculate_userstory_is_closed(s) => calculate_userstory_is_closed(s)'
    BY StoriesOnlyClose
  <1>3. \A m \in Sprints : /\ calculate_milestone_is_closed(m) => calculate_milestone_is_closed(m)'
                           /\ NonEmpty(m)' = NonEmpty(m)
    BY SprintsOnlyClose, SameMembers
  <1>4. ASSUME NEW s \in exists' \cap Stories, story'[s].is_closed
        PROVE  calculate_userstory_is_closed(s)'
    BY <1>1, <1>2, <1>4 DEF ClosingBelow
  <1>5. ASSUME NEW m \in Sprints, NonEmpty(m)', closed'[m]
        PROVE  calculate_milestone_is_closed(m)'
    BY <1>1, <1>3, <1>5 DEF ClosingBelow
  <1>6. ASSUME NEW q \in Requests, NEW s \in exists' \cap Stories, seen'[q].stories[s]
        PROVE  story'[s].is_closed
    BY <1>1, <1>6 DEF ClosingBelow
  <1>7. ASSUME NEW q \in Requests, NEW m \in Sprints, NonEmpty(m)', seen'[q].sprints[m]
        PROVE  closed'[m]
    BY <1>1, <1>3, <1>7 DEF ClosingBelow
  <1>8. ASSUME NEW q \in Requests, NEW x, x \in Steps(q)'
        PROVE  Founded(x)'
    <2>1. CASE x \in Operations
      <3>1. x.do \in OpKinds
        BY <2>1, OperationKinds
      <3> QED
        BY <3>1 DEF Founded, OpKinds
    <2>2. CASE x \in Calcs \cup Saves /\ Founded(x)
      <3>1. /\ x.do = "saveFlag" => x.id \in Stories
            /\ x.do = "saveClosed" => x.id \in Sprints
        BY <2>2, SaveKinds
      <3>2. x.do = "saveFlag" /\ x.id \in exists' =>
                x.value /\ calculate_userstory_is_closed(x.id)'
        BY <1>1, <1>2, <2>2, <3>1 DEF Founded
      <3>3. x.do = "saveClosed" /\ NonEmpty(x.id)' =>
                x.value /\ calculate_milestone_is_closed(x.id)'
        BY <1>3, <2>2, <3>1 DEF Founded
      <3> QED
        BY <2>2, <3>2, <3>3 DEF Founded
    <2>3. x \in Steps(q) => x \in Operations \/ (x \in Calcs \cup Saves /\ Founded(x))
      BY <1>1, StepKinds DEF ClosingBelow, ClosingInv
    <2> QED
      BY <1>8, <2>1, <2>2, <2>3
  <1> QED
    BY <1>4, <1>5, <1>6, <1>7, <1>8 DEF ClosingBelow

LEMMA ComingKinds ==
    /\ \A s \in Stories : calc("calcStory", s) \in Calcs /\ save("saveFlag", s, TRUE) \in Saves
    /\ \A m \in Sprints : calc("calcSprint", m) \in Calcs /\ save("saveClosed", m, TRUE) \in Saves
  BY DEF calc, save, Calcs, Saves

\* An operation takes nothing off the list of another request.
LEMMA OperationKeeps ==
    ASSUME ShapeInv, NEW r \in Requests, Starts(r)
    PROVE  /\ \A q \in Requests, y \in Calcs \cup Saves : y \in Steps(q) => y \in Steps(q)'
           /\ \A s \in Stories : StoryComing(s) => StoryComing(s)'
           /\ \A m \in Sprints : SprintComing(m) => SprintComing(m)'
  <1>1. ASSUME NEW q \in Requests, NEW y \in Calcs \cup Saves, y \in Steps(q)
        PROVE  y \in Steps(q)'
    <2>1. q # r
      BY <1>1, SaveKinds, OperationKinds DEF Starts
    <2> QED
      BY <1>1, <2>1 DEF Starts
  <1>2. ASSUME NEW s \in Stories, StoryComing(s) PROVE StoryComing(s)'
    BY <1>1, <1>2, ComingKinds DEF StoryComing
  <1>3. ASSUME NEW m \in Sprints, SprintComing(m) PROVE SprintComing(m)'
    BY <1>1, <1>3, ComingKinds DEF SprintComing
  <1> QED
    BY <1>1, <1>2, <1>3

\* What is computed of a story and of a sprint depends on their members.
LEMMA SameStory ==
    ASSUME NEW s \in Stories, TasksOf(s)' = TasksOf(s), story'[s].done = story[s].done,
           \A t \in TasksOf(s) : task'[t].done = task[t].done
    PROVE  calculate_userstory_is_closed(s)' = calculate_userstory_is_closed(s)
  <1>1. (\A t \in TasksOf(s)' : task'[t].done) = (\A t \in TasksOf(s) : task[t].done)
    BY Zenon
  <1>2. CASE TasksOf(s) = {}
    BY <1>2 DEF calculate_userstory_is_closed
  <1>3. CASE TasksOf(s) # {}
    BY <1>1, <1>3 DEF calculate_userstory_is_closed
  <1> QED
    BY <1>2, <1>3

LEMMA SameSprint ==
    ASSUME NEW m \in Sprints,
           StoriesIn(m)' = StoriesIn(m), StorylessIn(m)' = StorylessIn(m),
           \A s \in StoriesIn(m) : story'[s].is_closed = story[s].is_closed,
           \A t \in StorylessIn(m) : task'[t].done = task[t].done
    PROVE  /\ calculate_milestone_is_closed(m)' = calculate_milestone_is_closed(m)
           /\ NonEmpty(m)' = NonEmpty(m)
  BY DEF calculate_milestone_is_closed, NonEmpty

\* A flag that was coming is still coming, or is there.
LEMMA PendingStep ==
    ASSUME ClosingInv, onlyClosing, OnlyCloses,
           \A s \in exists \cap Stories : story[s].is_closed => story'[s].is_closed,
           \A m \in Sprints : NonEmpty(m) => (closed[m] => closed'[m]),
           \A s \in exists \cap Stories :
               /\ StoryComing(s) /\ calculate_userstory_is_closed(s)
                      => StoryComing(s)' \/ story'[s].is_closed
               /\ \/ calculate_userstory_is_closed(s)' = calculate_userstory_is_closed(s)
                  \/ StoryComing(s)',
           \A m \in Sprints : NonEmpty(m) =>
               /\ SprintComing(m) /\ calculate_milestone_is_closed(m)
                      => SprintComing(m)' \/ closed'[m]
               /\ \/ calculate_milestone_is_closed(m)' = calculate_milestone_is_closed(m)
                  \/ SprintComing(m)'
    PROVE  ClosingPending'
  <1>1. ClosingPending /\ exists' = exists /\ \A m \in Sprints : NonEmpty(m)' = NonEmpty(m)
    BY SameMembers DEF ClosingInv, OnlyCloses
  <1>2. ASSUME NEW s \in exists' \cap Stories, calculate_userstory_is_closed(s)'
        PROVE  story'[s].is_closed \/ StoryComing(s)'
    BY <1>1, <1>2 DEF ClosingPending
  <1>3. ASSUME NEW m \in Sprints, NonEmpty(m)', calculate_milestone_is_closed(m)'
        PROVE  closed'[m] \/ SprintComing(m)'
    BY <1>1, <1>3 DEF ClosingPending
  <1> QED
    BY <1>2, <1>3 DEF ClosingPending

\* One action after the other.
LEMMA SaveTaskCloses ==
    ASSUME ClosingInv, onlyClosing, NEW r \in Requests, SaveTask(r)
    PROVE  ClosingInv'
  <1>1. PICK t \in Tasks, x \in TaskRow :
            /\ exists' = exists \cup {t} /\ task' = [task EXCEPT ![t] = x]
            /\ UNCHANGED <<onlyClosing, story, closed, seen, unchecked, forgotten>>
            /\ Starts(r)
            /\ x.story # None => calc("calcStory", x.story) \in Steps(r)'
            /\ x.sprint # None => calc("calcSprint", x.sprint) \in Steps(r)'
            /\ \A y \in Steps(r)' : y.do \notin {"calcPrev", "tryClose"}
            /\ t \in exists /\ x.done
            /\ x.story = task[t].story /\ x.sprint = task[t].sprint
    <2>1. ShapeInv
      BY DEF ClosingInv
    <2> QED
      BY <2>1, SaveTaskDoes
  <1>2. \A u \in Tasks : task'[u] = IF u = t THEN x ELSE task[u]
    BY <1>1 DEF ClosingInv, ShapeInv, TypeOK
  <1>3. OnlyCloses
    BY <1>1, <1>2 DEF OnlyCloses
  <1>4. ClosingBelow'
    <2>1. ASSUME NEW q \in Requests, NEW y \in Steps(q)'
          PROVE  y \in Steps(q) \/ (y \in Calcs \cup Saves /\ Founded(y))
      <3>1. CASE q = r
        <4>1. y \in Calcs /\ y.do \notin {"calcPrev", "tryClose"}
          BY <1>1, <2>1, <3>1 DEF Starts
        <4>2. y.do \notin {"saveFlag", "saveClosed"}
          BY <4>1 DEF Calcs
        <4> QED
          BY <4>1, <4>2 DEF Founded
      <3>2. CASE q # r
        BY <1>1, <2>1, <3>2 DEF Starts
      <3> QED
        BY <3>1, <3>2
    <2> QED
      BY <1>1, <1>3, <2>1, BelowStep
  <1>5. ClosingPending'
    <2>1. /\ \A s \in Stories : StoryComing(s) => StoryComing(s)'
          /\ \A m \in Sprints : SprintComing(m) => SprintComing(m)'
      BY <1>1, OperationKeeps DEF ClosingInv
    <2>2. ASSUME NEW s \in exists \cap Stories
          PROVE  \/ calculate_userstory_is_closed(s)' = calculate_userstory_is_closed(s)
                 \/ StoryComing(s)'
      <3>1. CASE task[t].story = s
        <4>1. calc("calcStory", s) \in Steps(r)'
          BY <1>1, <3>1, IdAssumption
        <4> QED
          BY <4>1 DEF StoryComing
      <3>2. CASE task[t].story # s
        <4>1. TasksOf(s)' = TasksOf(s)
          BY <1>3, SameMembers
        <4>2. \A u \in TasksOf(s) : task'[u].done = task[u].done
          BY <1>2, <3>2 DEF TasksOf
        <4>3. story'[s].done = story[s].done
          BY <1>1
        <4> QED
          BY <4>1, <4>2, <4>3, SameStory
      <3> QED
        BY <3>1, <3>2
    <2>3. ASSUME NEW m \in Sprints
          PROVE  \/ calculate_milestone_is_closed(m)' = calculate_milestone_is_closed(m)
                 \/ SprintComing(m)'
      <3>1. CASE t \in StorylessIn(m)
        <4>1. calc("calcSprint", m) \in Steps(r)'
          BY <1>1, <3>1, IdAssumption DEF StorylessIn
        <4> QED
          BY <4>1 DEF SprintComing
      <3>2. CASE t \notin StorylessIn(m)
        <4>1. StoriesIn(m)' = StoriesIn(m) /\ StorylessIn(m)' = StorylessIn(m)
          BY <1>3, SameMembers
        <4>2. \A u \in StorylessIn(m) : task'[u].done = task[u].done
          BY <1>2, <3>2 DEF StorylessIn
        <4>3. \A s \in StoriesIn(m) : story'[s].is_closed = story[s].is_closed
          BY <1>1
        <4> QED
          BY <4>1, <4>2, <4>3, SameSprint
      <3> QED
        BY <3>1, <3>2
    <2> QED
      BY <1>1, <1>3, <2>1, <2>2, <2>3, PendingStep
  <1> QED
    BY <1>1, <1>4, <1>5 DEF ClosingInv, Starts

LEMMA DragOnKanbanCloses ==
    ASSUME ClosingInv, onlyClosing, NEW r \in Requests, DragOnKanban(r)
    PROVE  ClosingInv'
  <1>1. PICK s \in exists \cap Stories, done \in BOOLEAN :
            /\ story' = [story EXCEPT ![s].done = done]
            /\ seen' = [seen EXCEPT ![r] = Flags]
            /\ UNCHANGED <<onlyClosing, exists, task, closed, unchecked, forgotten>>
            /\ Starts(r) /\ Steps(r)' = {calc("calcStory", s)}
            /\ done
    <2>1. ShapeInv
      BY DEF ClosingInv
    <2> QED
      BY <2>1, DragOnKanbanDoes
  <1>2. /\ \A u \in Stories : /\ story'[u].sprint = story[u].sprint
                              /\ story'[u].is_closed = story[u].is_closed
                              /\ story'[u].done = IF u = s THEN done ELSE story[u].done
    <2>1. \A u \in Stories : story[u] \in StoryRow
      BY DEF ClosingInv, ShapeInv, TypeOK
    <2> QED
      BY <1>1, <2>1 DEF ClosingInv, ShapeInv, TypeOK, StoryRow
  <1>3. OnlyCloses
    BY <1>1, <1>2 DEF OnlyCloses
  <1>4. \A q \in Requests :
            /\ \A u \in Stories : seen'[q].stories[u] => seen[q].stories[u] \/ story'[u].is_closed
            /\ \A m \in Sprints : seen'[q].sprints[m] => seen[q].sprints[m] \/ closed'[m]
    <2>1. \A q \in Requests : seen'[q] = IF q = r THEN Flags ELSE seen[q]
      BY <1>1 DEF ClosingInv, ShapeInv, TypeOK
    <2>2. /\ \A u \in Stories : Flags.stories[u] = story[u].is_closed
          /\ Flags.sprints = closed
      BY DEF Flags
    <2> QED
      BY <1>1, <1>2, <2>1, <2>2
  <1>5. ClosingBelow'
    <2>1. ASSUME NEW q \in Requests, NEW y \in Steps(q)'
          PROVE  y \in Steps(q) \/ (y \in Calcs \cup Saves /\ Founded(y))
      <3>1. CASE q = r
        <4>1. y = calc("calcStory", s)
          BY <1>1, <2>1, <3>1
        <4>2. y \in Calcs /\ y.do = "calcStory"
          BY <4>1, ComingKinds DEF calc
        <4> QED
          BY <4>2 DEF Founded
      <3>2. CASE q # r
        BY <1>1, <2>1, <3>2 DEF Starts
      <3> QED
        BY <3>1, <3>2
    <2> QED
      BY <1>1, <1>2, <1>3, <1>4, <2>1, BelowStep
  <1>6. ClosingPending'
    <2>1. /\ \A u \in Stories : StoryComing(u) => StoryComing(u)'
          /\ \A m \in Sprints : SprintComing(m) => SprintComing(m)'
      BY <1>1, OperationKeeps DEF ClosingInv
    <2>2. ASSUME NEW u \in exists \cap Stories
          PROVE  \/ calculate_userstory_is_closed(u)' = calculate_userstory_is_closed(u)
                 \/ StoryComing(u)'
      <3>1. CASE u = s
        BY <1>1, <3>1 DEF StoryComing
      <3>2. CASE u # s
        <4>1. TasksOf(u)' = TasksOf(u)
          BY <1>3, SameMembers
        <4>2. \A t \in TasksOf(u) : task'[t].done = task[t].done
          BY <1>1
        <4>3. story'[u].done = story[u].done
          BY <1>2, <3>2
        <4> QED
          BY <4>1, <4>2, <4>3, SameStory
      <3> QED
        BY <3>1, <3>2
    <2>3. ASSUME NEW m \in Sprints
          PROVE  calculate_milestone_is_closed(m)' = calculate_milestone_is_closed(m)
      <3>1. StoriesIn(m)' = StoriesIn(m) /\ StorylessIn(m)' = StorylessIn(m)
        BY <1>3, SameMembers
      <3>2. \A u \in StoriesIn(m) : story'[u].is_closed = story[u].is_closed
        BY <1>2 DEF StoriesIn
      <3>3. \A t \in StorylessIn(m) : task'[t].done = task[t].done
        BY <1>1
      <3> QED
        BY <3>1, <3>2, <3>3, SameSprint
    <2> QED
      BY <1>1, <1>2, <1>3, <2>1, <2>2, <2>3, PendingStep
  <1> QED
    BY <1>1, <1>5, <1>6 DEF ClosingInv, Starts

LEMMA Unmoved ==
    ASSUME UNCHANGED <<onlyClosing, exists, task, story>>
    PROVE  /\ OnlyCloses
           /\ \A s \in Stories : calculate_userstory_is_closed(s)' = calculate_userstory_is_closed(s)
           /\ \A m \in Sprints : calculate_milestone_is_closed(m)' = calculate_milestone_is_closed(m)
  BY DEF OnlyCloses, calculate_userstory_is_closed, calculate_milestone_is_closed,
         TasksOf, StoriesIn, StorylessIn

LEMMA BeginCloses ==
    ASSUME ClosingInv, onlyClosing, NEW r \in Requests, NEW op \in Operations,
           MayBegin(r), Begin(r, op)
    PROVE  ClosingInv'
  <1>1. /\ ShapeInv'
        /\ Steps(r) = {} /\ Steps(r)' = {op}
        /\ \A q \in Requests \ {r} : Steps(q)' = Steps(q)
        /\ seen' = [seen EXCEPT ![r] = Flags]
        /\ UNCHANGED <<onlyClosing, exists, task, story, closed, unchecked, forgotten>>
    BY BeginDoes DEF ClosingInv
  <1>2. /\ OnlyCloses
        /\ \A s \in Stories : calculate_userstory_is_closed(s)' = calculate_userstory_is_closed(s)
        /\ \A m \in Sprints : calculate_milestone_is_closed(m)' = calculate_milestone_is_closed(m)
    BY <1>1, Unmoved
  <1>3. \A q \in Requests :
            /\ \A u \in Stories : seen'[q].stories[u] => seen[q].stories[u] \/ story'[u].is_closed
            /\ \A m \in Sprints : seen'[q].sprints[m] => seen[q].sprints[m] \/ closed'[m]
    <2>1. \A q \in Requests : seen'[q] = IF q = r THEN Flags ELSE seen[q]
      BY <1>1 DEF ClosingInv, ShapeInv, TypeOK
    <2>2. /\ \A u \in Stories : Flags.stories[u] = story[u].is_closed
          /\ Flags.sprints = closed
      BY DEF Flags
    <2> QED
      BY <1>1, <2>1, <2>2
  <1>4. ClosingBelow'
    <2>1. \A q \in Requests : \A y \in Steps(q)' : y \in Steps(q) \/ y \in Operations
      BY <1>1
    <2> QED
      BY <1>1, <1>2, <1>3, <2>1, BelowStep
  <1>5. ClosingPending'
    <2>1. \A q \in Requests : Steps(q) \subseteq Steps(q)'
      BY <1>1
    <2>2. \A s \in Stories : StoryComing(s) => StoryComing(s)'
      BY <2>1 DEF StoryComing
    <2>3. \A m \in Sprints : SprintComing(m) => SprintComing(m)'
      BY <2>1 DEF SprintComing
    <2> QED
      BY <1>1, <1>2, <2>2, <2>3, PendingStep
  <1> QED
    BY <1>1, <1>4, <1>5 DEF ClosingInv

LEMMA CalcStoryCloses ==
    ASSUME ClosingInv, onlyClosing, NEW r \in Requests, CalcStory(r)
    PROVE  ClosingInv'
  <1>1. PICK s \in Stories, value \in BOOLEAN :
            /\ value = calculate_userstory_is_closed(s)
            /\ Replaces(r, calc("calcStory", s),
                        IF value = seen[r].stories[s] THEN {} ELSE {save("saveFlag", s, value)})
            /\ UNCHANGED <<onlyClosing, exists, task, story, closed, seen>>
    BY CalcStoryDoes DEF ClosingInv
  <1>2. /\ OnlyCloses
        /\ \A u \in Stories : calculate_userstory_is_closed(u)' = calculate_userstory_is_closed(u)
        /\ \A m \in Sprints : calculate_milestone_is_closed(m)' = calculate_milestone_is_closed(m)
    BY <1>1, Unmoved
  <1>3. s \in exists /\ seen[r].stories[s] => value /\ story[s].is_closed
    BY <1>1 DEF ClosingInv, ClosingBelow
  <1>4. save("saveFlag", s, value) \in Saves
    BY <1>1 DEF save, Saves
  <1>5. s \in exists /\ value # seen[r].stories[s] => value
    <2>1. seen[r].stories[s] \in BOOLEAN
      BY DEF ClosingInv, ShapeInv, TypeOK
    <2> QED
      BY <1>3, <2>1
  <1>6. ClosingBelow'
    <2>1. ASSUME NEW q \in Requests, NEW y \in Steps(q)', y \notin Steps(q)
          PROVE  y \in Calcs \cup Saves /\ Founded(y)
      <3>1. q = r /\ y = save("saveFlag", s, value) /\ value # seen[r].stories[s]
        BY <1>1, <2>1 DEF Replaces
      <3>2. y.do = "saveFlag" /\ y.id = s /\ y.value = value
        BY <3>1 DEF save
      <3> QED
        BY <1>1, <1>4, <1>5, <3>1, <3>2 DEF Founded
    <2> QED
      BY <1>1, <1>2, <2>1, BelowStep
  <1>7. ClosingPending'
    <2>1. \A q \in Requests : \A y \in Steps(q) : y \in Steps(q)' \/ y = calc("calcStory", s)
      BY <1>1 DEF Replaces
    <2>2. ASSUME NEW u \in exists \cap Stories, StoryComing(u), calculate_userstory_is_closed(u)
          PROVE  StoryComing(u)' \/ story'[u].is_closed
      <3>1. CASE u = s
        <4>1. CASE seen[r].stories[s]
          BY <1>1, <1>3, <3>1, <4>1
        <4>2. CASE ~seen[r].stories[s]
          <5>1. save("saveFlag", s, TRUE) \in Steps(r)'
            BY <1>1, <2>2, <3>1, <4>2 DEF Replaces
          <5> QED
            BY <3>1, <5>1 DEF StoryComing
        <4> QED
          BY <4>1, <4>2
      <3>2. CASE u # s
        <4>1. calc("calcStory", u) # calc("calcStory", s) /\ save("saveFlag", u, TRUE) # calc("calcStory", s)
          BY <3>2 DEF calc, save
        <4> QED
          BY <2>1, <2>2, <4>1 DEF StoryComing
      <3> QED
        BY <3>1, <3>2
    <2>3. ASSUME NEW m \in Sprints, SprintComing(m) PROVE SprintComing(m)'
      <3>1. calc("calcSprint", m) # calc("calcStory", s) /\ save("saveClosed", m, TRUE) # calc("calcStory", s)
        BY DEF calc, save
      <3> QED
        BY <2>1, <2>3, <3>1 DEF SprintComing
    <2> QED
      BY <1>1, <1>2, <2>2, <2>3, PendingStep
  <1> QED
    BY <1>1, <1>6, <1>7 DEF ClosingInv, Replaces

LEMMA CalcSprintCloses ==
    ASSUME ClosingInv, onlyClosing, NEW r \in Requests, CalcSprint(r)
    PROVE  ClosingInv'
  <1>1. PICK m \in Sprints, do \in {"calcSprint", "calcPrev", "tryClose"}, value \in BOOLEAN :
            /\ value = calculate_milestone_is_closed(m)
            /\ Replaces(r, calc(do, m),
                        IF value = seen[r].sprints[m] \/ (do = "tryClose" /\ ~value) THEN {}
                        ELSE {save("saveClosed", m, value)})
            /\ UNCHANGED <<onlyClosing, exists, task, story, closed, seen>>
    BY CalcSprintDoes DEF ClosingInv
  <1>2. /\ OnlyCloses
        /\ \A u \in Stories : calculate_userstory_is_closed(u)' = calculate_userstory_is_closed(u)
        /\ \A n \in Sprints : calculate_milestone_is_closed(n)' = calculate_milestone_is_closed(n)
    BY <1>1, Unmoved
  <1>3. NonEmpty(m) /\ seen[r].sprints[m] => value /\ closed[m]
    BY <1>1 DEF ClosingInv, ClosingBelow
  <1>4. save("saveClosed", m, value) \in Saves
    BY <1>1 DEF save, Saves
  <1>5. NonEmpty(m) /\ value # seen[r].sprints[m] => value
    <2>1. seen[r].sprints[m] \in BOOLEAN
      BY DEF ClosingInv, ShapeInv, TypeOK
    <2> QED
      BY <1>3, <2>1
  <1>6. ClosingBelow'
    <2>1. ASSUME NEW q \in Requests, NEW y \in Steps(q)', y \notin Steps(q)
          PROVE  y \in Calcs \cup Saves /\ Founded(y)
      <3>1. q = r /\ y = save("saveClosed", m, value) /\ value # seen[r].sprints[m]
        BY <1>1, <2>1 DEF Replaces
      <3>2. y.do = "saveClosed" /\ y.id = m /\ y.value = value
        BY <3>1 DEF save
      <3> QED
        BY <1>1, <1>4, <1>5, <3>1, <3>2 DEF Founded
    <2> QED
      BY <1>1, <1>2, <2>1, BelowStep
  <1>7. ClosingPending'
    <2>1. \A q \in Requests : \A y \in Steps(q) : y \in Steps(q)' \/ y = calc(do, m)
      BY <1>1 DEF Replaces
    <2>2. ASSUME NEW s \in Stories, StoryComing(s) PROVE StoryComing(s)'
      <3>1. calc("calcStory", s) # calc(do, m) /\ save("saveFlag", s, TRUE) # calc(do, m)
        BY DEF calc, save
      <3> QED
        BY <2>1, <2>2, <3>1 DEF StoryComing
    <2>3. ASSUME NEW n \in Sprints, NonEmpty(n), SprintComing(n), calculate_milestone_is_closed(n)
          PROVE  SprintComing(n)' \/ closed'[n]
      <3>1. CASE n = m
        <4>1. CASE seen[r].sprints[m]
          BY <1>1, <1>3, <2>3, <3>1, <4>1
        <4>2. CASE ~seen[r].sprints[m]
          <5>1. save("saveClosed", m, TRUE) \in Steps(r)'
            BY <1>1, <2>3, <3>1, <4>2 DEF Replaces
          <5> QED
            BY <3>1, <5>1 DEF SprintComing
        <4> QED
          BY <4>1, <4>2
      <3>2. CASE n # m
        <4>1. calc("calcSprint", n) # calc(do, m) /\ save("saveClosed", n, TRUE) # calc(do, m)
          BY <3>2 DEF calc, save
        <4> QED
          BY <2>1, <2>3, <4>1 DEF SprintComing
      <3> QED
        BY <3>1, <3>2
    <2> QED
      BY <1>1, <1>2, <2>2, <2>3, PendingStep
  <1> QED
    BY <1>1, <1>6, <1>7 DEF ClosingInv, Replaces

LEMMA SaveClosedCloses ==
    ASSUME ClosingInv, onlyClosing, NEW r \in Requests, SaveClosed(r)
    PROVE  ClosingInv'
  <1>1. PICK m \in Sprints, value \in BOOLEAN :
            /\ closed' = [closed EXCEPT ![m] = value]
            /\ seen' = [seen EXCEPT ![r].sprints[m] = value]
            /\ Replaces(r, save("saveClosed", m, value), {})
            /\ UNCHANGED <<onlyClosing, exists, task, story, unchecked, forgotten>>
    BY SaveClosedDoes DEF ClosingInv
  <1>2. /\ OnlyCloses
        /\ \A u \in Stories : calculate_userstory_is_closed(u)' = calculate_userstory_is_closed(u)
        /\ \A n \in Sprints : calculate_milestone_is_closed(n)' = calculate_milestone_is_closed(n)
    BY <1>1, Unmoved
  <1>3. Founded(save("saveClosed", m, value))
    BY <1>1 DEF Replaces, ClosingInv, ClosingBelow
  <1>4. NonEmpty(m) => value /\ calculate_milestone_is_closed(m)
    BY <1>3 DEF Founded, save
  <1>5. \A n \in Sprints : closed'[n] = IF n = m THEN value ELSE closed[n]
    BY <1>1 DEF ClosingInv, ShapeInv, TypeOK
  <1>6. \A q \in Requests :
            /\ \A s \in Stories : seen'[q].stories[s] = seen[q].stories[s]
            /\ \A n \in Sprints : seen'[q].sprints[n] => seen[q].sprints[n] \/ closed'[n]
    <2>1. seen \in [Requests -> [stories : [Stories -> BOOLEAN], sprints : [Sprints -> BOOLEAN]]]
      BY DEF ClosingInv, ShapeInv, TypeOK
    <2> QED
      BY <1>1, <1>5, <2>1
  <1>7. ClosingBelow'
    <2>1. \A q \in Requests : \A y \in Steps(q)' : y \in Steps(q)
      BY <1>1 DEF Replaces
    <2> QED
      BY <1>1, <1>2, <1>4, <1>5, <1>6, <2>1, BelowStep
  <1>8. ClosingPending'
    <2>1. \A q \in Requests : \A y \in Steps(q) : y \in Steps(q)' \/ y = save("saveClosed", m, value)
      BY <1>1 DEF Replaces
    <2>2. ASSUME NEW s \in Stories, StoryComing(s) PROVE StoryComing(s)'
      <3>1. /\ calc("calcStory", s) # save("saveClosed", m, value)
            /\ save("saveFlag", s, TRUE) # save("saveClosed", m, value)
        BY DEF calc, save
      <3> QED
        BY <2>1, <2>2, <3>1 DEF StoryComing
    <2>3. ASSUME NEW n \in Sprints, NonEmpty(n), SprintComing(n)
          PROVE  SprintComing(n)' \/ closed'[n]
      <3>1. CASE n = m
        BY <1>4, <1>5, <2>3, <3>1
      <3>2. CASE n # m
        <4>1. /\ calc("calcSprint", n) # save("saveClosed", m, value)
              /\ save("saveClosed", n, TRUE) # save("saveClosed", m, value)
          BY <3>2 DEF calc, save
        <4> QED
          BY <2>1, <2>3, <4>1 DEF SprintComing
      <3> QED
        BY <3>1, <3>2
    <2> QED
      BY <1>1, <1>2, <1>4, <1>5, <2>2, <2>3, PendingStep
  <1> QED
    BY <1>1, <1>7, <1>8 DEF ClosingInv, Replaces

LEMMA SaveFlagCloses ==
    ASSUME ClosingInv, onlyClosing, NEW r \in Requests, SaveFlag(r)
    PROVE  ClosingInv'
  <1>1. PICK s \in Stories, value \in BOOLEAN :
            /\ save("saveFlag", s, value) \in Steps(r)
            /\ story' = [story EXCEPT ![s].is_closed = value]
            /\ seen' = [seen EXCEPT ![r].stories[s] = value]
            /\ onlyClosing => task' = task
            /\ UNCHANGED <<onlyClosing, exists, closed, unchecked>>
            /\ forgotten \subseteq forgotten'
            /\ ShapeInv' /\ work[r] # <<>> /\ Steps(r)' \subseteq Calcs
            /\ story[s].sprint # None => calc("calcSprint", story[s].sprint) \in Steps(r)'
            /\ \A y \in Steps(r) :
                   \/ y \in Steps(r)' \/ y = save("saveFlag", s, value)
                   \/ y.do = "calcPrev" /\ y.id \in forgotten'
            /\ \A y \in Steps(r)' : y \in Steps(r) \/ y.do \notin {"calcPrev", "tryClose"}
            /\ \A q \in Requests \ {r} : Steps(q)' = Steps(q)
    <2>1. ShapeInv
      BY DEF ClosingInv
    <2> QED
      BY <2>1, SaveFlagDoes, Zenon
  <1>2. \A u \in Stories : /\ story'[u].sprint = story[u].sprint
                           /\ story'[u].done = story[u].done
                           /\ story'[u].is_closed = IF u = s THEN value ELSE story[u].is_closed
    <2>1. \A u \in Stories : story[u] \in StoryRow
      BY DEF ClosingInv, ShapeInv, TypeOK
    <2> QED
      BY <1>1, <2>1 DEF ClosingInv, ShapeInv, TypeOK, StoryRow
  <1>3. OnlyCloses
    BY <1>1, <1>2 DEF OnlyCloses
  <1>4. \A y \in Steps(r) : Founded(y)
    BY <1>1 DEF ClosingInv, ClosingBelow
  <1>5. s \in exists => value /\ calculate_userstory_is_closed(s)
    BY <1>1, <1>4 DEF Founded, save
  <1>6. \A q \in Requests :
            /\ \A u \in Stories : seen'[q].stories[u] => seen[q].stories[u] \/ story'[u].is_closed
            /\ \A n \in Sprints : seen'[q].sprints[n] = seen[q].sprints[n]
    <2>1. seen \in [Requests -> [stories : [Stories -> BOOLEAN], sprints : [Sprints -> BOOLEAN]]]
      BY DEF ClosingInv, ShapeInv, TypeOK
    <2> QED
      BY <1>1, <1>2, <2>1
  <1>7. \A u \in exists \cap Stories :
            /\ story[u].is_closed => story'[u].is_closed
            /\ story'[u].is_closed => story[u].is_closed \/ calculate_userstory_is_closed(u)
    BY <1>2, <1>5
  <1>8. ClosingBelow'
    <2>1. ASSUME NEW q \in Requests, NEW y \in Steps(q)'
          PROVE  y \in Steps(q) \/ (y \in Calcs \cup Saves /\ Founded(y))
      <3>1. CASE q = r
        <4>1. y \in Calcs /\ (y \in Steps(q) \/ y.do \notin {"calcPrev", "tryClose"})
          BY <1>1, <2>1, <3>1
        <4>2. y.do \notin {"saveFlag", "saveClosed"}
          BY <4>1 DEF Calcs
        <4> QED
          BY <4>1, <4>2 DEF Founded
      <3>2. CASE q # r
        BY <1>1, <2>1, <3>2
      <3> QED
        BY <3>1, <3>2
    <2> QED
      BY <1>1, <1>3, <1>6, <1>7, <2>1, BelowStep
  <1>9. \A q \in Requests : \A y \in Steps(q) : y \in Steps(q)' \/ y = save("saveFlag", s, value)
    BY <1>1, <1>4 DEF Founded
  <1>10. ASSUME NEW u \in exists \cap Stories
         PROVE  /\ StoryComing(u) => StoryComing(u)' \/ story'[u].is_closed
                /\ calculate_userstory_is_closed(u)' = calculate_userstory_is_closed(u)
    <2>1. calculate_userstory_is_closed(u)' = calculate_userstory_is_closed(u)
      <3>1. TasksOf(u)' = TasksOf(u) /\ story'[u].done = story[u].done
        BY <1>2, <1>3, SameMembers
      <3>2. \A t \in TasksOf(u) : task'[t].done = task[t].done
        BY <1>1
      <3> QED
        BY <3>1, <3>2, SameStory
    <2>2. CASE u = s
      BY <1>2, <1>5, <2>1, <2>2
    <2>3. CASE u # s
      <3>1. /\ calc("calcStory", u) # save("saveFlag", s, value)
            /\ save("saveFlag", u, TRUE) # save("saveFlag", s, value)
        BY <2>3 DEF calc, save
      <3> QED
        BY <1>9, <2>1, <3>1 DEF StoryComing
    <2> QED
      BY <2>2, <2>3
  <1>11. ASSUME NEW m \in Sprints
         PROVE  /\ SprintComing(m) => SprintComing(m)'
                /\ \/ calculate_milestone_is_closed(m)' = calculate_milestone_is_closed(m)
                   \/ SprintComing(m)'
    <2>1. SprintComing(m) => SprintComing(m)'
      <3>1. /\ calc("calcSprint", m) # save("saveFlag", s, value)
            /\ save("saveClosed", m, TRUE) # save("saveFlag", s, value)
        BY DEF calc, save
      <3> QED
        BY <1>9, <3>1 DEF SprintComing
    <2>2. CASE story[s].sprint = m
      <3>1. calc("calcSprint", m) \in Steps(r)'
        BY <1>1, <2>2, IdAssumption
      <3> QED
        BY <2>1, <3>1 DEF SprintComing
    <2>3. CASE story[s].sprint # m
      <3>1. StoriesIn(m)' = StoriesIn(m) /\ StorylessIn(m)' = StorylessIn(m)
        BY <1>3, SameMembers
      <3>2. \A u \in StoriesIn(m) : story'[u].is_closed = story[u].is_closed
        BY <1>2, <2>3 DEF StoriesIn
      <3>3. \A t \in StorylessIn(m) : task'[t].done = task[t].done
        BY <1>1
      <3> QED
        BY <2>1, <3>1, <3>2, <3>3, SameSprint
    <2> QED
      BY <2>2, <2>3
  <1>12. ClosingPending'
    BY <1>1, <1>3, <1>7, <1>10, <1>11, PendingStep
  <1> QED
    BY <1>1, <1>8, <1>12 DEF ClosingInv

LEMMA ClosingInit ==
    ASSUME Init
    PROVE  ClosingInv
  <1>1. ShapeInv
    BY ShapeInit
  <1>2. /\ \A s \in exists \cap Stories : story[s].is_closed = calculate_userstory_is_closed(s)
        /\ \A m \in Sprints : NonEmpty(m) => closed[m] = calculate_milestone_is_closed(m)
    BY DEF Init, Exact, NonEmpty
  <1>3. \A r \in Requests : /\ Steps(r) = {} /\ seen[r] = Flags
    BY ElsNone DEF Init, Steps
  <1>4. /\ \A s \in Stories : Flags.stories[s] = story[s].is_closed
        /\ Flags.sprints = closed
    BY DEF Flags
  <1>5. ClosingBelow
    BY <1>2, <1>3, <1>4 DEF ClosingBelow
  <1>6. ClosingPending
    BY <1>2 DEF ClosingPending
  <1> QED
    BY <1>1, <1>5, <1>6 DEF ClosingInv

LEMMA ClosingStutter ==
    ASSUME ClosingInv, UNCHANGED vars
    PROVE  ClosingInv'
  <1>1. UNCHANGED <<onlyClosing, exists, task, story, closed, work, seen>>
    BY DEF vars, rows
  <1>2. ShapeInv'
    BY ShapeStutter DEF ClosingInv
  <1>3. ASSUME onlyClosing PROVE ClosingBelow' /\ ClosingPending'
    <2>1. /\ OnlyCloses
          /\ \A u \in Stories : calculate_userstory_is_closed(u)' = calculate_userstory_is_closed(u)
          /\ \A n \in Sprints : calculate_milestone_is_closed(n)' = calculate_milestone_is_closed(n)
      BY <1>1, Unmoved
    <2>2. \A q \in Requests : Steps(q)' = Steps(q)
      BY <1>1 DEF Steps
    <2>3. /\ \A s \in Stories : StoryComing(s) => StoryComing(s)'
          /\ \A m \in Sprints : SprintComing(m) => SprintComing(m)'
      BY <2>2 DEF StoryComing, SprintComing
    <2>4. ClosingBelow'
      BY <1>1, <1>3, <2>1, <2>2, BelowStep
    <2>5. ClosingPending'
      BY <1>1, <1>3, <2>1, <2>3, PendingStep
    <2> QED
      BY <2>4, <2>5
  <1> QED
    BY <1>1, <1>2, <1>3 DEF ClosingInv

\* Requests overlap and only close, or come one at a time, for good.
LEMMA OneKind ==
    ASSUME Next
    PROVE  onlyClosing' = onlyClosing
  BY DEF Next, Begin, Work, SaveTask, SaveStory, DeleteTask, DeleteStory, CreateInBulk,
         DragOnKanban, DragOnBacklog, MoveInBulk, MoveTasksInBulk, EditTaskStatus,
         EditStoryStatus, DeleteStatus, CalcStory, SaveFlag, CalcSprint, SaveClosed

LEMMA ClosingNext ==
    ASSUME ClosingInv, [Next]_vars
    PROVE  ClosingInv'
  <1>1. ShapeInv /\ ShapeInv'
    BY ShapeNext DEF ClosingInv
  <1>2. ASSUME onlyClosing, NEW r \in Requests, NEW op \in Operations, MayBegin(r), Begin(r, op)
        PROVE  ClosingInv'
    BY <1>2, BeginCloses
  <1>3. ASSUME onlyClosing, NEW r \in Requests, Work(r)
        PROVE  ClosingInv'
    <2>1. ~SaveStory(r) /\ ~DeleteTask(r) /\ ~DeleteStory(r)
      BY <1>1, <1>3, SaveStoryDoes, DeleteTaskDoes, DeleteStoryDoes
    <2>2. ~CreateInBulk(r) /\ ~DragOnBacklog(r) /\ ~MoveInBulk(r) /\ ~MoveTasksInBulk(r)
      BY <1>1, <1>3, CreateInBulkDoes, DragOnBacklogDoes, MoveInBulkDoes, MoveTasksInBulkDoes
    <2>3. ~EditTaskStatus(r) /\ ~EditStoryStatus(r) /\ ~DeleteStatus(r)
      BY <1>1, <1>3, EditTaskStatusDoes, EditStoryStatusDoes, DeleteStatusDoes DEF StatusesChange
    <2> QED
      BY <1>3, <2>1, <2>2, <2>3, SaveTaskCloses, DragOnKanbanCloses, CalcStoryCloses,
         SaveFlagCloses, CalcSprintCloses, SaveClosedCloses DEF Work
  <1>4. ASSUME ~onlyClosing, Next PROVE ClosingInv'
    <2>1. onlyClosing' = onlyClosing
      BY <1>4, OneKind
    <2> QED
      BY <1>1, <1>4, <2>1 DEF ClosingInv
  <1>5. CASE UNCHANGED vars
    BY <1>5, ClosingStutter
  <1> QED
    BY <1>2, <1>3, <1>4, <1>5 DEF Next, Operations

\* However many requests close tasks and stories at the same time, and whatever
\* they read before each other's writes: when all of them have answered, every
\* story and every sprint with something in it is flagged as its rows say.
THEOREM ClosingExactHolds == Spec => []ClosingExact
  <1>1. Init => ClosingInv
    BY ClosingInit
  <1>2. ClosingInv /\ [Next]_vars => ClosingInv'
    BY ClosingNext
  <1>3. ClosingInv => ClosingExact
    <2> SUFFICES ASSUME ClosingInv, onlyClosing, Idle
                 PROVE  Exact({})
      BY DEF ClosingExact
    <2>1. ClosingBelow /\ ClosingPending
      BY DEF ClosingInv
    <2>2. \A r \in Requests : Steps(r) = {}
      BY ElsNone DEF Idle, Steps
    <2>3. ASSUME NEW s \in exists \cap Stories
          PROVE  story[s].is_closed = calculate_userstory_is_closed(s)
      <3>1. story[s].is_closed <=> calculate_userstory_is_closed(s)
        BY <2>1, <2>2 DEF ClosingBelow, ClosingPending, StoryComing
      <3>2. story[s].is_closed \in BOOLEAN /\ story[s].done \in BOOLEAN
        BY DEF ClosingInv, ShapeInv, TypeOK, StoryRow
      <3>3. calculate_userstory_is_closed(s) \in BOOLEAN
        BY <3>2 DEF calculate_userstory_is_closed
      <3> QED
        BY <3>1, <3>2, <3>3
    <2>4. ASSUME NEW m \in Sprints, NonEmpty(m)
          PROVE  closed[m] = calculate_milestone_is_closed(m)
      <3>1. closed[m] <=> calculate_milestone_is_closed(m)
        BY <2>1, <2>2, <2>4 DEF ClosingBelow, ClosingPending, SprintComing
      <3>2. closed[m] \in BOOLEAN /\ calculate_milestone_is_closed(m) \in BOOLEAN
        BY DEF ClosingInv, ShapeInv, TypeOK, calculate_milestone_is_closed
      <3> QED
        BY <3>1, <3>2
    <2> QED
      BY <2>3, <2>4 DEF Exact, NonEmpty
  <1> QED
    BY <1>1, <1>2, <1>3, PTL DEF Spec

-----------------------------------------------------------------------------
(* One request at a time *)

StoryOnWay(s) == \E q \in Requests :
    \/ calc("calcStory", s) \in Steps(q)
    \/ save("saveFlag", s, calculate_userstory_is_closed(s)) \in Steps(q)
SprintOnWay(m) == \E q \in Requests :
    \/ calc("calcSprint", m) \in Steps(q) \/ calc("calcPrev", m) \in Steps(q)
    \/ calc("tryClose", m) \in Steps(q) /\ calculate_milestone_is_closed(m)
    \/ save("saveClosed", m, calculate_milestone_is_closed(m)) \in Steps(q)

\* A flag is right or on its way, and the one that a sprint gets is right.
SerialFlags ==
    /\ \A s \in (exists \cap Stories) \ unchecked :
           story[s].is_closed = calculate_userstory_is_closed(s) \/ StoryOnWay(s)
    /\ \A m \in Sprints \ (unchecked \cup forgotten) : NonEmpty(m) =>
           closed[m] = calculate_milestone_is_closed(m) \/ SprintOnWay(m)
    /\ \A q \in Requests : \A x \in Steps(q) :
           x.do = "saveClosed" => x.value = calculate_milestone_is_closed(x.id)

SerialExactInv == ShapeInv /\ (~onlyClosing => SerialFlags)

LEMMA Alone ==
    ASSUME ShapeInv, ~onlyClosing, NEW r \in Requests, work[r] # <<>>
    PROVE  \A q \in Requests \ {r} : Steps(q) = {}
  BY LoadedAlone, ElsNone DEF Steps

\* When an operation is done, every flag is right but those that are excused.
LEMMA BeforeOperation ==
    ASSUME SerialExactInv, ~onlyClosing, NEW r \in Requests, Starts(r)
    PROVE  /\ \A s \in (exists \cap Stories) \ unchecked :
                  story[s].is_closed = calculate_userstory_is_closed(s)
           /\ \A m \in Sprints \ (unchecked \cup forgotten) : NonEmpty(m) =>
                  closed[m] = calculate_milestone_is_closed(m)
  <1>1. \A q \in Requests : \A x \in Steps(q) : x.do \in OpKinds
    BY Alone, OperationKinds DEF SerialExactInv, Starts
  <1>2. \A s \in Stories : ~StoryOnWay(s)
    BY <1>1 DEF StoryOnWay, calc, save, OpKinds
  <1>3. \A m \in Sprints : ~SprintOnWay(m)
    BY <1>1 DEF SprintOnWay, calc, save, OpKinds
  <1> QED
    BY <1>2, <1>3 DEF SerialExactInv, SerialFlags

\* What an operation changes it recomputes, or excuses.
LEMMA OperationSerial ==
    ASSUME SerialExactInv, ~onlyClosing, NEW r \in Requests, Starts(r),
           UNCHANGED <<onlyClosing, closed>>,
           unchecked \cap (exists' \cup Sprints) \subseteq unchecked', forgotten \subseteq forgotten',
           \A s \in (exists' \cap Stories) \ unchecked' :
               \/ calc("calcStory", s) \in Steps(r)'
               \/ story'[s].is_closed = calculate_userstory_is_closed(s)'
               \/ /\ s \in exists /\ story'[s].is_closed = story[s].is_closed
                  /\ calculate_userstory_is_closed(s)' = calculate_userstory_is_closed(s),
           \A m \in Sprints \ (unchecked' \cup forgotten') : NonEmpty(m)' =>
               \/ calc("calcSprint", m) \in Steps(r)' \/ calc("calcPrev", m) \in Steps(r)'
               \/ /\ NonEmpty(m)
                  /\ calculate_milestone_is_closed(m)' = calculate_milestone_is_closed(m)
               \/ /\ NonEmpty(m) /\ calc("tryClose", m) \in Steps(r)'
                  /\ calculate_milestone_is_closed(m) => calculate_milestone_is_closed(m)'
    PROVE  SerialExactInv'
  <1>1. /\ \A s \in (exists \cap Stories) \ unchecked : story[s].is_closed = calculate_userstory_is_closed(s)
        /\ \A m \in Sprints \ (unchecked \cup forgotten) : NonEmpty(m) =>
               closed[m] = calculate_milestone_is_closed(m)
    BY BeforeOperation
  <1>2. ASSUME NEW s \in (exists' \cap Stories) \ unchecked'
        PROVE  story'[s].is_closed = calculate_userstory_is_closed(s)' \/ StoryOnWay(s)'
    <2>1. CASE calc("calcStory", s) \in Steps(r)'
      BY <2>1 DEF StoryOnWay
    <2>2. CASE /\ s \in exists /\ story'[s].is_closed = story[s].is_closed
               /\ calculate_userstory_is_closed(s)' = calculate_userstory_is_closed(s)
      <3>1. s \in (exists \cap Stories) \ unchecked
        BY <2>2
      <3> QED
        BY <1>1, <2>2, <3>1
    <2> QED
      BY <2>1, <2>2
  <1>3. ASSUME NEW m \in Sprints \ (unchecked' \cup forgotten'), NonEmpty(m)'
        PROVE  closed'[m] = calculate_milestone_is_closed(m)' \/ SprintOnWay(m)'
    <2>1. m \in Sprints \ (unchecked \cup forgotten)
      OBVIOUS
    <2>2. CASE calc("calcSprint", m) \in Steps(r)' \/ calc("calcPrev", m) \in Steps(r)'
      BY <2>2 DEF SprintOnWay
    <2>3. CASE /\ NonEmpty(m)
               /\ calculate_milestone_is_closed(m)' = calculate_milestone_is_closed(m)
      BY <1>1, <2>3, <2>1
    <2>4. CASE /\ NonEmpty(m) /\ calc("tryClose", m) \in Steps(r)'
               /\ calculate_milestone_is_closed(m) => calculate_milestone_is_closed(m)'
      <3>1. CASE calculate_milestone_is_closed(m)'
        BY <2>4, <3>1 DEF SprintOnWay
      <3>2. CASE ~calculate_milestone_is_closed(m)'
        <4>1. /\ calculate_milestone_is_closed(m) \in BOOLEAN
              /\ calculate_milestone_is_closed(m)' \in BOOLEAN
          BY DEF calculate_milestone_is_closed
        <4>2. closed[m] = calculate_milestone_is_closed(m)
          BY <1>1, <2>4, <2>1
        <4> QED
          BY <2>4, <3>2, <4>1, <4>2
      <3> QED
        BY <3>1, <3>2
    <2> QED
      BY <1>3, <2>2, <2>3, <2>4
  <1>4. ASSUME NEW q \in Requests, NEW x \in Steps(q)'
        PROVE  x.do # "saveClosed"
    <2>1. CASE q = r
      <3>1. x \in Calcs
        BY <1>4, <2>1 DEF Starts
      <3> QED
        BY <3>1 DEF Calcs
    <2>2. CASE q # r
      BY <1>4, <2>2, Alone DEF SerialExactInv, Starts
    <2> QED
      BY <2>1, <2>2
  <1>5. SerialFlags'
    BY <1>2, <1>3, <1>4 DEF SerialFlags
  <1> QED
    BY <1>5 DEF SerialExactInv, Starts

LEMMA SaveTaskSerial ==
    ASSUME SerialExactInv, ~onlyClosing, NEW r \in Requests, SaveTask(r)
    PROVE  SerialExactInv'
  <1>1. PICK t \in Tasks, x \in TaskRow :
            /\ exists' = exists \cup {t} /\ task' = [task EXCEPT ![t] = x]
            /\ UNCHANGED <<onlyClosing, story, closed, seen, unchecked, forgotten>>
            /\ Starts(r)
            /\ x.story # None => calc("calcStory", x.story) \in Steps(r)'
            /\ x.sprint # None => calc("calcSprint", x.sprint) \in Steps(r)'
            /\ t \in exists /\ task[t].story # None =>
                   calc("calcStory", task[t].story) \in Steps(r)'
            /\ t \in exists /\ task[t].sprint # None =>
                   calc("calcSprint", task[t].sprint) \in Steps(r)'
    <2>1. ShapeInv
      BY DEF SerialExactInv
    <2> QED
      BY <2>1, SaveTaskDoes
  <1>2. \A u \in Tasks : task'[u] = IF u = t THEN x ELSE task[u]
    BY <1>1 DEF SerialExactInv, ShapeInv, TypeOK
  <1>3. exists' \cap Stories = exists \cap Stories /\ None \notin Stories /\ None \notin Sprints
    BY <1>1, IdAssumption
  <1>4. ASSUME NEW s \in exists' \cap Stories, calc("calcStory", s) \notin Steps(r)'
        PROVE  calculate_userstory_is_closed(s)' = calculate_userstory_is_closed(s)
    <2>1. x.story # s /\ (t \in exists => task[t].story # s)
      BY <1>1, <1>3, <1>4
    <2>2. TasksOf(s)' = TasksOf(s) /\ t \notin TasksOf(s)
      BY <1>1, <1>2, <2>1 DEF TasksOf
    <2>3. \A u \in TasksOf(s) : task'[u].done = task[u].done
      BY <1>2, <2>2 DEF TasksOf
    <2>4. story'[s].done = story[s].done
      BY <1>1
    <2> QED
      BY <2>2, <2>3, <2>4, SameStory
  <1>5. ASSUME NEW m \in Sprints, calc("calcSprint", m) \notin Steps(r)'
        PROVE  /\ calculate_milestone_is_closed(m)' = calculate_milestone_is_closed(m)
               /\ NonEmpty(m)' = NonEmpty(m)
    <2>1. x.sprint # m /\ (t \in exists => task[t].sprint # m)
      BY <1>1, <1>3, <1>5
    <2>2. StorylessIn(m)' = StorylessIn(m) /\ t \notin StorylessIn(m)
      BY <1>1, <1>2, <2>1 DEF StorylessIn
    <2>3. \A u \in StorylessIn(m) : task'[u].done = task[u].done
      BY <1>2, <2>2 DEF StorylessIn
    <2>4. StoriesIn(m)' = StoriesIn(m)
      BY <1>1, <1>3 DEF StoriesIn
    <2>5. \A s \in StoriesIn(m) : story'[s].is_closed = story[s].is_closed
      BY <1>1
    <2> QED
      BY <2>2, <2>3, <2>4, <2>5, SameSprint
  <1>6. UNCHANGED <<onlyClosing, closed, story, unchecked, forgotten>>
    BY <1>1
  <1> QED
    BY <1>1, <1>3, <1>4, <1>5, <1>6, OperationSerial

\* Where stories and tasks are after a story has gone to another sprint.
LEMMA MovedMembers ==
    ASSUME ShapeInv, NEW s \in Stories, NEW m \in Sprints \cup {None},
           task' = WithTasks(s, m), story'[s].sprint = m,
           \A u \in Stories \ {s} : story'[u] = story[u], exists' \in {exists, exists \cup {s}}
    PROVE  /\ \A u \in Stories : /\ TasksOf(u)' = TasksOf(u)
                                 /\ \A t \in TasksOf(u) : task'[t].done = task[t].done
           /\ \A n \in Sprints : /\ StorylessIn(n)' = StorylessIn(n)
                                 /\ \A t \in StorylessIn(n) : task'[t].done = task[t].done
           /\ \A n \in Sprints \ {m, story[s].sprint} :
                  StoriesIn(n)' = StoriesIn(n) /\ s \notin StoriesIn(n)
  <1>1. \A t \in Tasks : /\ task'[t].story = task[t].story /\ task'[t].done = task[t].done
                         /\ task[t].story = None => task'[t] = task[t]
    BY MovedTasks DEF ShapeInv
  <1>2. exists' \cap Tasks = exists \cap Tasks
    BY IdAssumption
  <1>3. \A u \in Stories : TasksOf(u)' = TasksOf(u)
    BY <1>1, <1>2 DEF TasksOf
  <1>4. \A n \in Sprints : StorylessIn(n)' = StorylessIn(n)
    BY <1>1, <1>2 DEF StorylessIn
  <1>5. ASSUME NEW n \in Sprints \ {m, story[s].sprint}
        PROVE  StoriesIn(n)' = StoriesIn(n) /\ s \notin StoriesIn(n)
    BY DEF StoriesIn
  <1> QED
    BY <1>1, <1>3, <1>4, <1>5 DEF TasksOf, StorylessIn

\* A story goes to another sprint, and both sprints are computed or excused.
LEMMA MovedSerial ==
    ASSUME SerialExactInv, ~onlyClosing, NEW r \in Requests, Starts(r),
           NEW s \in Stories, NEW m \in Sprints \cup {None},
           task' = WithTasks(s, m), story'[s].sprint = m,
           story'[s].is_closed = story[s].is_closed,
           (s \in exists /\ story'[s].done = story[s].done) \/ calc("calcStory", s) \in Steps(r)',
           \A u \in Stories \ {s} : story'[u] = story[u],
           exists' \in {exists, exists \cup {s}},
           UNCHANGED <<onlyClosing, closed, forgotten>>, unchecked \subseteq unchecked',
           \A n \in {m, story[s].sprint} \ {None} :
               n \in unchecked' \/ calc("calcSprint", n) \in Steps(r)'
                                \/ calc("calcPrev", n) \in Steps(r)'
    PROVE  SerialExactInv'
  <1>1. /\ \A u \in Stories : /\ TasksOf(u)' = TasksOf(u)
                              /\ \A t \in TasksOf(u) : task'[t].done = task[t].done
        /\ \A n \in Sprints : /\ StorylessIn(n)' = StorylessIn(n)
                              /\ \A t \in StorylessIn(n) : task'[t].done = task[t].done
        /\ \A n \in Sprints \ {m, story[s].sprint} :
               StoriesIn(n)' = StoriesIn(n) /\ s \notin StoriesIn(n)
    <2>1. ShapeInv
      BY DEF SerialExactInv
    <2> QED
      BY <2>1, MovedMembers
  <1>2. ASSUME NEW u \in exists' \cap Stories, calc("calcStory", u) \notin Steps(r)'
        PROVE  /\ u \in exists /\ story'[u].is_closed = story[u].is_closed
               /\ calculate_userstory_is_closed(u)' = calculate_userstory_is_closed(u)
    <2>1. story'[u].done = story[u].done /\ story'[u].is_closed = story[u].is_closed
      BY <1>2
    <2>2. TasksOf(u)' = TasksOf(u) /\ \A t \in TasksOf(u) : task'[t].done = task[t].done
      BY <1>1
    <2>3. calculate_userstory_is_closed(u)' = calculate_userstory_is_closed(u)
      BY <2>1, <2>2, SameStory
    <2>4. u \in exists
      BY <1>2
    <2> QED
      BY <2>1, <2>3, <2>4
  <1>3. ASSUME NEW n \in Sprints \ (unchecked' \cup forgotten'),
               calc("calcSprint", n) \notin Steps(r)', calc("calcPrev", n) \notin Steps(r)'
        PROVE  /\ calculate_milestone_is_closed(n)' = calculate_milestone_is_closed(n)
               /\ NonEmpty(n)' = NonEmpty(n)
    <2>1. n \notin {m, story[s].sprint}
      BY <1>3, IdAssumption
    <2>2. /\ StoriesIn(n)' = StoriesIn(n) /\ s \notin StoriesIn(n)
          /\ StorylessIn(n)' = StorylessIn(n)
          /\ \A t \in StorylessIn(n) : task'[t].done = task[t].done
      BY <1>1, <2>1
    <2>3. \A u \in StoriesIn(n) : story'[u].is_closed = story[u].is_closed
      BY <2>2 DEF StoriesIn
    <2> QED
      BY <2>2, <2>3, SameSprint
  <1> QED
    BY <1>2, <1>3, OperationSerial

LEMMA SaveStorySerial ==
    ASSUME SerialExactInv, ~onlyClosing, NEW r \in Requests, SaveStory(r)
    PROVE  SerialExactInv'
  <1>1. PICK s \in Stories, m \in Sprints \cup {None}, done \in BOOLEAN :
            /\ story' = [story EXCEPT ![s] = [done |-> done, is_closed |-> story[s].is_closed,
                                              sprint |-> m]]
            /\ task' = WithTasks(s, m)
            /\ exists' = exists \cup {s}
            /\ UNCHANGED <<onlyClosing, closed, seen, unchecked, forgotten>>
            /\ Starts(r)
            /\ calc("calcStory", s) \in Steps(r)'
            /\ m # None => calc("calcSprint", m) \in Steps(r)'
            /\ story[s].sprint \notin {m, None} => calc("calcPrev", story[s].sprint) \in Steps(r)'
    BY SaveStoryDoes DEF SerialExactInv
  <1>2. /\ story'[s].sprint = m /\ story'[s].is_closed = story[s].is_closed
        /\ \A u \in Stories \ {s} : story'[u] = story[u]
    BY <1>1 DEF SerialExactInv, ShapeInv, TypeOK
  <1>3. \A n \in {m, story[s].sprint} \ {None} :
            calc("calcSprint", n) \in Steps(r)' \/ calc("calcPrev", n) \in Steps(r)'
    BY <1>1
  <1>4. UNCHANGED <<onlyClosing, closed, forgotten>> /\ unchecked \subseteq unchecked'
    BY <1>1
  <1> QED
    BY <1>1, <1>2, <1>3, <1>4, MovedSerial

\* What putting a story into another sprint leaves alone.
LEMMA PutStory ==
    ASSUME ShapeInv, NEW s \in Stories, NEW m, story' = [story EXCEPT ![s].sprint = m]
    PROVE  /\ story'[s].sprint = m /\ story'[s].is_closed = story[s].is_closed
           /\ story'[s].done = story[s].done
           /\ \A u \in Stories \ {s} : story'[u] = story[u]
  <1>1. story[s] \in StoryRow
    BY DEF ShapeInv, TypeOK
  <1> QED
    BY <1>1 DEF ShapeInv, TypeOK, StoryRow

LEMMA DragOnBacklogSerial ==
    ASSUME SerialExactInv, ~onlyClosing, NEW r \in Requests, DragOnBacklog(r)
    PROVE  SerialExactInv'
  <1>1. PICK s \in exists \cap Stories, m \in Sprints \cup {None} :
            /\ story' = [story EXCEPT ![s].sprint = m] /\ task' = WithTasks(s, m)
            /\ UNCHANGED <<onlyClosing, exists, closed, seen, unchecked, forgotten>>
            /\ Starts(r)
            /\ m # None => calc("calcSprint", m) \in Steps(r)'
            /\ story[s].sprint # None => calc("calcSprint", story[s].sprint) \in Steps(r)'
    BY DragOnBacklogDoes DEF SerialExactInv
  <1>2. /\ story'[s].sprint = m /\ story'[s].is_closed = story[s].is_closed
        /\ story'[s].done = story[s].done
        /\ \A u \in Stories \ {s} : story'[u] = story[u]
    BY <1>1, PutStory DEF SerialExactInv
  <1>3. \A n \in {m, story[s].sprint} \ {None} : calc("calcSprint", n) \in Steps(r)'
    BY <1>1
  <1>4. UNCHANGED <<onlyClosing, exists, closed, forgotten>> /\ unchecked \subseteq unchecked'
    BY <1>1
  <1> QED
    BY <1>1, <1>2, <1>3, <1>4, MovedSerial

LEMMA MoveInBulkSerial ==
    ASSUME SerialExactInv, ~onlyClosing, NEW r \in Requests, MoveInBulk(r)
    PROVE  SerialExactInv'
  <1>1. PICK s \in exists \cap Stories, m \in Sprints :
            /\ story' = [story EXCEPT ![s].sprint = m] /\ task' = WithTasks(s, m)
            /\ unchecked' = unchecked \cup ({story[s].sprint, m} \ {None})
            /\ UNCHANGED <<onlyClosing, exists, closed, seen, forgotten>>
            /\ Starts(r)
    BY MoveInBulkDoes DEF SerialExactInv
  <1>2. /\ story'[s].sprint = m /\ story'[s].is_closed = story[s].is_closed
        /\ story'[s].done = story[s].done
        /\ \A u \in Stories \ {s} : story'[u] = story[u]
    BY <1>1, PutStory DEF SerialExactInv
  <1>3. \A n \in {m, story[s].sprint} \ {None} : n \in unchecked'
    BY <1>1
  <1>4. UNCHANGED <<onlyClosing, exists, closed, forgotten>> /\ unchecked \subseteq unchecked'
    BY <1>1
  <1> QED
    BY <1>1, <1>2, <1>3, <1>4, MovedSerial

LEMMA DragOnKanbanSerial ==
    ASSUME SerialExactInv, ~onlyClosing, NEW r \in Requests, DragOnKanban(r)
    PROVE  SerialExactInv'
  <1>1. PICK s \in exists \cap Stories, done \in BOOLEAN :
            /\ story' = [story EXCEPT ![s].done = done]
            /\ UNCHANGED <<onlyClosing, exists, task, closed, unchecked, forgotten>>
            /\ Starts(r) /\ Steps(r)' = {calc("calcStory", s)}
    BY DragOnKanbanDoes DEF SerialExactInv
  <1>2. \A u \in Stories : /\ story'[u].sprint = story[u].sprint
                           /\ story'[u].is_closed = story[u].is_closed
                           /\ u # s => story'[u].done = story[u].done
    <2>1. \A u \in Stories : story[u] \in StoryRow
      BY DEF SerialExactInv, ShapeInv, TypeOK
    <2> QED
      BY <1>1, <2>1 DEF SerialExactInv, ShapeInv, TypeOK, StoryRow
  <1>3. ASSUME NEW u \in exists' \cap Stories, calc("calcStory", u) \notin Steps(r)'
        PROVE  calculate_userstory_is_closed(u)' = calculate_userstory_is_closed(u)
    <2>1. TasksOf(u)' = TasksOf(u) /\ \A t \in TasksOf(u) : task'[t].done = task[t].done
      BY <1>1 DEF TasksOf
    <2>2. story'[u].done = story[u].done
      BY <1>1, <1>2, <1>3
    <2> QED
      BY <2>1, <2>2, SameStory
  <1>4. ASSUME NEW n \in Sprints
        PROVE  /\ calculate_milestone_is_closed(n)' = calculate_milestone_is_closed(n)
               /\ NonEmpty(n)' = NonEmpty(n)
    <2>1. StoriesIn(n)' = StoriesIn(n) /\ StorylessIn(n)' = StorylessIn(n)
      BY <1>1, <1>2 DEF StoriesIn, StorylessIn
    <2>2. /\ \A u \in StoriesIn(n) : story'[u].is_closed = story[u].is_closed
          /\ \A t \in StorylessIn(n) : task'[t].done = task[t].done
      BY <1>1, <1>2 DEF StoriesIn
    <2> QED
      BY <2>1, <2>2, SameSprint
  <1>5. UNCHANGED <<onlyClosing, exists, closed, unchecked, forgotten>>
    BY <1>1
  <1> QED
    BY <1>1, <1>2, <1>3, <1>4, <1>5, OperationSerial

LEMMA StatusSerial ==
    ASSUME SerialExactInv, NEW r \in Requests, StatusesChange(r)
    PROVE  SerialExactInv'
  <1>1. ASSUME NEW s \in (exists' \cap Stories) \ unchecked', calc("calcStory", s) \notin Steps(r)'
        PROVE  /\ s \in exists
               /\ calculate_userstory_is_closed(s)' = calculate_userstory_is_closed(s)
    <2>1. s \in exists /\ story'[s].done = story[s].done
      BY <1>1 DEF StatusesChange
    <2>2. TasksOf(s)' = TasksOf(s)
      BY DEF StatusesChange, TasksOf
    <2>3. \A t \in TasksOf(s) : task'[t].done = task[t].done
      BY <1>1, IdAssumption DEF StatusesChange, TasksOf
    <2> QED
      BY <2>1, <2>2, <2>3, SameStory
  <1>2. ASSUME NEW m \in Sprints \ (unchecked' \cup forgotten')
        PROVE  /\ calculate_milestone_is_closed(m)' = calculate_milestone_is_closed(m)
               /\ NonEmpty(m)' = NonEmpty(m)
    <2>1. StorylessIn(m)' = StorylessIn(m) /\ StoriesIn(m)' = StoriesIn(m)
      BY DEF StatusesChange, StorylessIn, StoriesIn
    <2>2. \A t \in StorylessIn(m) : task'[t].done = task[t].done
      BY <1>2, IdAssumption DEF StatusesChange, StorylessIn
    <2>3. \A s \in StoriesIn(m) : story'[s].is_closed = story[s].is_closed
      BY DEF StatusesChange, StoriesIn
    <2> QED
      BY <2>1, <2>2, <2>3, SameSprint
  <1>3. /\ ~onlyClosing /\ Starts(r) /\ UNCHANGED <<onlyClosing, closed>>
        /\ unchecked \cap (exists' \cup Sprints) \subseteq unchecked' /\ forgotten \subseteq forgotten'
        /\ \A s \in Stories : story'[s].is_closed = story[s].is_closed
    BY DEF StatusesChange
  <1> QED
    BY <1>1, <1>2, <1>3, OperationSerial

\* A storyless task leaves a sprint and enters another, both of them excused.
LEMMA MoveTasksInBulkSerial ==
    ASSUME SerialExactInv, ~onlyClosing, NEW r \in Requests, MoveTasksInBulk(r)
    PROVE  SerialExactInv'
  <1>1. PICK t \in exists \cap Tasks, m \in Sprints :
            /\ task' = [task EXCEPT ![t].sprint = m]
            /\ unchecked \subseteq unchecked'
            /\ task[t].story = None => {task[t].sprint, m} \ {None} \subseteq unchecked'
            /\ UNCHANGED <<onlyClosing, exists, story, closed, forgotten>>
            /\ Starts(r)
    BY MoveTasksInBulkDoes DEF SerialExactInv
  <1>2. \A u \in Tasks : /\ task'[u].story = task[u].story /\ task'[u].done = task[u].done
                         /\ task'[u].sprint = IF u = t THEN m ELSE task[u].sprint
    <2>1. \A u \in Tasks : task[u] \in TaskRow
      BY DEF SerialExactInv, ShapeInv, TypeOK
    <2>2. \A u \in Tasks : task'[u] = IF u = t THEN [task[u] EXCEPT !.sprint = m] ELSE task[u]
      BY <1>1 DEF SerialExactInv, ShapeInv, TypeOK
    <2> QED
      BY <2>1, <2>2 DEF TaskRow
  <1>3. ASSUME NEW s \in exists' \cap Stories
        PROVE  /\ s \in exists
               /\ calculate_userstory_is_closed(s)' = calculate_userstory_is_closed(s)
    <2>1. TasksOf(s)' = TasksOf(s) /\ \A u \in TasksOf(s) : task'[u].done = task[u].done
      BY <1>1, <1>2 DEF TasksOf
    <2>2. s \in exists /\ story'[s].done = story[s].done
      BY <1>1
    <2> QED
      BY <2>1, <2>2, SameStory
  <1>4. ASSUME NEW n \in Sprints \ (unchecked' \cup forgotten')
        PROVE  /\ calculate_milestone_is_closed(n)' = calculate_milestone_is_closed(n)
               /\ NonEmpty(n)' = NonEmpty(n)
    <2>1. task[t].story = None => n # m /\ n # task[t].sprint
      BY <1>1, <1>4, IdAssumption
    <2>2. StorylessIn(n)' = StorylessIn(n) /\ StoriesIn(n)' = StoriesIn(n)
      BY <1>1, <1>2, <2>1 DEF StorylessIn, StoriesIn
    <2>3. /\ \A u \in StorylessIn(n) : task'[u].done = task[u].done
          /\ \A s \in StoriesIn(n) : story'[s].is_closed = story[s].is_closed
      BY <1>1, <1>2 DEF StorylessIn
    <2> QED
      BY <2>2, <2>3, SameSprint
  <1>5. /\ UNCHANGED <<onlyClosing, story, closed, forgotten>>
        /\ unchecked \cap (exists' \cup Sprints) \subseteq unchecked'
    BY <1>1
  <1> QED
    BY <1>1, <1>3, <1>4, <1>5, OperationSerial

\* A new story has no tasks and no sprint; its flag is right unless its status
\* is closed.
LEMMA CreateInBulkSerial ==
    ASSUME SerialExactInv, ~onlyClosing, NEW r \in Requests, CreateInBulk(r)
    PROVE  SerialExactInv'
  <1>1. PICK s \in Stories \ exists, done \in BOOLEAN :
            /\ exists' = exists \cup {s}
            /\ story'[s] = [NewStory EXCEPT !.done = done]
            /\ \A u \in Stories \ {s} : story'[u] = story[u]
            /\ unchecked \subseteq unchecked'
            /\ done => s \in unchecked'
            /\ UNCHANGED <<onlyClosing, task, closed, forgotten>>
            /\ Starts(r)
    BY CreateInBulkDoes DEF SerialExactInv
  <1>2. exists' \cap Tasks = exists \cap Tasks
    BY <1>1, IdAssumption
  <1>3. \A u \in Stories : TasksOf(u)' = TasksOf(u)
    BY <1>1, <1>2 DEF TasksOf
  <1>4. story'[s].done = done /\ story'[s].is_closed = FALSE /\ story'[s].sprint = None
    BY <1>1 DEF NewStory
  <1>5. s \notin unchecked' => story'[s].is_closed = calculate_userstory_is_closed(s)'
    <2>1. TasksOf(s) = {}
      BY <1>1, IdAssumption DEF SerialExactInv, ShapeInv, TypeOK, TasksOf
    <2> QED
      BY <1>1, <1>3, <1>4, <2>1 DEF calculate_userstory_is_closed
  <1>6. ASSUME NEW u \in (exists' \cap Stories) \ unchecked', u # s
        PROVE  /\ u \in exists /\ story'[u] = story[u]
               /\ calculate_userstory_is_closed(u)' = calculate_userstory_is_closed(u)
    <2>1. u \in exists /\ story'[u] = story[u]
      BY <1>1, <1>6
    <2>2. TasksOf(u)' = TasksOf(u) /\ \A t \in TasksOf(u) : task'[t].done = task[t].done
      BY <1>1, <1>3
    <2> QED
      BY <2>1, <2>2, SameStory
  <1>7. ASSUME NEW n \in Sprints
        PROVE  /\ calculate_milestone_is_closed(n)' = calculate_milestone_is_closed(n)
               /\ NonEmpty(n)' = NonEmpty(n)
    <2>1. StorylessIn(n)' = StorylessIn(n)
      BY <1>1, <1>2 DEF StorylessIn
    <2>2. StoriesIn(n)' = StoriesIn(n) /\ s \notin StoriesIn(n)
      BY <1>1, <1>4, IdAssumption DEF StoriesIn
    <2>3. /\ \A u \in StoriesIn(n) : story'[u].is_closed = story[u].is_closed
          /\ \A t \in StorylessIn(n) : task'[t].done = task[t].done
      BY <1>1, <2>2 DEF StoriesIn
    <2> QED
      BY <2>1, <2>2, <2>3, SameSprint
  <1>8. /\ UNCHANGED <<onlyClosing, closed, forgotten>>
        /\ unchecked \cap (exists' \cup Sprints) \subseteq unchecked'
    BY <1>1
  <1> QED
    BY <1>1, <1>5, <1>6, <1>7, <1>8, OperationSerial

\* With fewer things in it, a sprint that had only closed ones still has.
LEMMA FewerMembers ==
    ASSUME NEW m \in Sprints, exists' \subseteq exists, UNCHANGED task,
           \A s \in exists' \cap Stories : story'[s] = story[s]
    PROVE  /\ NonEmpty(m)' => NonEmpty(m)
           /\ NonEmpty(m)' /\ calculate_milestone_is_closed(m) => calculate_milestone_is_closed(m)'
  <1>1. StoriesIn(m)' \subseteq StoriesIn(m) /\ StorylessIn(m)' \subseteq StorylessIn(m)
    BY DEF StoriesIn, StorylessIn
  <1>2. NonEmpty(m)' => NonEmpty(m)
    BY <1>1 DEF NonEmpty
  <1>3. ASSUME NonEmpty(m)', calculate_milestone_is_closed(m)
        PROVE  calculate_milestone_is_closed(m)'
    <2>1. \A s \in StoriesIn(m)' : story'[s] = story[s]
      BY DEF StoriesIn
    <2> QED
      BY <1>1, <1>3, <2>1 DEF NonEmpty, calculate_milestone_is_closed
  <1> QED
    BY <1>2, <1>3

LEMMA DeleteTaskSerial ==
    ASSUME SerialExactInv, ~onlyClosing, NEW r \in Requests, DeleteTask(r)
    PROVE  SerialExactInv'
  <1>1. PICK t \in exists \cap Tasks :
            /\ exists' = exists \ {t}
            /\ UNCHANGED <<onlyClosing, task, story, closed, seen, unchecked, forgotten>>
            /\ Starts(r)
            /\ task[t].story # None => calc("calcStory", task[t].story) \in Steps(r)'
            /\ task[t].sprint # None => calc("tryClose", task[t].sprint) \in Steps(r)'
    BY DeleteTaskDoes DEF SerialExactInv
  <1>2. ASSUME NEW s \in exists' \cap Stories, calc("calcStory", s) \notin Steps(r)'
        PROVE  /\ s \in exists
               /\ calculate_userstory_is_closed(s)' = calculate_userstory_is_closed(s)
    <2>1. task[t].story # s
      BY <1>1, <1>2, IdAssumption
    <2>2. TasksOf(s)' = TasksOf(s)
      BY <1>1, <2>1 DEF TasksOf
    <2>3. story'[s].done = story[s].done /\ \A u \in TasksOf(s) : task'[u].done = task[u].done
      BY <1>1
    <2> QED
      BY <1>1, <1>2, <2>2, <2>3, SameStory
  <1>3. ASSUME NEW m \in Sprints, NonEmpty(m)', calc("tryClose", m) \notin Steps(r)'
        PROVE  /\ NonEmpty(m)
               /\ calculate_milestone_is_closed(m)' = calculate_milestone_is_closed(m)
    <2>1. task[t].sprint # m
      BY <1>1, <1>3, IdAssumption
    <2>2. StoriesIn(m)' = StoriesIn(m) /\ StorylessIn(m)' = StorylessIn(m)
      <3>1. t \notin Stories
        BY IdAssumption
      <3> QED
        BY <1>1, <2>1, <3>1 DEF StoriesIn, StorylessIn
    <2>3. /\ \A u \in StoriesIn(m) : story'[u].is_closed = story[u].is_closed
          /\ \A u \in StorylessIn(m) : task'[u].done = task[u].done
      BY <1>1
    <2> QED
      BY <1>3, <2>2, <2>3, SameSprint
  <1>4. ASSUME NEW m \in Sprints, NonEmpty(m)'
        PROVE  /\ NonEmpty(m)
               /\ calculate_milestone_is_closed(m) => calculate_milestone_is_closed(m)'
    BY <1>1, <1>4, FewerMembers
  <1>5. UNCHANGED <<onlyClosing, story, closed, unchecked, forgotten>>
    BY <1>1
  <1> QED
    BY <1>1, <1>2, <1>3, <1>4, <1>5, OperationSerial

LEMMA DeleteStorySerial ==
    ASSUME SerialExactInv, ~onlyClosing, NEW r \in Requests, DeleteStory(r)
    PROVE  SerialExactInv'
  <1>1. PICK s \in exists \cap Stories :
            /\ exists' = exists \ ({s} \cup TasksOf(s))
            /\ \A u \in Stories \ {s} : story'[u] = story[u]
            /\ unchecked' = unchecked \ {s}
            /\ UNCHANGED <<onlyClosing, task, closed, forgotten>>
            /\ Starts(r)
            /\ story[s].sprint # None => calc("tryClose", story[s].sprint) \in Steps(r)'
    BY DeleteStoryDoes DEF SerialExactInv
  <1>2. TasksOf(s) \cap Stories = {} /\ s \notin Tasks
    BY IdAssumption DEF TasksOf
  <1>3. ASSUME NEW u \in exists' \cap Stories
        PROVE  /\ u \in exists /\ story'[u] = story[u]
               /\ calculate_userstory_is_closed(u)' = calculate_userstory_is_closed(u)
    <2>1. u # s
      BY <1>1, <1>3
    <2>2. TasksOf(u)' = TasksOf(u)
      BY <1>1, <1>2, <2>1 DEF TasksOf
    <2>3. story'[u].done = story[u].done /\ \A t \in TasksOf(u) : task'[t].done = task[t].done
      BY <1>1, <2>1
    <2> QED
      BY <1>1, <1>3, <2>1, <2>2, <2>3, SameStory
  <1>4. ASSUME NEW m \in Sprints, NonEmpty(m)', calc("tryClose", m) \notin Steps(r)'
        PROVE  /\ NonEmpty(m)
               /\ calculate_milestone_is_closed(m)' = calculate_milestone_is_closed(m)
    <2>1. story[s].sprint # m
      BY <1>1, <1>4, IdAssumption
    <2>2. StoriesIn(m)' = StoriesIn(m)
      BY <1>1, <1>2, <2>1 DEF StoriesIn
    <2>3. StorylessIn(m)' = StorylessIn(m)
      BY <1>1, <1>2, IdAssumption DEF StorylessIn, TasksOf
    <2>4. /\ \A u \in StoriesIn(m) : story'[u].is_closed = story[u].is_closed
          /\ \A u \in StorylessIn(m) : task'[u].done = task[u].done
      BY <1>1, <2>1 DEF StoriesIn
    <2> QED
      BY <1>4, <2>2, <2>3, <2>4, SameSprint
  <1>5. ASSUME NEW m \in Sprints, NonEmpty(m)'
        PROVE  /\ NonEmpty(m)
               /\ calculate_milestone_is_closed(m) => calculate_milestone_is_closed(m)'
    <2>1. exists' \subseteq exists /\ \A u \in exists' \cap Stories : story'[u] = story[u]
      BY <1>1
    <2> QED
      BY <1>1, <1>5, <2>1, FewerMembers
  <1>6. /\ UNCHANGED <<onlyClosing, closed, forgotten>>
        /\ unchecked \cap (exists' \cup Sprints) \subseteq unchecked'
    BY <1>1, IdAssumption
  <1> QED
    BY <1>1, <1>3, <1>4, <1>5, <1>6, OperationSerial

\* While the rows stay, what is on its way stays so unless it is what r did.
LEMMA StoryKeeps ==
    ASSUME NEW x, UNCHANGED <<onlyClosing, exists, task, story>>,
           \A q \in Requests : \A y \in Steps(q) : y \in Steps(q)' \/ y = x,
           NEW s \in Stories, StoryOnWay(s), x # calc("calcStory", s),
           x # save("saveFlag", s, calculate_userstory_is_closed(s))
    PROVE  StoryOnWay(s)'
  <1>1. calculate_userstory_is_closed(s)' = calculate_userstory_is_closed(s)
    BY Unmoved
  <1> QED
    BY <1>1 DEF StoryOnWay

LEMMA SprintKeeps ==
    ASSUME NEW x, UNCHANGED <<onlyClosing, exists, task, story>>,
           \A q \in Requests : \A y \in Steps(q) : y \in Steps(q)' \/ y = x,
           NEW m \in Sprints, SprintOnWay(m), x # calc("calcSprint", m), x # calc("calcPrev", m),
           x = calc("tryClose", m) => ~calculate_milestone_is_closed(m),
           x # save("saveClosed", m, calculate_milestone_is_closed(m))
    PROVE  SprintOnWay(m)'
  <1>1. calculate_milestone_is_closed(m)' = calculate_milestone_is_closed(m)
    BY Unmoved
  <1> QED
    BY <1>1 DEF SprintOnWay

\* Nothing changes but what there is to do.
LEMMA ComputeSerial ==
    ASSUME SerialExactInv, ~onlyClosing, ShapeInv',
           UNCHANGED <<onlyClosing, exists, task, story>>,
           \A s \in exists \cap Stories :
               StoryOnWay(s) \/ s \in unchecked \ unchecked'
                   => StoryOnWay(s)' \/ story[s].is_closed = calculate_userstory_is_closed(s),
           \A m \in Sprints :
               closed[m] = calculate_milestone_is_closed(m) => closed'[m] = closed[m],
           \A m \in Sprints :
               (SprintOnWay(m) \/ m \in (unchecked \cup forgotten) \ (unchecked' \cup forgotten'))
                   => \/ SprintOnWay(m)' \/ closed'[m] = calculate_milestone_is_closed(m)
                      \/ closed[m] = calculate_milestone_is_closed(m),
           \A q \in Requests : \A x \in Steps(q)' :
               \/ x \in Steps(q)
               \/ x.do = "saveClosed" => /\ x.value = calculate_milestone_is_closed(x.id)
    PROVE  SerialExactInv'
  <1>1. /\ \A s \in Stories : calculate_userstory_is_closed(s)' = calculate_userstory_is_closed(s)
        /\ \A m : calculate_milestone_is_closed(m)' = calculate_milestone_is_closed(m)
        /\ \A m : NonEmpty(m)' = NonEmpty(m)
    BY DEF calculate_userstory_is_closed, calculate_milestone_is_closed,
           TasksOf, StoriesIn, StorylessIn, NonEmpty
  <1>2. SerialFlags
    BY DEF SerialExactInv
  <1>3. ASSUME NEW s \in (exists' \cap Stories) \ unchecked'
        PROVE  story'[s].is_closed = calculate_userstory_is_closed(s)' \/ StoryOnWay(s)'
    BY <1>1, <1>2 DEF SerialFlags
  <1>4. ASSUME NEW m \in Sprints \ (unchecked' \cup forgotten'), NonEmpty(m)'
        PROVE  closed'[m] = calculate_milestone_is_closed(m)' \/ SprintOnWay(m)'
    <2>1. \/ closed[m] = calculate_milestone_is_closed(m) \/ SprintOnWay(m)
          \/ m \in (unchecked \cup forgotten) \ (unchecked' \cup forgotten')
      BY <1>1, <1>2, <1>4 DEF SerialFlags
    <2> QED
      BY <1>1, <2>1
  <1>5. ASSUME NEW q \in Requests, NEW x \in Steps(q)', x.do = "saveClosed"
        PROVE  x.value = calculate_milestone_is_closed(x.id)'
    BY <1>1, <1>2, <1>5 DEF SerialFlags
  <1>6. SerialFlags'
    BY <1>3, <1>4, <1>5 DEF SerialFlags
  <1> QED
    BY <1>6 DEF SerialExactInv

LEMMA CalcStorySerial ==
    ASSUME SerialExactInv, ~onlyClosing, NEW r \in Requests, CalcStory(r)
    PROVE  SerialExactInv'
  <1>1. PICK s \in Stories, value \in BOOLEAN :
            /\ value = calculate_userstory_is_closed(s)
            /\ Replaces(r, calc("calcStory", s),
                        IF value = seen[r].stories[s] THEN {} ELSE {save("saveFlag", s, value)})
            /\ UNCHANGED <<onlyClosing, exists, task, story, closed, seen, forgotten>>
            /\ unchecked' = unchecked \ {s}
    BY CalcStoryDoes DEF SerialExactInv
  <1>2. seen[r].stories[s] = story[s].is_closed
    BY <1>1, LoadedAlone DEF SerialExactInv, Replaces
  <1>3. \A q \in Requests : \A y \in Steps(q) : y \in Steps(q)' \/ y = calc("calcStory", s)
    BY <1>1 DEF Replaces
  <1>4. UNCHANGED <<onlyClosing, exists, task, story>>
    BY <1>1
  <1>5. ASSUME NEW u \in exists \cap Stories, StoryOnWay(u) \/ u \in unchecked \ unchecked'
        PROVE  StoryOnWay(u)' \/ story[u].is_closed = calculate_userstory_is_closed(u)
    <2>1. CASE u = s /\ value # seen[r].stories[s]
      <3>1. save("saveFlag", s, value) \in Steps(r)'
        BY <1>1, <2>1 DEF Replaces
      <3>2. value = calculate_userstory_is_closed(s)'
        BY <1>1, Unmoved
      <3> QED
        BY <2>1, <3>1, <3>2 DEF StoryOnWay
    <2>2. CASE u = s /\ value = seen[r].stories[s]
      BY <1>1, <1>2, <2>2
    <2>3. CASE u # s
      <3>1. StoryOnWay(u)
        BY <1>1, <1>5, <2>3
      <3>2. /\ calc("calcStory", s) # calc("calcStory", u)
            /\ calc("calcStory", s) # save("saveFlag", u, calculate_userstory_is_closed(u))
        BY <2>3 DEF calc, save
      <3> QED
        BY <1>3, <1>4, <3>2, <3>1, StoryKeeps
    <2> QED
      BY <2>1, <2>2, <2>3
  <1>6. ASSUME NEW m \in Sprints, SprintOnWay(m) PROVE SprintOnWay(m)'
    <2>1. /\ calc("calcStory", s) # calc("calcSprint", m) /\ calc("calcStory", s) # calc("calcPrev", m)
          /\ calc("calcStory", s) # calc("tryClose", m)
          /\ calc("calcStory", s) # save("saveClosed", m, calculate_milestone_is_closed(m))
      BY DEF calc, save
    <2> QED
      BY <1>3, <1>4, <1>6, <2>1, SprintKeeps
  <1>7. ASSUME NEW q \in Requests, NEW x \in Steps(q)', x \notin Steps(q)
        PROVE  x.do # "saveClosed"
    BY <1>1, <1>7 DEF Replaces, save
  <1>8. ShapeInv' /\ UNCHANGED <<onlyClosing, exists, task, story, closed>>
    BY <1>1 DEF Replaces
  <1>9. \A m \in Sprints : m \notin (unchecked \cup forgotten) \ (unchecked' \cup forgotten')
    BY <1>1, IdAssumption
  <1> QED
    BY <1>5, <1>6, <1>7, <1>8, <1>9, ComputeSerial

LEMMA CalcSprintSerial ==
    ASSUME SerialExactInv, ~onlyClosing, NEW r \in Requests, CalcSprint(r)
    PROVE  SerialExactInv'
  <1>1. PICK m \in Sprints, do \in {"calcSprint", "calcPrev", "tryClose"}, value \in BOOLEAN :
            /\ value = calculate_milestone_is_closed(m)
            /\ Replaces(r, calc(do, m),
                        IF value = seen[r].sprints[m] \/ (do = "tryClose" /\ ~value) THEN {}
                        ELSE {save("saveClosed", m, value)})
            /\ UNCHANGED <<onlyClosing, exists, task, story, closed, seen>>
            /\ IF do = "tryClose" THEN UNCHANGED <<unchecked, forgotten>> ELSE Checked(m)
    BY CalcSprintDoes DEF SerialExactInv
  <1>2. seen[r].sprints[m] = closed[m]
    BY <1>1, LoadedAlone DEF SerialExactInv, Replaces
  <1>3. \A q \in Requests : \A y \in Steps(q) : y \in Steps(q)' \/ y = calc(do, m)
    BY <1>1 DEF Replaces
  <1>4. UNCHANGED <<onlyClosing, exists, task, story>>
    BY <1>1
  <1>5. ASSUME NEW s \in Stories, StoryOnWay(s) PROVE StoryOnWay(s)'
    <2>1. /\ calc(do, m) # calc("calcStory", s)
          /\ calc(do, m) # save("saveFlag", s, calculate_userstory_is_closed(s))
      BY DEF calc, save
    <2> QED
      BY <1>3, <1>4, <1>5, <2>1, StoryKeeps
  <1>6. ASSUME NEW n, n \in (unchecked \cup forgotten) \ (unchecked' \cup forgotten')
        PROVE  n = m /\ do # "tryClose"
    BY <1>1, <1>6 DEF Checked
  <1>7. ASSUME NEW n \in Sprints,
               SprintOnWay(n) \/ n \in (unchecked \cup forgotten) \ (unchecked' \cup forgotten'),
               closed[n] # calculate_milestone_is_closed(n)
        PROVE  SprintOnWay(n)'
    <2>1. CASE n = m /\ ~(do = "tryClose" /\ ~value)
      <3>1. value # seen[r].sprints[m]
        BY <1>1, <1>2, <1>7, <2>1
      <3>2. save("saveClosed", m, value) \in Steps(r)'
        BY <1>1, <2>1, <3>1 DEF Replaces
      <3>3. value = calculate_milestone_is_closed(m)'
        BY <1>1, Unmoved
      <3> QED
        BY <2>1, <3>2, <3>3 DEF SprintOnWay
    <2>2. CASE n = m /\ do = "tryClose" /\ ~value
      <3>1. /\ calc(do, m) # calc("calcSprint", n) /\ calc(do, m) # calc("calcPrev", n)
            /\ calc(do, m) # save("saveClosed", n, calculate_milestone_is_closed(n))
        BY <2>2 DEF calc, save
      <3>2. ~calculate_milestone_is_closed(n)
        BY <1>1, <2>2
      <3>3. SprintOnWay(n)
        BY <1>7, <1>6, <2>2
      <3> QED
        BY <1>3, <1>4, <3>1, <3>2, <3>3, SprintKeeps
    <2>3. CASE n # m
      <3>1. /\ calc(do, m) # calc("calcSprint", n) /\ calc(do, m) # calc("calcPrev", n)
            /\ calc(do, m) # calc("tryClose", n)
            /\ calc(do, m) # save("saveClosed", n, calculate_milestone_is_closed(n))
        BY <2>3 DEF calc, save
      <3>2. SprintOnWay(n)
        BY <1>7, <1>6, <2>3
      <3> QED
        BY <1>3, <1>4, <3>1, <3>2, SprintKeeps
    <2> QED
      BY <2>1, <2>2, <2>3
  <1>8. ASSUME NEW q \in Requests, NEW x \in Steps(q)', x \notin Steps(q)
        PROVE  x.do = "saveClosed" => x.value = calculate_milestone_is_closed(x.id)
    <2>1. x = save("saveClosed", m, value)
      BY <1>1, <1>8 DEF Replaces
    <2> QED
      BY <1>1, <2>1 DEF save
  <1>9. ShapeInv' /\ UNCHANGED <<onlyClosing, exists, task, story, closed>>
    BY <1>1 DEF Replaces
  <1>10. \A s \in Stories : s \notin unchecked \ unchecked'
    BY <1>1, IdAssumption DEF Checked
  <1> QED
    BY <1>5, <1>7, <1>8, <1>9, <1>10, ComputeSerial

LEMMA SaveClosedSerial ==
    ASSUME SerialExactInv, ~onlyClosing, NEW r \in Requests, SaveClosed(r)
    PROVE  SerialExactInv'
  <1>1. PICK m \in Sprints, value \in BOOLEAN :
            /\ closed' = [closed EXCEPT ![m] = value]
            /\ Replaces(r, save("saveClosed", m, value), {})
            /\ UNCHANGED <<onlyClosing, exists, task, story, unchecked, forgotten>>
    BY SaveClosedDoes DEF SerialExactInv
  <1>2. value = calculate_milestone_is_closed(m)
    <2>1. \A x \in Steps(r) : x.do = "saveClosed" => x.value = calculate_milestone_is_closed(x.id)
      BY DEF SerialExactInv, SerialFlags
    <2> QED
      BY <1>1, <2>1 DEF Replaces, save
  <1>3. \A n \in Sprints : closed'[n] = IF n = m THEN value ELSE closed[n]
    BY <1>1 DEF SerialExactInv, ShapeInv, TypeOK
  <1>4. \A q \in Requests : \A y \in Steps(q) : y \in Steps(q)' \/ y = save("saveClosed", m, value)
    BY <1>1 DEF Replaces
  <1>5. UNCHANGED <<onlyClosing, exists, task, story>>
    BY <1>1
  <1>6. ASSUME NEW s \in Stories, StoryOnWay(s) PROVE StoryOnWay(s)'
    <2>1. /\ save("saveClosed", m, value) # calc("calcStory", s)
          /\ save("saveClosed", m, value) # save("saveFlag", s, calculate_userstory_is_closed(s))
      BY DEF calc, save
    <2> QED
      BY <1>4, <1>5, <1>6, <2>1, StoryKeeps
  <1>7. ASSUME NEW n \in Sprints, SprintOnWay(n)
        PROVE  SprintOnWay(n)' \/ closed'[n] = calculate_milestone_is_closed(n)
    <2>1. CASE n = m
      BY <1>2, <1>3, <2>1
    <2>2. CASE n # m
      <3>1. /\ save("saveClosed", m, value) # calc("calcSprint", n)
            /\ save("saveClosed", m, value) # calc("calcPrev", n)
            /\ save("saveClosed", m, value) # calc("tryClose", n)
            /\ save("saveClosed", m, value) # save("saveClosed", n, calculate_milestone_is_closed(n))
        BY <2>2 DEF calc, save
      <3> QED
        BY <1>4, <1>5, <1>7, <3>1, SprintKeeps
    <2> QED
      BY <2>1, <2>2
  <1>8. \A n \in Sprints : closed[n] = calculate_milestone_is_closed(n) => closed'[n] = closed[n]
    BY <1>2, <1>3
  <1>9. \A q \in Requests : \A x \in Steps(q)' : x \in Steps(q)
    BY <1>1 DEF Replaces
  <1>10. ShapeInv' /\ UNCHANGED <<onlyClosing, exists, task, story, unchecked, forgotten>>
    BY <1>1 DEF Replaces
  <1> QED
    BY <1>6, <1>7, <1>8, <1>9, <1>10, ComputeSerial

LEMMA SaveFlagSerial ==
    ASSUME SerialExactInv, ~onlyClosing, NEW r \in Requests, SaveFlag(r)
    PROVE  SerialExactInv'
  <1>1. PICK s \in Stories, value \in BOOLEAN :
            /\ story' = [story EXCEPT ![s].is_closed = value]
            /\ \A t \in Tasks : /\ task'[t].story = task[t].story /\ task'[t].done = task[t].done
                                /\ task[t].story = None => task'[t] = task[t]
            /\ UNCHANGED <<onlyClosing, exists, closed, unchecked>>
            /\ forgotten \subseteq forgotten'
            /\ ShapeInv' /\ work[r] # <<>> /\ Steps(r)' \subseteq Calcs
            /\ calc("calcStory", s) \in Steps(r)'
            /\ story[s].sprint # None => calc("calcSprint", story[s].sprint) \in Steps(r)'
            /\ \A y \in Steps(r) :
                   \/ y \in Steps(r)' \/ y = save("saveFlag", s, value)
                   \/ y.do = "calcPrev" /\ y.id \in forgotten'
            /\ \A q \in Requests \ {r} : Steps(q)' = Steps(q)
    BY SaveFlagDoes DEF SerialExactInv
  <1>2. \A u \in Stories : /\ story'[u].sprint = story[u].sprint
                           /\ story'[u].done = story[u].done
                           /\ u # s => story'[u].is_closed = story[u].is_closed
    <2>1. \A u \in Stories : story[u] \in StoryRow
      BY DEF SerialExactInv, ShapeInv, TypeOK
    <2> QED
      BY <1>1, <2>1 DEF SerialExactInv, ShapeInv, TypeOK, StoryRow
  <1>3. \A u \in Stories : calculate_userstory_is_closed(u)' = calculate_userstory_is_closed(u)
    <2>1. ASSUME NEW u \in Stories
          PROVE  /\ TasksOf(u)' = TasksOf(u) /\ story'[u].done = story[u].done
                 /\ \A t \in TasksOf(u) : task'[t].done = task[t].done
      BY <1>1, <1>2 DEF TasksOf
    <2> QED
      BY <2>1, SameStory
  <1>4. ASSUME NEW u \in (exists' \cap Stories) \ unchecked'
        PROVE  story'[u].is_closed = calculate_userstory_is_closed(u)' \/ StoryOnWay(u)'
    <2>1. CASE u = s
      BY <1>1, <2>1 DEF StoryOnWay
    <2>2. CASE u # s
      <3>1. story[u].is_closed = calculate_userstory_is_closed(u) \/ StoryOnWay(u)
        BY <1>1 DEF SerialExactInv, SerialFlags
      <3>2. StoryOnWay(u) => StoryOnWay(u)'
        <4>1. /\ calc("calcStory", u) # save("saveFlag", s, value)
              /\ save("saveFlag", u, calculate_userstory_is_closed(u)) # save("saveFlag", s, value)
              /\ calc("calcStory", u).do # "calcPrev"
              /\ save("saveFlag", u, calculate_userstory_is_closed(u)).do # "calcPrev"
          BY <2>2 DEF calc, save
        <4> QED
          BY <1>1, <1>3, <4>1 DEF StoryOnWay
      <3> QED
        BY <1>2, <1>3, <2>2, <3>1, <3>2
    <2> QED
      BY <2>1, <2>2
  <1>5. ASSUME NEW m \in Sprints \ (unchecked' \cup forgotten'), NonEmpty(m)'
        PROVE  closed'[m] = calculate_milestone_is_closed(m)' \/ SprintOnWay(m)'
    <2>1. CASE story[s].sprint = m
      <3>1. calc("calcSprint", m) \in Steps(r)'
        BY <1>1, <2>1, IdAssumption
      <3> QED
        BY <3>1 DEF SprintOnWay
    <2>2. CASE story[s].sprint # m
      <3>1. /\ calculate_milestone_is_closed(m)' = calculate_milestone_is_closed(m)
            /\ NonEmpty(m)' = NonEmpty(m)
        <4>1. StoriesIn(m)' = StoriesIn(m) /\ StorylessIn(m)' = StorylessIn(m)
          BY <1>1, <1>2 DEF StoriesIn, StorylessIn
        <4>2. \A u \in StoriesIn(m) : story'[u].is_closed = story[u].is_closed
          BY <1>2, <2>2 DEF StoriesIn
        <4>3. \A t \in StorylessIn(m) : task'[t].done = task[t].done
          BY <1>1 DEF StorylessIn
        <4> QED
          BY <4>1, <4>2, <4>3, SameSprint
      <3>2. closed[m] = calculate_milestone_is_closed(m) \/ SprintOnWay(m)
        <4>1. m \in Sprints \ (unchecked \cup forgotten)
          BY <1>1
        <4> QED
          BY <1>5, <3>1, <4>1 DEF SerialExactInv, SerialFlags
      <3>3. SprintOnWay(m) => SprintOnWay(m)'
        <4>1. PICK value1 : value1 = calculate_milestone_is_closed(m)
          OBVIOUS
        <4>2. \A y \in {calc("calcSprint", m), calc("tryClose", m), save("saveClosed", m, value1)} :
                  y # save("saveFlag", s, value) /\ y.do # "calcPrev"
          BY DEF calc, save
        <4>3. calc("calcPrev", m) # save("saveFlag", s, value) /\ calc("calcPrev", m).id \notin forgotten'
          BY DEF calc, save
        <4>4. \A q \in Requests :
                  \A y \in {calc("calcSprint", m), calc("calcPrev", m), calc("tryClose", m),
                            save("saveClosed", m, value1)} : y \in Steps(q) => y \in Steps(q)'
          BY <1>1, <4>2, <4>3
        <4> QED
          BY <3>1, <4>1, <4>4 DEF SprintOnWay
      <3> QED
        BY <1>1, <3>1, <3>2, <3>3
    <2> QED
      BY <2>1, <2>2
  <1>6. ASSUME NEW q \in Requests, NEW x \in Steps(q)'
        PROVE  x.do # "saveClosed"
    <2>1. CASE q = r
      BY <1>1, <1>6, <2>1 DEF Calcs
    <2>2. CASE q # r
      BY <1>1, <1>6, <2>2, Alone DEF SerialExactInv
    <2> QED
      BY <2>1, <2>2
  <1>7. SerialFlags'
    BY <1>4, <1>5, <1>6 DEF SerialFlags
  <1> QED
    BY <1>1, <1>7 DEF SerialExactInv

LEMMA BeginSerial ==
    ASSUME SerialExactInv, ~onlyClosing, NEW r \in Requests, NEW op \in Operations,
           MayBegin(r), Begin(r, op)
    PROVE  SerialExactInv'
  <1>1. /\ ShapeInv'
        /\ Steps(r) = {} /\ Steps(r)' = {op}
        /\ \A q \in Requests \ {r} : Steps(q)' = Steps(q)
        /\ UNCHANGED <<onlyClosing, exists, task, story, closed, unchecked, forgotten>>
        /\ \A q \in Requests : work[q] = <<>>
    BY BeginDoes DEF SerialExactInv
  <1>2. \A q \in Requests : Steps(q) = {}
    BY <1>1, ElsNone DEF Steps
  <1>3. /\ \A s \in Stories : ~StoryOnWay(s)
        /\ \A m \in Sprints : ~SprintOnWay(m)
    BY <1>2 DEF StoryOnWay, SprintOnWay
  <1>4. ASSUME NEW q \in Requests, NEW x \in Steps(q)'
        PROVE  x.do # "saveClosed"
    <2>1. x = op
      BY <1>1, <1>2, <1>4
    <2> QED
      BY <2>1, OperationKinds DEF OpKinds
  <1> QED
    BY <1>1, <1>3, <1>4, ComputeSerial

LEMMA SerialInit ==
    ASSUME Init
    PROVE  SerialExactInv
  <1>1. ShapeInv
    BY ShapeInit
  <1>2. /\ \A s \in exists \cap Stories : story[s].is_closed = calculate_userstory_is_closed(s)
        /\ \A m \in Sprints : NonEmpty(m) => closed[m] = calculate_milestone_is_closed(m)
    BY DEF Init, Exact, NonEmpty
  <1>3. \A r \in Requests : Steps(r) = {}
    BY ElsNone DEF Init, Steps
  <1>4. SerialFlags
    BY <1>2, <1>3 DEF SerialFlags
  <1> QED
    BY <1>1, <1>4 DEF SerialExactInv

LEMMA SerialStutter ==
    ASSUME SerialExactInv, UNCHANGED vars
    PROVE  SerialExactInv'
  <1>1. UNCHANGED <<onlyClosing, exists, task, story, closed, work, unchecked, forgotten>>
    BY DEF vars, rows
  <1>2. ShapeInv'
    BY ShapeStutter DEF SerialExactInv
  <1>3. \A q \in Requests : Steps(q)' = Steps(q)
    BY <1>1 DEF Steps
  <1>4. ASSUME ~onlyClosing PROVE SerialExactInv'
    <2>1. UNCHANGED <<onlyClosing, exists, task, story, unchecked, forgotten>>
      BY <1>1
    <2>2. /\ \A s \in Stories : calculate_userstory_is_closed(s)' = calculate_userstory_is_closed(s)
          /\ \A m \in Sprints : calculate_milestone_is_closed(m)' = calculate_milestone_is_closed(m)
      BY <1>1, Unmoved
    <2>3. \A s \in Stories : StoryOnWay(s) => StoryOnWay(s)'
      BY <1>3, <2>2 DEF StoryOnWay
    <2>4. \A m \in Sprints : SprintOnWay(m) => SprintOnWay(m)'
      BY <1>3, <2>2 DEF SprintOnWay
    <2> QED
      BY <1>1, <1>2, <1>3, <1>4, <2>1, <2>3, <2>4, ComputeSerial
  <1> QED
    BY <1>1, <1>2, <1>4 DEF SerialExactInv

LEMMA SerialNext ==
    ASSUME SerialExactInv, [Next]_vars
    PROVE  SerialExactInv'
  <1>1. ShapeInv'
    BY ShapeNext DEF SerialExactInv
  <1>2. ASSUME ~onlyClosing, NEW r \in Requests, NEW op \in Operations, MayBegin(r), Begin(r, op)
        PROVE  SerialExactInv'
    BY <1>2, BeginSerial
  <1>3. ASSUME ~onlyClosing, NEW r \in Requests, Work(r)
        PROVE  SerialExactInv'
    <2>1. EditTaskStatus(r) \/ EditStoryStatus(r) \/ DeleteStatus(r) => SerialExactInv'
      BY EditTaskStatusDoes, EditStoryStatusDoes, DeleteStatusDoes, StatusSerial DEF SerialExactInv
    <2> QED
      BY <1>3, <2>1, SaveTaskSerial, SaveStorySerial, DeleteTaskSerial, DeleteStorySerial,
         CreateInBulkSerial, DragOnKanbanSerial, DragOnBacklogSerial, MoveInBulkSerial,
         MoveTasksInBulkSerial, CalcStorySerial, SaveFlagSerial, CalcSprintSerial,
         SaveClosedSerial DEF Work
  <1>4. ASSUME onlyClosing, Next PROVE SerialExactInv'
    <2>1. onlyClosing' = onlyClosing
      BY <1>4, OneKind
    <2> QED
      BY <1>1, <1>4, <2>1 DEF SerialExactInv
  <1>5. CASE UNCHANGED vars
    BY <1>5, SerialStutter
  <1> QED
    BY <1>2, <1>3, <1>4, <1>5 DEF Next, Operations

\* After any number of requests that came one at a time, every story and every
\* sprint with something in it is flagged as its rows say, but for those that an
\* operation has changed without the handlers, and the sprints that a story left
\* unnoticed, and that nothing has computed since.
THEOREM SerialExactHolds == Spec => []SerialExact
  <1>1. Init => SerialExactInv
    BY SerialInit
  <1>2. SerialExactInv /\ [Next]_vars => SerialExactInv'
    BY SerialNext
  <1>3. SerialExactInv => SerialExact
    <2> SUFFICES ASSUME SerialExactInv, ~onlyClosing, Idle
                 PROVE  Exact(unchecked \cup forgotten)
      BY DEF SerialExact
    <2>1. \A r \in Requests : Steps(r) = {}
      BY ElsNone DEF Idle, Steps
    <2>2. /\ \A s \in Stories : ~StoryOnWay(s)
          /\ \A m \in Sprints : ~SprintOnWay(m)
      BY <2>1 DEF StoryOnWay, SprintOnWay
    <2> QED
      BY <2>2 DEF SerialExactInv, SerialFlags, Exact, NonEmpty
  <1> QED
    BY <1>1, <1>2, <1>3, PTL DEF Spec
=============================================================================
