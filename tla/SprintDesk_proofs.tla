------------------------- MODULE SprintDesk_proofs -------------------------
(***************************************************************************)
(* What holds of SprintDesk for any number of requests, tasks, stories,     *)
(* members and questions.                                                   *)
(***************************************************************************)
EXTENDS SprintDesk, SequenceTheorems, TLAPS

-----------------------------------------------------------------------------
(* Places and operations *)

AnyOp == [do : {"none"}] \cup TaskOp \cup MeetingOp \cup RespondOp

\* What a request at a place is doing.
PlaceInv ==
    \A r \in Requests :
        /\ pc[r] \notin {"new", "end"} =>
               op[r] \in TaskOp \cup MeetingOp \cup RespondOp /\ answer[r] = "none"
        /\ pc[r] = "new" => answer[r] = "none"
        /\ pc[r] = "again" => op[r].do = "bulk"
        /\ pc[r] = "tell" => op[r] \in TaskOp
        /\ pc[r] = "delete" => op[r].do = "unselect"
        /\ pc[r] = "update" => op[r] \in RespondOp /\ object[r] \in Response
        /\ pc[r] = "create" /\ op[r] \in RespondOp => op[r].questions = Questions

LEMMA TaskOpFacts ==
    ASSUME NEW o \in TaskOp
    PROVE  /\ o.do \in {"select", "bulk", "unselect"} /\ o.story \in Stories
           /\ o.tasks \in Seq(Tasks) /\ o.tasks # <<>>
           /\ Head(o.tasks) \in Tasks
           /\ Head(o.tasks) \in About(o) /\ About(o) \subseteq Tasks
  <1>1. /\ o.do \in {"select", "bulk", "unselect"} /\ o.story \in Stories
        /\ o.tasks \in Seq(Tasks) /\ o.tasks # <<>>
    BY DEF TaskOp
  <1>2. Head(o.tasks) \in Tasks /\ Head(o.tasks) = o.tasks[1]
    BY <1>1, HeadTailProperties
  <1>3. 1 \in DOMAIN o.tasks /\ \A i \in DOMAIN o.tasks : o.tasks[i] \in Tasks
    BY <1>1, LenProperties, EmptySeq, ElementOfSeq
  <1>4. About(o) = {o.tasks[i] : i \in DOMAIN o.tasks}
    BY <1>1 DEF About, IsSelection
  <1> QED
    BY <1>1, <1>2, <1>3, <1>4

\* The task that a bulk request goes on with is one that it had.
LEMMA RestOfTasks ==
    ASSUME NEW o \in TaskOp, Len(o.tasks) # 1
    PROVE  /\ [o EXCEPT !.tasks = Tail(@)] \in TaskOp
           /\ [o EXCEPT !.tasks = Tail(@)].do = o.do
           /\ About([o EXCEPT !.tasks = Tail(@)]) \subseteq About(o)
  <1> DEFINE s == o.tasks
             n == [o EXCEPT !.tasks = Tail(s)]
  <1>1. /\ s \in Seq(Tasks) /\ s # <<>> /\ o.do \in {"select", "bulk", "unselect"}
        /\ Len(s) # 1
    BY DEF TaskOp
  <1> HIDE DEF s
  <1>2. /\ Tail(s) \in Seq(Tasks) /\ Len(Tail(s)) = Len(s) - 1
        /\ \A i \in 1..Len(Tail(s)) : Tail(s)[i] = s[i + 1]
    BY <1>1, HeadTailProperties
  <1>3. /\ Len(s) \in Nat /\ Len(s) > 1 /\ Len(s) - 1 # 0 /\ DOMAIN s = 1..Len(s)
        /\ DOMAIN Tail(s) = 1..Len(Tail(s))
    <2>1. Len(s) \in Nat \ {0}
      BY <1>1, EmptySeq
    <2>2. DOMAIN s = 1..Len(s) /\ DOMAIN Tail(s) = 1..Len(Tail(s))
      BY <1>1, <1>2, LenProperties
    <2>3. \A m \in Nat \ {0} : m # 1 => m > 1 /\ m - 1 # 0
      OBVIOUS
    <2> QED
      BY <1>1, <2>1, <2>2, <2>3
  <1>4. Tail(s) # <<>>
    <2>1. Len(Tail(s)) # 0
      BY <1>2, <1>3
    <2>2. Len(<<>>) = 0
      BY EmptySeq
    <2> QED
      BY <2>1, <2>2
  <1>5. n \in TaskOp /\ n.do = o.do /\ n.tasks = Tail(s)
    BY <1>2, <1>4 DEF TaskOp, s
  <1>6. ASSUME NEW i \in DOMAIN Tail(s)
        PROVE  Tail(s)[i] \in {s[j] : j \in DOMAIN s}
    BY <1>2, <1>3, i + 1 \in DOMAIN s
  <1>7. /\ About(n) = {Tail(s)[i] : i \in DOMAIN Tail(s)}
        /\ About(o) = {s[i] : i \in DOMAIN s}
    BY <1>1, <1>5 DEF About, IsSelection, s
  <1> QED
    BY <1>5, <1>6, <1>7 DEF s

LEMMA OpsAreOps ==
    ASSUME NEW o \in Ops
    PROVE  /\ o \in TaskOp \cup MeetingOp \cup RespondOp
           /\ About(o) \subseteq Tasks \cup Users
  <1>1. ASSUME NEW t \in Tasks, NEW u \in Tasks
        PROVE  <<t>> \in Seq(Tasks) \ {<<>>} /\ <<t, u>> \in Seq(Tasks) \ {<<>>}
    OBVIOUS
  <1>2. o \in TaskOp \cup MeetingOp \cup RespondOp
    <2>1. ASSUME NEW q \in Tasks \X Tasks
          PROVE  q \in Seq(Tasks) \ {<<>>}
      BY <1>1
    <2>2. CASE o \in [do : {"select", "unselect"}, story : Stories, tasks : {<<t>> : t \in Tasks}]
      BY <1>1, <2>2 DEF TaskOp
    <2>3. CASE o \in [do : {"bulk"}, story : Stories, tasks : {q \in Tasks \X Tasks : q[1] # q[2]}]
      BY <2>1, <2>3 DEF TaskOp
    <2>4. CASE o \in MeetingOp
      BY <2>4
    <2>5. CASE o \in [do : {"respond"}, user : Users, questions : (SUBSET Questions) \ {{}}]
      BY <2>5 DEF RespondOp
    <2> QED
      BY <2>2, <2>3, <2>4, <2>5 DEF Ops, MeetingOp
  <1>3. CASE o \in TaskOp
    BY <1>3, TaskOpFacts
  <1>4. CASE o \in MeetingOp
    BY <1>4 DEF MeetingOp, About, IsSelection
  <1>5. CASE o \in RespondOp
    BY <1>5 DEF RespondOp, About, IsSelection
  <1> QED
    BY <1>2, <1>3, <1>4, <1>5

-----------------------------------------------------------------------------
(* Types and places, step by step *)

\* Only r moves.
Frame(r) ==
    \A q \in Requests \ {r} :
        /\ pc'[q] = pc[q] /\ op'[q] = op[q]
        /\ object'[q] = object[q] /\ answer'[q] = answer[q]

LEMMA GotoSteps ==
    ASSUME TypeOK, PlaceInv, NEW r \in Requests, NEW place, Goto(r, place),
           pc[r] \notin {"new", "end"},
           place \in {"create", "again", "tell", "delete", "update"},
           \A q \in Requests \ {r} : object'[q] = object[q]
    PROVE  /\ pc' \in [Requests -> {"new", "look", "create", "again", "tell", "delete",
                                    "update", "end"}]
           /\ op' = op /\ answer' = answer /\ pc'[r] = place /\ answer'[r] = "none"
           /\ Frame(r)
  BY DEF Goto, TypeOK, Frame, PlaceInv

LEMMA EndSteps ==
    ASSUME TypeOK, NEW r \in Requests, NEW what \in Requests \cup Codes, End(r, what),
           \A q \in Requests \ {r} : object'[q] = object[q]
    PROVE  /\ pc' \in [Requests -> {"new", "look", "create", "again", "tell", "delete",
                                    "update", "end"}]
           /\ answer' \in [Requests -> Requests \cup Codes]
           /\ op' = op /\ pc'[r] = "end" /\ answer'[r] = what
           /\ Frame(r)
  BY DEF End, TypeOK, Frame

LEMMA NextTaskSteps ==
    ASSUME TypeOK, PlaceInv, NEW r \in Requests, NEW what \in Codes, NextTask(r, what),
           pc[r] \notin {"new", "end"}, op[r] \in TaskOp, object' = object
    PROVE  /\ pc' \in [Requests -> {"new", "look", "create", "again", "tell", "delete",
                                    "update", "end"}]
           /\ op' \in [Requests -> AnyOp]
           /\ answer' \in [Requests -> Requests \cup Codes]
           /\ \/ pc'[r] = "end"
              \/ pc'[r] = "look" /\ answer'[r] = "none"
           /\ op'[r] \in TaskOp /\ About(op'[r]) \subseteq About(op[r])
           /\ Frame(r)
  <1>1. CASE Len(op[r].tasks) = 1
    BY <1>1, EndSteps DEF NextTask, TypeOK, AnyOp
  <1>2. CASE Len(op[r].tasks) # 1
    <2> DEFINE n == [op[r] EXCEPT !.tasks = Tail(@)]
    <2>1. /\ op' = [op EXCEPT ![r] = n] /\ pc' = [pc EXCEPT ![r] = "look"]
          /\ answer' = answer
      BY <1>2 DEF NextTask
    <2>2. n \in TaskOp /\ About(n) \subseteq About(op[r])
      BY <1>2, RestOfTasks
    <2> HIDE DEF n
    <2>3. op' \in [Requests -> AnyOp] /\ op'[r] = n
      BY <2>1, <2>2 DEF TypeOK, AnyOp
    <2> QED
      BY <2>1, <2>2, <2>3 DEF TypeOK, PlaceInv, Frame
  <1> QED
    BY <1>1, <1>2

\* Where the two parts are put together again.
LEMMA PlaceStep ==
    ASSUME PlaceInv, NEW r \in Requests, Frame(r),
           /\ pc'[r] \notin {"new", "end"} =>
                  op'[r] \in TaskOp \cup MeetingOp \cup RespondOp /\ answer'[r] = "none"
           /\ pc'[r] = "new" => answer'[r] = "none"
           /\ pc'[r] = "again" => op'[r].do = "bulk"
           /\ pc'[r] = "tell" => op'[r] \in TaskOp
           /\ pc'[r] = "delete" => op'[r].do = "unselect"
           /\ pc'[r] = "update" => op'[r] \in RespondOp /\ object'[r] \in Response
           /\ pc'[r] = "create" /\ op'[r] \in RespondOp => op'[r].questions = Questions
    PROVE  PlaceInv'
  BY DEF PlaceInv, Frame

\* What kind of request is at work.
LEMMA Kinds ==
    ASSUME NEW o \in TaskOp \cup MeetingOp \cup RespondOp
    PROVE  /\ IsSelection(o) \/ o.do = "unselect" => o \in TaskOp
           /\ o.do \in {"bulk", "unselect"} => o \in TaskOp
           /\ IsMeeting(o) => o \in MeetingOp
           /\ o.do = "respond" => o \in RespondOp
           /\ o \in TaskOp => ~IsMeeting(o) /\ o \notin MeetingOp \cup RespondOp /\ o.do # "respond"
           /\ o \in MeetingOp => IsMeeting(o) /\ o \notin RespondOp /\ About(o) = {}
           /\ o \in RespondOp => /\ ~IsMeeting(o) /\ o.user \in Users /\ o.do = "respond"
                                 /\ About(o) = {o.user}
  BY DEF TaskOp, MeetingOp, RespondOp, IsSelection, IsMeeting, About


\* Every step but the first keeps a request on what it was about.
Narrows(r) ==
    /\ pc[r] \notin {"new", "end"}
    /\ About(op'[r]) \subseteq About(op[r])
    /\ raced' = raced

LEMMA BeginStep ==
    ASSUME TypeOK, PlaceInv, NEW r \in Requests, Begin(r)
    PROVE  /\ TypeOK' /\ PlaceInv' /\ Frame(r)
           /\ pc'[r] = "look" /\ answer'[r] = "none"
           /\ raced' = raced \cup (About(op'[r]) \cap UNION {About(op[q]) : q \in Active})
  <1>1. PICK o \in Ops :
           /\ op' = [op EXCEPT ![r] = o]
           /\ raced' = raced \cup (About(o) \cap UNION {About(op[q]) : q \in Active})
    BY DEF Begin
  <1>2. /\ pc[r] = "new" /\ pc' = [pc EXCEPT ![r] = "look"]
        /\ UNCHANGED <<selected, meeting, response, told, object, answer, latest>>
    BY DEF Begin
  <1>3. o \in TaskOp \cup MeetingOp \cup RespondOp /\ About(o) \subseteq Tasks \cup Users
    BY OpsAreOps
  <1>4. op'[r] = o /\ pc'[r] = "look" /\ answer'[r] = "none" /\ Frame(r)
    BY <1>1, <1>2 DEF TypeOK, PlaceInv, Frame
  <1>5. raced' \subseteq Tasks \cup Users
    BY <1>1, <1>3 DEF TypeOK
  <1>6. TypeOK'
    BY <1>1, <1>2, <1>3, <1>5 DEF TypeOK
  <1> QED
    BY <1>1, <1>3, <1>4, <1>6, PlaceStep

LEMMA LookSelectedStep ==
    ASSUME TypeOK, PlaceInv, NEW r \in Requests, LookSelected(r)
    PROVE  /\ TypeOK' /\ PlaceInv' /\ Frame(r) /\ Narrows(r)
           /\ pc[r] # "tell" /\ pc'[r] \notin {"tell", "delete", "update"}
           /\ op[r] \in TaskOp /\ op'[r] \in TaskOp
  <1>1. op[r] \in TaskOp /\ pc[r] = "look" /\ answer[r] = "none"
    BY Kinds DEF LookSelected, PlaceInv, At
  <1>2. CASE Has(selected[Task(r)], op[r].story)
    <2>1. PICK what \in Codes : NextTask(r, what)
      BY <1>2 DEF LookSelected, Codes
    <2>2. object' = object
      BY DEF LookSelected
    <2>3. /\ pc' \in [Requests -> {"new", "look", "create", "again", "tell", "delete",
                                    "update", "end"}]
           /\ op' \in [Requests -> AnyOp]
           /\ answer' \in [Requests -> Requests \cup Codes]
           /\ \/ pc'[r] = "end"
              \/ pc'[r] = "look" /\ answer'[r] = "none"
           /\ op'[r] \in TaskOp /\ About(op'[r]) \subseteq About(op[r])
           /\ Frame(r)
      BY <1>1, <2>1, <2>2, NextTaskSteps
    <2>4. PlaceInv'
      BY <2>3, PlaceStep
    <2>5. TypeOK'
      BY <2>3 DEF TypeOK, AnyOp, LookSelected
    <2> QED
      BY <1>1, <2>3, <2>4, <2>5 DEF Narrows, LookSelected
  <1>3. CASE ~Has(selected[Task(r)], op[r].story)
    <2>1. Goto(r, "create") /\ object' = object
      BY <1>3 DEF LookSelected
    <2>2. /\ pc' \in [Requests -> {"new", "look", "create", "again", "tell", "delete",
                                    "update", "end"}]
           /\ op' = op /\ answer' = answer /\ pc'[r] = "create" /\ answer'[r] = "none"
           /\ Frame(r)
      BY <1>1, <2>1, GotoSteps
    <2>3. PlaceInv'
      BY <1>1, <2>2, PlaceStep, Kinds
    <2>5. TypeOK'
      BY <2>2 DEF TypeOK, LookSelected
    <2> QED
      BY <1>1, <2>2, <2>3, <2>5 DEF Narrows, LookSelected
  <1> QED
    BY <1>2, <1>3


LEMMA CreateSelectedStep ==
    ASSUME DeskAssumption, TypeOK, PlaceInv, NEW r \in Requests, CreateSelected(r)
    PROVE  /\ TypeOK' /\ PlaceInv' /\ Frame(r) /\ Narrows(r)
           /\ pc[r] = "create" /\ pc'[r] \notin {"look", "create", "delete", "update"}
           /\ op[r] \in TaskOp /\ op'[r] = op[r] /\ Task(r) \in Tasks
           /\ IF selected[Task(r)] = None
              THEN /\ selected' = [selected EXCEPT ![Task(r)] =
                                      [story |-> op[r].story, by |-> r]]
                   /\ pc'[r] = "tell"
              ELSE UNCHANGED selected /\ pc'[r] # "tell"
  <1>1. op[r] \in TaskOp /\ pc[r] = "create" /\ answer[r] = "none"
    BY Kinds DEF CreateSelected, PlaceInv, At
  <1>2. Task(r) \in Tasks /\ op[r].story \in Stories
    BY <1>1, TaskOpFacts DEF Task
  <1>3. /\ UNCHANGED <<meeting, response, told, object, raced, latest>>
        /\ IsSelection(op[r])
    BY DEF CreateSelected
  <1>4. CASE selected[Task(r)] = None
    <2>1. /\ Goto(r, "tell")
          /\ selected' = [selected EXCEPT ![Task(r)] = [story |-> op[r].story, by |-> r]]
      BY <1>4 DEF CreateSelected
    <2>2. /\ pc' \in [Requests -> {"new", "look", "create", "again", "tell", "delete",
                                    "update", "end"}]
           /\ op' = op /\ answer' = answer /\ pc'[r] = "tell" /\ answer'[r] = "none"
           /\ Frame(r)
      BY <1>1, <1>3, <2>1, GotoSteps
    <2>3. PlaceInv'
      BY <1>1, <2>2, PlaceStep
    <2>4. selected' \in [Tasks -> Selection \cup {None}]
      BY <1>2, <2>1 DEF TypeOK, Selection
    <2>5. TypeOK'
      BY <1>3, <2>2, <2>4 DEF TypeOK
    <2> QED
      BY <1>1, <1>2, <1>3, <1>4, <2>1, <2>2, <2>3, <2>5 DEF Narrows
  <1>5. CASE selected[Task(r)] # None /\ op[r].do = "bulk"
    <2>1. Goto(r, "again") /\ selected' = selected
      BY <1>5 DEF CreateSelected
    <2>2. /\ pc' \in [Requests -> {"new", "look", "create", "again", "tell", "delete",
                                    "update", "end"}]
           /\ op' = op /\ answer' = answer /\ pc'[r] = "again" /\ answer'[r] = "none"
           /\ Frame(r)
      BY <1>1, <1>3, <2>1, GotoSteps
    <2>3. PlaceInv'
      BY <1>1, <1>5, <2>2, PlaceStep
    <2>5. TypeOK'
      BY <1>3, <2>1, <2>2 DEF TypeOK
    <2> QED
      BY <1>1, <1>2, <1>3, <1>5, <2>1, <2>2, <2>3, <2>5 DEF Narrows
  <1>6. CASE selected[Task(r)] # None /\ op[r].do # "bulk"
    <2>1. End(r, "refused") /\ selected' = selected
      BY <1>6 DEF CreateSelected
    <2>2. /\ pc' \in [Requests -> {"new", "look", "create", "again", "tell", "delete",
                                    "update", "end"}]
           /\ answer' \in [Requests -> Requests \cup Codes]
           /\ op' = op /\ pc'[r] = "end" /\ answer'[r] = "refused" /\ Frame(r)
      BY <1>3, <2>1, EndSteps DEF Codes
    <2>3. PlaceInv'
      BY <2>2, PlaceStep
    <2>5. TypeOK'
      BY <1>3, <2>1, <2>2 DEF TypeOK
    <2> QED
      BY <1>1, <1>2, <1>3, <1>6, <2>1, <2>2, <2>3, <2>5 DEF Narrows
  <1> QED
    BY <1>4, <1>5, <1>6

LEMMA LookAgainStep ==
    ASSUME TypeOK, PlaceInv, NEW r \in Requests, LookAgain(r)
    PROVE  /\ TypeOK' /\ PlaceInv' /\ Frame(r) /\ Narrows(r)
           /\ pc[r] = "again" /\ pc'[r] \notin {"tell", "delete", "update"}
           /\ op[r] \in TaskOp /\ op'[r] \in TaskOp
  <1>1. op[r] \in TaskOp /\ pc[r] = "again" /\ answer[r] = "none"
    BY Kinds DEF LookAgain, PlaceInv, At
  <1>2. PICK what \in Codes : NextTask(r, what) \/ End(r, what)
    BY DEF LookAgain, Codes
  <1>3. UNCHANGED <<selected, meeting, response, told, object, raced, latest>>
    BY DEF LookAgain
  <1>4. /\ pc' \in [Requests -> {"new", "look", "create", "again", "tell", "delete",
                                 "update", "end"}]
        /\ op' \in [Requests -> AnyOp]
        /\ answer' \in [Requests -> Requests \cup Codes]
        /\ \/ pc'[r] = "end"
           \/ pc'[r] = "look" /\ answer'[r] = "none"
        /\ op'[r] \in TaskOp /\ About(op'[r]) \subseteq About(op[r])
        /\ Frame(r)
    <2>1. CASE NextTask(r, what)
      BY <1>1, <1>3, <2>1, NextTaskSteps
    <2>2. CASE End(r, what)
      BY <1>1, <1>3, <2>2, EndSteps DEF TypeOK, AnyOp
    <2> QED
      BY <1>2, <2>1, <2>2
  <1>5. PlaceInv'
    BY <1>4, PlaceStep
  <1>6. TypeOK'
    BY <1>3, <1>4 DEF TypeOK, AnyOp
  <1> QED
    BY <1>1, <1>3, <1>4, <1>5, <1>6 DEF Narrows

LEMMA TellSelectedStep ==
    ASSUME TypeOK, PlaceInv, NEW r \in Requests, TellSelected(r)
    PROVE  /\ TypeOK' /\ PlaceInv' /\ Frame(r) /\ Narrows(r)
           /\ pc[r] = "tell" /\ pc'[r] \notin {"tell", "delete", "update"}
           /\ op[r] \in TaskOp /\ op'[r] \in TaskOp /\ Task(r) \in Tasks
           /\ op[r].do # "unselect"
           /\ told' = [told EXCEPT ![Task(r)] = op[r].story] /\ UNCHANGED selected
  <1>1. op[r] \in TaskOp /\ pc[r] = "tell" /\ answer[r] = "none"
    BY Kinds DEF TellSelected, PlaceInv, At
  <1>2. Task(r) \in Tasks /\ op[r].story \in Stories
    BY <1>1, TaskOpFacts DEF Task
  <1>3. /\ UNCHANGED <<selected, meeting, response, object, raced, latest>>
        /\ told' = [told EXCEPT ![Task(r)] = op[r].story]
        /\ NextTask(r, "ok") /\ op[r].do # "unselect"
    BY DEF TellSelected, IsSelection
  <1>4. /\ pc' \in [Requests -> {"new", "look", "create", "again", "tell", "delete",
                                 "update", "end"}]
        /\ op' \in [Requests -> AnyOp]
        /\ answer' \in [Requests -> Requests \cup Codes]
        /\ \/ pc'[r] = "end"
           \/ pc'[r] = "look" /\ answer'[r] = "none"
        /\ op'[r] \in TaskOp /\ About(op'[r]) \subseteq About(op[r])
        /\ Frame(r)
    BY <1>1, <1>3, NextTaskSteps, "ok" \in Codes DEF Codes
  <1>5. PlaceInv'
    BY <1>4, PlaceStep
  <1>6. told' \in [Tasks -> Stories \cup {None}]
    BY <1>2, <1>3 DEF TypeOK
  <1>7. TypeOK'
    BY <1>3, <1>4, <1>6 DEF TypeOK, AnyOp
  <1> QED
    BY <1>1, <1>2, <1>3, <1>4, <1>5, <1>7 DEF Narrows


LEMMA LookUnselectStep ==
    ASSUME TypeOK, PlaceInv, NEW r \in Requests, LookUnselect(r)
    PROVE  /\ TypeOK' /\ PlaceInv' /\ Frame(r) /\ Narrows(r)
           /\ pc[r] = "look" /\ pc'[r] \in {"delete", "end"}
           /\ op[r] \in TaskOp /\ op'[r] = op[r] /\ Task(r) \in Tasks
           /\ object'[r] = selected[Task(r)] /\ UNCHANGED <<selected, told>>
  <1>1. op[r] \in TaskOp /\ pc[r] = "look" /\ answer[r] = "none" /\ op[r].do = "unselect"
    BY Kinds DEF LookUnselect, PlaceInv, At
  <1>2. Task(r) \in Tasks
    BY <1>1, TaskOpFacts DEF Task
  <1>3. /\ UNCHANGED <<selected, meeting, response, told, raced, latest>>
        /\ object' = [object EXCEPT ![r] = selected[Task(r)]]
        /\ Goto(r, "delete") \/ End(r, "missing")
    BY DEF LookUnselect
  <1>4. /\ object' \in [Requests -> Selection \cup Response \cup {None}]
        /\ object'[r] = selected[Task(r)]
        /\ \A q \in Requests \ {r} : object'[q] = object[q]
    BY <1>2, <1>3 DEF TypeOK
  <1>5. /\ pc' \in [Requests -> {"new", "look", "create", "again", "tell", "delete",
                                    "update", "end"}]
        /\ answer' \in [Requests -> Requests \cup Codes]
        /\ op' = op /\ Frame(r)
        /\ \/ pc'[r] = "delete" /\ answer'[r] = "none"
           \/ pc'[r] = "end"
    <2>1. CASE Goto(r, "delete")
      BY <1>1, <1>4, <2>1, GotoSteps DEF TypeOK
    <2>2. CASE End(r, "missing")
      BY <1>4, <2>2, EndSteps DEF Codes
    <2> QED
      BY <1>3, <2>1, <2>2
  <1>6. PlaceInv'
    BY <1>1, <1>5, PlaceStep
  <1>7. TypeOK'
    BY <1>3, <1>4, <1>5 DEF TypeOK
  <1> QED
    BY <1>1, <1>2, <1>3, <1>4, <1>5, <1>6, <1>7 DEF Narrows

LEMMA UnselectStep ==
    ASSUME TypeOK, PlaceInv, NEW r \in Requests, Unselect(r)
    PROVE  /\ TypeOK' /\ PlaceInv' /\ Frame(r) /\ Narrows(r)
           /\ pc[r] = "delete" /\ pc'[r] = "tell"
           /\ op[r] \in TaskOp /\ op'[r] = op[r] /\ Task(r) \in Tasks
           /\ op[r].do = "unselect" /\ UNCHANGED told
           /\ selected' = [selected EXCEPT ![Task(r)] = IF @ = object[r] THEN None ELSE @]
  <1>1. op[r] \in TaskOp /\ pc[r] = "delete" /\ answer[r] = "none" /\ op[r].do = "unselect"
    BY Kinds DEF Unselect, PlaceInv, At
  <1>2. Task(r) \in Tasks
    BY <1>1, TaskOpFacts DEF Task
  <1>3. /\ UNCHANGED <<meeting, response, told, object, raced, latest>>
        /\ selected' = [selected EXCEPT ![Task(r)] = IF @ = object[r] THEN None ELSE @]
        /\ Goto(r, "tell")
    BY DEF Unselect
  <1>4. /\ pc' \in [Requests -> {"new", "look", "create", "again", "tell", "delete",
                                    "update", "end"}]
           /\ op' = op /\ answer' = answer /\ pc'[r] = "tell" /\ answer'[r] = "none"
           /\ Frame(r)
    BY <1>1, <1>3, GotoSteps
  <1>5. selected' \in [Tasks -> Selection \cup {None}]
    BY <1>2, <1>3 DEF TypeOK
  <1>6. PlaceInv'
    BY <1>1, <1>4, PlaceStep
  <1>7. TypeOK'
    BY <1>3, <1>4, <1>5 DEF TypeOK
  <1> QED
    BY <1>1, <1>2, <1>3, <1>4, <1>6, <1>7 DEF Narrows

LEMMA TellUnselectedStep ==
    ASSUME TypeOK, PlaceInv, NEW r \in Requests, TellUnselected(r)
    PROVE  /\ TypeOK' /\ PlaceInv' /\ Frame(r) /\ Narrows(r)
           /\ pc[r] = "tell" /\ pc'[r] = "end"
           /\ op[r] \in TaskOp /\ op'[r] = op[r] /\ Task(r) \in Tasks
           /\ op[r].do = "unselect" /\ UNCHANGED selected
           /\ told' = [told EXCEPT ![Task(r)] = None]
  <1>1. op[r] \in TaskOp /\ pc[r] = "tell" /\ answer[r] = "none" /\ op[r].do = "unselect"
    BY Kinds DEF TellUnselected, PlaceInv, At
  <1>2. Task(r) \in Tasks
    BY <1>1, TaskOpFacts DEF Task
  <1>3. /\ UNCHANGED <<selected, meeting, response, object, raced, latest>>
        /\ told' = [told EXCEPT ![Task(r)] = None]
        /\ End(r, "ok")
    BY DEF TellUnselected
  <1>4. /\ pc' \in [Requests -> {"new", "look", "create", "again", "tell", "delete",
                                    "update", "end"}]
        /\ answer' \in [Requests -> Requests \cup Codes]
        /\ op' = op /\ pc'[r] = "end" /\ Frame(r)
    BY <1>3, EndSteps DEF Codes
  <1>5. told' \in [Tasks -> Stories \cup {None}]
    BY <1>2, <1>3 DEF TypeOK
  <1>6. PlaceInv'
    BY <1>4, PlaceStep
  <1>7. TypeOK'
    BY <1>3, <1>4, <1>5 DEF TypeOK
  <1> QED
    BY <1>1, <1>2, <1>3, <1>4, <1>6, <1>7 DEF Narrows


LEMMA LookMeetingStep ==
    ASSUME TypeOK, PlaceInv, NEW r \in Requests, LookMeeting(r)
    PROVE  /\ TypeOK' /\ PlaceInv' /\ Frame(r) /\ Narrows(r)
           /\ pc[r] = "look" /\ pc'[r] \in {"create", "end"}
           /\ op[r] \in MeetingOp /\ op'[r] = op[r]
           /\ UNCHANGED <<selected, told, meeting, response, latest>>
           /\ answer'[r] \in {"none", meeting, "refused", "missing"}
           /\ meeting = None => answer'[r] \in {"none", "missing"}
  <1>1. op[r] \in MeetingOp /\ pc[r] = "look" /\ answer[r] = "none"
    BY Kinds DEF LookMeeting, PlaceInv, At
  <1>2. UNCHANGED <<selected, meeting, response, told, object, raced, latest>>
    BY DEF LookMeeting
  <1>3. PICK what \in {meeting, "refused", "missing"} :
            /\ Goto(r, "create") \/ End(r, what)
            /\ meeting = None => what = "missing"
    BY DEF LookMeeting
  <1>4. End(r, what) => what \in Requests \cup Codes
    BY <1>3 DEF TypeOK, Codes
  <1>5. /\ pc' \in [Requests -> {"new", "look", "create", "again", "tell", "delete",
                                    "update", "end"}]
        /\ answer' \in [Requests -> Requests \cup Codes]
        /\ op' = op /\ Frame(r)
        /\ \/ pc'[r] = "create" /\ answer'[r] = "none"
           \/ pc'[r] = "end" /\ answer'[r] = what
    <2>1. CASE Goto(r, "create")
      BY <1>1, <1>2, <2>1, GotoSteps DEF TypeOK
    <2>2. CASE End(r, what)
      BY <1>2, <1>4, <2>2, EndSteps
    <2> QED
      BY <1>3, <2>1, <2>2
  <1>6. PlaceInv'
    BY <1>1, <1>5, PlaceStep, Kinds
  <1>7. TypeOK'
    BY <1>2, <1>5 DEF TypeOK
  <1> QED
    BY <1>1, <1>2, <1>3, <1>5, <1>6, <1>7 DEF Narrows

LEMMA CreateMeetingStep ==
    ASSUME DeskAssumption, TypeOK, PlaceInv, NEW r \in Requests, CreateMeeting(r)
    PROVE  /\ TypeOK' /\ PlaceInv' /\ Frame(r) /\ Narrows(r)
           /\ pc[r] = "create" /\ pc'[r] = "end"
           /\ op[r] \in MeetingOp /\ op'[r] = op[r]
           /\ UNCHANGED <<selected, told, response, latest>>
           /\ IF meeting = None
              THEN meeting' = r /\ answer'[r] = r
              ELSE meeting' = meeting /\ answer'[r] = "error"
  <1>1. op[r] \in MeetingOp /\ pc[r] = "create" /\ answer[r] = "none"
    BY Kinds DEF CreateMeeting, PlaceInv, At
  <1>2. UNCHANGED <<selected, response, told, object, raced, latest>>
    BY DEF CreateMeeting
  <1>3. PICK what \in {r, "error"} :
            /\ End(r, what)
            /\ IF meeting = None THEN meeting' = r /\ what = r
                                 ELSE meeting' = meeting /\ what = "error"
    BY DEF CreateMeeting
  <1>4. /\ pc' \in [Requests -> {"new", "look", "create", "again", "tell", "delete",
                                    "update", "end"}]
        /\ answer' \in [Requests -> Requests \cup Codes]
        /\ op' = op /\ pc'[r] = "end" /\ answer'[r] = what /\ Frame(r)
    BY <1>2, <1>3, EndSteps DEF Codes
  <1>5. meeting' \in Requests \cup {None}
    BY <1>3 DEF TypeOK
  <1>6. PlaceInv'
    BY <1>4, PlaceStep
  <1>7. TypeOK'
    BY <1>2, <1>4, <1>5 DEF TypeOK
  <1> QED
    BY <1>1, <1>2, <1>3, <1>4, <1>6, <1>7 DEF Narrows

LEMMA LookResponseStep ==
    ASSUME DeskAssumption, TypeOK, PlaceInv, NEW r \in Requests, LookResponse(r)
    PROVE  /\ TypeOK' /\ PlaceInv' /\ Frame(r) /\ Narrows(r)
           /\ pc[r] = "look" /\ pc'[r] \in {"update", "create", "end"}
           /\ op[r] \in RespondOp /\ op'[r] = op[r]
           /\ UNCHANGED <<selected, told, response, latest, meeting>>
           /\ object'[r] = response[op[r].user]
           /\ pc'[r] = "update" => response[op[r].user] # None
           /\ answer'[r] \in {"none", "refused"}
  <1>1. op[r] \in RespondOp /\ pc[r] = "look" /\ answer[r] = "none"
    BY Kinds DEF LookResponse, PlaceInv, At
  <1>2. op[r].user \in Users
    BY <1>1 DEF RespondOp
  <1>3. /\ UNCHANGED <<selected, meeting, response, told, raced, latest>>
        /\ object' = [object EXCEPT ![r] = response[op[r].user]]
    BY DEF LookResponse
  <1>4. /\ object' \in [Requests -> Selection \cup Response \cup {None}]
        /\ object'[r] = response[op[r].user]
        /\ object'[r] # None => object'[r] \in Response
        /\ \A q \in Requests \ {r} : object'[q] = object[q]
    BY <1>2, <1>3 DEF TypeOK
  <1>5. PICK place \in {"update", "create", "end"} :
            /\ IF place = "end" THEN End(r, "refused") ELSE Goto(r, place)
            /\ place = "update" => response[op[r].user] # None
            /\ place = "create" => op[r].questions = Questions
    BY DEF LookResponse
  <1>6. /\ pc' \in [Requests -> {"new", "look", "create", "again", "tell", "delete",
                                    "update", "end"}]
        /\ answer' \in [Requests -> Requests \cup Codes]
        /\ op' = op /\ Frame(r) /\ pc'[r] = place
        /\ answer'[r] = IF place = "end" THEN "refused" ELSE "none"
    <2>1. CASE place # "end"
      BY <1>1, <1>4, <1>5, <2>1, GotoSteps DEF TypeOK
    <2>2. CASE place = "end"
      BY <1>4, <1>5, <2>2, EndSteps DEF Codes
    <2> QED
      BY <2>1, <2>2
  <1>7. PlaceInv'
    BY <1>1, <1>3, <1>4, <1>5, <1>6, PlaceStep
  <1>8. TypeOK'
    BY <1>3, <1>4, <1>6 DEF TypeOK
  <1> QED
    BY <1>1, <1>3, <1>4, <1>5, <1>6, <1>7, <1>8 DEF Narrows

\* What the rows and the history have after a save.
LEMMA AnsweredFacts ==
    ASSUME TypeOK, NEW r \in Requests, op[r] \in RespondOp
    PROVE  /\ \A before \in Answers : Answered(r, before) \in Answers
           /\ \A before \in [Questions -> Requests] :
                  Answered(r, before) \in [Questions -> Requests]
           /\ op[r].questions = Questions =>
                  \A before \in Answers : Answered(r, before) \in [Questions -> Requests]
  BY DEF Answered, Answers, RespondOp

LEMMA CreateResponseStep ==
    ASSUME DeskAssumption, TypeOK, PlaceInv, NEW r \in Requests, CreateResponse(r)
    PROVE  /\ TypeOK' /\ PlaceInv' /\ Frame(r) /\ Narrows(r)
           /\ pc[r] = "create" /\ pc'[r] = "end"
           /\ op[r] \in RespondOp /\ op'[r] = op[r]
           /\ UNCHANGED <<selected, told, meeting>>
           /\ answer'[r] \in {"ok", "error"}
           /\ \/ UNCHANGED <<response, latest>>
              \/ \E a \in [Questions -> Requests] :
                     /\ response' = [response EXCEPT ![op[r].user] = [by |-> r, answers |-> a]]
                     /\ latest' = [latest EXCEPT ![op[r].user] = a]
  <1> DEFINE u == op[r].user
             a == Answered(r, latest[u])
  <1>1. op[r] \in RespondOp /\ pc[r] = "create" /\ answer[r] = "none"
        /\ op[r].questions = Questions
    BY Kinds DEF CreateResponse, PlaceInv, At
  <1>2. u \in Users
    BY <1>1 DEF RespondOp
  <1>3. UNCHANGED <<selected, meeting, told, object, raced>>
    BY DEF CreateResponse
  <1>4. a \in [Questions -> Requests] /\ a \in Answers
    BY <1>1, <1>2, AnsweredFacts DEF TypeOK
  <1>5. /\ \/ UNCHANGED <<response, latest>>
           \/ /\ response' = [response EXCEPT ![u] = [by |-> r, answers |-> a]]
              /\ latest' = [latest EXCEPT ![u] = a]
        /\ End(r, "ok") \/ End(r, "error")
    BY DEF CreateResponse, Remember
  <1> HIDE DEF a, u
  <1>6. /\ response' \in [Users -> Response \cup {None}]
        /\ latest' \in [Users -> Answers]
    BY <1>2, <1>4, <1>5 DEF TypeOK, Response
  <1>7. /\ pc' \in [Requests -> {"new", "look", "create", "again", "tell", "delete",
                                    "update", "end"}]
        /\ answer' \in [Requests -> Requests \cup Codes]
        /\ op' = op /\ pc'[r] = "end" /\ answer'[r] \in {"ok", "error"} /\ Frame(r)
    BY <1>3, <1>5, EndSteps DEF Codes
  <1>8. PlaceInv'
    BY <1>7, PlaceStep
  <1>9. TypeOK'
    BY <1>3, <1>6, <1>7 DEF TypeOK
  <1> QED
    BY <1>1, <1>3, <1>4, <1>5, <1>7, <1>8, <1>9 DEF Narrows, u

LEMMA UpdateResponseStep ==
    ASSUME TypeOK, PlaceInv, NEW r \in Requests, UpdateResponse(r)
    PROVE  /\ TypeOK' /\ PlaceInv' /\ Frame(r) /\ Narrows(r)
           /\ pc[r] = "update" /\ pc'[r] = "end"
           /\ op[r] \in RespondOp /\ op'[r] = op[r]
           /\ UNCHANGED <<selected, told, meeting>>
           /\ answer'[r] = "ok"
           /\ response' = [response EXCEPT ![op[r].user] =
                  [object[r] EXCEPT !.answers = Answered(r, object[r].answers)]]
           /\ latest' = [latest EXCEPT ![op[r].user] = Answered(r, latest[op[r].user])]
  <1> DEFINE u == op[r].user
             a == Answered(r, object[r].answers)
             b == Answered(r, latest[u])
  <1>1. op[r] \in RespondOp /\ pc[r] = "update" /\ answer[r] = "none" /\ object[r] \in Response
    BY Kinds DEF UpdateResponse, PlaceInv, At
  <1>2. u \in Users
    BY <1>1 DEF RespondOp
  <1>3. /\ UNCHANGED <<selected, meeting, told, object, raced>>
        /\ response' = [response EXCEPT ![u] = [object[r] EXCEPT !.answers = a]]
        /\ latest' = [latest EXCEPT ![u] = b]
        /\ End(r, "ok")
    BY DEF UpdateResponse, Remember
  <1>4. a \in [Questions -> Requests] /\ b \in Answers
    BY <1>1, <1>2, AnsweredFacts DEF TypeOK, Response
  <1> HIDE DEF a, b, u
  <1>5. [object[r] EXCEPT !.answers = a] \in Response
    BY <1>1, <1>4 DEF Response
  <1>6. /\ response' \in [Users -> Response \cup {None}]
        /\ latest' \in [Users -> Answers]
    BY <1>2, <1>3, <1>4, <1>5 DEF TypeOK
  <1>7. /\ pc' \in [Requests -> {"new", "look", "create", "again", "tell", "delete",
                                    "update", "end"}]
        /\ answer' \in [Requests -> Requests \cup Codes]
        /\ op' = op /\ pc'[r] = "end" /\ answer'[r] = "ok" /\ Frame(r)
    BY <1>3, EndSteps DEF Codes
  <1>8. PlaceInv'
    BY <1>7, PlaceStep
  <1>9. TypeOK'
    BY <1>3, <1>6, <1>7 DEF TypeOK
  <1> QED
    BY <1>1, <1>3, <1>7, <1>8, <1>9 DEF Narrows, u, a, b


-----------------------------------------------------------------------------
(* Types *)

LEMMA TypeInit == DeskAssumption /\ Init => TypeOK /\ PlaceInv
  <1> SUFFICES ASSUME DeskAssumption, Init PROVE TypeOK /\ PlaceInv
    OBVIOUS
  <1>1. PlaceInv
    BY DEF Init, PlaceInv
  <1>2. TypeOK
    BY DEF Init, TypeOK, Answers, Codes
  <1> QED
    BY <1>1, <1>2

LEMMA TypeNext ==
    ASSUME DeskAssumption, TypeOK, PlaceInv, [Next]_vars
    PROVE  TypeOK' /\ PlaceInv'
  <1>1. CASE UNCHANGED vars
    BY <1>1 DEF vars, TypeOK, PlaceInv
  <1>2. CASE Next
    BY <1>2, BeginStep, LookSelectedStep, CreateSelectedStep, LookAgainStep, TellSelectedStep,
       LookUnselectStep, UnselectStep, TellUnselectedStep, LookMeetingStep, CreateMeetingStep,
       LookResponseStep, CreateResponseStep, UpdateResponseStep DEF Next
  <1> QED
    BY <1>1, <1>2

(* Every request is at a place of the views and has a row of its kind in    *)
(* memory; in particular what is saved as a response has all the obligatory *)
(* answers, whichever way it was put together.                              *)
THEOREM DeskTypeCorrect == Spec => []TypeOK
  <1>1. Init => TypeOK /\ PlaceInv
    BY TypeInit, DeskAssumption
  <1>2. (TypeOK /\ PlaceInv) /\ [Next]_vars => (TypeOK /\ PlaceInv)'
    BY TypeNext, DeskAssumption
  <1> QED
    BY <1>1, <1>2, PTL DEF Spec

-----------------------------------------------------------------------------
(* One meeting a day *)

\* The meeting is of a request that has ended: who still has to create one
\* can only lose.
MeetingInv ==
    /\ OneMeeting
    /\ \A r \in Requests : meeting = r => pc[r] = "end"

LEMMA MeetingFrame ==
    ASSUME PlaceInv, MeetingInv, NEW r \in Requests, Frame(r),
           UNCHANGED meeting, pc[r] # "end", ~IsMeeting(op'[r])
    PROVE  MeetingInv'
  <1>1. \A q \in Requests : meeting' = q => pc'[q] = "end"
    BY DEF MeetingInv, Frame
  <1>2. OneMeeting'
    <2> SUFFICES ASSUME NEW q \in Requests, IsMeeting(op'[q])
                 PROVE  /\ answer'[q] \in Requests => answer'[q] = meeting'
                        /\ answer'[q] = "error" => meeting' \notin {None, q}
      BY DEF OneMeeting
    <2>1. op'[q] = op[q] /\ answer'[q] = answer[q]
      BY DEF Frame
    <2> QED
      BY <2>1 DEF MeetingInv, OneMeeting
  <1> QED
    BY <1>1, <1>2 DEF MeetingInv

LEMMA MeetingNext ==
    ASSUME DeskAssumption, TypeOK, PlaceInv, MeetingInv, [Next]_vars
    PROVE  MeetingInv'
  <1> USE DEF MeetingInv
  <1>1. CASE UNCHANGED vars
    BY <1>1 DEF vars, OneMeeting
  <1>2. ASSUME NEW r \in Requests,
               \/ LookSelected(r) \/ CreateSelected(r) \/ LookAgain(r) \/ TellSelected(r)
               \/ LookUnselect(r) \/ Unselect(r) \/ TellUnselected(r)
        PROVE  MeetingInv'
    <2>1. op'[r] \in TaskOp /\ Frame(r) /\ pc[r] # "end"
      BY <1>2, LookSelectedStep, CreateSelectedStep, LookAgainStep, TellSelectedStep,
         LookUnselectStep, UnselectStep, TellUnselectedStep DEF Narrows
    <2>2. ~IsMeeting(op'[r])
      BY <2>1, Kinds
    <2>3. UNCHANGED meeting
      BY <1>2 DEF LookSelected, CreateSelected, LookAgain, TellSelected, LookUnselect,
         Unselect, TellUnselected
    <2> QED
      BY <2>1, <2>2, <2>3, MeetingFrame
  <1>3. ASSUME NEW r \in Requests, LookResponse(r) \/ CreateResponse(r) \/ UpdateResponse(r)
        PROVE  MeetingInv'
    <2>1. op'[r] \in RespondOp /\ Frame(r) /\ pc[r] # "end" /\ UNCHANGED meeting
      BY <1>3, LookResponseStep, CreateResponseStep, UpdateResponseStep DEF Narrows
    <2>2. ~IsMeeting(op'[r])
      BY <2>1, Kinds
    <2> QED
      BY <2>1, <2>2, MeetingFrame
  <1>4. ASSUME NEW r \in Requests, Begin(r)
        PROVE  MeetingInv'
    <2>1. Frame(r) /\ answer'[r] = "none" /\ pc[r] # "end" /\ UNCHANGED meeting
      BY <1>4, BeginStep DEF Begin
    <2>2. "none" \notin Requests
      BY DEF DeskAssumption, Codes
    <2> QED
      BY <2>1, <2>2 DEF OneMeeting, Frame
  <1>5. ASSUME NEW r \in Requests, LookMeeting(r)
        PROVE  MeetingInv'
    <2>1. /\ Frame(r) /\ pc[r] # "end" /\ UNCHANGED meeting
          /\ answer'[r] \in {"none", meeting, "refused", "missing"}
          /\ meeting = None => answer'[r] \in {"none", "missing"}
      BY <1>5, LookMeetingStep
    <2>2. Requests \cap {"none", "refused", "missing", "error"} = {}
      BY DEF DeskAssumption, Codes
    <2>3. answer'[r] # "error" /\ (answer'[r] \in Requests => answer'[r] = meeting)
      <3>1. CASE meeting = None
        BY <2>1, <2>2, <3>1
      <3>2. CASE meeting # None
        BY <2>1, <2>2, <3>2 DEF TypeOK
      <3> QED
        BY <3>1, <3>2
    <2> QED
      BY <2>1, <2>3 DEF OneMeeting, Frame
  <1>6. ASSUME NEW r \in Requests, CreateMeeting(r)
        PROVE  MeetingInv'
    <2>1. /\ Frame(r) /\ pc[r] = "create" /\ pc'[r] = "end"
          /\ IF meeting = None
             THEN meeting' = r /\ answer'[r] = r
             ELSE meeting' = meeting /\ answer'[r] = "error"
      BY <1>6, CreateMeetingStep
    <2>2. "error" \notin Requests /\ None \notin Requests
      BY DEF DeskAssumption, Codes
    <2>3. CASE meeting = None
      BY <2>1, <2>2, <2>3 DEF OneMeeting, Frame
    <2>4. CASE meeting # None
      BY <2>1, <2>2, <2>4 DEF OneMeeting, Frame
    <2> QED
      BY <2>3, <2>4
  <1> QED
    BY <1>1, <1>2, <1>3, <1>4, <1>5, <1>6 DEF Next

(* Whoever is answered with a meeting of today is in the only one, and an   *)
(* unexpected error is only met by a request that lost the race to create   *)
(* it (DailyMeetingTodayView.get, DailyMeetingListView.post).               *)
THEOREM OneMeetingHolds == Spec => []OneMeeting
  <1> DEFINE Inv == TypeOK /\ PlaceInv /\ MeetingInv
  <1>1. Init => Inv
    <2> SUFFICES ASSUME Init PROVE Inv
      OBVIOUS
    <2>1. MeetingInv
      BY DeskAssumption DEF Init, MeetingInv, OneMeeting, IsMeeting, DeskAssumption
    <2> QED
      BY <2>1, TypeInit, DeskAssumption
  <1>2. Inv /\ [Next]_vars => Inv'
    BY TypeNext, MeetingNext, DeskAssumption
  <1>3. Inv => OneMeeting
    BY DEF MeetingInv
  <1> HIDE DEF Inv
  <1> QED
    BY <1>1, <1>2, <1>3, PTL DEF Spec


-----------------------------------------------------------------------------
(* Requests that do not overlap *)

\* Two requests at work on the same task or user have been noticed.
Exclusive ==
    \A q, r \in Active : \A x \in About(op[q]) \cap About(op[r]) : q = r \/ x \in raced

LEMMA Steps ==
    ASSUME DeskAssumption, TypeOK, PlaceInv, NEW r \in Requests, Next,
           \/ LookSelected(r) \/ CreateSelected(r) \/ LookAgain(r) \/ TellSelected(r)
           \/ LookUnselect(r) \/ Unselect(r) \/ TellUnselected(r)
           \/ LookMeeting(r) \/ CreateMeeting(r)
           \/ LookResponse(r) \/ CreateResponse(r) \/ UpdateResponse(r)
    PROVE  Frame(r) /\ Narrows(r)
  BY LookSelectedStep, CreateSelectedStep, LookAgainStep, TellSelectedStep,
     LookUnselectStep, UnselectStep, TellUnselectedStep, LookMeetingStep, CreateMeetingStep,
     LookResponseStep, CreateResponseStep, UpdateResponseStep

LEMMA ExclusiveNext ==
    ASSUME DeskAssumption, TypeOK, PlaceInv, Exclusive, [Next]_vars
    PROVE  Exclusive'
  <1>1. CASE UNCHANGED vars
    BY <1>1 DEF vars, Exclusive, Active
  <1>2. ASSUME NEW r \in Requests, Frame(r), Narrows(r)
        PROVE  Exclusive'
    <2> SUFFICES ASSUME NEW p \in Active', NEW q \in Active',
                        NEW x \in About(op'[p]) \cap About(op'[q]), p # q
                 PROVE  x \in raced'
      BY DEF Exclusive
    <2>1. /\ p \in Active /\ x \in About(op[p])
          /\ q \in Active /\ x \in About(op[q])
      BY <1>2 DEF Active, Frame, Narrows
    <2> QED
      BY <1>2, <2>1 DEF Exclusive, Narrows
  <1>3. ASSUME NEW r \in Requests, Begin(r)
        PROVE  Exclusive'
    <2>1. /\ Frame(r) /\ pc[r] = "new"
          /\ raced' = raced \cup (About(op'[r]) \cap UNION {About(op[q]) : q \in Active})
      BY <1>3, BeginStep DEF Begin
    <2> SUFFICES ASSUME NEW p \in Active', NEW q \in Active',
                        NEW x \in About(op'[p]) \cap About(op'[q]), p # q
                 PROVE  x \in raced'
      BY DEF Exclusive
    <2>2. ASSUME NEW y \in Active', y # r
          PROVE  y \in Active /\ op'[y] = op[y]
      BY <2>1, <2>2 DEF Active, Frame
    <2>3. CASE p = r
      BY <2>1, <2>2, <2>3
    <2>4. CASE q = r
      BY <2>1, <2>2, <2>4
    <2>5. CASE p # r /\ q # r
      BY <2>1, <2>2, <2>5 DEF Exclusive
    <2> QED
      BY <2>3, <2>4, <2>5
  <1> QED
    BY <1>1, <1>2, <1>3, Steps DEF Next

-----------------------------------------------------------------------------
(* The truth about the tasks *)

StoryOf(row) == IF row = None THEN None ELSE row.story

\* While it tells, a request knows what holds of its task; while it deletes,
\* the row that it found is there.
TellInv ==
    \A r \in Requests :
        /\ pc[r] = "tell" /\ Task(r) \notin raced =>
               StoryOf(selected[Task(r)]) =
                   IF op[r].do = "unselect" THEN None ELSE op[r].story
        /\ pc[r] = "delete" /\ Task(r) \notin raced => object[r] = selected[Task(r)]

\* What was told is true, or is about to be told again.
ToldInv ==
    \A t \in Tasks \ raced :
        \/ told[t] = StoryOf(selected[t])
        \/ \E r \in Requests : pc[r] = "tell" /\ Task(r) = t

TaskInv == TellInv /\ ToldInv

LEMMA TaskFrame ==
    ASSUME TaskInv, NEW r \in Requests, Frame(r), UNCHANGED <<selected, told>>,
           raced \subseteq raced', pc[r] # "tell", pc'[r] \notin {"tell", "delete"}
    PROVE  TaskInv'
  <1>1. \A q \in Requests \ {r} : Task(q)' = Task(q)
    BY DEF Frame, Task
  <1>2. TellInv'
    BY <1>1 DEF TaskInv, TellInv, Frame
  <1>3. ToldInv'
    <2> SUFFICES ASSUME NEW t \in Tasks \ raced', told'[t] # StoryOf(selected'[t])
                 PROVE  \E q \in Requests : pc'[q] = "tell" /\ Task(q)' = t
      BY DEF ToldInv, StoryOf
    <2>1. told[t] # StoryOf(selected[t])
      BY DEF StoryOf
    <2>2. PICK q \in Requests : pc[q] = "tell" /\ Task(q) = t
      BY <2>1 DEF TaskInv, ToldInv
    <2> QED
      BY <1>1, <2>2 DEF Frame
  <1> QED
    BY <1>2, <1>3 DEF TaskInv

\* Nobody else is telling or deleting about a task that is not raced.
LEMMA Alone ==
    ASSUME PlaceInv, Exclusive, NEW q \in Requests, NEW r \in Requests,
           op[q] \in TaskOp, op[r] \in TaskOp,
           pc[q] \in {"tell", "delete"}, pc[r] \notin {"new", "end"}, q # r,
           Task(q) \notin raced
    PROVE  Task(q) # Task(r)
  <1>1. Task(q) \in About(op[q]) /\ Task(r) \in About(op[r])
    BY TaskOpFacts DEF Task
  <1> QED
    BY <1>1 DEF Exclusive, Active

\* A step about one task leaves what the others say of the other tasks, or
\* of this one when it is raced.
LEMMA TaskOthers ==
    ASSUME TypeOK, PlaceInv, Exclusive, TaskInv, NEW r \in Requests, Frame(r), Narrows(r),
           op[r] \in TaskOp, Task(r) \in Tasks,
           \A t \in Tasks \ {Task(r)} : selected'[t] = selected[t] /\ told'[t] = told[t]
    PROVE  /\ \A q \in Requests \ {r} :
                 /\ pc'[q] = "tell" /\ Task(q)' \notin raced' =>
                        StoryOf(selected[Task(q)])' =
                            IF op'[q].do = "unselect" THEN None ELSE op'[q].story
                 /\ pc'[q] = "delete" /\ Task(q)' \notin raced' =>
                        object'[q] = selected'[Task(q)']
           /\ \A t \in Tasks \ raced' :
                 \/ t = Task(r)
                 \/ told'[t] = StoryOf(selected[t])'
                 \/ \E q \in Requests : pc'[q] = "tell" /\ Task(q)' = t
  <1>0. raced' = raced /\ \A q \in Requests \ {r} : Task(q)' = Task(q)
    BY DEF Frame, Task, Narrows
  <1>1. ASSUME NEW q \in Requests \ {r}, pc'[q] \in {"tell", "delete"}, Task(q) \notin raced
        PROVE  Task(q) \in Tasks \ {Task(r)}
    <2>1. op[q] \in TaskOp /\ pc[q] = pc'[q]
      BY <1>1, Kinds DEF PlaceInv, Frame
    <2> QED
      BY <1>1, <2>1, Alone, TaskOpFacts DEF Task, Narrows
  <1>2. ASSUME NEW q \in Requests \ {r}
        PROVE  /\ pc'[q] = "tell" /\ Task(q)' \notin raced' =>
                        StoryOf(selected[Task(q)])' =
                            IF op'[q].do = "unselect" THEN None ELSE op'[q].story
               /\ pc'[q] = "delete" /\ Task(q)' \notin raced' =>
                        object'[q] = selected'[Task(q)']
    <2>1. pc'[q] = pc[q] /\ op'[q] = op[q] /\ object'[q] = object[q] /\ Task(q)' = Task(q)
      BY <1>0 DEF Frame
    <2>2. pc'[q] \in {"tell", "delete"} /\ Task(q) \notin raced =>
              selected'[Task(q)] = selected[Task(q)]
      BY <1>1
    <2> QED
      BY <1>0, <2>1, <2>2 DEF TaskInv, TellInv, StoryOf
  <1>3. ASSUME NEW t \in Tasks \ raced', t # Task(r), told'[t] # StoryOf(selected[t])'
        PROVE  \E q \in Requests : pc'[q] = "tell" /\ Task(q)' = t
    <2>1. told[t] # StoryOf(selected[t])
      BY <1>3 DEF StoryOf
    <2>2. PICK q \in Requests : pc[q] = "tell" /\ Task(q) = t
      BY <1>0, <2>1 DEF TaskInv, ToldInv
    <2> QED
      BY <1>0, <1>3, <2>2 DEF Frame
  <1> QED
    BY <1>2, <1>3


LEMMA TaskSame ==
    ASSUME NEW r \in Requests, op'[r] = op[r]
    PROVE  Task(r)' = Task(r)
  BY DEF Task

LEMMA TaskNext ==
    ASSUME DeskAssumption, TypeOK, PlaceInv, Exclusive, TaskInv, [Next]_vars
    PROVE  TaskInv'
  <1>1. CASE UNCHANGED vars
    BY <1>1 DEF vars, TaskInv, TellInv, ToldInv, Task, StoryOf
  <1>2. ASSUME NEW r \in Requests, Begin(r)
        PROVE  TaskInv'
    <2>1. /\ Frame(r) /\ pc[r] = "new" /\ pc'[r] = "look" /\ raced \subseteq raced'
          /\ UNCHANGED <<selected, told>>
      BY <1>2, BeginStep DEF Begin
    <2> QED
      BY <2>1, TaskFrame
  <1>3. ASSUME NEW r \in Requests, LookSelected(r) \/ LookAgain(r)
        PROVE  TaskInv'
    <2>1. /\ Frame(r) /\ pc[r] # "tell" /\ pc'[r] \notin {"tell", "delete"} /\ raced' = raced
          /\ UNCHANGED <<selected, told>>
      BY <1>3, LookSelectedStep, LookAgainStep DEF LookSelected, LookAgain, Narrows
    <2> QED
      BY <2>1, TaskFrame
  <1>4. ASSUME NEW r \in Requests,
               \/ LookMeeting(r) \/ CreateMeeting(r)
               \/ LookResponse(r) \/ CreateResponse(r) \/ UpdateResponse(r)
        PROVE  TaskInv'
    <2>1. /\ Frame(r) /\ pc[r] # "tell" /\ pc'[r] \notin {"tell", "delete"} /\ raced' = raced
          /\ UNCHANGED <<selected, told>>
      BY <1>4, LookMeetingStep, CreateMeetingStep, LookResponseStep, CreateResponseStep,
         UpdateResponseStep DEF Narrows
    <2> QED
      BY <2>1, TaskFrame
  <1>5. ASSUME NEW r \in Requests, CreateSelected(r)
        PROVE  TaskInv'
    <2>1. /\ Frame(r) /\ Narrows(r)
          /\ pc[r] = "create" /\ pc'[r] \notin {"look", "create", "delete", "update"}
          /\ op[r] \in TaskOp /\ op'[r] = op[r] /\ Task(r) \in Tasks
          /\ raced' = raced /\ UNCHANGED told /\ IsSelection(op[r])
          /\ op[r].story \in Stories
      BY <1>5, CreateSelectedStep, TaskOpFacts DEF Narrows, CreateSelected
    <2>2. CASE selected[Task(r)] # None
      BY <1>5, <2>1, <2>2, CreateSelectedStep, TaskFrame
    <2>3. CASE selected[Task(r)] = None
      <3>1. /\ selected' = [selected EXCEPT ![Task(r)] = [story |-> op[r].story, by |-> r]]
            /\ pc'[r] = "tell"
        BY <1>5, <2>3, CreateSelectedStep
      <3>2. /\ selected'[Task(r)] = [story |-> op[r].story, by |-> r]
            /\ \A t \in Tasks \ {Task(r)} : selected'[t] = selected[t] /\ told'[t] = told[t]
        BY <2>1, <3>1 DEF TypeOK
      <3>3. StoryOf(selected'[Task(r)]) = op[r].story
        <4>1. selected'[Task(r)] \in Selection
          BY <2>1, <3>2 DEF Selection
        <4>2. selected'[Task(r)] # None
          BY <4>1 DEF DeskAssumption
        <4> QED
          BY <3>2, <4>2 DEF StoryOf
      <3>4. Task(r)' = Task(r) /\ op[r].do # "unselect"
        BY <2>1, TaskSame DEF IsSelection
      <3>5. TellInv'
        BY <2>1, <3>1, <3>2, <3>3, <3>4, TaskOthers DEF TellInv
      <3>6. ToldInv'
        BY <2>1, <3>1, <3>2, <3>4, TaskOthers DEF ToldInv
      <3> QED
        BY <3>5, <3>6 DEF TaskInv
    <2> QED
      BY <2>2, <2>3
  <1>6. ASSUME NEW r \in Requests, TellSelected(r) \/ TellUnselected(r)
        PROVE  TaskInv'
    <2>1. /\ Frame(r) /\ Narrows(r) /\ raced' = raced /\ UNCHANGED selected
          /\ pc[r] = "tell" /\ pc'[r] \notin {"tell", "delete"}
          /\ op[r] \in TaskOp /\ Task(r) \in Tasks
          /\ told' = [told EXCEPT ![Task(r)] =
                         IF op[r].do = "unselect" THEN None ELSE op[r].story]
      BY <1>6, TellSelectedStep, TellUnselectedStep DEF Narrows
    <2>2. /\ told'[Task(r)] = IF op[r].do = "unselect" THEN None ELSE op[r].story
          /\ \A t \in Tasks \ {Task(r)} : selected'[t] = selected[t] /\ told'[t] = told[t]
      BY <2>1 DEF TypeOK
    <2>3. Task(r) \notin raced => told'[Task(r)] = StoryOf(selected'[Task(r)])
      BY <2>1, <2>2 DEF TaskInv, TellInv
    <2>4. TellInv'
      BY <2>1, <2>2, TaskOthers DEF TellInv
    <2>5. ToldInv'
      BY <2>1, <2>2, <2>3, TaskOthers DEF ToldInv, StoryOf
    <2> QED
      BY <2>4, <2>5 DEF TaskInv
  <1>7. ASSUME NEW r \in Requests, LookUnselect(r)
        PROVE  TaskInv'
    <2>1. /\ Frame(r) /\ Narrows(r) /\ raced' = raced /\ UNCHANGED <<selected, told>>
          /\ pc[r] = "look" /\ pc'[r] \in {"delete", "end"}
          /\ op[r] \in TaskOp /\ op'[r] = op[r] /\ Task(r) \in Tasks
          /\ object'[r] = selected[Task(r)]
      BY <1>7, LookUnselectStep DEF Narrows
    <2>2. Task(r)' = Task(r)
      BY <2>1, TaskSame
    <2>3. TellInv'
      BY <2>1, <2>2, TaskOthers DEF TellInv
    <2>4. ToldInv'
      <3> SUFFICES ASSUME NEW t \in Tasks \ raced', told'[t] # StoryOf(selected[t])'
                   PROVE  \E q \in Requests : pc'[q] = "tell" /\ Task(q)' = t
        BY DEF ToldInv
      <3>1. told[t] # StoryOf(selected[t])
        BY <2>1 DEF StoryOf
      <3>2. PICK q \in Requests : pc[q] = "tell" /\ Task(q) = t
        BY <2>1, <3>1 DEF TaskInv, ToldInv
      <3>3. q # r
        BY <2>1, <3>2
      <3>4. pc'[q] = "tell" /\ Task(q)' = t
        BY <2>1, <3>2, <3>3, TaskSame DEF Frame
      <3> QED
        BY <3>4
    <2> QED
      BY <2>3, <2>4 DEF TaskInv
  <1>8. ASSUME NEW r \in Requests, Unselect(r)
        PROVE  TaskInv'
    <2>1. /\ Frame(r) /\ Narrows(r) /\ raced' = raced /\ UNCHANGED told
          /\ pc[r] = "delete" /\ pc'[r] = "tell"
          /\ op[r] \in TaskOp /\ op'[r] = op[r] /\ Task(r) \in Tasks
          /\ op[r].do = "unselect"
          /\ selected' = [selected EXCEPT ![Task(r)] = IF @ = object[r] THEN None ELSE @]
      BY <1>8, UnselectStep DEF Narrows
    <2>2. Task(r)' = Task(r)
      BY <2>1, TaskSame
    <2>3. /\ \A t \in Tasks \ {Task(r)} : selected'[t] = selected[t] /\ told'[t] = told[t]
          /\ Task(r) \notin raced => selected'[Task(r)] = None
      BY <2>1 DEF TypeOK, TaskInv, TellInv
    <2>4. Task(r) \notin raced => StoryOf(selected'[Task(r)]) = None
      BY <2>3 DEF StoryOf
    <2>5. TellInv'
      BY <2>1, <2>2, <2>3, <2>4, TaskOthers DEF TellInv
    <2>6. ToldInv'
      BY <2>1, <2>2, <2>3, TaskOthers DEF ToldInv
    <2> QED
      BY <2>5, <2>6 DEF TaskInv
  <1> QED
    BY <1>1, <1>2, <1>3, <1>4, <1>5, <1>6, <1>7, <1>8 DEF Next

(* Whatever is refused, interrupted by a constraint or left half-way by a   *)
(* bulk request, the last event about a task is the truth of it, unless two *)
(* requests about the task overlapped (the views of selected tasks).        *)
THEOREM SettledTruthHolds == Spec => []SettledTruth
  <1> DEFINE Inv == TypeOK /\ PlaceInv /\ Exclusive /\ TaskInv
  <1>1. Init => Inv
    <2> SUFFICES ASSUME Init PROVE Inv
      OBVIOUS
    <2>1. Exclusive
      BY DEF Init, Exclusive, Active
    <2>2. TaskInv
      BY DEF Init, TaskInv, TellInv, ToldInv, StoryOf
    <2> QED
      BY <2>1, <2>2, TypeInit, DeskAssumption
  <1>2. Inv /\ [Next]_vars => Inv'
    BY TypeNext, ExclusiveNext, TaskNext, DeskAssumption
  <1>3. Inv => SettledTruth
    <2> SUFFICES ASSUME Inv, NEW t \in Tasks \ raced, Idle(t)
                 PROVE  told[t] = StoryOf(selected[t])
      BY DEF SettledTruth, StoryOf
    <2>1. ASSUME NEW r \in Requests, pc[r] = "tell", Task(r) = t
          PROVE  FALSE
      <3>1. op[r] \in TaskOp /\ r \in Active
        BY <2>1 DEF PlaceInv, Active
      <3> QED
        BY <2>1, <3>1, TaskOpFacts DEF Task, Idle
    <2> QED
      BY <2>1 DEF TaskInv, ToldInv
  <1> HIDE DEF Inv
  <1> QED
    BY <1>1, <1>2, <1>3, PTL DEF Spec

-----------------------------------------------------------------------------
(* The answers of a member *)

\* An edit has the row that is there, and the row has what was last saved.
UpdateInv ==
    \A r \in Requests :
        pc[r] = "update" /\ op[r].user \notin raced =>
            object[r] = response[op[r].user] /\ response[op[r].user] # None

AnswerInv == UpdateInv /\ AnswersKept

LEMMA AnswerFrame ==
    ASSUME AnswerInv, NEW r \in Requests, Frame(r), UNCHANGED <<response, latest>>,
           raced \subseteq raced', pc'[r] # "update"
    PROVE  AnswerInv'
  BY DEF AnswerInv, UpdateInv, AnswersKept, Frame

\* Nobody else has the row of a user whose requests do not overlap.
LEMMA UserAlone ==
    ASSUME PlaceInv, Exclusive, NEW q \in Requests, NEW r \in Requests,
           op[r] \in RespondOp, pc[q] = "update", pc[r] \notin {"new", "end"}, q # r,
           op[q].user \notin raced
    PROVE  op[q].user # op[r].user
  <1>1. op[q] \in RespondOp /\ q \in Active /\ r \in Active
    BY DEF PlaceInv, Active
  <1>2. About(op[q]) = {op[q].user} /\ About(op[r]) = {op[r].user}
    BY <1>1, Kinds
  <1> QED
    BY <1>1, <1>2 DEF Exclusive

LEMMA UserOthers ==
    ASSUME TypeOK, PlaceInv, Exclusive, AnswerInv, NEW r \in Requests, Frame(r), Narrows(r),
           op[r] \in RespondOp, pc'[r] # "update",
           \A u \in Users \ {op[r].user} : response'[u] = response[u] /\ latest'[u] = latest[u]
    PROVE  /\ UpdateInv'
           /\ \A u \in Users \ raced' :
                  \/ u = op[r].user
                  \/ response'[u] # None => response'[u].answers = latest'[u]
  <1>1. ASSUME NEW q \in Requests, pc'[q] = "update", op'[q].user \notin raced'
        PROVE  /\ object'[q] = response'[op'[q].user]
               /\ response'[op'[q].user] # None
    <2>1. /\ q # r /\ pc[q] = "update" /\ op'[q] = op[q] /\ object'[q] = object[q]
          /\ op[q].user \notin raced
      BY <1>1 DEF Frame, Narrows
    <2>2. op[q].user \in Users \ {op[r].user}
      BY <2>1, UserAlone DEF PlaceInv, RespondOp, Narrows
    <2> QED
      BY <2>1, <2>2 DEF AnswerInv, UpdateInv
  <1>2. UpdateInv'
    BY <1>1 DEF UpdateInv
  <1> QED
    BY <1>2 DEF AnswerInv, AnswersKept, Narrows

LEMMA AnswerNext ==
    ASSUME DeskAssumption, TypeOK, PlaceInv, Exclusive, AnswerInv, [Next]_vars
    PROVE  AnswerInv'
  <1>1. CASE UNCHANGED vars
    BY <1>1 DEF vars, AnswerInv, UpdateInv, AnswersKept
  <1>2. ASSUME NEW r \in Requests, Begin(r)
        PROVE  AnswerInv'
    <2>1. /\ Frame(r) /\ pc'[r] = "look" /\ raced \subseteq raced'
          /\ UNCHANGED <<response, latest>>
      BY <1>2, BeginStep DEF Begin
    <2> QED
      BY <2>1, AnswerFrame
  <1>3. ASSUME NEW r \in Requests,
               LookSelected(r) \/ CreateSelected(r) \/ LookAgain(r) \/ TellSelected(r)
        PROVE  AnswerInv'
    <2>1. /\ Frame(r) /\ pc'[r] # "update" /\ raced' = raced
          /\ UNCHANGED <<response, latest>>
      BY <1>3, LookSelectedStep, CreateSelectedStep, LookAgainStep, TellSelectedStep
         DEF Narrows, LookSelected, CreateSelected, LookAgain, TellSelected
    <2> QED
      BY <2>1, AnswerFrame
  <1>4. ASSUME NEW r \in Requests,
               \/ LookUnselect(r) \/ Unselect(r) \/ TellUnselected(r)
               \/ LookMeeting(r) \/ CreateMeeting(r)
        PROVE  AnswerInv'
    <2>1. /\ Frame(r) /\ pc'[r] # "update" /\ raced' = raced
          /\ UNCHANGED <<response, latest>>
      BY <1>4, LookUnselectStep, UnselectStep, TellUnselectedStep, LookMeetingStep,
         CreateMeetingStep DEF Narrows, LookUnselect, Unselect, TellUnselected
    <2> QED
      BY <2>1, AnswerFrame
  <1>5. ASSUME NEW r \in Requests, LookResponse(r)
        PROVE  AnswerInv'
    <2>1. /\ Frame(r) /\ raced' = raced /\ op'[r] = op[r]
          /\ UNCHANGED <<response, latest>>
          /\ object'[r] = response[op[r].user]
          /\ pc'[r] = "update" => response[op[r].user] # None
      BY <1>5, LookResponseStep DEF Narrows
    <2> QED
      BY <2>1 DEF AnswerInv, UpdateInv, AnswersKept, Frame
  <1>6. ASSUME NEW r \in Requests, CreateResponse(r)
        PROVE  AnswerInv'
    <2>1. /\ Frame(r) /\ Narrows(r) /\ raced' = raced /\ pc'[r] = "end"
          /\ op[r] \in RespondOp /\ op[r].user \in Users
      BY <1>6, CreateResponseStep DEF Narrows, RespondOp
    <2>2. CASE UNCHANGED <<response, latest>>
      BY <2>1, <2>2, AnswerFrame
    <2>3. CASE \E a \in [Questions -> Requests] :
                   /\ response' = [response EXCEPT ![op[r].user] = [by |-> r, answers |-> a]]
                   /\ latest' = [latest EXCEPT ![op[r].user] = a]
      <3>1. PICK a \in [Questions -> Requests] :
                   /\ response' = [response EXCEPT ![op[r].user] = [by |-> r, answers |-> a]]
                   /\ latest' = [latest EXCEPT ![op[r].user] = a]
        BY <2>3
      <3>2. /\ response'[op[r].user].answers = latest'[op[r].user]
            /\ \A u \in Users \ {op[r].user} :
                   response'[u] = response[u] /\ latest'[u] = latest[u]
        BY <2>1, <3>1 DEF TypeOK
      <3> QED
        BY <2>1, <3>2, UserOthers DEF AnswerInv, AnswersKept
    <2> QED
      BY <1>6, <2>2, <2>3, CreateResponseStep
  <1>7. ASSUME NEW r \in Requests, UpdateResponse(r)
        PROVE  AnswerInv'
    <2>1. /\ Frame(r) /\ Narrows(r) /\ raced' = raced /\ pc[r] = "update" /\ pc'[r] = "end"
          /\ op[r] \in RespondOp /\ op[r].user \in Users /\ object[r] \in Response
          /\ response' = [response EXCEPT ![op[r].user] =
                  [object[r] EXCEPT !.answers = Answered(r, object[r].answers)]]
          /\ latest' = [latest EXCEPT ![op[r].user] = Answered(r, latest[op[r].user])]
      BY <1>7, UpdateResponseStep DEF Narrows, RespondOp, PlaceInv
    <2>2. /\ response'[op[r].user].answers = Answered(r, object[r].answers)
          /\ latest'[op[r].user] = Answered(r, latest[op[r].user])
          /\ \A u \in Users \ {op[r].user} :
                 response'[u] = response[u] /\ latest'[u] = latest[u]
      BY <2>1 DEF TypeOK, Response
    <2>3. op[r].user \notin raced => object[r].answers = latest[op[r].user]
      BY <2>1 DEF AnswerInv, UpdateInv, AnswersKept
    <2>4. op[r].user \notin raced =>
              response'[op[r].user].answers = latest'[op[r].user]
      BY <2>2, <2>3
    <2> QED
      BY <2>1, <2>2, <2>4, UserOthers DEF AnswerInv, AnswersKept
  <1> QED
    BY <1>1, <1>2, <1>3, <1>4, <1>5, <1>6, <1>7 DEF Next

(* A member whose requests do not overlap finds every answer as it was last *)
(* saved, the ones that an edit did not send included                       *)
(* (DailyResponseCreateView.post).                                          *)
THEOREM AnswersKeptHolds == Spec => []AnswersKept
  <1> DEFINE Inv == TypeOK /\ PlaceInv /\ Exclusive /\ AnswerInv
  <1>1. Init => Inv
    <2> SUFFICES ASSUME Init PROVE Inv
      OBVIOUS
    <2>1. Exclusive
      BY DEF Init, Exclusive, Active
    <2>2. AnswerInv
      BY DEF Init, AnswerInv, UpdateInv, AnswersKept
    <2> QED
      BY <2>1, <2>2, TypeInit, DeskAssumption
  <1>2. Inv /\ [Next]_vars => Inv'
    BY TypeNext, ExclusiveNext, AnswerNext, DeskAssumption
  <1>3. Inv => AnswersKept
    BY DEF AnswerInv
  <1> HIDE DEF Inv
  <1> QED
    BY <1>1, <1>2, <1>3, PTL DEF Spec
=============================================================================
