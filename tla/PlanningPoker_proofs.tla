------------------------ MODULE PlanningPoker_proofs ------------------------
(***************************************************************************)
(* What holds of PlanningPoker for any sets of members, requests and cards. *)
(* Three parts: the types, whatever the members page and dying workers do;  *)
(* what holds while people vote and the membership stays as it is           *)
(* (VotingSpec); and that PlanningPoker implements ConsensusBoard: an       *)
(* announced consensus was once unanimous on the board.                     *)
(***************************************************************************)
EXTENDS PlanningPoker, FiniteSetTheorems, TLAPS

-----------------------------------------------------------------------------
(* What one step does to the handlers *)

Codes == {0, 200, 201, 400, 403, 404, 500}

\* The handler of r is at pc p, for the same user and value, and the other
\* handlers are where they were.
Moved(r, p) ==
    /\ req' \in [Requests -> Handler]
    /\ req'[r].pc = p
    /\ req'[r].user = req[r].user
    /\ req'[r].value = req[r].value
    /\ \A q \in Requests \ {r} : req'[q] = req[q]

LEMMA ContinueType ==
    ASSUME TypeOK, NEW r \in Requests, NEW h \in Handler, Continue(r, h)
    PROVE  /\ req' \in [Requests -> Handler]
           /\ req'[r] = h
           /\ \A q \in Requests \ {r} : req'[q] = req[q]
  BY DEF TypeOK, Continue

LEMMA MovePc ==
    ASSUME TypeOK, NEW r \in Requests, NEW p \in Control,
           Continue(r, [req[r] EXCEPT !.pc = p])
    PROVE  /\ Moved(r, p)
           /\ req'[r].row = req[r].row
           /\ req'[r].active = req[r].active
           /\ req'[r].seats = req[r].seats
           /\ req'[r].agreed = req[r].agreed
  <1> DEFINE h == [req[r] EXCEPT !.pc = p]
  <1>1. h \in Handler
    BY DEF TypeOK, Handler
  <1>2. /\ h.pc = p /\ h.user = req[r].user /\ h.value = req[r].value
        /\ h.row = req[r].row /\ h.active = req[r].active
        /\ h.seats = req[r].seats /\ h.agreed = req[r].agreed
    BY DEF TypeOK, Handler
  <1>3. Continue(r, h)
    OBVIOUS
  <1> HIDE DEF h
  <1> QED
    BY <1>1, <1>2, <1>3, ContinueType DEF Moved

LEMMA MoveActive ==
    ASSUME TypeOK, NEW r \in Requests, NEW p \in Control, NEW a \in BOOLEAN,
           Continue(r, [req[r] EXCEPT !.pc = p, !.active = a])
    PROVE  /\ Moved(r, p)
           /\ req'[r].row = req[r].row
           /\ req'[r].active = a
           /\ req'[r].seats = req[r].seats
           /\ req'[r].agreed = req[r].agreed
  <1> DEFINE g == [req[r] EXCEPT !.pc = p]
             h == [req[r] EXCEPT !.pc = p, !.active = a]
  <1>1. g \in Handler
    BY DEF TypeOK, Handler
  <1>2. h = [g EXCEPT !.active = a]
    BY DEF TypeOK, Handler
  <1>3. [g EXCEPT !.active = a] \in Handler
    <2> HIDE DEF g
    <2> QED BY <1>1 DEF Handler
  <1>4. /\ h.pc = p /\ h.user = req[r].user /\ h.value = req[r].value
        /\ h.row = req[r].row /\ h.active = a
        /\ h.seats = req[r].seats /\ h.agreed = req[r].agreed
    BY DEF TypeOK, Handler
  <1>5. Continue(r, h)
    OBVIOUS
  <1>6. h \in Handler
    BY <1>2, <1>3
  <1> HIDE DEF g, h
  <1> QED
    BY <1>4, <1>5, <1>6, ContinueType DEF Moved

LEMMA MoveRow ==
    ASSUME TypeOK, NEW r \in Requests, NEW p \in Control, NEW a \in Row \cup {NoRow},
           Continue(r, [req[r] EXCEPT !.pc = p, !.row = a])
    PROVE  /\ Moved(r, p)
           /\ req'[r].row = a
           /\ req'[r].active = req[r].active
           /\ req'[r].seats = req[r].seats
           /\ req'[r].agreed = req[r].agreed
  <1> DEFINE g == [req[r] EXCEPT !.pc = p]
             h == [req[r] EXCEPT !.pc = p, !.row = a]
  <1>1. g \in Handler
    BY DEF TypeOK, Handler
  <1>2. h = [g EXCEPT !.row = a]
    BY DEF TypeOK, Handler
  <1>3. [g EXCEPT !.row = a] \in Handler
    <2> HIDE DEF g
    <2> QED BY <1>1 DEF Handler
  <1>4. /\ h.pc = p /\ h.user = req[r].user /\ h.value = req[r].value
        /\ h.row = a /\ h.active = req[r].active
        /\ h.seats = req[r].seats /\ h.agreed = req[r].agreed
    BY DEF TypeOK, Handler
  <1>5. Continue(r, h)
    OBVIOUS
  <1>6. h \in Handler
    BY <1>2, <1>3
  <1> HIDE DEF g, h
  <1> QED
    BY <1>4, <1>5, <1>6, ContinueType DEF Moved

LEMMA MoveSeats ==
    ASSUME TypeOK, NEW r \in Requests, NEW p \in Control, NEW a \in Nat,
           Continue(r, [req[r] EXCEPT !.pc = p, !.seats = a])
    PROVE  /\ Moved(r, p)
           /\ req'[r].row = req[r].row
           /\ req'[r].active = req[r].active
           /\ req'[r].seats = a
           /\ req'[r].agreed = req[r].agreed
  <1> DEFINE g == [req[r] EXCEPT !.pc = p]
             h == [req[r] EXCEPT !.pc = p, !.seats = a]
  <1>1. g \in Handler
    BY DEF TypeOK, Handler
  <1>2. h = [g EXCEPT !.seats = a]
    BY DEF TypeOK, Handler
  <1>3. [g EXCEPT !.seats = a] \in Handler
    <2> HIDE DEF g
    <2> QED BY <1>1 DEF Handler
  <1>4. /\ h.pc = p /\ h.user = req[r].user /\ h.value = req[r].value
        /\ h.row = req[r].row /\ h.active = req[r].active
        /\ h.seats = a /\ h.agreed = req[r].agreed
    BY DEF TypeOK, Handler
  <1>5. Continue(r, h)
    OBVIOUS
  <1>6. h \in Handler
    BY <1>2, <1>3
  <1> HIDE DEF g, h
  <1> QED
    BY <1>4, <1>5, <1>6, ContinueType DEF Moved

LEMMA MoveAgreed ==
    ASSUME TypeOK, NEW r \in Requests, NEW p \in Control, NEW a \in Deck,
           Continue(r, [req[r] EXCEPT !.pc = p, !.agreed = a])
    PROVE  /\ Moved(r, p)
           /\ req'[r].row = req[r].row
           /\ req'[r].active = req[r].active
           /\ req'[r].seats = req[r].seats
           /\ req'[r].agreed = a
  <1> DEFINE g == [req[r] EXCEPT !.pc = p]
             h == [req[r] EXCEPT !.pc = p, !.agreed = a]
  <1>1. g \in Handler
    BY DEF TypeOK, Handler
  <1>2. h = [g EXCEPT !.agreed = a]
    BY DEF TypeOK, Handler
  <1>3. [g EXCEPT !.agreed = a] \in Handler
    <2> HIDE DEF g
    <2> QED BY <1>1 DEF Handler
  <1>4. /\ h.pc = p /\ h.user = req[r].user /\ h.value = req[r].value
        /\ h.row = req[r].row /\ h.active = req[r].active
        /\ h.seats = req[r].seats /\ h.agreed = a
    BY DEF TypeOK, Handler
  <1>5. Continue(r, h)
    OBVIOUS
  <1>6. h \in Handler
    BY <1>2, <1>3
  <1> HIDE DEF g, h
  <1> QED
    BY <1>4, <1>5, <1>6, ContinueType DEF Moved

LEMMA MoveOut ==
    ASSUME TypeOK, NEW r \in Requests, NEW code \in Codes, Answer(r, code)
    PROVE  /\ Moved(r, "done")
           /\ req'[r].row = NoRow
           /\ req'[r].seats = 0
           /\ req'[r].agreed = NoValue
  <1> DEFINE h == Outside("done", req[r].user, req[r].value, code)
  <1>1. req[r].user \in Users /\ req[r].value \in Posted
    BY DEF TypeOK, Handler
  <1>2. h \in Handler
    BY <1>1 DEF Outside, Handler, Idle, Control, Codes
  <1>3. /\ h.pc = "done" /\ h.user = req[r].user /\ h.value = req[r].value
        /\ h.row = NoRow /\ h.seats = 0 /\ h.agreed = NoValue
    BY DEF Outside
  <1>4. Continue(r, h)
    BY DEF Answer
  <1> HIDE DEF h
  <1> QED
    BY <1>2, <1>3, <1>4, ContinueType DEF Moved

-----------------------------------------------------------------------------
(* Type correctness *)

\* Only a card gets past the validation.
CardInHand == \A r \in Requests : req[r].pc = "save" => req[r].value \in Deck

\* An edit that goes on has an instance in memory and a key for it.
EditInHand ==
    \A e \in Edits : edit[e].pc \in {"validate", "save"} =>
        edit[e].row # NoRow /\ edit[e].to # NoRow

TInv == TypeOK /\ CardInHand /\ EditInHand

LEMMA UserPlaces == Users \subseteq Places
  BY DEF Places

\* Saving a row keeps the types.
LEMMA PutType ==
    ASSUME TypeOK, NEW p \in Places, NEW x \in Row, Put(p, x)
    PROVE  est' \in [Places -> Row \cup {NoRow}]
  BY DEF TypeOK, Put

LEMMA SeatsNat == Cardinality(Eligible) \in Nat
  <1>1. IsFiniteSet(Users)
    BY UsersAssumption, FS_Union DEF Users
  <1>2. IsFiniteSet(Eligible)
    BY <1>1, FS_Subset DEF Eligible
  <1> QED
    BY <1>2, FS_CardinalityType

\* A step that leaves the database alone and moves a handler keeps the types,
\* provided it leaves the validation with a card.
LEMMA MovedTInv ==
    ASSUME TInv, NEW r \in Requests, NEW p \in Control, Moved(r, p),
           UNCHANGED <<Database, edit, churns>>, p = "save" => req[r].value \in Deck
    PROVE  TInv'
  <1>1. TypeOK'
    BY DEF TInv, TypeOK, Moved, Database
  <1>2. CardInHand' /\ EditInHand'
    BY DEF TInv, CardInHand, EditInHand, Moved
  <1> QED
    BY <1>1, <1>2 DEF TInv

LEMMA InitTInv == Init => TInv
  <1> SUFFICES ASSUME Init PROVE TInv
    OBVIOUS
  <1>1. \A u \in Users, v \in Posted : Outside("queued", u, v, 0) \in Handler
    BY DEF Outside, Handler, Idle, Control
  <1>2. req \in [Requests -> Handler]
    BY <1>1 DEF Init
  <1>3. \A r \in Requests : req[r].pc = "queued"
    BY DEF Init, Outside
  <1>4. 0 \in 0..MaxChurn
    BY MaxChurnAssumption
  <1>5. role \in [Users -> RoleKind]
    BY DEF Init, RoleKind
  <1>6. est \in [Places -> Row \cup {NoRow}]
    <2>1. PICK A \in SUBSET Away, v \in Patched : est = Standing(A, v)
      BY DEF Init
    <2>2. \A p \in A : [id |-> p, value |-> v, final |-> FALSE] \in Row
      BY PatchedAssumption DEF Row
    <2> QED BY <2>1, <2>2 DEF Standing
  <1>7. edit \in [Edits -> Editor] /\ EditInHand
    BY DEF Init, Editor, EditInHand
  <1>8. TypeOK
    BY <1>2, <1>4, <1>5, <1>6, <1>7 DEF Init, TypeOK
  <1> QED
    BY <1>3, <1>7, <1>8 DEF TInv, CardInHand

LEMMA StartTInv ==
    ASSUME TInv, NEW r \in Requests, NEW t \in Targets, Start(r, t), UNCHANGED <<edit, churns>>
    PROVE  TInv'
  <1>1. CASE Answer(r, 404)
    <2>1. Moved(r, "done")
      BY <1>1, MoveOut DEF TInv, Codes
    <2> QED BY <2>1, MovedTInv DEF Start, Control, Idle
  <1>2. CASE Answer(r, 403)
    <2>1. Moved(r, "done")
      BY <1>2, MoveOut DEF TInv, Codes
    <2> QED BY <2>1, MovedTInv DEF Start, Control, Idle
  <1>3. CASE Continue(r, [req[r] EXCEPT !.pc = "find", !.active = active])
    <2>1. active \in BOOLEAN /\ "find" \in Control
      BY DEF TInv, TypeOK, Control
    <2>2. Moved(r, "find")
      BY <1>3, <2>1, MoveActive DEF TInv
    <2> QED BY <2>1, <2>2, MovedTInv DEF Start
  <1> QED
    BY <1>1, <1>2, <1>3 DEF Start

\* What an update writes is a row.
LEMMA WrittenType ==
    ASSUME TypeOK, NEW r \in Requests, req[r].value \in Deck
    PROVE  Written(r) \in Row
  <1>1. \A x \in Row, v \in Deck : [x EXCEPT !.value = v] \in Row
    BY DEF Row
  <1>2. [id |-> r, value |-> req[r].value, final |-> FALSE] \in Row
    BY DEF Row
  <1>3. req[r].row # NoRow => req[r].row \in Row
    BY DEF TypeOK, Handler
  <1>4. est[req[r].user] # NoRow => est[req[r].user] \in Row
    BY UserPlaces DEF TypeOK, Handler
  <1> QED
    BY <1>1, <1>2, <1>3, <1>4 DEF Written

\* The same for a step that writes rows of the right type.
LEMMA EstTInv ==
    ASSUME TInv, NEW r \in Requests, NEW p \in Control, Moved(r, p), p # "save",
           est' \in [Places -> Row \cup {NoRow}],
           UNCHANGED <<role, active, linked, notices, edit, churns>>
    PROVE  TInv'
  BY DEF TInv, TypeOK, CardInHand, EditInHand, Moved

LEMMA WorkTInv ==
    ASSUME TInv, NEW r \in Requests, Work(r), UNCHANGED <<edit, churns>>
    PROVE  TInv'
  <1> USE DEF TInv
  <1>0. /\ Control \subseteq Control
        /\ {"done", "find", "validate", "save", "seats", "tally", "values", "mark",
            "check", "add", "touch", "notify"} \subseteq Control
        /\ {200, 201, 400, 500, 0} \subseteq Codes
        /\ Success(r) \in Codes
    BY DEF Control, Idle, Codes, Success
  <1>1. CASE Find(r)
    <2>1. est[req[r].user] \in Row \cup {NoRow}
      BY UserPlaces DEF TypeOK, Handler
    <2>2. Moved(r, "validate")
      BY <1>0, <1>1, <2>1, MoveRow DEF Find
    <2> QED BY <1>0, <1>1, <2>2, MovedTInv DEF Find
  <1>2. CASE Validate(r)
    <2>1. CASE req[r].value \in Deck /\ ~Taken(r)
      <3>1. Moved(r, "save")
        BY <1>0, <1>2, <2>1, MovePc DEF Validate
      <3> QED BY <1>0, <1>2, <2>1, <3>1, MovedTInv DEF Validate
    <2>2. CASE ~(req[r].value \in Deck /\ ~Taken(r))
      <3>1. Moved(r, "done")
        BY <1>0, <1>2, <2>2, MoveOut DEF Validate
      <3> QED BY <1>0, <1>2, <3>1, MovedTInv DEF Validate
    <2> QED BY <2>1, <2>2
  <1>3. CASE Save(r)
    <2>1. CASE Answer(r, 500) /\ UNCHANGED est
      <3>1. Moved(r, "done")
        BY <1>0, <2>1, MoveOut
      <3> QED BY <1>0, <1>3, <2>1, <3>1, MovedTInv DEF Save, Database
    <2>2. CASE /\ Put(req[r].user, Written(r))
               /\ Continue(r, [req[r] EXCEPT !.pc = "seats"])
      <3>1. Moved(r, "seats")
        BY <1>0, <2>2, MovePc
      <3>2. Written(r) \in Row
        BY <1>3, WrittenType DEF Save, At, CardInHand
      <3>3. est' \in [Places -> Row \cup {NoRow}]
        BY <2>2, <3>2, PutType, UserPlaces DEF TypeOK, Handler
      <3> QED BY <1>0, <1>3, <3>1, <3>3, EstTInv DEF Save
    <2> QED BY <1>3, <2>1, <2>2 DEF Save
  <1>4. CASE CountSeats(r)
    <2>1. Moved(r, "tally")
      BY <1>0, <1>4, SeatsNat, MoveSeats DEF CountSeats
    <2> QED BY <1>0, <1>4, <2>1, MovedTInv DEF CountSeats
  <1>5. CASE Tally(r)
    <2>1. Moved(r, "values") \/ Moved(r, "done")
      BY <1>0, <1>5, MovePc, MoveOut DEF Tally
    <2> QED BY <1>0, <1>5, <2>1, MovedTInv DEF Tally
  <1>6. CASE ReadValues(r)
    <2>1. Moved(r, "mark") \/ Moved(r, "notify")
      BY <1>0, <1>6, MovePc, MoveAgreed DEF ReadValues
    <2> QED BY <1>0, <1>6, <2>1, MovedTInv DEF ReadValues
  <1>7. CASE MarkFinal(r)
    <2>1. Moved(r, "check")
      BY <1>0, <1>7, MovePc DEF MarkFinal
    <2>2. \A x \in Row : [x EXCEPT !.final = TRUE] \in Row
      BY DEF Row
    <2>3. est' \in [Places -> Row \cup {NoRow}]
      BY <1>7, <2>2, UserPlaces DEF MarkFinal, TypeOK, Voters
    <2> QED BY <1>0, <1>7, <2>1, <2>3, EstTInv DEF MarkFinal
  <1>8. CASE CheckLinked(r)
    <2>1. Moved(r, IF linked THEN "notify" ELSE "add")
      BY <1>0, <1>8, MovePc DEF CheckLinked
    <2> QED BY <1>0, <1>8, <2>1, MovedTInv DEF CheckLinked
  <1>9. CASE AddStory(r)
    <2>1. Moved(r, "touch")
      BY <1>0, <1>9, MovePc DEF AddStory
    <2> QED BY <1>9, <2>1 DEF AddStory, TypeOK, CardInHand, EditInHand, Moved
  <1>10. CASE SaveSession(r)
    <2>1. Moved(r, "notify")
      BY <1>0, <1>10, MovePc DEF SaveSession
    <2>2. active' \in BOOLEAN
      BY <1>10 DEF SaveSession, TypeOK, Handler
    <2> QED BY <1>10, <2>1, <2>2 DEF SaveSession, TypeOK, CardInHand, EditInHand, Moved
  <1>11. CASE Notify(r)
    <2>1. Moved(r, "done")
      BY <1>0, <1>11, MoveOut DEF Notify
    <2>2. notices' \subseteq Deck \cup {NoValue}
      BY <1>11 DEF Notify, TypeOK, Handler
    <2> QED BY <1>11, <2>1, <2>2 DEF Notify, TypeOK, CardInHand, EditInHand, Moved
  <1> QED
    BY <1>1, <1>2, <1>3, <1>4, <1>5, <1>6, <1>7, <1>8, <1>9, <1>10, <1>11 DEF Work

LEMMA DisturbTInv ==
    ASSUME TInv, Churn
    PROVE  TInv'
  <1> USE DEF TInv
  <1>1. churns' \in 0..MaxChurn
    BY MaxChurnAssumption DEF Churn, TypeOK
  <1>2. ASSUME NEW r \in Requests, Kill(r) PROVE TInv'
    <2>1. Moved(r, "done")
      BY <1>2, MoveOut DEF Kill, Codes
    <2> QED BY <1>1, <1>2, <2>1
            DEF Kill, Churn, Database, TypeOK, CardInHand, EditInHand, Moved
  <1>3. ASSUME NEW u \in Users, ChangeRole(u) PROVE TInv'
    BY <1>1, <1>3 DEF ChangeRole, Churn, TypeOK, CardInHand, EditInHand
  <1>4. ASSUME NEW p \in Places, Destroy(p) PROVE TInv'
    BY <1>1, <1>4 DEF Destroy, Churn, TypeOK, CardInHand, EditInHand
  <1>5. CASE UpdateSession
    BY <1>1, <1>5 DEF UpdateSession, Churn, TypeOK, CardInHand, EditInHand
  <1> QED
    BY <1>2, <1>3, <1>4, <1>5 DEF Churn, Disturb

\* What an edit does: it loads a row, goes on, or ends, and when it ends it may
\* have saved the instance it had in memory, where no other row was in the way.
LoadsRow(e) ==
    /\ UNCHANGED est
    /\ \E p, to \in Places, x \in Row :
         /\ est[p] # NoRow /\ x.id = est[p].id
         /\ edit' = [edit EXCEPT ![e] = [pc |-> "validate", row |-> x, to |-> to]]
GoesOn(e) ==
    /\ UNCHANGED est
    /\ edit[e].row \in Row /\ edit[e].to \in Places
    /\ edit' = [edit EXCEPT ![e].pc = "save"]
EndsEdit(e) ==
    /\ EndEdit(e)
    /\ \/ UNCHANGED est
       \/ /\ edit[e].row \in Row /\ edit[e].to \in Places
          /\ ~Held(edit[e].to, edit[e].row)
          /\ Put(edit[e].to, edit[e].row)

LEMMA EditEffect ==
    ASSUME TInv, EditNext
    PROVE  /\ UNCHANGED <<role, active, linked, notices, req, churns>>
           /\ \E e \in Edits : LoadsRow(e) \/ GoesOn(e) \/ EndsEdit(e)
  <1>1. PICK e \in Edits : (\E p \in Places : LoadRow(e, p)) \/ ValidateRow(e) \/ SaveRow(e)
    BY DEF EditNext
  <1>2. UNCHANGED <<role, active, linked, notices, req, churns>>
    BY <1>1 DEF EditNext, LoadRow, ValidateRow, SaveRow, Database
  <1>3. edit[e].pc \in {"validate", "save"} =>
          edit[e].row \in Row /\ edit[e].to \in Places
    BY DEF TInv, TypeOK, EditInHand, Editor
  <1>4. ASSUME NEW p \in Places, LoadRow(e, p)
        PROVE  LoadsRow(e)
    <2>1. est[p] \in Row
      BY <1>4 DEF LoadRow, TInv, TypeOK
    <2>2. PICK to \in Places, v \in Patched \cup {est[p].value}, f \in BOOLEAN :
            edit' = [edit EXCEPT ![e] =
                       [pc |-> "validate",
                        row |-> [id |-> est[p].id, value |-> v, final |-> f], to |-> to]]
      BY <1>4 DEF LoadRow
    <2>3. [id |-> est[p].id, value |-> v, final |-> f] \in Row
      BY <2>1, <2>2, PatchedAssumption DEF Row
    <2> QED BY <1>4, <2>2, <2>3 DEF LoadRow, LoadsRow, Database
  <1>5. CASE ValidateRow(e)
    <2>1. CASE Held(edit[e].to, edit[e].row)
      BY <1>2, <1>5, <2>1 DEF ValidateRow, EndsEdit, Database
    <2>2. CASE ~Held(edit[e].to, edit[e].row)
      BY <1>2, <1>3, <1>5, <2>2 DEF ValidateRow, GoesOn, Database
    <2> QED BY <2>1, <2>2
  <1>6. CASE SaveRow(e)
    <2>1. CASE Held(edit[e].to, edit[e].row)
      BY <1>2, <1>6, <2>1 DEF SaveRow, EndsEdit
    <2>2. CASE ~Held(edit[e].to, edit[e].row)
      BY <1>2, <1>3, <1>6, <2>2 DEF SaveRow, EndsEdit
    <2> QED BY <2>1, <2>2
  <1> QED
    BY <1>1, <1>2, <1>4, <1>5, <1>6

LEMMA EditTInv ==
    ASSUME TInv, EditNext
    PROVE  TInv'
  <1>1. PICK e \in Edits : LoadsRow(e) \/ GoesOn(e) \/ EndsEdit(e)
    BY EditEffect
  <1>2. UNCHANGED <<role, active, linked, notices, req, churns>>
    BY EditEffect
  <1>3. est' \in [Places -> Row \cup {NoRow}]
    BY <1>1, PutType DEF LoadsRow, GoesOn, EndsEdit, TInv, TypeOK
  <1>4. edit' \in [Edits -> Editor] /\ EditInHand'
    <2>1. CASE LoadsRow(e)
      BY <2>1, NoRowAssumption DEF LoadsRow, TInv, TypeOK, Editor, EditInHand
    <2>2. CASE GoesOn(e)
      <3>1. [edit[e] EXCEPT !.pc = "save"] \in Editor
        BY DEF TInv, TypeOK, Editor
      <3> QED BY <2>2, <3>1, NoRowAssumption DEF GoesOn, TInv, TypeOK, Editor, EditInHand
    <2>3. CASE EndsEdit(e)
      BY <2>3 DEF EndsEdit, EndEdit, TInv, TypeOK, Editor, EditInHand
    <2> QED BY <1>1, <2>1, <2>2, <2>3
  <1> QED
    BY <1>2, <1>3, <1>4 DEF TInv, TypeOK, CardInHand

LEMMA VotingTInv ==
    ASSUME TInv, VotingNext
    PROVE  TInv'
  BY StartTInv, WorkTInv DEF VotingNext

LEMMA StutterTInv ==
    ASSUME TInv, UNCHANGED vars
    PROVE  TInv'
  BY DEF TInv, TypeOK, CardInHand, EditInHand, vars

\* Every variable keeps its type, and only a card is ever about to be saved,
\* whatever the requests, the members page, the other endpoints and the death
\* of workers do.
THEOREM TypeCorrect == Spec => []TypeOK
  <1>1. TInv /\ [Next]_vars => TInv'
    BY VotingTInv, EditTInv, DisturbTInv, StutterTInv DEF Next
  <1>2. TInv => TypeOK
    BY DEF TInv
  <1> QED
    BY InitTInv, <1>1, <1>2, PTL DEF Spec

-----------------------------------------------------------------------------
(* The effect of each action *)

\* The handler keeps its local variables.
Keeps(r) ==
    /\ req'[r].row = req[r].row
    /\ req'[r].seats = req[r].seats
    /\ req'[r].agreed = req[r].agreed

\* The handler has answered.
Answered(r) ==
    /\ Moved(r, "done")
    /\ req'[r].row = NoRow
    /\ req'[r].agreed = NoValue

LEMMA StartEffect ==
    ASSUME TInv, NEW r \in Requests, NEW t \in Targets, Start(r, t)
    PROVE  /\ UNCHANGED Database
           /\ req[r].pc = "queued"
           /\ \/ Answered(r)
              \/ Moved(r, "find") /\ Keeps(r) /\ role[req[r].user] = "estimator"
  <1>1. CASE Answer(r, 404) \/ Answer(r, 403)
    BY <1>1, MoveOut DEF Start, At, TInv, Codes, Answered
  <1>2. CASE /\ role[req[r].user] = "estimator"
             /\ Continue(r, [req[r] EXCEPT !.pc = "find", !.active = active])
    <2>1. active \in BOOLEAN /\ "find" \in Control
      BY DEF TInv, TypeOK, Control
    <2> QED BY <1>2, <2>1, MoveActive DEF Start, At, TInv, Keeps
  <1> QED
    BY <1>1, <1>2 DEF Start

LEMMA FindEffect ==
    ASSUME TInv, NEW r \in Requests, Find(r)
    PROVE  /\ UNCHANGED Database
           /\ req[r].pc = "find"
           /\ Moved(r, "validate")
           /\ req'[r].row = est[req[r].user]
           /\ req'[r].agreed = req[r].agreed
  <1>1. est[req[r].user] \in Row \cup {NoRow} /\ "validate" \in Control
    BY UserPlaces DEF TInv, TypeOK, Handler, Control
  <1> QED
    BY <1>1, MoveRow DEF Find, At, TInv

LEMMA ValidateEffect ==
    ASSUME TInv, NEW r \in Requests, Validate(r)
    PROVE  /\ UNCHANGED Database
           /\ req[r].pc = "validate"
           /\ Answered(r) \/ (Moved(r, "save") /\ Keeps(r))
  BY MovePc, MoveOut DEF Validate, At, TInv, Codes, Control, Keeps, Answered

LEMMA SaveEffect ==
    ASSUME TInv, NEW r \in Requests, Save(r)
    PROVE  /\ UNCHANGED <<role, active, linked, notices>>
           /\ req[r].pc = "save"
           /\ Written(r) \in Row
           /\ \/ Answered(r) /\ UNCHANGED est
              \/ /\ Moved(r, "seats") /\ Keeps(r)
                 /\ Put(req[r].user, Written(r))
  <1>1. req[r].pc = "save" /\ UNCHANGED <<role, active, linked, notices>>
    BY DEF Save, At
  <1>2. Written(r) \in Row
    BY <1>1, WrittenType DEF TInv, CardInHand
  <1>3. CASE Answer(r, 500) /\ UNCHANGED est
    BY <1>1, <1>2, <1>3, MoveOut DEF TInv, Codes, Answered
  <1>4. CASE /\ Put(req[r].user, Written(r))
             /\ Continue(r, [req[r] EXCEPT !.pc = "seats"])
    BY <1>1, <1>2, <1>4, MovePc DEF TInv, Control, Keeps
  <1> QED
    BY <1>3, <1>4 DEF Save

LEMMA CountSeatsEffect ==
    ASSUME TInv, NEW r \in Requests, CountSeats(r)
    PROVE  /\ UNCHANGED Database
           /\ req[r].pc = "seats"
           /\ Moved(r, "tally")
           /\ req'[r].row = req[r].row
           /\ req'[r].agreed = req[r].agreed
           /\ req'[r].seats = Cardinality(Eligible)
  BY SeatsNat, MoveSeats DEF CountSeats, At, TInv, Control

LEMMA TallyEffect ==
    ASSUME TInv, NEW r \in Requests, Tally(r)
    PROVE  /\ UNCHANGED Database
           /\ req[r].pc = "tally"
           /\ \/ /\ Cardinality(Voters) = req[r].seats /\ req[r].seats > 0
                 /\ Moved(r, "values") /\ Keeps(r)
              \/ /\ ~(Cardinality(Voters) = req[r].seats /\ req[r].seats > 0)
                 /\ Answered(r)
  BY MovePc, MoveOut DEF Tally, At, TInv, Control, Codes, Success, Keeps, Answered

LEMMA ReadValuesEffect ==
    ASSUME TInv, NEW r \in Requests, ReadValues(r)
    PROVE  /\ UNCHANGED Database
           /\ req[r].pc = "values"
           /\ req'[r].row = req[r].row
           /\ \/ \E v \in Deck :
                   ValuesShown = {v} /\ Moved(r, "mark") /\ req'[r].agreed = v
              \/ /\ \A v \in Deck : ValuesShown # {v}
                 /\ Moved(r, "notify") /\ Keeps(r)
  BY MovePc, MoveAgreed DEF ReadValues, At, TInv, Control, Keeps

LEMMA MarkFinalEffect ==
    ASSUME TInv, NEW r \in Requests, MarkFinal(r)
    PROVE  /\ UNCHANGED <<role, active, linked, notices>>
           /\ req[r].pc = "mark"
           /\ Moved(r, "check") /\ Keeps(r)
           /\ est' = [p \in Places |->
                IF p \in Voters THEN [est[p] EXCEPT !.final = TRUE] ELSE est[p]]
  BY MovePc DEF MarkFinal, At, TInv, Control, Keeps

LEMMA LinkEffect ==
    ASSUME TInv, NEW r \in Requests, CheckLinked(r) \/ AddStory(r) \/ SaveSession(r)
    PROVE  /\ UNCHANGED <<role, est, notices>>
           /\ Keeps(r)
           /\ \/ /\ req[r].pc = "check" /\ UNCHANGED linked
                 /\ Moved(r, IF linked THEN "notify" ELSE "add")
              \/ req[r].pc = "add" /\ linked' = TRUE /\ Moved(r, "touch")
              \/ req[r].pc = "touch" /\ UNCHANGED linked /\ Moved(r, "notify")
  BY MovePc DEF CheckLinked, AddStory, SaveSession, At, TInv, Control, Keeps, Database

LEMMA NotifyEffect ==
    ASSUME TInv, NEW r \in Requests, Notify(r)
    PROVE  /\ UNCHANGED <<role, est, active, linked>>
           /\ req[r].pc = "notify"
           /\ Answered(r)
           /\ notices' = notices \cup {req[r].agreed}
  BY MoveOut DEF Notify, At, TInv, Codes, Success, Answered

-----------------------------------------------------------------------------
(* Everyone voted *)

Full == Estimators \subseteq Voters

\* Past the tally the handlers only act on a full table.
PastTally == {"values", "mark", "check", "add", "touch", "notify"}

\* The inductive strengthening of EveryoneVoted.  The membership does not
\* change, so the rows belong to estimators, who are as many as the seats that
\* a handler counted; a final mark, even one that a handler holds in a row it
\* has read and may write back later, only exists once the table is full.
RolesFixed == \A u \in Users : role[u] = "estimator" <=> u \in Estimators
Admitted == \A r \in Requests : req[r].pc \notin Idle => req[r].user \in Estimators
SeatsCounted ==
    \A r \in Requests : req[r].pc = "tally" => req[r].seats = Cardinality(Estimators)
PastTallyFull == \A r \in Requests : req[r].pc \in PastTally => Full
FinalFull == \A u \in Users : est[u] # NoRow /\ est[u].final => Full
ReadFinalFull ==
    \A r \in Requests : req[r].row # NoRow /\ req[r].row.final => Full
NoticeFull == notices # {} => Full

\* Rows stay where they were created, as no edit moves them.
Owner(row, u) == row.id \in Requests /\ req[row.id].user = u
RowsOwned ==
    /\ \A u \in Users : est[u] # NoRow => Owner(est[u], u)
    /\ \A a \in Away : est[a] # NoRow => est[a].id = a
    /\ \A r \in Requests : req[r].row # NoRow => Owner(req[r].row, req[r].user)

VInv ==
    /\ TInv
    /\ RolesFixed /\ Admitted /\ Voters \subseteq Estimators
    /\ SeatsCounted /\ PastTallyFull
    /\ FinalFull /\ ReadFinalFull /\ NoticeFull /\ RowsOwned

LEMMA EligibleFixed == RolesFixed => Eligible = Estimators
  BY DEF RolesFixed, Eligible, Users

LEMMA FullTable ==
    ASSUME Voters \subseteq Estimators, Cardinality(Voters) = Cardinality(Estimators)
    PROVE  Full
  <1>1. Voters = Estimators
    BY UsersAssumption, FS_Subset
  <1> QED
    BY <1>1 DEF Full

LEMMA InitVInv == Init => VInv
  <1> SUFFICES ASSUME Init PROVE VInv
    OBVIOUS
  <1>1. TInv
    BY InitTInv
  <1>2. RolesFixed
    BY UsersAssumption DEF Init, RolesFixed, Users
  <1>3. \A r \in Requests : req[r].pc = "queued" /\ req[r].row = NoRow
    BY DEF Init, Outside
  <1>4. /\ \A u \in Users : est[u] = NoRow
        /\ \A a \in Away : est[a] # NoRow => est[a].id = a
    BY AwayAssumption DEF Init, Standing, Places
  <1>5. Voters = {}
    BY <1>4 DEF Voters
  <1>6. notices = {}
    BY DEF Init
  <1> QED
    BY <1>1, <1>2, <1>3, <1>4, <1>5, <1>6
    DEF VInv, Admitted, Idle, SeatsCounted, PastTallyFull, PastTally, FinalFull,
        ReadFinalFull, NoticeFull, RowsOwned

\* A step of r that leaves the rows and the notices alone.
LEMMA QuietStepVInv ==
    ASSUME VInv, TInv', NEW r \in Requests, NEW p \in Control, Moved(r, p),
           UNCHANGED <<role, est, notices>>,
           p \notin Idle => req[r].user \in Estimators,
           p = "tally" => req'[r].seats = Cardinality(Estimators),
           p \in PastTally => Full,
           \/ req'[r].row = req[r].row
           \/ req'[r].row = NoRow
           \/ req'[r].row = est[req[r].user]
    PROVE  VInv'
  <1>1. Voters' = Voters /\ (Full <=> Full')
    BY DEF Voters, Full
  <1>2. req[r].user \in Users
    BY DEF VInv, TInv, TypeOK, Handler
  <1>3. RolesFixed' /\ FinalFull' /\ NoticeFull' /\ (Voters \subseteq Estimators)'
    BY <1>1 DEF VInv, RolesFixed, FinalFull, NoticeFull
  <1>4. Admitted' /\ SeatsCounted' /\ PastTallyFull'
    BY <1>1 DEF VInv, Moved, Admitted, SeatsCounted, PastTallyFull
  <1>5. ReadFinalFull'
    BY <1>1, <1>2 DEF VInv, Moved, ReadFinalFull, FinalFull
  <1>6. RowsOwned'
    <2>1. \A q \in Requests : req'[q].user = req[q].user
      BY DEF Moved
    <2>2. \A x, u : Owner(x, u)' <=> Owner(x, u)
      BY <2>1 DEF Owner
    <2> QED BY <1>2, <2>1, <2>2 DEF VInv, RowsOwned, Moved, Owner
  <1> QED
    BY <1>3, <1>4, <1>5, <1>6 DEF VInv

\* What a handler writes belongs to its user, and it is nowhere else.
LEMMA SavedInPlace ==
    ASSUME VInv, NEW r \in Requests, req[r].value \in Deck,
           Put(req[r].user, Written(r))
    PROVE  /\ est' = [est EXCEPT ![req[r].user] = Written(r)]
           /\ Owner(Written(r), req[r].user)
  <1> DEFINE u == req[r].user
             x == Written(r)
  <1>1. u \in Users /\ u \in Places /\ est \in [Places -> Row \cup {NoRow}]
    BY UserPlaces DEF VInv, TInv, TypeOK, Handler
  <1>2. Owner(x, u)
    <2>1. CASE req[r].row # NoRow
      <3>1. req[r].row \in Row
        BY <2>1 DEF VInv, TInv, TypeOK, Handler
      <3>2. x.id = req[r].row.id
        BY <2>1, <3>1 DEF Written, Row
      <3> QED BY <2>1, <3>2 DEF VInv, RowsOwned, Owner
    <2>2. CASE req[r].row = NoRow /\ est[u] # NoRow
      <3>1. est[u] \in Row
        BY <1>1, <2>2
      <3>2. x.id = est[u].id
        BY <2>2, <3>1 DEF Written, Row
      <3> QED BY <1>1, <2>2, <3>2 DEF VInv, RowsOwned, Owner
    <2>3. CASE req[r].row = NoRow /\ est[u] = NoRow
      BY <2>3 DEF Written, Owner
    <2> QED BY <2>1, <2>2, <2>3
  <1>3. ASSUME NEW q \in Places, q # u, est[q] # NoRow
        PROVE  est[q].id # x.id
    <2>1. CASE q \in Users
      BY <1>2, <1>3, <2>1 DEF VInv, RowsOwned, Owner
    <2>2. CASE q \in Away
      BY <1>2, <1>3, <2>2, AwayAssumption DEF VInv, RowsOwned, Owner
    <2> QED BY <2>1, <2>2 DEF Places
  <1> HIDE DEF u, x
  <1>4. Put(u, x)
    BY DEF u, x
  <1>5. est' = [est EXCEPT ![u] = x]
    BY <1>1, <1>3, <1>4 DEF Put
  <1> QED
    BY <1>2, <1>5 DEF u, x

LEMMA WrittenFinal ==
    ASSUME VInv, NEW r \in Requests, req[r].value \in Deck, Written(r).final
    PROVE  Full
  <1>1. req[r].user \in Users
    BY DEF VInv, TInv, TypeOK, Handler
  <1>2. CASE req[r].row # NoRow
    <2>1. req[r].row \in Row
      BY <1>2 DEF VInv, TInv, TypeOK, Handler
    <2>2. req[r].row.final
      BY <1>2, <2>1 DEF Written, Row
    <2> QED BY <1>2, <2>2 DEF VInv, ReadFinalFull
  <1>3. CASE req[r].row = NoRow /\ est[req[r].user] # NoRow
    <2>1. est[req[r].user] \in Row
      BY <1>1, <1>3, UserPlaces DEF VInv, TInv, TypeOK
    <2>2. est[req[r].user].final
      BY <1>3, <2>1 DEF Written, Row
    <2> QED BY <1>1, <1>3, <2>2 DEF VInv, FinalFull
  <1>4. CASE req[r].row = NoRow /\ est[req[r].user] = NoRow
    BY <1>4 DEF Written
  <1> QED
    BY <1>2, <1>3, <1>4

\* A vote is saved: the table can only get fuller.
LEMMA SaveVInv ==
    ASSUME VInv, TInv', NEW r \in Requests, Save(r), Moved(r, "seats"), Keeps(r),
           Put(req[r].user, Written(r))
    PROVE  VInv'
  <1>1. /\ req[r].pc = "save" /\ Written(r) \in Row
        /\ UNCHANGED <<role, active, linked, notices>>
    BY SaveEffect DEF VInv
  <1>2. req[r].user \in Users /\ req[r].user \in Estimators /\ req[r].value \in Deck
    BY <1>1 DEF VInv, TInv, TypeOK, Handler, Admitted, Idle, CardInHand
  <1>3. /\ est \in [Places -> Row \cup {NoRow}] /\ Written(r) # NoRow
        /\ Users \subseteq Places
        /\ est' = [est EXCEPT ![req[r].user] = Written(r)]
        /\ Owner(Written(r), req[r].user)
    BY <1>1, <1>2, NoRowAssumption, UserPlaces, SavedInPlace DEF VInv, TInv, TypeOK
  <1>4. Voters' = Voters \cup {req[r].user}
    BY <1>2, <1>3 DEF Voters
  <1>5. Full => Full'
    BY <1>4 DEF Full
  <1>6. Written(r).final => Full
    BY <1>2, WrittenFinal
  <1>7. RolesFixed' /\ NoticeFull' /\ (Voters \subseteq Estimators)'
    BY <1>1, <1>2, <1>4, <1>5 DEF VInv, RolesFixed, NoticeFull
  <1>8. Admitted' /\ SeatsCounted'
    BY <1>1, <1>2 DEF VInv, Moved, Admitted, SeatsCounted
  <1>9. PastTallyFull'
    BY <1>1, <1>5 DEF VInv, Moved, PastTallyFull, PastTally
  <1>10. FinalFull'
    BY <1>2, <1>3, <1>5, <1>6 DEF VInv, FinalFull
  <1>11. ReadFinalFull'
    BY <1>5 DEF VInv, Moved, Keeps, ReadFinalFull
  <1>12. RowsOwned'
    <2>1. \A q \in Requests : /\ req'[q].user = req[q].user
                              /\ req'[q].row = req[q].row
      BY DEF Moved, Keeps
    <2>2. \A x, u : Owner(x, u)' <=> Owner(x, u)
      BY <2>1 DEF Owner
    <2>3. \A a \in Away : est'[a] = est[a]
      BY <1>2, <1>3, AwayAssumption DEF Places
    <2> QED BY <1>2, <1>3, <2>1, <2>2, <2>3 DEF VInv, RowsOwned, Owner
  <1> QED
    BY <1>7, <1>8, <1>9, <1>10, <1>11, <1>12 DEF VInv

LEMMA MarkFinalVInv ==
    ASSUME VInv, TInv', NEW r \in Requests, MarkFinal(r)
    PROVE  VInv'
  <1>1. /\ UNCHANGED <<role, active, linked, notices>>
        /\ req[r].pc = "mark"
        /\ Moved(r, "check") /\ Keeps(r)
        /\ est' = [p \in Places |->
             IF p \in Voters THEN [est[p] EXCEPT !.final = TRUE] ELSE est[p]]
    BY MarkFinalEffect DEF VInv
  <1>2. \A x \in Row : [x EXCEPT !.final = TRUE] \in Row
    BY DEF Row
  <1>3. \A u \in Users : est'[u] # NoRow <=> est[u] # NoRow
    BY <1>1, <1>2, NoRowAssumption, UserPlaces DEF VInv, TInv, TypeOK, Voters
  <1>4. Voters' = Voters
    BY <1>3 DEF Voters
  <1>5. Full /\ Full'
    BY <1>1, <1>4 DEF VInv, PastTallyFull, PastTally, Full
  <1>6. RowsOwned'
    <2>1. \A q \in Requests : /\ req'[q].user = req[q].user
                              /\ req'[q].row = req[q].row
      BY <1>1 DEF Moved, Keeps
    <2>2. \A x, u : Owner(x, u)' <=> Owner(x, u)
      BY <2>1 DEF Owner
    <2>3. \A x \in Row : [x EXCEPT !.final = TRUE].id = x.id
      BY DEF Row
    <2>4. \A p \in Places : /\ est'[p] # NoRow <=> est[p] # NoRow
                            /\ est[p] # NoRow => est'[p].id = est[p].id
      BY <1>1, <1>2, <2>3, NoRowAssumption, UserPlaces DEF VInv, TInv, TypeOK, Voters
    <2> QED BY <2>1, <2>2, <2>4 DEF VInv, RowsOwned, Owner, Places
  <1> QED
    BY <1>1, <1>4, <1>5, <1>6
    DEF VInv, Moved, Keeps, RolesFixed, Admitted, Idle, SeatsCounted, PastTallyFull,
        FinalFull, ReadFinalFull, NoticeFull

LEMMA NotifyVInv ==
    ASSUME VInv, TInv', NEW r \in Requests, Notify(r)
    PROVE  VInv'
  <1>1. /\ UNCHANGED <<role, est, active, linked>>
        /\ req[r].pc = "notify" /\ Answered(r)
    BY NotifyEffect DEF VInv
  <1>2. Full /\ Full' /\ Voters' = Voters
    BY <1>1 DEF VInv, PastTallyFull, PastTally, Full, Voters
  <1>3. RowsOwned'
    <2>1. \A q \in Requests : req'[q].user = req[q].user
      BY <1>1 DEF Answered, Moved
    <2> QED BY <1>1, <2>1 DEF VInv, RowsOwned, Owner, Answered, Moved
  <1> QED
    BY <1>1, <1>2, <1>3
    DEF VInv, Answered, Moved, RolesFixed, Admitted, Idle, SeatsCounted, PastTallyFull,
        FinalFull, ReadFinalFull, NoticeFull

LEMMA AnsweredVInv ==
    ASSUME VInv, TInv', NEW r \in Requests, Answered(r), UNCHANGED Database
    PROVE  VInv'
  BY QuietStepVInv DEF Answered, Database, Control, Idle, PastTally

LEMMA StartVInv ==
    ASSUME VInv, TInv', NEW r \in Requests, NEW t \in Targets, Start(r, t)
    PROVE  VInv'
  <1>1. CASE Answered(r) /\ UNCHANGED Database
    BY <1>1, AnsweredVInv
  <1>2. CASE /\ UNCHANGED Database
             /\ Moved(r, "find") /\ Keeps(r) /\ role[req[r].user] = "estimator"
    <2>1. req[r].user \in Estimators
      BY <1>2 DEF VInv, RolesFixed, TInv, TypeOK, Handler
    <2>2. "find" \in Control \ PastTally /\ "find" # "tally"
      BY DEF Control, PastTally
    <2> QED BY <1>2, <2>1, <2>2, QuietStepVInv DEF Keeps, Database
  <1> QED
    BY <1>1, <1>2, StartEffect DEF VInv

LEMMA WorkVInv ==
    ASSUME VInv, TInv', NEW r \in Requests, Work(r)
    PROVE  VInv'
  <1>0. /\ TInv
        /\ req[r].pc \notin Idle => req[r].user \in Estimators
        /\ req[r].pc \in PastTally => Full
        /\ Control \cap PastTally = PastTally
        /\ {"validate", "save", "seats", "tally"} \subseteq Control \ (PastTally \cup Idle)
        /\ PastTally \cap Idle = {}
    BY DEF VInv, Admitted, PastTallyFull, Control, PastTally, Idle
  <1>1. CASE Find(r)
    <2>1. /\ UNCHANGED Database /\ req[r].pc = "find" /\ Moved(r, "validate")
          /\ req'[r].row = est[req[r].user]
      BY <1>0, <1>1, FindEffect
    <2> QED BY <1>0, <2>1, QuietStepVInv DEF Idle, Database
  <1>2. CASE Validate(r)
    <2>1. /\ UNCHANGED Database /\ req[r].pc = "validate"
          /\ Answered(r) \/ (Moved(r, "save") /\ Keeps(r))
      BY <1>0, <1>2, ValidateEffect
    <2>2. CASE Answered(r)
      BY <2>1, <2>2, AnsweredVInv
    <2>3. CASE Moved(r, "save") /\ Keeps(r)
      BY <1>0, <2>1, <2>3, QuietStepVInv DEF Idle, Database, Keeps
    <2> QED BY <2>1, <2>2, <2>3
  <1>3. CASE Save(r)
    <2>1. \/ Answered(r) /\ UNCHANGED Database
          \/ /\ Moved(r, "seats") /\ Keeps(r)
             /\ Put(req[r].user, Written(r))
      BY <1>0, <1>3, SaveEffect DEF Database
    <2> QED BY <1>3, <2>1, AnsweredVInv, SaveVInv
  <1>4. CASE CountSeats(r)
    <2>1. /\ UNCHANGED Database /\ req[r].pc = "seats" /\ Moved(r, "tally")
          /\ req'[r].row = req[r].row
          /\ req'[r].seats = Cardinality(Eligible)
      BY <1>0, <1>4, CountSeatsEffect
    <2>2. Eligible = Estimators
      BY EligibleFixed DEF VInv
    <2> QED BY <1>0, <2>1, <2>2, QuietStepVInv DEF Idle, Database
  <1>5. CASE Tally(r)
    <2>1. UNCHANGED Database /\ req[r].pc = "tally"
      BY <1>0, <1>5, TallyEffect
    <2>2. CASE Answered(r)
      BY <2>1, <2>2, AnsweredVInv
    <2>3. CASE Cardinality(Voters) = req[r].seats /\ Moved(r, "values") /\ Keeps(r)
      <3>1. Full
        BY <2>1, <2>3, FullTable DEF VInv, SeatsCounted
      <3>2. "values" \in Control /\ "values" # "tally"
        BY DEF Control
      <3> QED BY <1>0, <2>1, <2>3, <3>1, <3>2, QuietStepVInv DEF Idle, Database, Keeps
    <2> QED BY <1>0, <1>5, <2>2, <2>3, TallyEffect
  <1>6. CASE ReadValues(r)
    <2>1. /\ UNCHANGED Database /\ req[r].pc = "values" /\ req'[r].row = req[r].row
          /\ Moved(r, "mark") \/ Moved(r, "notify")
      BY <1>0, <1>6, ReadValuesEffect
    <2>2. {"mark", "notify"} \subseteq Control /\ "values" \in PastTally
      BY DEF Control, PastTally
    <2> QED BY <1>0, <2>1, <2>2, QuietStepVInv DEF Idle, Database
  <1>7. CASE MarkFinal(r)
    BY <1>7, MarkFinalVInv
  <1>8. CASE CheckLinked(r) \/ AddStory(r) \/ SaveSession(r)
    <2>1. /\ UNCHANGED <<role, est, notices>> /\ Keeps(r)
          /\ req[r].pc \in {"check", "add", "touch"}
          /\ \E p \in {"notify", "add", "touch"} : Moved(r, p)
      BY <1>0, <1>8, LinkEffect
    <2>2. /\ {"notify", "add", "touch"} \subseteq Control \ Idle
          /\ {"check", "add", "touch"} \subseteq PastTally \ Idle
      BY DEF Control, PastTally, Idle
    <2> QED BY <1>0, <2>1, <2>2, QuietStepVInv DEF Keeps
  <1>9. CASE Notify(r)
    BY <1>9, NotifyVInv
  <1> QED
    BY <1>1, <1>2, <1>3, <1>4, <1>5, <1>6, <1>7, <1>8, <1>9 DEF Work

LEMMA VotingVInv ==
    ASSUME VInv, [VotingNext]_vars
    PROVE  VInv'
  <1>1. CASE VotingNext
    <2>1. TInv'
      BY <1>1, VotingTInv DEF VInv
    <2> QED BY <1>1, <2>1, StartVInv, WorkVInv DEF VotingNext
  <1>2. CASE UNCHANGED vars
    BY <1>2 DEF VInv, TInv, TypeOK, CardInHand, EditInHand, RolesFixed, Admitted,
       Voters, SeatsCounted, PastTallyFull, Full, FinalFull, ReadFinalFull, NoticeFull,
       RowsOwned, Owner, vars
  <1> QED
    BY <1>1, <1>2

LEMMA VotingInvariant == VotingSpec => []VInv
  BY InitVInv, VotingVInv, PTL DEF VotingSpec

\* While the membership stays as it is, a consensus is marked, linked or
\* notified only when every member who may estimate has a vote.
THEOREM EveryoneVotedHolds == VotingSpec => []EveryoneVoted
  <1>1. VInv => EveryoneVoted
    <2> SUFFICES ASSUME VInv PROVE EveryoneVoted
      OBVIOUS
    <2>1. Eligible = Estimators
      BY EligibleFixed DEF VInv
    <2> QED
      BY <2>1 DEF VInv, EveryoneVoted, PastTallyFull, PastTally, FinalFull, NoticeFull,
         Full, Voters
  <1> QED
    BY VotingInvariant, <1>1, PTL

-----------------------------------------------------------------------------
(* As many votes as seats *)

LEMMA AsManyVotesAsSeats ==
    ASSUME VInv
    PROVE  /\ Cardinality(Voters) \in Nat /\ Cardinality(Eligible) \in Nat
           /\ Cardinality(Voters) <= Cardinality(Eligible)
           /\ Cardinality(Voters) >= Cardinality(Eligible) => Full
  <1>1. Eligible = Estimators /\ Voters \subseteq Estimators
    BY EligibleFixed DEF VInv
  <1>2. /\ IsFiniteSet(Voters)
        /\ Cardinality(Voters) <= Cardinality(Estimators)
        /\ Cardinality(Voters) = Cardinality(Estimators) => Voters = Estimators
    BY <1>1, UsersAssumption, FS_Subset
  <1>3. Cardinality(Voters) \in Nat /\ Cardinality(Estimators) \in Nat
    BY <1>2, UsersAssumption, FS_CardinalityType
  <1> QED
    BY <1>1, <1>2, <1>3 DEF Full

-----------------------------------------------------------------------------
(* No consensus is missed *)

\* A handler that has yet to see the votes as they are, or has seen them and
\* has done its part so far.
Captures(r) ==
    \/ req[r].pc \in {"seats", "tally", "values"}
    \/ req[r].pc = "mark" /\ ValuesShown = {req[r].agreed}
    \/ /\ req[r].pc \in {"check", "add"}
       /\ ValuesShown = {req[r].agreed} /\ AllFinal
    \/ /\ req[r].pc \in {"touch", "notify"}
       /\ ValuesShown = {req[r].agreed} /\ AllFinal /\ linked

Unanimous == Full /\ \E v \in Deck : ValuesShown = {v}

Settled == AllFinal /\ linked /\ ValuesShown \subseteq notices

\* The inductive strengthening of ConsensusNotMissed: a unanimous table is
\* settled, or a handler is on its way to settle it.  The request that saves
\* last is such a handler, because it saves before it counts.
NInv == VInv /\ (Unanimous => Settled \/ \E r \in Requests : Captures(r))

\* Where the others stand does not depend on the step of r.
LEMMA OthersCapture ==
    ASSUME NEW r \in Requests, NEW q \in Requests \ {r}, Captures(q),
           \A x \in Requests \ {r} : req'[x] = req[x],
           ValuesShown' = ValuesShown, AllFinal => AllFinal', linked => linked'
    PROVE  Captures(q)'
  BY DEF Captures

\* A step of r that shows the same votes, keeps final marks, the association
\* and the notices, and, when r was to settle them, settles them or goes on.
LEMMA SameVotesNInv ==
    ASSUME NInv, VInv', NEW r \in Requests,
           \A x \in Requests \ {r} : req'[x] = req[x],
           Voters' = Voters, ValuesShown' = ValuesShown, AllFinal => AllFinal',
           linked => linked', notices \subseteq notices',
           Unanimous /\ Captures(r) => Settled' \/ Captures(r)'
    PROVE  NInv'
  <1> SUFFICES ASSUME Unanimous' PROVE Settled' \/ \E q \in Requests : Captures(q)'
    BY DEF NInv
  <1>1. Unanimous
    BY DEF Unanimous, Full
  <1>2. CASE Settled
    BY <1>2 DEF Settled
  <1>3. ASSUME NEW q \in Requests, Captures(q)
        PROVE  Settled' \/ \E x \in Requests : Captures(x)'
    <2>1. CASE q = r
      BY <1>1, <1>3, <2>1
    <2>2. CASE q # r
      BY <1>3, <2>2, OthersCapture
    <2> QED BY <2>1, <2>2
  <1> QED
    BY <1>1, <1>2, <1>3 DEF NInv

LEMMA SameRows ==
    ASSUME UNCHANGED est
    PROVE  Voters' = Voters /\ ValuesShown' = ValuesShown /\ AllFinal' = AllFinal
  BY DEF Voters, ValuesShown, AllFinal

LEMMA QuietStepNInv ==
    ASSUME NInv, VInv', NEW r \in Requests, UNCHANGED Database,
           \A x \in Requests \ {r} : req'[x] = req[x],
           Unanimous /\ Captures(r) => Captures(r)'
    PROVE  NInv'
  BY SameRows, SameVotesNInv DEF Database

LEMMA TallyNInv ==
    ASSUME NInv, VInv', NEW r \in Requests, Tally(r)
    PROVE  NInv'
  <1>1. /\ UNCHANGED Database /\ req[r].pc = "tally"
        /\ \A x \in Requests \ {r} : req'[x] = req[x]
    BY TallyEffect DEF NInv, VInv, Answered, Moved
  <1>2. ASSUME Unanimous PROVE Moved(r, "values")
    <2>1. Voters = Estimators
      BY <1>2 DEF Unanimous, Full, NInv, VInv
    <2>2. req[r].seats = Cardinality(Voters)
      BY <1>1, <2>1 DEF NInv, VInv, SeatsCounted
    <2>3. Voters # {}
      BY <1>2 DEF Unanimous, ValuesShown
    <2>4. IsFiniteSet(Voters)
      BY <2>1, UsersAssumption
    <2>5. Cardinality(Voters) \in Nat /\ Cardinality(Voters) # 0
      BY <2>3, <2>4, FS_CardinalityType, FS_EmptySet
    <2> QED BY <2>2, <2>5, TallyEffect DEF NInv, VInv
  <1>3. Moved(r, "values") => Captures(r)'
    BY DEF Moved, Captures
  <1> QED
    BY <1>1, <1>2, <1>3, QuietStepNInv

LEMMA ReadValuesNInv ==
    ASSUME NInv, VInv', NEW r \in Requests, ReadValues(r)
    PROVE  NInv'
  <1>1. /\ UNCHANGED Database
        /\ \A x \in Requests \ {r} : req'[x] = req[x]
    BY ReadValuesEffect DEF NInv, VInv, Moved
  <1>2. ValuesShown' = ValuesShown
    BY <1>1, SameRows DEF Database
  <1>3. ASSUME Unanimous PROVE Captures(r)'
    <2>1. PICK v \in Deck : ValuesShown = {v} /\ Moved(r, "mark") /\ req'[r].agreed = v
      BY <1>3, ReadValuesEffect DEF Unanimous, NInv, VInv
    <2> QED BY <1>2, <2>1 DEF Captures, Moved
  <1> QED
    BY <1>1, <1>3, QuietStepNInv

LEMMA MarkFinalNInv ==
    ASSUME NInv, VInv', NEW r \in Requests, MarkFinal(r)
    PROVE  NInv'
  <1>1. /\ UNCHANGED <<role, active, linked, notices>>
        /\ req[r].pc = "mark"
        /\ Moved(r, "check") /\ Keeps(r)
        /\ est' = [p \in Places |->
             IF p \in Voters THEN [est[p] EXCEPT !.final = TRUE] ELSE est[p]]
    BY MarkFinalEffect DEF NInv, VInv
  <1>2. \A x \in Row : /\ [x EXCEPT !.final = TRUE] \in Row
                       /\ [x EXCEPT !.final = TRUE].value = x.value
                       /\ [x EXCEPT !.final = TRUE].final = TRUE
    BY DEF Row
  <1>3. \A u \in Users : /\ est'[u] # NoRow <=> est[u] # NoRow
                         /\ est[u] # NoRow => est'[u].value = est[u].value
                         /\ est[u] # NoRow => est'[u].final
    BY <1>1, <1>2, NoRowAssumption, UserPlaces DEF NInv, VInv, TInv, TypeOK, Voters
  <1>4. Voters' = Voters
    BY <1>3 DEF Voters
  <1>5. ValuesShown' = ValuesShown
    BY <1>3, <1>4 DEF ValuesShown, Voters
  <1>6. AllFinal'
    BY <1>3, <1>4 DEF AllFinal, Voters
  <1>7. Captures(r) => Captures(r)'
    BY <1>1, <1>5, <1>6 DEF Captures, Moved, Keeps
  <1> QED
    BY <1>1, <1>4, <1>5, <1>6, <1>7, SameVotesNInv DEF Moved

LEMMA LinkNInv ==
    ASSUME NInv, VInv', NEW r \in Requests,
           CheckLinked(r) \/ AddStory(r) \/ SaveSession(r)
    PROVE  NInv'
  <1>1. /\ UNCHANGED <<role, est, notices>>
        /\ Keeps(r)
        /\ \/ /\ req[r].pc = "check" /\ UNCHANGED linked
              /\ Moved(r, IF linked THEN "notify" ELSE "add")
           \/ req[r].pc = "add" /\ linked' = TRUE /\ Moved(r, "touch")
           \/ req[r].pc = "touch" /\ UNCHANGED linked /\ Moved(r, "notify")
    BY LinkEffect DEF NInv, VInv
  <1>2. Voters' = Voters /\ ValuesShown' = ValuesShown /\ AllFinal' = AllFinal
    BY <1>1, SameRows
  <1>3. /\ linked => linked'
        /\ \A x \in Requests \ {r} : req'[x] = req[x]
    BY <1>1 DEF Moved
  <1>4. Captures(r) => Captures(r)'
    BY <1>1, <1>2 DEF Captures, Moved, Keeps
  <1> QED
    BY <1>1, <1>2, <1>3, <1>4, SameVotesNInv

LEMMA NotifyNInv ==
    ASSUME NInv, VInv', NEW r \in Requests, Notify(r)
    PROVE  NInv'
  <1>1. /\ UNCHANGED <<role, est, active, linked>>
        /\ req[r].pc = "notify" /\ Answered(r)
        /\ notices' = notices \cup {req[r].agreed}
    BY NotifyEffect DEF NInv, VInv
  <1>2. Voters' = Voters /\ ValuesShown' = ValuesShown /\ AllFinal' = AllFinal
    BY <1>1, SameRows
  <1>3. Captures(r) => Settled'
    BY <1>1, <1>2 DEF Captures, Settled
  <1> QED
    BY <1>1, <1>2, <1>3, SameVotesNInv DEF Answered, Moved

LEMMA EarlyNInv ==
    ASSUME NInv, VInv', NEW r \in Requests,
           \/ \E t \in Targets : Start(r, t)
           \/ Find(r) \/ Validate(r) \/ CountSeats(r)
    PROVE  NInv'
  <1>1. /\ UNCHANGED Database
        /\ \A x \in Requests \ {r} : req'[x] = req[x]
        /\ req[r].pc \in {"queued", "find", "validate", "seats"}
        /\ req[r].pc = "seats" => req'[r].pc = "tally"
    BY StartEffect, FindEffect, ValidateEffect, CountSeatsEffect
    DEF NInv, VInv, Answered, Moved
  <1>2. Captures(r) => Captures(r)'
    BY <1>1 DEF Captures
  <1> QED
    BY <1>1, <1>2, QuietStepNInv

LEMMA SaveNInv ==
    ASSUME NInv, VInv', NEW r \in Requests, Save(r)
    PROVE  NInv'
  <1>1. /\ UNCHANGED <<role, active, linked, notices>>
        /\ req[r].pc = "save"
        /\ (Answered(r) /\ UNCHANGED est) \/ Moved(r, "seats")
    BY SaveEffect DEF NInv, VInv
  <1>2. CASE Moved(r, "seats")
    <2>1. Captures(r)'
      BY <1>2 DEF Captures, Moved
    <2> QED BY <2>1 DEF NInv
  <1>3. CASE Answered(r) /\ UNCHANGED est
    <2>1. ~Captures(r)
      BY <1>1 DEF Captures
    <2> QED BY <1>1, <1>3, <2>1, QuietStepNInv DEF Answered, Moved, Database
  <1> QED
    BY <1>1, <1>2, <1>3

LEMMA VotingNInv ==
    ASSUME NInv, [VotingNext]_vars
    PROVE  NInv'
  <1>1. VInv'
    BY VotingVInv DEF NInv
  <1>2. CASE VotingNext
    BY <1>1, <1>2, EarlyNInv, SaveNInv, TallyNInv, ReadValuesNInv, MarkFinalNInv,
       LinkNInv, NotifyNInv DEF VotingNext, Work
  <1>3. CASE UNCHANGED vars
    <2>1. Voters' = Voters /\ ValuesShown' = ValuesShown /\ AllFinal' = AllFinal
      BY <1>3, SameRows DEF vars
    <2>2. \A r \in Requests : Captures(r)' <=> Captures(r)
      BY <1>3, <2>1 DEF vars, Captures
    <2>3. (Unanimous <=> Unanimous') /\ (Settled <=> Settled')
      BY <1>3, <2>1 DEF vars, Unanimous, Settled, Full
    <2> QED BY <1>1, <2>2, <2>3 DEF NInv
  <1> QED
    BY <1>2, <1>3

LEMMA InitNInv == Init => NInv
  <1> SUFFICES ASSUME Init PROVE NInv
    OBVIOUS
  <1>1. ValuesShown = {}
    BY InitVInv, AwayAssumption DEF Init, Standing, ValuesShown, Voters, Places
  <1> QED
    BY <1>1, InitVInv DEF NInv, Unanimous

\* While the membership stays as it is, once no request is in flight, a story
\* on which the status view shows a consensus is settled: marked final by
\* everyone, in the session, and notified.
THEOREM ConsensusNotMissedHolds == VotingSpec => []ConsensusNotMissed
  <1>1. NInv => ConsensusNotMissed
    <2> SUFFICES ASSUME NInv, Quiet, StatusConsensus PROVE Settled
      BY DEF ConsensusNotMissed, Settled
    <2>1. Unanimous
      BY AsManyVotesAsSeats DEF NInv, StatusConsensus, Unanimous
    <2>2. \A r \in Requests : ~Captures(r)
      BY DEF Quiet, Idle, Captures
    <2> QED BY <2>1, <2>2 DEF NInv
  <1> QED
    BY InitNInv, VotingNInv, <1>1, PTL DEF VotingSpec

\* While the membership stays as it is, what the summary shows as a consensus
\* the status view and the export show too, and what the status view shows they
\* show once no request is in flight: the story is in the session by then.
THEOREM ViewsAgreeHolds == VotingSpec => []ViewsAgree
  <1>1. NInv => ViewsAgree
    <2> SUFFICES ASSUME NInv PROVE ViewsAgree
      OBVIOUS
    <2>1. SummaryConsensus => StatusConsensus /\ ExportConsensus
      BY AsManyVotesAsSeats DEF NInv, StatusConsensus, SummaryConsensus, ExportConsensus
    <2>2. ASSUME Quiet, StatusConsensus PROVE SummaryConsensus /\ ExportConsensus
      <3>1. linked
        <4>1. Unanimous
          BY <2>2, AsManyVotesAsSeats DEF NInv, StatusConsensus, Unanimous
        <4>2. \A r \in Requests : ~Captures(r)
          BY <2>2 DEF Quiet, Idle, Captures
        <4> QED BY <4>1, <4>2 DEF NInv, Settled
      <3>2. Cardinality(Voters) = Cardinality(Eligible)
        BY <2>2, AsManyVotesAsSeats DEF NInv, StatusConsensus
      <3> QED BY <2>2, <3>1, <3>2 DEF StatusConsensus, SummaryConsensus, ExportConsensus
    <2> QED BY <2>1, <2>2 DEF ViewsAgree
  <1> QED
    BY InitNInv, VotingNInv, <1>1, PTL DEF VotingSpec

-----------------------------------------------------------------------------
(* Rows and their ids *)

OnBoard == {est[p].id : p \in {q \in Places : est[q] # NoRow}}
InHand == {req[r].row.id : r \in {q \in Requests : req[q].row # NoRow}}
InEdit == {edit[e].row.id : e \in {d \in Edits : edit[d].row # NoRow}}

\* A handler that has not saved yet has created no row.
Early(r) == req[r].pc \in {"queued", "find", "validate", "save"}

\* However rows are moved, deleted and inserted again, an id is that of one row:
\* a save takes a row to its new place, and what a POST creates is new.
IdsDiffer ==
    \A p, q \in Places : est[p] # NoRow /\ est[q] # NoRow /\ est[p].id = est[q].id => p = q
FreshIds ==
    \A r \in Requests : Early(r) => r \notin OnBoard \cup InHand \cup InEdit
IdInv == IdsDiffer /\ FreshIds

LEMMA SameIds ==
    ASSUME IdInv, IdsDiffer', OnBoard' \subseteq OnBoard,
           InHand' \subseteq InHand \cup OnBoard, InEdit' \subseteq InEdit \cup OnBoard,
           \A r \in Requests : Early(r)' => Early(r)
    PROVE  IdInv'
  BY DEF IdInv, FreshIds

\* A handler that leaves the rows alone keeps a row in its hands, drops it, or
\* takes one from the board.
LEMMA MovedIds ==
    ASSUME TInv, IdInv, NEW r \in Requests, NEW p \in Control, Moved(r, p),
           UNCHANGED <<est, edit>>,
           p \in {"queued", "find", "validate", "save"} => Early(r),
           \/ req'[r].row = req[r].row
           \/ req'[r].row = NoRow
           \/ req'[r].row = est[req[r].user]
    PROVE  IdInv'
  <1>1. IdsDiffer' /\ OnBoard' = OnBoard /\ InEdit' = InEdit
    BY DEF IdInv, IdsDiffer, OnBoard, InEdit
  <1>2. \A q \in Requests : Early(q)' => Early(q)
    BY DEF Moved, Early
  <1>3. req[r].user \in Places
    BY UserPlaces DEF TInv, TypeOK, Handler
  <1>4. \A q \in Requests : \/ req'[q].row = req[q].row
                            \/ req'[q].row = NoRow
                            \/ req'[q].row = est[req[r].user]
    BY DEF Moved
  <1>5. InHand' \subseteq InHand \cup OnBoard
    BY <1>3, <1>4 DEF InHand, OnBoard
  <1> QED
    BY <1>1, <1>2, <1>5, SameIds

LEMMA PutIds ==
    ASSUME TypeOK, IdsDiffer, NEW p \in Places, NEW x \in Row, Put(p, x)
    PROVE  IdsDiffer' /\ OnBoard' \subseteq OnBoard \cup {x.id}
  <1>1. \A q \in Places : est'[q] # NoRow =>
          \/ q = p /\ est'[q].id = x.id
          \/ q # p /\ est'[q] = est[q] /\ est[q].id # x.id
    BY DEF Put
  <1>2. IdsDiffer'
    BY <1>1 DEF IdsDiffer
  <1>3. OnBoard' \subseteq OnBoard \cup {x.id}
    BY <1>1 DEF OnBoard
  <1> QED
    BY <1>2, <1>3

LEMMA SaveIds ==
    ASSUME TInv, IdInv, NEW r \in Requests, Save(r), UNCHANGED edit
    PROVE  IdInv'
  <1>1. /\ req[r].pc = "save" /\ Written(r) \in Row
        /\ \/ Answered(r) /\ UNCHANGED est
           \/ Moved(r, "seats") /\ Keeps(r) /\ Put(req[r].user, Written(r))
    BY SaveEffect
  <1>2. CASE Answered(r) /\ UNCHANGED est
    BY <1>2, MovedIds DEF Answered, Control, Idle
  <1>3. CASE Moved(r, "seats") /\ Keeps(r) /\ Put(req[r].user, Written(r))
    <2>1. req[r].user \in Places
      BY UserPlaces DEF TInv, TypeOK, Handler
    <2>2. IdsDiffer' /\ OnBoard' \subseteq OnBoard \cup {Written(r).id}
      BY <1>1, <1>3, <2>1, PutIds DEF TInv, IdInv
    <2>3. InHand' = InHand /\ InEdit' = InEdit
      <3>1. \A q \in Requests : req'[q].row = req[q].row
        BY <1>3 DEF Moved, Keeps
      <3> QED BY <3>1 DEF InHand, InEdit
    <2>4. \A q \in Requests : Early(q)' => Early(q) /\ q # r
      BY <1>3 DEF Moved, Early
    <2>5. Written(r).id \in OnBoard \cup InHand \cup {r}
      <3>1. \A y \in Row : \A v : [y EXCEPT !.value = v].id = y.id
        BY DEF Row
      <3>2. req[r].row # NoRow => req[r].row \in Row /\ req[r].row.id \in InHand
        BY DEF TInv, TypeOK, Handler, InHand
      <3>3. est[req[r].user] # NoRow =>
              est[req[r].user] \in Row /\ est[req[r].user].id \in OnBoard
        BY <2>1 DEF TInv, TypeOK, OnBoard
      <3> QED BY <3>1, <3>2, <3>3 DEF Written
    <2> QED BY <2>2, <2>3, <2>4, <2>5 DEF IdInv, FreshIds
  <1> QED
    BY <1>1, <1>2, <1>3

LEMMA MarkFinalIds ==
    ASSUME TInv, IdInv, NEW r \in Requests, MarkFinal(r), UNCHANGED edit
    PROVE  IdInv'
  <1>1. /\ req[r].pc = "mark" /\ Moved(r, "check") /\ Keeps(r)
        /\ est' = [p \in Places |->
             IF p \in Voters THEN [est[p] EXCEPT !.final = TRUE] ELSE est[p]]
    BY MarkFinalEffect
  <1>2. \A x \in Row : /\ [x EXCEPT !.final = TRUE] \in Row
                       /\ [x EXCEPT !.final = TRUE].id = x.id
    BY DEF Row
  <1>3. \A p \in Places : /\ est'[p] # NoRow <=> est[p] # NoRow
                          /\ est[p] # NoRow => est'[p].id = est[p].id
    BY <1>1, <1>2, NoRowAssumption, UserPlaces DEF TInv, TypeOK, Voters
  <1>4. IdsDiffer' /\ OnBoard' = OnBoard
    BY <1>3 DEF IdInv, IdsDiffer, OnBoard
  <1>5. InHand' = InHand /\ InEdit' = InEdit
    <2>1. \A q \in Requests : req'[q].row = req[q].row
      BY <1>1 DEF Moved, Keeps
    <2> QED BY <2>1 DEF InHand, InEdit
  <1>6. \A q \in Requests : Early(q)' => Early(q)
    BY <1>1 DEF Moved, Early
  <1> QED
    BY <1>4, <1>5, <1>6, SameIds

LEMMA VotingIds ==
    ASSUME TInv, IdInv, VotingNext
    PROVE  IdInv'
  <1>1. PICK r \in Requests : (\E t \in Targets : Start(r, t)) \/ Work(r)
    BY DEF VotingNext
  <1>2. UNCHANGED edit
    BY DEF VotingNext
  <1>3. CASE Save(r) \/ MarkFinal(r)
    BY <1>2, <1>3, SaveIds, MarkFinalIds
  <1>4. CASE \/ \E t \in Targets : Start(r, t)
             \/ Find(r) \/ Validate(r) \/ CountSeats(r) \/ Tally(r)
    <2>1. /\ UNCHANGED est
          /\ \/ Answered(r)
             \/ /\ \/ Moved(r, "find") /\ req[r].pc = "queued"
                   \/ Moved(r, "validate") /\ req[r].pc = "find"
                   \/ Moved(r, "save") /\ req[r].pc = "validate"
                   \/ Moved(r, "tally") \/ Moved(r, "values")
                /\ \/ req'[r].row = req[r].row
                   \/ req'[r].row = est[req[r].user]
      BY <1>4, StartEffect, FindEffect, ValidateEffect, CountSeatsEffect, TallyEffect
      DEF Database, Keeps
    <2> QED BY <1>2, <2>1, MovedIds DEF Answered, Early, Control, Idle
  <1>5. CASE ReadValues(r) \/ CheckLinked(r) \/ AddStory(r) \/ SaveSession(r) \/ Notify(r)
    <2>1. /\ UNCHANGED est
          /\ \E p \in {"mark", "notify", "add", "touch", "done"} : Moved(r, p)
          /\ req'[r].row = req[r].row \/ req'[r].row = NoRow
      BY <1>5, ReadValuesEffect, LinkEffect, NotifyEffect DEF Database, Keeps, Answered
    <2> QED BY <1>2, <2>1, MovedIds DEF Control, Idle
  <1> QED
    BY <1>1, <1>3, <1>4, <1>5 DEF Work

LEMMA EditIds ==
    ASSUME TInv, IdInv, EditNext
    PROVE  IdInv'
  <1>1. PICK e \in Edits : LoadsRow(e) \/ GoesOn(e) \/ EndsEdit(e)
    BY EditEffect
  <1>2. /\ InHand' = InHand
        /\ \A r \in Requests : Early(r)' => Early(r)
    BY EditEffect DEF InHand, Early
  <1>3. edit \in [Edits -> Editor]
    BY DEF TInv, TypeOK
  <1>4. CASE LoadsRow(e) \/ GoesOn(e)
    <2>1. IdsDiffer' /\ OnBoard' = OnBoard
      BY <1>4 DEF LoadsRow, GoesOn, IdInv, IdsDiffer, OnBoard
    <2>2. \A d \in Edits : edit'[d].row # NoRow =>
            \/ edit'[d].row = edit[d].row
            \/ edit'[d].row.id \in OnBoard
      BY <1>3, <1>4 DEF LoadsRow, GoesOn, OnBoard, Editor
    <2>3. InEdit' \subseteq InEdit \cup OnBoard
      BY <2>2 DEF InEdit
    <2> QED BY <1>2, <2>1, <2>3, SameIds
  <1>5. CASE EndsEdit(e)
    <2>1. InEdit' \subseteq InEdit
      <3>1. \A d \in Edits : edit'[d].row # NoRow => edit'[d].row = edit[d].row
        BY <1>3, <1>5 DEF EndsEdit, EndEdit
      <3> QED BY <3>1 DEF InEdit
    <2>2. CASE UNCHANGED est
      BY <1>2, <2>1, <2>2, SameIds DEF IdInv, IdsDiffer, OnBoard
    <2>3. CASE /\ edit[e].row \in Row /\ edit[e].to \in Places
               /\ Put(edit[e].to, edit[e].row)
      <3>1. IdsDiffer' /\ OnBoard' \subseteq OnBoard \cup {edit[e].row.id}
        BY <2>3, PutIds DEF TInv, IdInv
      <3>2. edit[e].row.id \in InEdit
        BY <2>3, NoRowAssumption DEF InEdit
      <3> QED BY <1>2, <2>1, <3>1, <3>2 DEF IdInv, FreshIds
    <2> QED BY <1>5, <2>2, <2>3 DEF EndsEdit
  <1> QED
    BY <1>1, <1>4, <1>5

LEMMA ChurnIds ==
    ASSUME TInv, IdInv, Churn
    PROVE  IdInv'
  <1>1. UNCHANGED edit
    BY DEF Churn
  <1>2. ASSUME NEW r \in Requests, Kill(r) PROVE IdInv'
    <2>1. Answered(r) /\ UNCHANGED Database
      BY <1>2, MoveOut DEF Kill, TInv, Codes, Answered
    <2> QED BY <1>1, <2>1, MovedIds DEF Answered, Database, Control, Idle
  <1>3. ASSUME NEW p \in Places, Destroy(p) PROVE IdInv'
    <2>1. \A q \in Places : est'[q] # NoRow => est'[q] = est[q]
      BY <1>3 DEF Destroy, TInv, TypeOK
    <2>2. IdsDiffer' /\ OnBoard' \subseteq OnBoard
      BY <2>1 DEF IdInv, IdsDiffer, OnBoard
    <2> QED BY <1>1, <1>3, <2>2, SameIds DEF Destroy, InHand, InEdit, Early
  <1>4. ASSUME UNCHANGED <<est, req>> PROVE IdInv'
    BY <1>1, <1>4 DEF IdInv, IdsDiffer, FreshIds, OnBoard, InHand, InEdit, Early
  <1> QED
    BY <1>2, <1>3, <1>4 DEF Churn, Disturb, ChangeRole, UpdateSession

LEMMA InitIds == Init => IdInv
  <1> SUFFICES ASSUME Init PROVE IdInv
    OBVIOUS
  <1>1. \A p \in Places : est[p] # NoRow => p \in Away /\ est[p].id = p
    BY DEF Init, Standing
  <1>2. InHand = {} /\ InEdit = {}
    BY DEF Init, Outside, InHand, InEdit
  <1> QED
    BY <1>1, <1>2, AwayAssumption DEF IdInv, IdsDiffer, FreshIds, OnBoard

-----------------------------------------------------------------------------
(* The refinement mapping, by name *)

VoteOf(row) == IF row = NoRow THEN NoRow ELSE row.value
BoardVotes == [u \in Users |-> VoteOf(est[u])]
BoardSeen == {req[r].agreed : r \in Requests} \ {NoValue}
BoardAnnounced == notices \ {NoValue}

LEMMA BoardMapping ==
    /\ Board!vars = <<BoardVotes, BoardSeen, BoardAnnounced>>
    /\ Board!Init <=> /\ BoardVotes = [u \in Users |-> NoRow]
                      /\ BoardSeen = {}
                      /\ BoardAnnounced = {}
  BY DEF Board!vars, Board!Init, BoardVotes, VoteOf, BoardSeen, BoardAnnounced

\* A handler has agreed on a value only from the moment it has read it.
AgreedLate ==
    \A r \in Requests : req[r].agreed # NoValue =>
        req[r].pc \in {"mark", "check", "add", "touch", "notify"}

BInv == TInv /\ AgreedLate /\ IdInv

LEMMA CardsAreValues ==
    ASSUME TypeOK
    PROVE  {BoardVotes[u] : u \in Users} \ {NoRow} = ValuesShown
  <1>1. \A u \in Users : est[u] # NoRow => est[u].value \in Deck
    BY UserPlaces DEF TypeOK, Row
  <1>2. \A u \in Users : BoardVotes[u] = VoteOf(est[u])
    BY DEF BoardVotes
  <1> QED
    BY <1>1, <1>2, NoRowAssumption DEF VoteOf, ValuesShown, Voters

-----------------------------------------------------------------------------
(* The four kinds of steps *)

LEMMA BoardStutter ==
    ASSUME BoardVotes' = BoardVotes, BoardSeen' = BoardSeen,
           BoardAnnounced' = BoardAnnounced
    PROVE  [Board!Next]_(Board!vars)
  BY BoardMapping DEF Board!vars, BoardVotes, VoteOf, BoardSeen, BoardAnnounced

LEMMA BoardCast ==
    ASSUME NEW u \in Users, NEW c \in Deck \cup {NoRow},
           BoardVotes' = [BoardVotes EXCEPT ![u] = c],
           BoardSeen' = BoardSeen, BoardAnnounced' = BoardAnnounced
    PROVE  [Board!Next]_(Board!vars)
  <1>1. Board!Cast(u)
    BY DEF Board!Cast, BoardVotes, VoteOf, BoardSeen, BoardAnnounced
  <1> QED
    BY <1>1 DEF Board!Next

LEMMA BoardMove ==
    ASSUME NEW u \in Users, NEW w \in Users, NEW c \in Deck, BoardVotes[u] # NoRow,
           BoardVotes' = [BoardVotes EXCEPT ![u] = NoRow, ![w] = c],
           BoardSeen' = BoardSeen, BoardAnnounced' = BoardAnnounced
    PROVE  [Board!Next]_(Board!vars)
  <1>1. Board!Move(u, w)
    BY DEF Board!Move, BoardVotes, VoteOf, BoardSeen, BoardAnnounced
  <1> QED
    BY <1>1 DEF Board!Next

\* A saved row is a vote cast, or moved here from another user, or taken away.
LEMMA PutBoard ==
    ASSUME TypeOK, IdsDiffer, NEW p \in Places, NEW x \in Row, Put(p, x),
           BoardSeen' = BoardSeen, BoardAnnounced' = BoardAnnounced
    PROVE  [Board!Next]_(Board!vars)
  <1>1. /\ \A y \in Row : y # NoRow /\ VoteOf(y) \in Deck /\ VoteOf(y) # NoRow
        /\ VoteOf(NoRow) = NoRow
    BY NoRowAssumption DEF VoteOf, Row
  <1>2. /\ BoardVotes' = [u \in Users |-> VoteOf(est'[u])]
        /\ \A u \in Users : BoardVotes[u] = VoteOf(est[u])
        /\ BoardVotes = [u \in Users |-> BoardVotes[u]]
    BY DEF BoardVotes, VoteOf
  <1>3. \A q \in Places : est'[q] =
          IF q = p THEN x
          ELSE IF est[q] # NoRow /\ est[q].id = x.id THEN NoRow ELSE est[q]
    BY DEF Put
  <1>4. ASSUME NEW w \in Users, w # p, est[w] # NoRow, est[w].id = x.id
        PROVE  [Board!Next]_(Board!vars)
    <2>1. est[w] \in Row /\ BoardVotes[w] # NoRow
      BY <1>1, <1>2, <1>4, UserPlaces DEF TypeOK
    <2>2. \A q \in Places : q # w /\ est[q] # NoRow => est[q].id # x.id
      BY <1>4, UserPlaces DEF IdsDiffer
    <2>3. CASE p \in Users
      <3>1. BoardVotes' = [BoardVotes EXCEPT ![w] = NoRow, ![p] = VoteOf(x)]
        BY <1>1, <1>2, <1>3, <1>4, <2>2, <2>3, UserPlaces
      <3> QED BY <1>1, <2>1, <2>3, <3>1, BoardMove
    <2>4. CASE p \notin Users
      <3>1. BoardVotes' = [BoardVotes EXCEPT ![w] = NoRow]
        BY <1>1, <1>2, <1>3, <1>4, <2>2, <2>4, UserPlaces
      <3> QED BY <3>1, BoardCast
    <2> QED BY <2>3, <2>4
  <1>5. CASE \A w \in Users : w # p => ~(est[w] # NoRow /\ est[w].id = x.id)
    <2>1. \A w \in Users : w # p => est'[w] = est[w]
      BY <1>3, <1>5, UserPlaces
    <2>2. CASE p \in Users
      <3>1. BoardVotes' = [BoardVotes EXCEPT ![p] = VoteOf(x)]
        BY <1>2, <1>3, <2>1, <2>2
      <3> QED BY <1>1, <2>2, <3>1, BoardCast
    <2>3. CASE p \notin Users
      BY <1>2, <2>1, <2>3, BoardStutter
    <2> QED BY <2>2, <2>3
  <1> QED
    BY <1>4, <1>5

LEMMA BoardSee ==
    ASSUME TypeOK, NEW v \in Deck, ValuesShown = {v},
           BoardSeen' = BoardSeen \cup {v},
           BoardVotes' = BoardVotes, BoardAnnounced' = BoardAnnounced
    PROVE  [Board!Next]_(Board!vars)
  <1>1. Board!CardsShown = {v}
    BY CardsAreValues DEF Board!CardsShown, BoardVotes, VoteOf
  <1>2. Board!See(v)
    BY <1>1 DEF Board!See, BoardVotes, VoteOf, BoardSeen, BoardAnnounced
  <1> QED
    BY <1>2 DEF Board!Next

LEMMA BoardAnnounce ==
    ASSUME NEW v \in Deck, v \in BoardSeen,
           BoardSeen' \in {BoardSeen, BoardSeen \ {v}},
           BoardAnnounced' = BoardAnnounced \cup {v}, BoardVotes' = BoardVotes
    PROVE  [Board!Next]_(Board!vars)
  <1>1. Board!Announce(v)
    BY DEF Board!Announce, BoardVotes, VoteOf, BoardSeen, BoardAnnounced
  <1> QED
    BY <1>1 DEF Board!Next

LEMMA BoardForget ==
    ASSUME NEW v \in Deck, v \in BoardSeen, BoardSeen' = BoardSeen \ {v},
           BoardVotes' = BoardVotes, BoardAnnounced' = BoardAnnounced
    PROVE  [Board!Next]_(Board!vars)
  <1>1. Board!Forget(v)
    BY DEF Board!Forget, BoardVotes, VoteOf, BoardSeen, BoardAnnounced
  <1> QED
    BY <1>1 DEF Board!Next

-----------------------------------------------------------------------------
(* What a step of r does to the values seen *)

LEMMA SeenKept ==
    ASSUME NEW r \in Requests, \A q \in Requests \ {r} : req'[q] = req[q],
           req'[r].agreed = req[r].agreed
    PROVE  BoardSeen' = BoardSeen
  <1>1. \A q \in Requests : req'[q].agreed = req[q].agreed
    OBVIOUS
  <1> QED
    BY <1>1 DEF BoardSeen

LEMMA SeenAnswered ==
    ASSUME NEW r \in Requests, \A q \in Requests \ {r} : req'[q] = req[q],
           req'[r].agreed = NoValue
    PROVE  BoardSeen' \in {BoardSeen, BoardSeen \ {req[r].agreed}}
  <1> DEFINE a == req[r].agreed
             O == {req[q].agreed : q \in Requests \ {r}} \ {NoValue}
  <1>1. BoardSeen = O \cup ({a} \ {NoValue})
    BY DEF BoardSeen
  <1>2. BoardSeen' = O
    BY DEF BoardSeen
  <1>3. CASE a \in O \/ a = NoValue
    BY <1>1, <1>2, <1>3
  <1>4. CASE a \notin O /\ a # NoValue
    BY <1>1, <1>2, <1>4
  <1> QED
    BY <1>3, <1>4

LEMMA SeenRead ==
    ASSUME NEW r \in Requests, NEW v \in Deck, req[r].agreed = NoValue,
           \A q \in Requests \ {r} : req'[q] = req[q], req'[r].agreed = v
    PROVE  BoardSeen' = BoardSeen \cup {v}
  <1> DEFINE O == {req[q].agreed : q \in Requests \ {r}} \ {NoValue}
  <1>1. BoardSeen = O
    BY DEF BoardSeen
  <1>2. BoardSeen' = O \cup {v}
    BY NoValueAssumption DEF BoardSeen
  <1> QED
    BY <1>1, <1>2

-----------------------------------------------------------------------------
(* Every step is a step of the board *)

LEMMA InitBoard == Init => Board!Init /\ BInv
  <1> SUFFICES ASSUME Init PROVE Board!Init /\ BInv
    OBVIOUS
  <1>1. \A r \in Requests : req[r].agreed = NoValue
    BY DEF Init, Outside
  <1>2. BoardSeen = {} /\ BoardAnnounced = {}
    BY <1>1 DEF BoardSeen, BoardAnnounced, Init
  <1>3. BoardVotes = [u \in Users |-> NoRow]
    BY AwayAssumption DEF BoardVotes, VoteOf, Init, Standing, Places
  <1> QED
    BY <1>1, <1>2, <1>3, InitTInv, InitIds, BoardMapping DEF BInv, AgreedLate

\* A handler answers without a word to the audience.
LEMMA AnsweredBoard ==
    ASSUME BInv, NEW r \in Requests, Answered(r), UNCHANGED Database
    PROVE  AgreedLate' /\ [Board!Next]_(Board!vars)
  <1>1. BoardSeen' \in {BoardSeen, BoardSeen \ {req[r].agreed}}
    BY SeenAnswered DEF Answered, Moved
  <1>2. BoardVotes' = BoardVotes /\ BoardAnnounced' = BoardAnnounced
    BY DEF Database, BoardVotes, VoteOf, BoardAnnounced
  <1>3. AgreedLate'
    BY DEF BInv, AgreedLate, Answered, Moved
  <1>4. CASE BoardSeen' = BoardSeen
    BY <1>2, <1>3, <1>4, BoardStutter
  <1>5. CASE BoardSeen' = BoardSeen \ {req[r].agreed} /\ BoardSeen' # BoardSeen
    <2>1. req[r].agreed \in BoardSeen
      BY <1>5
    <2>2. req[r].agreed \in Deck
      BY <2>1 DEF BoardSeen, BInv, TInv, TypeOK, Handler
    <2> QED BY <1>2, <1>3, <1>5, <2>1, <2>2, BoardForget
  <1> QED
    BY <1>1, <1>4, <1>5

\* A handler goes on, and the audience sees nothing of it.
LEMMA GoOnBoard ==
    ASSUME BInv, NEW r \in Requests, NEW p \in Control, Moved(r, p),
           req'[r].agreed = req[r].agreed,
           req[r].agreed # NoValue => p \in {"mark", "check", "add", "touch", "notify"},
           BoardVotes' = BoardVotes, UNCHANGED notices
    PROVE  AgreedLate' /\ [Board!Next]_(Board!vars)
  <1>1. BoardSeen' = BoardSeen /\ BoardAnnounced' = BoardAnnounced
    BY SeenKept DEF Moved, BoardAnnounced
  <1>2. AgreedLate'
    BY DEF BInv, AgreedLate, Moved
  <1> QED
    BY <1>1, <1>2, BoardStutter

LEMMA SaveBoard ==
    ASSUME BInv, NEW r \in Requests, Save(r)
    PROVE  AgreedLate' /\ [Board!Next]_(Board!vars)
  <1>1. /\ UNCHANGED <<role, active, linked, notices>>
        /\ req[r].pc = "save"
        /\ Written(r) \in Row
        /\ \/ Answered(r) /\ UNCHANGED est
           \/ /\ Moved(r, "seats") /\ Keeps(r)
              /\ Put(req[r].user, Written(r))
    BY SaveEffect DEF BInv
  <1>2. CASE Answered(r) /\ UNCHANGED est
    BY <1>1, <1>2, AnsweredBoard DEF Database
  <1>3. CASE /\ Moved(r, "seats") /\ Keeps(r)
             /\ Put(req[r].user, Written(r))
    <2>1. req[r].user \in Places
      BY UserPlaces DEF BInv, TInv, TypeOK, Handler
    <2>2. BoardSeen' = BoardSeen /\ BoardAnnounced' = BoardAnnounced
      BY <1>1, <1>3, SeenKept DEF Moved, Keeps, BoardAnnounced
    <2>3. AgreedLate'
      BY <1>1, <1>3 DEF BInv, AgreedLate, Moved, Keeps
    <2> QED BY <1>1, <1>3, <2>1, <2>2, <2>3, PutBoard DEF BInv, TInv, IdInv
  <1> QED
    BY <1>1, <1>2, <1>3

LEMMA ReadValuesBoard ==
    ASSUME BInv, NEW r \in Requests, ReadValues(r)
    PROVE  AgreedLate' /\ [Board!Next]_(Board!vars)
  <1>1. UNCHANGED Database /\ req[r].pc = "values" /\ req[r].agreed = NoValue
    BY ReadValuesEffect DEF BInv, AgreedLate
  <1>2. BoardVotes' = BoardVotes /\ BoardAnnounced' = BoardAnnounced
    BY <1>1 DEF Database, BoardVotes, VoteOf, BoardAnnounced
  <1>3. ASSUME NEW v \in Deck, ValuesShown = {v}, Moved(r, "mark"), req'[r].agreed = v
        PROVE  AgreedLate' /\ [Board!Next]_(Board!vars)
    <2>1. BoardSeen' = BoardSeen \cup {v}
      BY <1>1, <1>3, SeenRead DEF Moved
    <2>2. AgreedLate'
      BY <1>3 DEF BInv, AgreedLate, Moved
    <2> QED BY <1>2, <1>3, <2>1, <2>2, BoardSee DEF BInv, TInv
  <1>4. CASE Moved(r, "notify") /\ Keeps(r)
    BY <1>1, <1>2, <1>4, GoOnBoard DEF Keeps, Control, Database
  <1> QED
    BY <1>3, <1>4, ReadValuesEffect DEF BInv

LEMMA MarkFinalBoard ==
    ASSUME BInv, NEW r \in Requests, MarkFinal(r)
    PROVE  AgreedLate' /\ [Board!Next]_(Board!vars)
  <1>1. /\ UNCHANGED <<role, active, linked, notices>>
        /\ Moved(r, "check") /\ Keeps(r)
        /\ est' = [p \in Places |->
             IF p \in Voters THEN [est[p] EXCEPT !.final = TRUE] ELSE est[p]]
    BY MarkFinalEffect DEF BInv
  <1>2. \A x \in Row : /\ [x EXCEPT !.final = TRUE] \in Row
                       /\ [x EXCEPT !.final = TRUE].value = x.value
    BY DEF Row
  <1>3. \A u \in Users : VoteOf(est'[u]) = VoteOf(est[u])
    BY <1>1, <1>2, NoRowAssumption, UserPlaces DEF VoteOf, BInv, TInv, TypeOK, Voters
  <1>4. BoardVotes' = BoardVotes
    BY <1>3 DEF BoardVotes
  <1> QED
    BY <1>1, <1>4, GoOnBoard DEF Keeps, Control

LEMMA NotifyBoard ==
    ASSUME BInv, NEW r \in Requests, Notify(r)
    PROVE  AgreedLate' /\ [Board!Next]_(Board!vars)
  <1> DEFINE a == req[r].agreed
  <1>1. UNCHANGED est /\ Answered(r) /\ notices' = notices \cup {a}
    BY NotifyEffect DEF BInv
  <1>2. BoardSeen' \in {BoardSeen, BoardSeen \ {a}} /\ BoardVotes' = BoardVotes
    BY <1>1, SeenAnswered DEF Answered, Moved, BoardVotes
  <1>3. AgreedLate'
    BY <1>1 DEF BInv, AgreedLate, Answered, Moved
  <1>4. CASE a = NoValue
    <2>1. BoardAnnounced' = BoardAnnounced /\ BoardSeen' = BoardSeen
      BY <1>1, <1>2, <1>4 DEF BoardAnnounced, BoardSeen
    <2> QED BY <1>2, <1>3, <2>1, BoardStutter
  <1>5. CASE a # NoValue
    <2>1. a \in Deck /\ a \in BoardSeen
      BY <1>5 DEF BInv, TInv, TypeOK, Handler, BoardSeen
    <2>2. BoardAnnounced' = BoardAnnounced \cup {a}
      BY <1>1, <1>5 DEF BoardAnnounced
    <2> QED BY <1>2, <1>3, <2>1, <2>2, BoardAnnounce
  <1> QED
    BY <1>4, <1>5

\* The other steps of a handler leave the board as it is.
LEMMA StartBoard ==
    ASSUME BInv, NEW r \in Requests, NEW t \in Targets, Start(r, t)
    PROVE  AgreedLate' /\ [Board!Next]_(Board!vars)
  <1>1. UNCHANGED Database /\ req[r].agreed = NoValue
    BY StartEffect DEF BInv, AgreedLate
  <1>2. CASE Answered(r)
    BY <1>1, <1>2, AnsweredBoard
  <1>3. CASE Moved(r, "find") /\ Keeps(r)
    <2>1. BoardVotes' = BoardVotes
      BY <1>1 DEF Database, BoardVotes
    <2> QED BY <1>1, <1>3, <2>1, GoOnBoard DEF Keeps, Control, Database
  <1> QED
    BY <1>2, <1>3, StartEffect DEF BInv

LEMMA EarlyBoard ==
    ASSUME BInv, NEW r \in Requests,
           Find(r) \/ Validate(r) \/ CountSeats(r) \/ Tally(r)
    PROVE  AgreedLate' /\ [Board!Next]_(Board!vars)
  <1>1. /\ UNCHANGED Database
        /\ req[r].pc \in {"find", "validate", "seats", "tally"}
        /\ \/ Answered(r)
           \/ /\ \E p \in {"validate", "save", "tally", "values"} : Moved(r, p)
              /\ req'[r].agreed = req[r].agreed
    BY FindEffect, ValidateEffect, CountSeatsEffect, TallyEffect DEF BInv, Keeps
  <1>2. req[r].agreed = NoValue
    BY <1>1 DEF BInv, AgreedLate
  <1>3. BoardVotes' = BoardVotes
    BY <1>1 DEF Database, BoardVotes
  <1> QED
    BY <1>1, <1>2, <1>3, AnsweredBoard, GoOnBoard DEF Control, Database

LEMMA LinkBoard ==
    ASSUME BInv, NEW r \in Requests, CheckLinked(r) \/ AddStory(r) \/ SaveSession(r)
    PROVE  AgreedLate' /\ [Board!Next]_(Board!vars)
  <1>1. /\ UNCHANGED <<est, notices>>
        /\ req'[r].agreed = req[r].agreed
        /\ \E p \in {"add", "touch", "notify"} : Moved(r, p)
    BY LinkEffect DEF BInv, Keeps
  <1>2. BoardVotes' = BoardVotes
    BY <1>1 DEF BoardVotes
  <1> QED
    BY <1>1, <1>2, GoOnBoard DEF Control

LEMMA DisturbBoard ==
    ASSUME BInv, Disturb
    PROVE  AgreedLate' /\ [Board!Next]_(Board!vars)
  <1>1. ASSUME NEW r \in Requests, Kill(r)
        PROVE  AgreedLate' /\ [Board!Next]_(Board!vars)
    <2>1. Answered(r) /\ UNCHANGED Database
      BY <1>1, MoveOut DEF Kill, BInv, TInv, Codes, Answered
    <2> QED BY <2>1, AnsweredBoard
  <1>2. ASSUME UNCHANGED req
        PROVE  AgreedLate' /\ BoardSeen' = BoardSeen
    BY <1>2 DEF BInv, AgreedLate, BoardSeen
  <1>3. ASSUME UNCHANGED <<est, notices, req>>
        PROVE  AgreedLate' /\ [Board!Next]_(Board!vars)
    <2>1. BoardVotes' = BoardVotes /\ BoardAnnounced' = BoardAnnounced
      BY <1>3 DEF BoardVotes, BoardAnnounced
    <2> QED BY <1>2, <1>3, <2>1, BoardStutter
  <1>4. ASSUME NEW p \in Places, Destroy(p)
        PROVE  AgreedLate' /\ [Board!Next]_(Board!vars)
    <2>1. BoardAnnounced' = BoardAnnounced /\ UNCHANGED req
      BY <1>4 DEF Destroy, BoardAnnounced
    <2>2. \A u \in Users : est'[u] = IF u = p THEN NoRow ELSE est[u]
      BY <1>4, UserPlaces DEF Destroy, BInv, TInv, TypeOK
    <2>3. CASE p \in Users
      <3>1. BoardVotes' = [BoardVotes EXCEPT ![p] = NoRow]
        BY <2>2, <2>3 DEF BoardVotes, VoteOf
      <3> QED BY <1>2, <2>1, <2>3, <3>1, BoardCast
    <2>4. CASE p \notin Users
      <3>1. BoardVotes' = BoardVotes
        BY <2>2, <2>4 DEF BoardVotes
      <3> QED BY <1>2, <2>1, <3>1, BoardStutter
    <2> QED BY <2>3, <2>4
  <1> QED
    BY <1>1, <1>3, <1>4 DEF Disturb, ChangeRole, UpdateSession

LEMMA EditBoard ==
    ASSUME BInv, EditNext
    PROVE  AgreedLate' /\ [Board!Next]_(Board!vars)
  <1>1. PICK e \in Edits : LoadsRow(e) \/ GoesOn(e) \/ EndsEdit(e)
    BY EditEffect DEF BInv
  <1>2. /\ AgreedLate'
        /\ BoardSeen' = BoardSeen /\ BoardAnnounced' = BoardAnnounced
    BY EditEffect DEF BInv, AgreedLate, BoardSeen, BoardAnnounced
  <1>3. CASE UNCHANGED est
    BY <1>2, <1>3, BoardStutter DEF BoardVotes
  <1>4. CASE /\ edit[e].row \in Row /\ edit[e].to \in Places
             /\ Put(edit[e].to, edit[e].row)
    BY <1>2, <1>4, PutBoard DEF BInv, TInv, IdInv
  <1> QED
    BY <1>1, <1>3, <1>4 DEF LoadsRow, GoesOn, EndsEdit

LEMMA StepBoard == BInv /\ [Next]_vars => BInv' /\ [Board!Next]_(Board!vars)
  <1> SUFFICES ASSUME BInv, [Next]_vars
               PROVE  BInv' /\ [Board!Next]_(Board!vars)
    OBVIOUS
  <1>1. TInv' /\ IdInv'
    <2>1. TInv'
      BY VotingTInv, EditTInv, DisturbTInv, StutterTInv DEF BInv, Next
    <2>2. CASE UNCHANGED vars
      <3>1. IdsDiffer' /\ OnBoard' = OnBoard /\ InHand' = InHand /\ InEdit' = InEdit
        BY <2>2 DEF vars, BInv, IdInv, IdsDiffer, OnBoard, InHand, InEdit
      <3>2. \A r \in Requests : Early(r)' <=> Early(r)
        BY <2>2 DEF vars, Early
      <3> QED BY <2>1, <3>1, <3>2, SameIds DEF BInv
    <2> QED BY <2>1, <2>2, VotingIds, EditIds, ChurnIds DEF BInv, Next
  <1>2. CASE VotingNext
    <2>1. PICK r \in Requests : (\E t \in Targets : Start(r, t)) \/ Work(r)
      BY <1>2 DEF VotingNext
    <2> QED BY <1>1, <2>1, StartBoard, EarlyBoard, SaveBoard, ReadValuesBoard,
               MarkFinalBoard, LinkBoard, NotifyBoard DEF Work, BInv
  <1>3. CASE Churn \/ EditNext
    BY <1>1, <1>3, DisturbBoard, EditBoard DEF Churn, BInv
  <1>4. CASE UNCHANGED vars
    <2>1. /\ AgreedLate' /\ BoardSeen' = BoardSeen
          /\ BoardVotes' = BoardVotes /\ BoardAnnounced' = BoardAnnounced
      BY <1>4 DEF vars, BInv, AgreedLate, BoardSeen, BoardVotes, BoardAnnounced
    <2> QED BY <1>1, <2>1, BoardStutter DEF BInv
  <1> QED
    BY <1>2, <1>3, <1>4 DEF Next

\* Whatever the requests, the members page, the other endpoints and the death
\* of workers do, every value announced as the consensus was the only value on
\* the board when the handler that announced it looked.
THEOREM BoardHolds == Spec => BoardSpec
  BY InitBoard, StepBoard, PTL DEF Spec, BoardSpec, Board!Spec
=============================================================================
