-------------------------------- MODULE Occ --------------------------------
(***************************************************************************)
(* The optimistic concurrency control of Taiga's API (OCCResourceMixin) on  *)
(* one row, say a task, with everything that writes the row:                *)
(*                                                                         *)
(*  - an edit (UpdateModelMixin.update) names the version its client knows  *)
(*    and some fields.  The object is loaded before the lock on its key is  *)
(*    taken, the whole row is saved, and the lock is released before the    *)
(*    transaction around it commits;                                        *)
(*  - a bulk request (bulk_update_milestone) updates one column and then    *)
(*    takes a snapshot for the history, without that lock or a version;     *)
(*  - the task board of sprint_execution (UpdateTaskStatusView) reads the   *)
(*    row and writes it back, version and all, with another status.         *)
(*                                                                         *)
(* Edits and bulk requests leave their entry in the history in the same way *)
(* (take_snapshot): under the history's lock of the key the row is read     *)
(* anew, compared with what the entries rebuild, and the difference is      *)
(* entered; the lock ends before the transaction around it.                 *)
(*                                                                         *)
(* A value of a field is the request that wrote it.  Databases keep their   *)
(* promises: committed rows only are read, and a row that an open           *)
(* transaction has written waits for it.                                    *)
(***************************************************************************)
EXTENDS Integers, Sequences, FiniteSets

CONSTANTS
    Fields, Status, Milestone, \* the fields; those of the board and of bulk requests
    Edits, Others,             \* edits, and requests of the other two kinds
    None                       \* nobody

ASSUME OccAssumption ==
    /\ Status \in Fields /\ Milestone \in Fields
    /\ None \notin Edits \cup Others /\ Edits \cap Others = {}

Requests == Edits \cup Others

VARIABLES
    row, version,  \* the committed row
    history,       \* the entries [by, diff], of whatever transaction
    pkLock,        \* model_pk_lock
    historyLock,   \* the history's lock of the key
    pc,            \* pc[r]: how far r is
    known,         \* known[e]: the version and the values its client knows
    fields,        \* fields[e]: the fields that e names
    same,          \* the edits that send the values that their clients know
    object,        \* object[r]: the fields of the object that r has in memory
    read,          \* read[r]: the version that r has read
    \* history of the run, for the properties
    committed,     \* the edits that have been committed
    overlapped,    \* the edits that had the lock while another was uncommitted
    outside        \* writes without lock and version; a snapshot in the gap

request == <<known, fields, same>>
locks == <<pkLock, historyLock>>
vars == <<row, version, history, locks, pc, request, object, read,
          committed, overlapped, outside>>

Rows == [Fields -> Requests \cup {None}]

\* After its save an edit, and after its update a bulk request, freezes the row
\* under the history's lock, which it has given back when its entry is noted.
Uncommitted == {"saved", "frozen", "noted", "released"}
Locked == {"locked", "versioned", "accepted"} \cup (Uncommitted \ {"released"})
Ended == {"done", "refused", "aborted"}

\* The edits that have written the row.
Open == {r \in Edits : pc[r] \in Uncommitted}

\* The entries that other transactions see: neither those of an open one nor
\* those of one that was rolled back.
Visible == {i \in DOMAIN history : pc[history[i].by] \notin Uncommitted \cup {"aborted"}}

\* The last snapshot that get_last_snapshot_for_key builds from the entries at
\* some places.
Snapshot(entries, at) ==
    [f \in Fields |->
        LET with == {i \in at : f \in DOMAIN entries[i].diff} IN
        IF with = {} THEN None
        ELSE entries[CHOOSE i \in with : \A j \in with : j <= i].diff[f]]

\* No entry without a difference.
Entries(r, new, old) ==
    LET changed == {f \in Fields : new[f] # old[f]} IN
    IF changed = {} THEN <<>>
    ELSE <<[by |-> r, diff |-> [f \in changed |-> new[f]]]>>

TypeOK ==
    /\ row \in Rows /\ version \in Nat
    /\ \A i \in DOMAIN history :
           /\ history[i].by \in Requests
           /\ DOMAIN history[i].diff \in (SUBSET Fields) \ {{}}
    /\ pc \in [Requests -> {"start", "fetched", "loaded", "bulk", "board"}
                           \cup Locked \cup Uncommitted \cup Ended]
    /\ known \in [Edits -> [version : Nat, row : Rows]]
    /\ fields \in [Edits -> SUBSET Fields] /\ same \subseteq Edits
    /\ object \in [Requests -> Rows] /\ read \in [Requests -> Nat]
    /\ committed \subseteq Edits /\ overlapped \subseteq Edits
    /\ outside \subseteq {"board", "bulk", "gap"}
    /\ \A e \in Edits : pc[e] \in Locked <=> pkLock = e
    /\ \A r \in Requests : pc[r] = "frozen" <=> historyLock = r
    /\ \A d, e \in Open : d = e

Init ==
    /\ row = [f \in Fields |-> None] /\ version = 1
    /\ history = <<>>
    /\ pkLock = None /\ historyLock = None
    /\ pc = [r \in Requests |-> "start"]
    /\ known = [e \in Edits |-> [version |-> 1, row |-> row]]
    /\ fields = [e \in Edits |-> {}] /\ same = {}
    /\ object = [r \in Requests |-> row]
    /\ read = [r \in Requests |-> 0]
    /\ committed = {} /\ overlapped = {} /\ outside = {}

Goto(r, from, to) == pc[r] = from /\ pc' = [pc EXCEPT ![r] = to]

-----------------------------------------------------------------------------
(* An edit. *)

\* The client reads the row, and its user changes some fields.
Fetch(e) ==
    /\ Goto(e, "start", "fetched")
    /\ known' = [known EXCEPT ![e] = [version |-> version, row |-> row]]
    /\ \E F \in (SUBSET Fields) \ {{}} : fields' = [fields EXCEPT ![e] = F]
    /\ same' \in {same, same \cup {e}}
    /\ UNCHANGED <<row, version, history, locks, object, read,
                   committed, overlapped, outside>>

\* TaskViewSet.update: the object is there before the lock.
Load(e) ==
    /\ Goto(e, "fetched", "loaded")
    /\ object' = [object EXCEPT ![e] = row]
    /\ UNCHANGED <<row, version, history, locks, request, read,
                   committed, overlapped, outside>>

\* Variant: the lock is not waited for.
LockAnyway(e) ==
    /\ Goto(e, "loaded", "locked")
    /\ pkLock' = e
    /\ UNCHANGED <<row, version, history, historyLock, request, object, read,
                   committed, overlapped, outside>>

\* model_pk_lock; update then finds self.object set and does not load it again.
Lock(e) ==
    /\ Goto(e, "loaded", "locked")
    /\ pkLock = None
    /\ pkLock' = e
    /\ overlapped' = IF Open = {} THEN overlapped ELSE overlapped \cup {e}
    /\ UNCHANGED <<row, version, history, historyLock, request, object, read,
                   committed, outside>>

\* _validate_and_update_version reads the current version ...
ReadVersion(e) ==
    /\ Goto(e, "locked", "versioned")
    /\ read' = [read EXCEPT ![e] = version]
    /\ UNCHANGED <<row, version, history, locks, request, object,
                   committed, overlapped, outside>>

\* ... and, when the client's is another one, the fields of as many of the
\* last entries of the history as the versions differ by.
modified_fields(count) ==
    UNION {DOMAIN history[i].diff :
               i \in {j \in Visible : Cardinality({k \in Visible : k > j}) < count}}

\* Variant: one entry too few is looked at.
AcceptsNewer(e) ==
    /\ known[e].version <= read[e]
    /\ fields[e] \cap modified_fields(read[e] - known[e].version - 1) = {}

Accepts(e) ==
    /\ known[e].version <= read[e]
    /\ fields[e] \cap modified_fields(read[e] - known[e].version) = {}

Check(e) ==
    /\ IF Accepts(e)
       THEN Goto(e, "versioned", "accepted") /\ pkLock' = pkLock
       ELSE Goto(e, "versioned", "refused") /\ pkLock' = None
    /\ UNCHANGED <<row, version, history, historyLock, request, object, read,
                   committed, overlapped, outside>>

\* The row with what the client sends.
Sent(e) == [f \in Fields |->
               IF f \notin fields[e] THEN object[e][f]
               ELSE IF e \in same THEN known[e].row[f] ELSE e]

\* Variant: the version is counted from the one that was checked.
SaveRead(e) ==
    /\ Goto(e, "accepted", "saved")
    /\ Open = {}
    /\ object' = [object EXCEPT ![e] = Sent(e)]
    /\ read' = [read EXCEPT ![e] = @ + 1]
    /\ UNCHANGED <<row, version, history, locks, request, committed, overlapped, outside>>

\* The whole row is written, in the open transaction; the version is counted by
\* the database (F('version') + 1).
Save(e) ==
    /\ Goto(e, "accepted", "saved")
    /\ Open = {}
    /\ object' = [object EXCEPT ![e] = Sent(e)]
    /\ read' = [read EXCEPT ![e] = version + 1]
    /\ UNCHANGED <<row, version, history, locks, request, committed, overlapped, outside>>

\* Variant: the key's lock is never given back.
ReleaseNothing(e) ==
    /\ Goto(e, "noted", "released")
    /\ UNCHANGED <<row, version, history, locks, request, object, read,
                   committed, overlapped, outside>>

\* The key's lock ends inside the transaction.
Release(e) ==
    /\ Goto(e, "noted", "released")
    /\ pkLock' = None
    /\ UNCHANGED <<row, version, history, historyLock, request, object, read,
                   committed, overlapped, outside>>

Commit(e) ==
    /\ Goto(e, "released", "done")
    /\ row' = object[e] /\ version' = read[e]
    /\ committed' = committed \cup {e}
    /\ UNCHANGED <<history, locks, request, object, read, overlapped, outside>>

-----------------------------------------------------------------------------
(* take_snapshot. *)

BeforeSnapshot(r) == IF r \in Edits THEN "saved" ELSE "bulk"

\* Variant: the history's lock is not waited for.
FreezeAnyway(r) ==
    /\ Goto(r, BeforeSnapshot(r), "frozen")
    /\ historyLock' = r
    /\ object' = IF r \in Edits THEN object ELSE [object EXCEPT ![r] = row]
    /\ UNCHANGED <<row, version, history, pkLock, request, read, committed, overlapped, outside>>

\* Under the lock the row is read anew: by an edit its own.  Others may have given
\* the lock back and not yet committed.
Freeze(r) ==
    /\ Goto(r, BeforeSnapshot(r), "frozen")
    /\ historyLock = None
    /\ historyLock' = r
    /\ object' = IF r \in Edits THEN object ELSE [object EXCEPT ![r] = row]
    /\ outside' = IF \E q \in Requests : pc[q] \in {"noted", "released"}
                  THEN outside \cup {"gap"} ELSE outside
    /\ UNCHANGED <<row, version, history, pkLock, request, read, committed, overlapped>>

\* The entries are read and one is added; the lock ends, the transaction does not.
Enter(r) ==
    /\ Goto(r, "frozen", "noted")
    /\ historyLock' = None
    /\ history' = history \o Entries(r, object[r], Snapshot(history, Visible))
    /\ UNCHANGED <<row, version, pkLock, request, object, read,
                   committed, overlapped, outside>>

\* Something raises, or the worker dies: the transaction is rolled back.  What a
\* bulk request has updated stays.
Abort(r) ==
    /\ pc[r] \in Uncommitted \cup {"bulk"}
    /\ pc' = [pc EXCEPT ![r] = "aborted"]
    /\ pkLock' = IF pkLock = r THEN None ELSE pkLock
    /\ historyLock' = IF historyLock = r THEN None ELSE historyLock
    /\ UNCHANGED <<row, version, history, request, object, read,
                   committed, overlapped, outside>>

-----------------------------------------------------------------------------
(* A bulk request: update_attr_in_bulk_for_ids, then snapshot_tasks_in_bulk. *)

BulkWrite(b) ==
    /\ Goto(b, "start", "bulk")
    /\ Open = {}
    /\ row' = [row EXCEPT ![Milestone] = b]
    /\ outside' = outside \cup {"bulk"}
    /\ UNCHANGED <<version, history, locks, request, object, read, committed, overlapped>>

BulkCommit(b) ==
    /\ Goto(b, "noted", "done")
    /\ UNCHANGED <<row, version, history, locks, request, object, read,
                   committed, overlapped, outside>>

-----------------------------------------------------------------------------
(* The task board: UpdateTaskStatusView.patch. *)

BoardLoad(d) ==
    /\ Goto(d, "start", "board")
    /\ object' = [object EXCEPT ![d] = [row EXCEPT ![Status] = d]]
    /\ read' = [read EXCEPT ![d] = version]
    /\ UNCHANGED <<row, version, history, locks, request,
                   committed, overlapped, outside>>

BoardSave(d) ==
    /\ Goto(d, "board", "done")
    /\ Open = {}
    /\ row' = object[d] /\ version' = read[d]
    /\ outside' = outside \cup {"board"}
    /\ UNCHANGED <<history, locks, request, object, read, committed, overlapped>>

-----------------------------------------------------------------------------
EditStep(e) ==
    \/ Load(e) \/ Lock(e) \/ ReadVersion(e) \/ Check(e) \/ Save(e)
    \/ Freeze(e) \/ Enter(e) \/ Release(e) \/ Commit(e)

BulkStep(b) == Freeze(b) \/ Enter(b) \/ BulkCommit(b)

Next ==
    \/ \E e \in Edits : Fetch(e) \/ EditStep(e)
    \/ \E o \in Others : BulkWrite(o) \/ BulkStep(o)
    \/ \E o \in Others : BoardLoad(o) \/ BoardSave(o)
    \/ \E r \in Requests : Abort(r)

\* A request that has been sent is worked on.
Spec == /\ Init /\ [][Next]_vars
        /\ \A e \in Edits : WF_vars(EditStep(e))
        /\ \A b \in Others : WF_vars(BulkStep(b))

-----------------------------------------------------------------------------
\* The version is one more than the number of committed edits, however their
\* transactions overlap the lock, as long as the task board stays away: it
\* writes back the version that it has read.
VersionCounts == "board" \in outside \/ version = 1 + Cardinality(committed)

\* An edit that is accepted, with no other transaction open while it had the
\* lock and no write outside the lock, names only fields that nobody has
\* changed since its client read them.
ConflictRefused ==
    \A e \in Edits \ overlapped :
        pc[e] = "accepted" /\ outside = {} =>
            \A f \in fields[e] : row[f] = known[e].row[f]

\* No bulk request has updated the row without its entry being there.
Settled == \A o \in Others : pc[o] \in {"start", "board", "done"}

\* The history rebuilds the row that is stored, edits and bulk requests mixed and
\* rolled back as they come, unless the task board wrote (it takes no snapshot)
\* or a snapshot was taken in the gap between the end of another's lock and its
\* commit.
HistoryExact ==
    outside \cap {"board", "gap"} = {} /\ Settled => Snapshot(history, Visible) = row

\* The key's lock, the row's lock, the history's lock and the open transactions
\* never block each other: every edit that is sent gets an answer.
EveryEditEnds ==
    \A e \in Edits : pc[e] = "fetched" ~> pc[e] \in Ended

\* With nothing but edits at work, an edit changes the fields that it names and
\* no others (refuted: the whole row that is saved was loaded before the lock).
EditsSurvive ==
    [][\A e \in Edits : Commit(e) /\ outside = {} =>
          \A f \in Fields \ fields[e] : row'[f] = row[f]]_vars
=============================================================================
