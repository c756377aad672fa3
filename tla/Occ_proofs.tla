----------------------------- MODULE Occ_proofs -----------------------------
(***************************************************************************)
(* What holds of Occ for any number of edits, other requests and fields:    *)
(* the version counts the edits although the lock on the key ends before    *)
(* the transactions do, as the row's lock is held from a write to its       *)
(* commit; the history rebuilds the row; and an edit that is accepted names *)
(* no field that somebody changed.                                          *)
(***************************************************************************)
EXTENDS Occ, FiniteSetTheorems, WellFoundedInduction, TLAPS

-----------------------------------------------------------------------------
(* Who has the row *)

\* The types that the argument needs.
CountType ==
    /\ pc \in [Requests -> {"start", "fetched", "loaded", "bulk", "board"}
                           \cup Locked \cup Uncommitted \cup Ended]
    /\ version \in Nat /\ read \in [Requests -> Nat]
    /\ committed \subseteq Edits /\ IsFiniteSet(committed)

\* One transaction at a time has written the row, and it is going to store the
\* successor of the version that is stored now.
RowLockInv ==
    /\ \A d, e \in Open : d = e
    /\ "board" \notin outside => \A e \in Open : read[e] = version + 1

\* The key's lock is with the edit that is between Lock and Release.
KeyLockInv ==
    /\ pkLock \in Edits \cup {None}
    /\ \A e \in Edits : pc[e] \in Locked <=> pkLock = e

\* Requests of the other kinds never do what edits do, nor edits what they do.
OthersInv ==
    /\ \A o \in Others :
           pc[o] \in {"start", "bulk", "frozen", "noted", "board", "done", "aborted"}
    /\ \A e \in Edits : pc[e] \notin {"bulk", "board"}
    /\ \A e \in committed : pc[e] = "done"

CountInv == CountType /\ RowLockInv /\ KeyLockInv /\ OthersInv /\ VersionCounts

LEMMA InitCount == Init => CountInv
  <1> SUFFICES ASSUME Init PROVE CountInv
    OBVIOUS
  <1>1. Open = {} /\ IsFiniteSet({}) /\ Cardinality({}) = 0
    BY FS_EmptySet DEF Init, Open, Requests, Uncommitted
  <1>2. CountType
    BY <1>1 DEF Init, CountType, Requests
  <1>3. \A e \in Edits : e # None
    BY OccAssumption
  <1> QED
    BY <1>1, <1>2, <1>3
       DEF Init, CountInv, RowLockInv, KeyLockInv, OthersInv, VersionCounts, Requests, Locked,
           Uncommitted

-----------------------------------------------------------------------------
(* One step *)

Places == {"start", "fetched", "loaded", "bulk", "board"}
              \cup Locked \cup Uncommitted \cup Ended

\* r goes to a place, and who has the row stays who had it.
LEMMA GotoOutside ==
    ASSUME CountType, NEW r \in Requests, NEW from, NEW to \in Places,
           Goto(r, from, to), from \in Uncommitted <=> to \in Uncommitted
    PROVE  Open' = Open
  BY DEF CountType, Goto, Open, Requests

LEMMA GotoType ==
    ASSUME CountType, NEW r \in Requests, NEW from, NEW to \in Places, Goto(r, from, to)
    PROVE  /\ pc' \in [Requests -> Places]
           /\ pc[r] = from /\ pc'[r] = to
           /\ \A q \in Requests \ {r} : pc'[q] = pc[q]
  BY DEF CountType, Goto, Places

\* A step of an edit that leaves version, locks and commits alone.
LEMMA QuietStep ==
    ASSUME CountInv, NEW e \in Edits, NEW from, NEW to \in Places, Goto(e, from, to),
           from \in Uncommitted <=> to \in Uncommitted,
           from \in Locked <=> to \in Locked, from # "done", to \notin {"bulk", "board"},
           UNCHANGED <<version, pkLock, committed>>,
           "board" \in outside => "board" \in outside',
           read' \in [Requests -> Nat],
           \A r \in Requests \ {e} : read'[r] = read[r],
           from \in Uncommitted => read'[e] = read[e]
    PROVE  CountInv'
  <1> USE DEF CountInv
  <1>1. e \in Requests
    BY DEF Requests
  <1>2. /\ pc' \in [Requests -> Places]
        /\ pc[e] = from /\ pc'[e] = to
        /\ \A q \in Requests \ {e} : pc'[q] = pc[q]
    BY <1>1, GotoType
  <1>3. Open' = Open
    BY <1>1, GotoOutside
  <1>4. CountType'
    BY <1>2 DEF CountType, Places
  <1>5. RowLockInv'
    <2>1. \A d \in Open : read'[d] = read[d]
      BY <1>2 DEF Open, Requests
    <2> QED
      BY <1>3, <2>1 DEF RowLockInv
  <1>6. KeyLockInv'
    BY <1>2 DEF KeyLockInv, Requests
  <1>7. OthersInv'
    <2>1. \A o \in Others : o \in Requests \ {e}
      BY OccAssumption DEF Requests
    <2>2. \A d \in committed : d \in Requests \ {e}
      BY <1>2 DEF OthersInv, CountType, Requests
    <2> QED
      BY <1>2, <2>1, <2>2 DEF OthersInv, Requests
  <1>8. VersionCounts'
    BY DEF VersionCounts
  <1> QED
    BY <1>4, <1>5, <1>6, <1>7, <1>8

LEMMA FetchCounts ==
    ASSUME CountInv, NEW e \in Edits, Fetch(e)
    PROVE  CountInv'
  <1>1. Goto(e, "start", "fetched") /\ UNCHANGED <<version, pkLock, committed, outside, read>>
    BY DEF Fetch, locks
  <1> QED
    BY <1>1, QuietStep DEF Places, Uncommitted, Locked, Ended, CountInv, CountType, Requests

LEMMA LoadCounts ==
    ASSUME CountInv, NEW e \in Edits, Load(e)
    PROVE  CountInv'
  <1>1. Goto(e, "fetched", "loaded") /\ UNCHANGED <<version, pkLock, committed, outside, read>>
    BY DEF Load, locks
  <1> QED
    BY <1>1, QuietStep DEF Places, Uncommitted, Locked, Ended, CountInv, CountType, Requests

LEMMA ReadVersionCounts ==
    ASSUME CountInv, NEW e \in Edits, ReadVersion(e)
    PROVE  CountInv'
  <1>1. /\ Goto(e, "locked", "versioned") /\ UNCHANGED <<version, pkLock, committed, outside>>
        /\ read' = [read EXCEPT ![e] = version]
    BY DEF ReadVersion, locks
  <1>2. read' \in [Requests -> Nat] /\ \A r \in Requests \ {e} : read'[r] = read[r]
    BY <1>1 DEF CountInv, CountType, Requests
  <1> QED
    BY <1>1, <1>2, QuietStep DEF Places, Uncommitted, Locked, Ended

LEMMA FreezeCounts ==
    ASSUME CountInv, NEW e \in Edits, Freeze(e)
    PROVE  CountInv'
  <1>1. /\ Goto(e, "saved", "frozen") /\ UNCHANGED <<version, pkLock, committed, read>>
        /\ "board" \in outside => "board" \in outside'
    BY DEF Freeze, BeforeSnapshot
  <1> QED
    BY <1>1, QuietStep DEF Places, Uncommitted, Locked, Ended, CountInv, CountType, Requests

LEMMA EnterCounts ==
    ASSUME CountInv, NEW e \in Edits, Enter(e)
    PROVE  CountInv'
  <1>1. Goto(e, "frozen", "noted") /\ UNCHANGED <<version, pkLock, committed, outside, read>>
    BY DEF Enter
  <1> QED
    BY <1>1, QuietStep DEF Places, Uncommitted, Locked, Ended, CountInv, CountType, Requests

\* A step of an edit that takes the key's lock or gives it back.
LEMMA KeyLockStep ==
    ASSUME CountInv, NEW e \in Edits, NEW from, NEW to \in Places, Goto(e, from, to),
           from \in Uncommitted <=> to \in Uncommitted,
           from # "done", to \notin {"bulk", "board"},
           \/ from \notin Locked /\ to \in Locked /\ pkLock = None /\ pkLock' = e
           \/ from \in Locked /\ to \notin Locked /\ pkLock' = None,
           UNCHANGED <<version, committed, outside, read>>
    PROVE  CountInv'
  <1> USE DEF CountInv
  <1>1. e \in Requests /\ e # None
    BY OccAssumption DEF Requests
  <1>2. /\ pc' \in [Requests -> Places]
        /\ pc[e] = from /\ pc'[e] = to
        /\ \A q \in Requests \ {e} : pc'[q] = pc[q]
    BY <1>1, GotoType
  <1>3. Open' = Open
    BY <1>1, GotoOutside
  <1>4. CountType'
    BY <1>2 DEF CountType, Places
  <1>5. RowLockInv'
    BY <1>3 DEF RowLockInv
  <1>6. KeyLockInv'
    <2> SUFFICES ASSUME NEW d \in Edits
                 PROVE  pc'[d] \in Locked <=> pkLock' = d
      BY DEF KeyLockInv
    <2>1. d \in Requests /\ d # None /\ (pc[d] \in Locked <=> pkLock = d)
      BY OccAssumption DEF Requests, KeyLockInv
    <2>2. pc[e] \in Locked <=> pkLock = e
      BY DEF KeyLockInv
    <2> QED
      BY <1>1, <1>2, <2>1, <2>2
  <1>7. OthersInv'
    <2>1. \A o \in Others : o \in Requests \ {e}
      BY OccAssumption DEF Requests
    <2>2. \A d \in committed : d \in Requests \ {e}
      BY <1>2 DEF OthersInv, CountType, Requests
    <2> QED
      BY <1>2, <2>1, <2>2 DEF OthersInv, Requests
  <1>8. VersionCounts'
    BY DEF VersionCounts
  <1> QED
    BY <1>4, <1>5, <1>6, <1>7, <1>8

LEMMA LockCounts ==
    ASSUME CountInv, NEW e \in Edits, Lock(e)
    PROVE  CountInv'
  <1>1. /\ Goto(e, "loaded", "locked") /\ UNCHANGED <<version, committed, outside, read>>
        /\ pkLock = None /\ pkLock' = e
    BY DEF Lock
  <1> QED
    BY <1>1, KeyLockStep DEF Places, Uncommitted, Locked, Ended

LEMMA CheckCounts ==
    ASSUME CountInv, NEW e \in Edits, Check(e)
    PROVE  CountInv'
  <1>1. UNCHANGED <<version, committed, outside, read>>
    BY DEF Check
  <1>2. CASE Goto(e, "versioned", "accepted") /\ pkLock' = pkLock
    BY <1>1, <1>2, QuietStep
       DEF Places, Uncommitted, Locked, Ended, CountInv, CountType, Requests
  <1>3. CASE Goto(e, "versioned", "refused") /\ pkLock' = None
    BY <1>1, <1>3, KeyLockStep DEF Places, Uncommitted, Locked, Ended
  <1> QED
    BY <1>2, <1>3 DEF Check

LEMMA ReleaseCounts ==
    ASSUME CountInv, NEW e \in Edits, Release(e)
    PROVE  CountInv'
  <1>1. /\ Goto(e, "noted", "released") /\ UNCHANGED <<version, committed, outside, read>>
        /\ pkLock' = None
    BY DEF Release
  <1> QED
    BY <1>1, KeyLockStep DEF Places, Uncommitted, Locked, Ended

\* The row's lock is taken: nobody else has it.
LEMMA SaveCounts ==
    ASSUME CountInv, NEW e \in Edits, Save(e)
    PROVE  CountInv'
  <1> USE DEF CountInv
  <1>1. /\ Goto(e, "accepted", "saved") /\ Open = {}
        /\ read' = [read EXCEPT ![e] = version + 1]
        /\ UNCHANGED <<version, pkLock, committed, outside>>
    BY DEF Save, locks
  <1>2. e \in Requests /\ "saved" \in Places
    BY DEF Requests, Places, Uncommitted
  <1>3. /\ pc' \in [Requests -> Places]
        /\ pc[e] = "accepted" /\ pc'[e] = "saved"
        /\ \A q \in Requests \ {e} : pc'[q] = pc[q]
    BY <1>1, <1>2, GotoType
  <1>4. CountType' /\ read'[e] = version' + 1
    <2>1. version + 1 \in Nat /\ read \in [Requests -> Nat]
      BY DEF CountType
    <2>2. read' \in [Requests -> Nat] /\ read'[e] = version + 1
      BY <1>1, <1>2, <2>1
    <2> QED
      BY <1>1, <1>3, <2>2 DEF CountType, Places
  <1>5. Open' = {e}
    BY <1>1, <1>3 DEF Open, Requests, Uncommitted
  <1>6. RowLockInv'
    BY <1>4, <1>5 DEF RowLockInv
  <1>7. KeyLockInv'
    BY <1>1, <1>3 DEF KeyLockInv, Requests, Locked, Uncommitted
  <1>8. OthersInv'
    <2>1. \A o \in Others : o \in Requests \ {e}
      BY OccAssumption DEF Requests
    <2>2. \A d \in committed : d \in Requests \ {e}
      BY <1>3 DEF OthersInv, CountType, Requests
    <2> QED
      BY <1>1, <1>3, <2>1, <2>2 DEF OthersInv, Requests
  <1>9. VersionCounts'
    BY <1>1 DEF VersionCounts
  <1> QED
    BY <1>4, <1>6, <1>7, <1>8, <1>9

\* Whoever commits stores the successor of the version that is there.
LEMMA CommitCounts ==
    ASSUME CountInv, NEW e \in Edits, Commit(e)
    PROVE  CountInv'
  <1> USE DEF CountInv
  <1>1. /\ Goto(e, "released", "done")
        /\ version' = read[e] /\ committed' = committed \cup {e}
        /\ UNCHANGED <<pkLock, read, outside>>
    BY DEF Commit, locks
  <1>2. e \in Requests /\ "done" \in Places
    BY DEF Requests, Places, Ended
  <1>3. /\ pc' \in [Requests -> Places]
        /\ pc[e] = "released" /\ pc'[e] = "done"
        /\ \A q \in Requests \ {e} : pc'[q] = pc[q]
    BY <1>1, <1>2, GotoType
  <1>4. e \in Open
    BY <1>3 DEF Open, Uncommitted
  <1>5. Open' = {}
    BY <1>3, <1>4 DEF RowLockInv, Open, Requests, Uncommitted
  <1>6. CountType'
    BY <1>1, <1>2, <1>3, FS_AddElement DEF CountType, Places
  <1>7. e \notin committed
    BY <1>3 DEF OthersInv
  <1>8. Cardinality(committed') = Cardinality(committed) + 1
    BY <1>1, <1>7, FS_AddElement DEF CountType
  <1>9. VersionCounts'
    <2>1. Cardinality(committed) \in Nat
      BY FS_CardinalityType DEF CountType
    <2>2. "board" \notin outside => version' = version + 1
      BY <1>1, <1>4 DEF RowLockInv
    <2> QED
      BY <1>1, <1>8, <2>1, <2>2 DEF VersionCounts, CountType
  <1>10. KeyLockInv'
    BY <1>1, <1>3 DEF KeyLockInv, Requests, Locked, Uncommitted
  <1>11. OthersInv'
    <2>1. \A o \in Others : o \in Requests \ {e}
      BY OccAssumption DEF Requests
    <2>2. \A d \in committed : d \in Requests \ {e}
      BY <1>7 DEF CountType, Requests
    <2> QED
      BY <1>1, <1>3, <2>1, <2>2 DEF OthersInv, Requests
  <1> QED
    BY <1>5, <1>6, <1>9, <1>10, <1>11 DEF RowLockInv

LEMMA AbortCounts ==
    ASSUME CountInv, NEW e \in Edits, Abort(e)
    PROVE  CountInv'
  <1> USE DEF CountInv
  <1>1. /\ pc[e] \in Uncommitted /\ Goto(e, pc[e], "aborted")
        /\ pkLock' = IF pkLock = e THEN None ELSE pkLock
        /\ UNCHANGED <<version, committed, read, outside>>
    BY DEF Abort, Goto, OthersInv
  <1>2. e \in Requests /\ e # None /\ "aborted" \in Places
    BY OccAssumption DEF Requests, Places, Ended
  <1>3. /\ pc' \in [Requests -> Places]
        /\ pc'[e] = "aborted"
        /\ \A q \in Requests \ {e} : pc'[q] = pc[q]
    BY <1>1, <1>2, GotoType
  <1>4. Open' \subseteq Open
    BY <1>3 DEF Open, Requests, Uncommitted
  <1>5. CountType'
    BY <1>1, <1>3 DEF CountType, Places
  <1>6. RowLockInv'
    BY <1>1, <1>4 DEF RowLockInv
  <1>7. KeyLockInv'
    <2> SUFFICES ASSUME NEW d \in Edits
                 PROVE  pc'[d] \in Locked <=> pkLock' = d
      BY <1>1 DEF KeyLockInv
    <2>1. d \in Requests /\ d # None /\ (pc[d] \in Locked <=> pkLock = d)
      BY OccAssumption DEF Requests, KeyLockInv
    <2>2. "aborted" \notin Locked
      BY DEF Locked, Uncommitted
    <2> QED
      BY <1>1, <1>2, <1>3, <2>1, <2>2
  <1>8. OthersInv'
    <2>1. \A o \in Others : o \in Requests \ {e}
      BY OccAssumption DEF Requests
    <2>2. \A d \in committed : d \in Requests \ {e}
      BY <1>1 DEF OthersInv, CountType, Requests, Uncommitted
    <2> QED
      BY <1>1, <1>3, <2>1, <2>2 DEF OthersInv, Requests
  <1>9. VersionCounts'
    BY <1>1 DEF VersionCounts
  <1> QED
    BY <1>5, <1>6, <1>7, <1>8, <1>9

\* One of the other requests.
OtherStep(o) ==
    BulkWrite(o) \/ BulkStep(o) \/ Abort(o) \/ BoardLoad(o) \/ BoardSave(o)

\* The other requests never have the key's lock; the task board, which stores the
\* version that it has read, excuses itself, and waits for the open transaction.
LEMMA OthersCount ==
    ASSUME CountInv, NEW o \in Others, OtherStep(o)
    PROVE  CountInv'
  <1> USE DEF CountInv
  <1>1. o \in Requests /\ o \notin Edits
    BY OccAssumption DEF Requests
  <1>2. PICK to \in {"bulk", "frozen", "noted", "board", "done", "aborted"} : Goto(o, pc[o], to)
    BY DEF OtherStep, BulkStep, BulkWrite, Freeze, Enter, BulkCommit, Abort, BoardLoad,
           BoardSave, Goto
  <1>3. to \in Places
    BY DEF Places, Ended, Uncommitted
  <1>4. /\ pc' \in [Requests -> Places] /\ pc'[o] = to
        /\ \A q \in Requests \ {o} : pc'[q] = pc[q]
    BY <1>1, <1>2, <1>3, GotoType
  <1>5. Open' = Open /\ \A e \in Edits : pc'[e] = pc[e]
    BY <1>1, <1>4 DEF Open, Requests
  <1>6. /\ UNCHANGED <<pkLock, committed>> /\ outside \subseteq outside'
        /\ \A e \in Edits : read'[e] = read[e]
        /\ read' \in [Requests -> Nat] /\ version' \in Nat
        /\ version' = version \/ "board" \in outside'
    <2>1. pkLock # o
      BY <1>1, OccAssumption DEF KeyLockInv
    <2> QED
      BY <1>1, <2>1 DEF OtherStep, BulkStep, BulkWrite, Freeze, Enter, BulkCommit, Abort, locks,
                        BoardLoad, BoardSave, CountType, Requests
  <1>7. CountType'
    BY <1>4, <1>6 DEF CountType, Places
  <1>8. RowLockInv'
    BY <1>5, <1>6 DEF RowLockInv, Open
  <1>9. KeyLockInv'
    BY <1>5, <1>6 DEF KeyLockInv
  <1>10. OthersInv'
    <2>1. \A e \in committed : e \in Edits
      BY DEF CountType
    <2>2. \A q \in Others : q \in Requests
      BY DEF Requests
    <2> QED
      BY <1>4, <1>5, <1>6, <2>1, <2>2 DEF OthersInv
  <1>11. VersionCounts'
    BY <1>6 DEF VersionCounts
  <1> QED
    BY <1>7, <1>8, <1>9, <1>10, <1>11

LEMMA CountInductive == CountInv /\ [Next]_vars => CountInv'
  <1> SUFFICES ASSUME CountInv, [Next]_vars PROVE CountInv'
    OBVIOUS
  <1>1. CASE UNCHANGED vars
    BY <1>1 DEF vars, locks, CountInv, CountType, RowLockInv, KeyLockInv, OthersInv,
                VersionCounts, Open
  <1>2. ASSUME NEW e \in Edits, Fetch(e) \/ EditStep(e) \/ Abort(e)
        PROVE  CountInv'
    BY <1>2, FetchCounts, LoadCounts, LockCounts, ReadVersionCounts, CheckCounts,
       SaveCounts, FreezeCounts, EnterCounts, ReleaseCounts, CommitCounts, AbortCounts
       DEF EditStep
  <1> QED
    BY <1>1, <1>2, OthersCount DEF Next, OtherStep, Requests

\* For any number of edits, bulk requests and fields the version counts the
\* committed edits, unless the task board has written: two edits may overlap
\* after the key's lock has been given back, the row's lock still orders them.
THEOREM VersionCountsHolds == Spec => []VersionCounts
  <1>1. CountInv => VersionCounts
    BY DEF CountInv
  <1> QED
    BY InitCount, CountInductive, <1>1, PTL DEF Spec

-----------------------------------------------------------------------------
(* Snapshots *)

\* A set of places has a last one.
LEMMA LastOne ==
    ASSUME NEW n \in Nat, NEW T \in SUBSET (1..n), T # {}
    PROVE  \E m \in T : \A j \in T : j <= m
  <1> DEFINE After(j) == {k \in T : k > j}
             Tails == {After(j) : j \in T}
  <1>1. IsFiniteSet(1..n)
    BY FS_Interval
  <1>2. \A A \in SUBSET (1..n) : A \in FiniteSubsetsOf(1..n)
    BY <1>1, FS_Subset DEF FiniteSubsetsOf
  <1>3. Tails \subseteq FiniteSubsetsOf(1..n) /\ Tails # {}
    BY <1>2
  <1>4. PICK A \in Tails : \A B \in Tails : <<B, A>> \notin StrictSubsetOrdering(1..n)
    <2>1. IsWellFoundedOn(StrictSubsetOrdering(1..n), FiniteSubsetsOf(1..n))
      BY <1>1, FS_StrictSubsetOrderingWellFounded
    <2> HIDE DEF Tails
    <2> QED
      BY <1>3, <2>1, WFMin
  <1>5. PICK m \in T : A = After(m)
    BY <1>4
  <1>6. ASSUME NEW j \in T, ~(j <= m) PROVE FALSE
    <2>1. j \in Int /\ m \in Int /\ j > m /\ ~(j > j)
      BY <1>6
    <2>2. \A i \in T : After(i) \in SUBSET (1..n)
      OBVIOUS
    <2>3. j \in After(m) /\ j \notin After(j)
      BY <2>1
    <2>4. ASSUME NEW k \in After(j) PROVE k \in After(m)
      <3>1. k \in 1..n /\ k \in T /\ k > j
        OBVIOUS
      <3> QED
        BY <2>1, <3>1
    <2>5. <<After(j), After(m)>> \in StrictSubsetOrdering(1..n)
      BY <2>2, <2>3, <2>4 DEF StrictSubsetOrdering
    <2> QED
      BY <1>4, <1>5, <2>5
  <1> QED
    BY <1>6

\* The places among some where an entry has the field, and the last of them.
With(entries, at, f) == {i \in at : f \in DOMAIN entries[i].diff}
Last(places) == CHOOSE i \in places : \A j \in places : j <= i

LEMMA SnapshotField ==
    ASSUME NEW entries, NEW at, NEW f \in Fields
    PROVE  Snapshot(entries, at)[f] =
               IF With(entries, at, f) = {} THEN None
               ELSE entries[Last(With(entries, at, f))].diff[f]
  BY DEF Snapshot, With, Last

LEMMA LastWith ==
    ASSUME NEW n \in Nat, NEW entries, NEW at \in SUBSET (1..n), NEW f,
           With(entries, at, f) # {}
    PROVE  /\ Last(With(entries, at, f)) \in With(entries, at, f)
           /\ \A j \in With(entries, at, f) : j <= Last(With(entries, at, f))
  <1>1. With(entries, at, f) \in SUBSET (1..n)
    BY DEF With
  <1>2. \E m \in With(entries, at, f) : \A j \in With(entries, at, f) : j <= m
    BY <1>1, LastOne
  <1> QED
    BY <1>2 DEF Last

\* Two snapshots are the same when they agree on every field.
LEMMA SnapshotEqual ==
    ASSUME NEW entries, NEW at, NEW new, new = [f \in Fields |-> new[f]],
           \A f \in Fields : Snapshot(entries, at)[f] = new[f]
    PROVE  Snapshot(entries, at) = new
  <1>1. Snapshot(entries, at) = [f \in Fields |-> Snapshot(entries, at)[f]]
    BY DEF Snapshot
  <1> QED
    BY <1>1

Values == Requests \cup {None}
Entry == [by : Requests, diff : UNION {[F -> Values] : F \in (SUBSET Fields) \ {{}}}]

\* A snapshot depends on the entries at its places only.
LEMMA SnapshotSame ==
    ASSUME NEW a \in Seq(Entry), NEW b, NEW at \in SUBSET (1..Len(a)), \A i \in at : a[i] = b[i]
    PROVE  Snapshot(a, at) = Snapshot(b, at)
  <1>1. ASSUME NEW f \in Fields PROVE Snapshot(a, at)[f] = Snapshot(b, at)[f]
    <2>1. With(a, at, f) = With(b, at, f) /\ With(a, at, f) \subseteq at
      BY DEF With
    <2>2. CASE With(a, at, f) = {}
      BY <2>1, <2>2, SnapshotField
    <2>3. CASE With(a, at, f) # {}
      <3>1. Last(With(a, at, f)) \in With(a, at, f)
        <4>1. Len(a) \in Nat
          OBVIOUS
        <4> QED
          BY <2>3, <4>1, LastWith
      <3>2. Snapshot(a, at)[f] = a[Last(With(a, at, f))].diff[f]
        BY <2>3, SnapshotField
      <3>3. Snapshot(b, at)[f] = b[Last(With(a, at, f))].diff[f]
        BY <2>1, <2>3, SnapshotField
      <3> QED
        BY <2>1, <3>1, <3>2, <3>3
    <2> QED
      BY <2>2, <2>3
  <1>2. Snapshot(b, at) = [f \in Fields |-> Snapshot(b, at)[f]]
    BY DEF Snapshot
  <1> QED
    BY <1>1, <1>2, SnapshotEqual

\* Without the places that do not have the field it shows the same there.
LEMMA SnapshotWithout ==
    ASSUME NEW entries, NEW at, NEW less, NEW f \in Fields,
           less \subseteq at, \A i \in at \ less : f \notin DOMAIN entries[i].diff
    PROVE  Snapshot(entries, less)[f] = Snapshot(entries, at)[f]
  <1>1. With(entries, less, f) = With(entries, at, f)
    BY DEF With
  <1> QED
    BY <1>1, SnapshotField

\* take_snapshot appends nothing or one entry, with the fields that differ.
LEMMA EntriesType ==
    ASSUME NEW r \in Requests, NEW new \in Rows, NEW old
    PROVE  LET changed == {f \in Fields : new[f] # old[f]}
           IN  \/ changed = {} /\ Entries(r, new, old) = <<>>
               \/ /\ changed # {}
                  /\ \E x \in Entry : /\ Entries(r, new, old) = <<x>>
                                      /\ x.by = r /\ DOMAIN x.diff = changed
                                      /\ \A f \in changed : x.diff[f] = new[f]
  <1> DEFINE changed == {f \in Fields : new[f] # old[f]}
             x == [by |-> r, diff |-> [f \in changed |-> new[f]]]
  <1>1. CASE changed = {}
    BY <1>1 DEF Entries
  <1>2. CASE changed # {}
    <2>1. Entries(r, new, old) = <<x>>
      BY <1>2 DEF Entries
    <2>2. \A f \in changed : new[f] \in Values
      BY DEF Rows, Values
    <2>3. changed \in (SUBSET Fields) \ {{}} /\ [f \in changed |-> new[f]] \in [changed -> Values]
      BY <1>2, <2>2
    <2>4. x \in Entry
      BY <2>3 DEF Entry
    <2> QED
      BY <1>2, <2>1, <2>4
  <1> QED
    BY <1>1, <1>2

\* The entry for what differs between a snapshot and a row, behind the others, and
\* the places with its own.
Appended(all, entries, at, r, new) == all = entries \o Entries(r, new, Snapshot(entries, at))
Later(entries, all) == Len(entries) + 1 .. Len(all)

Grown(all, entries, at, r, new) ==
    /\ all \in Seq(Entry)
    /\ Len(all) \in {Len(entries), Len(entries) + 1}
    /\ \A i \in 1..Len(entries) : all[i] = entries[i]
    /\ Len(all) = Len(entries) + 1 => all[Len(all)].by = r
    /\ Snapshot(all, at \cup Later(entries, all)) = new

\* The others stay where they are, and with the new entry the snapshot is the row.
LEMMA SnapshotNext ==
    ASSUME NEW entries \in Seq(Entry), NEW at \in SUBSET (1..Len(entries)),
           NEW r \in Requests, NEW new \in Rows,
           NEW all, Appended(all, entries, at, r, new)
    PROVE  Grown(all, entries, at, r, new)
  <1> USE DEF Grown
  <1> DEFINE n == Len(entries)
  <1>0. PICK changed : changed = {f \in Fields : new[f] # Snapshot(entries, at)[f]}
    OBVIOUS
  <1>1. n \in Nat /\ new = [f \in Fields |-> new[f]] /\ at \in SUBSET (1..n)
    BY DEF Rows
  <1>2. all = entries \o Entries(r, new, Snapshot(entries, at))
    BY DEF Appended
  <1>3. CASE changed = {} /\ Entries(r, new, Snapshot(entries, at)) = <<>>
    <2>1. all = entries
      BY <1>3, <1>2
    <2>2. at \cup Later(entries, all) = at
      BY <1>1, <2>1 DEF Later
    <2>3. \A f \in Fields : Snapshot(entries, at)[f] = new[f]
      BY <1>0, <1>3
    <2>4. Snapshot(entries, at) = new
      BY <1>1, <2>3, SnapshotEqual
    <2>5. Snapshot(all, at \cup Later(entries, all)) = new
      BY <2>1, <2>2, <2>4
    <2>6. Len(all) = n /\ Len(all) # n + 1
      BY <1>1, <2>1
    <2> QED
      BY <2>1, <2>5, <2>6
  <1>4. CASE \E x \in Entry : /\ Entries(r, new, Snapshot(entries, at)) = <<x>>
                              /\ x.by = r /\ DOMAIN x.diff = changed
                              /\ \A f \in changed : x.diff[f] = new[f]
    <2>1. PICK x \in Entry : /\ Entries(r, new, Snapshot(entries, at)) = <<x>>
                             /\ x.by = r /\ DOMAIN x.diff = changed
                             /\ \A f \in changed : x.diff[f] = new[f]
      BY <1>4
    <2>2. /\ all \in Seq(Entry) /\ Len(all) = n + 1
          /\ \A i \in 1..n : all[i] = entries[i]
          /\ all[n + 1] = x
      BY <1>2, <2>1
    <2>3. Later(entries, all) = {n + 1}
      BY <1>1, <2>2 DEF Later
    <2> DEFINE more == at \cup {n + 1}
    <2>4. Snapshot(all, at) = Snapshot(entries, at)
      <3>1. \A i \in at : all[i] = entries[i]
        BY <1>1, <2>2
      <3> QED
        BY <3>1, SnapshotSame
    <2>5. more \in SUBSET (1..(n + 1)) /\ n + 1 \in Nat
      BY <1>1
    <2> HIDE DEF n
    <2>6. ASSUME NEW f \in Fields PROVE Snapshot(all, more)[f] = new[f]
      <3>1. CASE f \in changed
        <4>1. n + 1 \in With(all, more, f)
          BY <2>1, <2>2, <3>1 DEF With
        <4> HIDE DEF more
        <4>2. Last(With(all, more, f)) \in With(all, more, f)
          BY <2>5, <4>1, LastWith
        <4>3. n + 1 <= Last(With(all, more, f))
          BY <2>5, <4>1, LastWith
        <4>4. Last(With(all, more, f)) \in 1..(n + 1)
          BY <2>5, <4>2 DEF With
        <4>5. Last(With(all, more, f)) = n + 1
          BY <2>5, <4>3, <4>4
        <4>6. With(all, more, f) # {}
          BY <4>1
        <4>7. Snapshot(all, more)[f] = all[Last(With(all, more, f))].diff[f]
          BY <4>6, SnapshotField
        <4> QED
          BY <2>1, <2>2, <3>1, <4>5, <4>7
      <3>2. CASE f \notin changed
        <4>1. \A i \in more \ at : f \notin DOMAIN all[i].diff
          BY <2>1, <2>2, <3>2
        <4>2. at \subseteq more
          OBVIOUS
        <4> HIDE DEF more
        <4>3. Snapshot(all, at)[f] = Snapshot(all, more)[f]
          BY <4>1, <4>2, SnapshotWithout
        <4> QED
          BY <1>0, <2>4, <3>2, <4>3
      <3> QED
        BY <3>1, <3>2
    <2>7. Snapshot(all, more) = new
      <3> HIDE DEF more
      <3> QED
        BY <1>1, <2>6, SnapshotEqual
    <2> QED
      BY <2>1, <2>2, <2>3, <2>7 DEF n
  <1>5. \/ changed = {} /\ Entries(r, new, Snapshot(entries, at)) = <<>>
        \/ \E x \in Entry : /\ Entries(r, new, Snapshot(entries, at)) = <<x>>
                            /\ x.by = r /\ DOMAIN x.diff = changed
                            /\ \A f \in changed : x.diff[f] = new[f]
    BY <1>0, EntriesType
  <1> QED
    BY <1>3, <1>4, <1>5

-----------------------------------------------------------------------------
(* Who writes into the history *)

\* From the row that a request reads for its entry to the end of its transaction.
Noting == {"noted", "released"}
Entering == {"frozen"} \cup Noting

\* The history's lock is with the request that has frozen the row; outside the gap
\* one request at a time is entering.
QueueInv ==
    /\ \A r \in Requests : pc[r] = "frozen" <=> historyLock = r
    /\ "gap" \notin outside =>
           \A q, r \in Requests : pc[q] \in Entering /\ pc[r] \in Entering => q = r

LEMMA InitQueue == Init => QueueInv
  BY OccAssumption DEF Init, QueueInv, Requests, Entering, Noting

LEMMA QueueInductive == CountType /\ QueueInv /\ [Next]_vars => QueueInv'
  <1> SUFFICES ASSUME CountType, QueueInv, [Next]_vars PROVE QueueInv'
    OBVIOUS
  <1>1. /\ None \notin Requests /\ Edits \subseteq Requests /\ Others \subseteq Requests
        /\ pc \in [Requests -> Places]
    BY OccAssumption DEF Requests, CountType, Places
  <1>2. CASE UNCHANGED vars
    BY <1>2 DEF vars, locks, QueueInv
  <1>3. ASSUME NEW r \in Requests, NEW from, NEW to \in Places, Goto(r, from, to),
               from # "frozen", to # "frozen", to \in Entering => from \in Entering,
               UNCHANGED historyLock, outside \subseteq outside'
        PROVE  QueueInv'
    <2>1. pc[r] = from /\ pc'[r] = to /\ \A q \in Requests \ {r} : pc'[q] = pc[q]
      BY <1>3, GotoType
    <2>2. \A q \in Requests : /\ pc'[q] = "frozen" <=> pc[q] = "frozen"
                              /\ pc'[q] \in Entering => pc[q] \in Entering
      BY <1>3, <2>1
    <2> QED
      BY <1>3, <2>2 DEF QueueInv
  <1>4. ASSUME NEW r \in Requests, Enter(r) PROVE QueueInv'
    <2>1. /\ pc[r] = "frozen" /\ pc'[r] = "noted"
          /\ \A q \in Requests \ {r} : pc'[q] = pc[q]
      BY <1>1, <1>4 DEF Enter, Goto
    <2>2. historyLock' = None /\ outside' = outside
      BY <1>4 DEF Enter
    <2>3. \A q \in Requests : pc'[q] # "frozen"
      BY <2>1 DEF QueueInv
    <2>4. \A q \in Requests : pc'[q] \in Entering => pc[q] \in Entering
      BY <2>1 DEF Entering
    <2> QED
      BY <1>1, <2>2, <2>3, <2>4 DEF QueueInv
  <1>5. ASSUME NEW r \in Requests, Freeze(r) PROVE QueueInv'
    <2>1. pc'[r] = "frozen" /\ \A q \in Requests \ {r} : pc'[q] = pc[q]
      BY <1>1, <1>5 DEF Freeze, Goto
    <2>2. historyLock = None /\ historyLock' = r
      BY <1>5 DEF Freeze
    <2>3. \A q \in Requests : pc[q] # "frozen"
      BY <1>1, <2>2 DEF QueueInv
    <2>4. "gap" \notin outside' => \A q \in Requests : pc[q] \notin Entering
      BY <1>5, <2>3 DEF Freeze, Entering, Noting
    <2> QED
      BY <2>1, <2>2, <2>3, <2>4 DEF QueueInv
  <1>6. ASSUME NEW r \in Requests, Abort(r) PROVE QueueInv'
    <2>1. pc'[r] = "aborted" /\ \A q \in Requests \ {r} : pc'[q] = pc[q]
      BY <1>1, <1>6 DEF Abort
    <2>2. historyLock' = (IF historyLock = r THEN None ELSE historyLock) /\ outside' = outside
      BY <1>6 DEF Abort
    <2>3. \A q \in Requests : pc'[q] \in Entering => pc[q] \in Entering
      BY <2>1 DEF Entering, Noting
    <2> QED
      BY <1>1, <2>1, <2>2, <2>3 DEF QueueInv
  <1>7. ASSUME NEW e \in Edits, Fetch(e) \/ EditStep(e), ~Freeze(e), ~Enter(e)
        PROVE  QueueInv'
    <2>1. UNCHANGED historyLock /\ outside \subseteq outside'
      BY <1>7 DEF EditStep, Fetch, Load, Lock, ReadVersion, Check, Save, Release, Commit, locks
    <2>2. PICK from, to : /\ Goto(e, from, to) /\ to \in Places
                          /\ from # "frozen" /\ to # "frozen"
                          /\ to \in Entering => from \in Entering
      BY <1>7 DEF EditStep, Fetch, Load, Lock, ReadVersion, Check, Save, Release, Commit,
                  Places, Locked, Uncommitted, Ended, Entering, Noting
    <2> QED
      BY <1>1, <1>3, <2>1, <2>2
  <1>8. ASSUME NEW o \in Others, BulkWrite(o) \/ BulkCommit(o) \/ BoardLoad(o) \/ BoardSave(o)
        PROVE  QueueInv'
    <2>1. UNCHANGED historyLock /\ outside \subseteq outside'
      BY <1>8 DEF BulkWrite, BulkCommit, BoardLoad, BoardSave, locks
    <2>2. PICK from, to : /\ Goto(o, from, to) /\ to \in Places
                          /\ from # "frozen" /\ to # "frozen"
                          /\ to \in Entering => from \in Entering
      BY <1>8 DEF BulkWrite, BulkCommit, BoardLoad, BoardSave,
                  Places, Locked, Uncommitted, Ended, Entering, Noting
    <2> QED
      BY <1>1, <1>3, <2>1, <2>2
  <1> QED
    BY <1>1, <1>2, <1>4, <1>5, <1>6, <1>7, <1>8 DEF Next, EditStep, BulkStep

-----------------------------------------------------------------------------
(* The invariant of the history *)

HistType ==
    /\ row \in Rows /\ history \in Seq(Entry)
    /\ known \in [Edits -> [version : Nat, row : Rows]]
    /\ fields \in [Edits -> SUBSET Fields] /\ same \subseteq Edits
    /\ object \in [Requests -> Rows]
    /\ overlapped \subseteq Edits /\ outside \subseteq {"board", "bulk", "gap"}

\* The entries of r.
Own(r) == {i \in DOMAIN history : history[i].by = r}

Calm == {"start", "board", "done"}
Hidden == Uncommitted \cup {"aborted"}
Written == Noting \cup {"aborted", "done"}
Reading == {"fetched", "loaded", "locked", "versioned", "accepted"}

\* A request has entries only once they are noted, and outside the gap those of an
\* open transaction are the last ones.
OwnInv ==
    /\ \A r \in Requests : pc[r] \notin Written => Own(r) = {}
    /\ "gap" \notin outside =>
           \A r \in Requests : pc[r] \in Noting => \A i \in Own(r) : i = Len(history)
    /\ Settled \/ "bulk" \in outside

\* The visible entries rebuild the row that is stored, and with those of an open
\* transaction the row that it has in hand, which a bulk request has read after
\* all the others.
SnapshotInv ==
    outside \cap {"board", "gap"} = {} =>
        /\ Settled => Snapshot(history, Visible) = row
        /\ \A r \in Requests : pc[r] \in Noting =>
               Snapshot(history, Visible \cup Own(r)) = object[r]
        /\ \A b \in Others : pc[b] \in Entering /\ (\A o \in Others \ {b} : pc[o] \in Calm) =>
               object[b] = row

\* Nobody writes the row while an edit that does not overlap has the lock.
AloneInv ==
    \A e \in Edits \ overlapped :
        pc[e] \in {"locked", "versioned", "accepted"} =>
            /\ Open = {}
            /\ pc[e] # "locked" /\ outside = {} => read[e] = version

\* What an edit's client has read is what the visible ones of the first p entries
\* rebuild, and since then the version has grown with every visible entry.
Since(e, p) ==
    /\ known[e].row = Snapshot(history, Visible \cap (1..p))
    /\ \A d \in Open : \A i \in Own(d) : i > p
    /\ known[e].version + Cardinality({k \in Visible : k > p}) <= version

SinceInv ==
    outside = {} =>
        \A e \in Edits : pc[e] \in Reading => \E p \in 0..Len(history) : Since(e, p)

HistInv ==
    HistType /\ QueueInv /\ OwnInv /\ SnapshotInv /\ AloneInv /\ SinceInv /\ ConflictRefused

-----------------------------------------------------------------------------
(* What a step leaves visible *)

LEMMA EditsAreRequests ==
    /\ Edits \subseteq Requests /\ Others \subseteq Requests
    /\ \A o \in Others : o \in Requests /\ o \notin Edits
    /\ \A r \in Requests : r \in Edits \/ r \in Others
  BY OccAssumption DEF Requests

LEMMA PlacesOfHistory ==
    ASSUME HistType
    PROVE  /\ Len(history) \in Nat /\ DOMAIN history = 1..Len(history)
           /\ \A i \in DOMAIN history : history[i].by \in Requests
           /\ Visible \in SUBSET (1..Len(history))
  <1>1. history \in Seq(Entry)
    BY DEF HistType
  <1>2. Len(history) \in Nat /\ DOMAIN history = 1..Len(history)
    BY <1>1
  <1>3. \A i \in DOMAIN history : history[i] \in Entry
    BY <1>1
  <1>4. \A x \in Entry : x.by \in Requests
    BY DEF Entry
  <1> QED
    BY <1>2, <1>3, <1>4 DEF Visible

\* A request moves on, and its entries, if there are any, stay as visible as they
\* were.
LEMMA Unnoticed ==
    ASSUME CountType, HistType, OwnInv, NEW r \in Requests, NEW to \in Places,
           Goto(r, pc[r], to), UNCHANGED history,
           pc[r] \notin Written \/ (pc[r] \in Noting /\ to \in Hidden)
    PROVE  Visible' = Visible /\ \A q \in Requests : Own(q)' = Own(q)
  <1>1. pc'[r] = to /\ \A q \in Requests \ {r} : pc'[q] = pc[q]
    BY GotoType
  <1>2. \A i \in DOMAIN history : history[i].by \in Requests
    BY PlacesOfHistory
  <1>3. CASE pc[r] \notin Written
    <2>1. \A i \in DOMAIN history : history[i].by \in Requests \ {r}
      BY <1>2, <1>3 DEF OwnInv, Own
    <2> QED
      BY <1>1, <2>1 DEF Visible, Own
  <1>4. CASE pc[r] \in Noting /\ to \in Hidden
    <2>1. pc[r] \in Hidden
      BY <1>4 DEF Noting, Hidden, Uncommitted
    <2> QED
      BY <1>1, <1>2, <1>4, <2>1 DEF Visible, Own, Hidden
  <1> QED
    BY <1>3, <1>4

\* A commit makes the entries of its transaction visible.
LEMMA Shown ==
    ASSUME CountType, HistType, NEW r \in Requests, pc[r] \in Noting,
           Goto(r, pc[r], "done"), UNCHANGED history
    PROVE  /\ Visible' = Visible \cup Own(r)
           /\ \A q \in Requests : Own(q)' = Own(q)
           /\ pc'[r] = "done" /\ \A q \in Requests \ {r} : pc'[q] = pc[q]
  <1>1. "done" \in Places /\ "done" \notin Hidden
    BY DEF Places, Ended, Hidden, Uncommitted
  <1>2. pc'[r] = "done" /\ \A q \in Requests \ {r} : pc'[q] = pc[q]
    BY <1>1, GotoType
  <1>3. \A i \in DOMAIN history : history[i].by \in Requests
    BY PlacesOfHistory
  <1>4. pc[r] \in Hidden
    BY DEF Noting, Hidden, Uncommitted
  <1> QED
    BY <1>1, <1>2, <1>3, <1>4 DEF Visible, Own, Hidden

\* A request puts its entry behind the others, where nobody sees it yet.
LEMMA EnterGrows ==
    ASSUME CountType, HistType, OwnInv, NEW r \in Requests, Enter(r)
    PROVE  LET n == Len(history)
               later == Later(history, history')
           IN  /\ history' \in Seq(Entry)
               /\ Len(history') \in {n, n + 1}
               /\ \A i \in 1..n : history'[i] = history[i]
               /\ \A q \in Requests \ {r} : Own(q)' = Own(q)
               /\ Own(r)' = later /\ Visible' = Visible
               /\ Snapshot(history', Visible \cup later) = object[r]
               /\ Snapshot(history', Visible) = Snapshot(history, Visible)
               /\ pc[r] = "frozen" /\ pc'[r] = "noted"
               /\ \A q \in Requests \ {r} : pc'[q] = pc[q]
  <1> DEFINE n == Len(history)
             later == Later(history, history')
  <1>1. /\ n \in Nat /\ DOMAIN history = 1..n /\ history \in Seq(Entry)
        /\ \A i \in DOMAIN history : history[i].by \in Requests
        /\ Visible \in SUBSET (1..n)
    BY PlacesOfHistory DEF HistType
  <1>2. object[r] \in Rows /\ Appended(history', history, Visible, r, object[r])
    BY DEF HistType, Enter, Appended
  <1>3. /\ history' \in Seq(Entry)
        /\ Len(history') \in {n, n + 1}
        /\ \A i \in 1..n : history'[i] = history[i]
        /\ Len(history') = n + 1 => history'[Len(history')].by = r
        /\ Snapshot(history', Visible \cup later) = object[r]
    <2>1. history \in Seq(Entry) /\ Visible \in SUBSET (1..Len(history))
      BY <1>1
    <2> HIDE DEF n, later
    <2>2. Grown(history', history, Visible, r, object[r])
      BY <1>2, <2>1, SnapshotNext
    <2> QED
      BY <2>2 DEF n, later, Grown
  <1>4. later = n + 1 .. Len(history')
    BY DEF Later
  <1>5. DOMAIN history' = DOMAIN history \cup later /\ DOMAIN history \cap later = {}
    <2>1. DOMAIN history' = 1..Len(history')
      BY <1>3
    <2>2. PICK m : m = Len(history') /\ m \in {n, n + 1}
      BY <1>3
    <2>3. 1..m = (1..n) \cup (n + 1 .. m) /\ (1..n) \cap (n + 1 .. m) = {}
      BY <1>1, <2>2
    <2> QED
      BY <1>1, <1>4, <2>1, <2>2, <2>3
  <1>6. \A i \in later : history'[i].by = r
    <2>1. \A i \in later : i = Len(history') /\ Len(history') = n + 1
      BY <1>1, <1>3, <1>4
    <2> QED
      BY <1>3, <2>1
  <1>7. /\ pc[r] = "frozen" /\ pc'[r] = "noted"
        /\ \A q \in Requests \ {r} : pc'[q] = pc[q]
    <2>1. Goto(r, "frozen", "noted") /\ "noted" \in Places
      BY DEF Enter, Places, Uncommitted
    <2> QED
      BY <2>1, GotoType
  <1>8. Own(r) = {}
    BY <1>7 DEF OwnInv, Written, Noting
  <1>9. (\A q \in Requests \ {r} : Own(q)' = Own(q)) /\ Own(r)' = later
    BY <1>1, <1>3, <1>5, <1>6, <1>8 DEF Own
  <1>10. Visible' = Visible
    <2>1. \A i \in DOMAIN history : history[i].by \in Requests \ {r}
      BY <1>1, <1>8 DEF Own
    <2>2. \A i \in later : pc'[history'[i].by] = "noted"
      BY <1>6, <1>7
    <2> QED
      BY <1>1, <1>3, <1>5, <1>7, <2>1, <2>2 DEF Visible, Uncommitted
  <1>11. Snapshot(history', Visible) = Snapshot(history, Visible)
    <2>1. \A i \in Visible : history[i] = history'[i]
      BY <1>1, <1>3
    <2> QED
      BY <1>1, <2>1, SnapshotSame
  <1> QED
    BY <1>3, <1>7, <1>9, <1>10, <1>11

\* A step of an edit that leaves the row and the history alone.
Quiet(e) ==
    Fetch(e) \/ Load(e) \/ Lock(e) \/ ReadVersion(e) \/ Check(e) \/ Freeze(e) \/ Release(e)

LEMMA QuietSees ==
    ASSUME CountInv, HistType, OwnInv, NEW e \in Edits, Quiet(e)
    PROVE  /\ Visible' = Visible /\ Open' = Open
           /\ \A q \in Requests : Own(q)' = Own(q)
           /\ UNCHANGED <<history, row, version>> /\ outside \subseteq outside'
           /\ \A q \in Requests \ {e} : pc'[q] = pc[q]
           /\ pc[e] \in Written <=> pc'[e] \in Written
           /\ pc'[e] \in Noting => pc[e] \in Noting
           /\ \A r \in Requests : pc[r] # "fetched" => object'[r] = object[r]
  <1> DEFINE P == {"start", "fetched", "loaded", "locked", "versioned", "accepted", "refused"}
  <1>1. e \in Requests
    BY EditsAreRequests
  <1>2. UNCHANGED <<history, row, version>> /\ outside \subseteq outside'
    BY DEF Quiet, Fetch, Load, Lock, ReadVersion, Check, Freeze, Release
  <1>3. PICK from, to : /\ Goto(e, from, to)
                        /\ \/ from \in P /\ to \in P
                           \/ from = "saved" /\ to = "frozen"
                           \/ from = "noted" /\ to = "released"
    BY DEF Quiet, Fetch, Load, Lock, ReadVersion, Check, Freeze, BeforeSnapshot, Release
  <1>4. /\ to \in Places
        /\ from \in Uncommitted <=> to \in Uncommitted
        /\ from \in Written <=> to \in Written
        /\ to \in Noting => from \in Noting
        /\ from \notin Written \/ (from \in Noting /\ to \in Hidden)
    BY <1>3 DEF Places, Locked, Ended, Hidden, Written, Noting, Uncommitted
  <1>5. /\ pc[e] = from /\ pc'[e] = to
        /\ \A q \in Requests \ {e} : pc'[q] = pc[q]
    BY <1>1, <1>3, <1>4, GotoType DEF CountInv
  <1>6. Open' = Open
    BY <1>1, <1>3, <1>4, GotoOutside DEF CountInv
  <1>7. Visible' = Visible /\ \A q \in Requests : Own(q)' = Own(q)
    BY <1>1, <1>2, <1>3, <1>4, <1>5, Unnoticed DEF CountInv
  <1>8. \A r \in Requests : pc[r] # "fetched" => object'[r] = object[r]
    <2>1. CASE Load(e)
      BY <2>1 DEF Load, Goto, HistType
    <2>2. CASE Freeze(e)
      BY <2>2 DEF Freeze
    <2> QED
      BY <2>1, <2>2 DEF Quiet, Fetch, Lock, ReadVersion, Check, Release
  <1> QED
    BY <1>2, <1>4, <1>5, <1>6, <1>7, <1>8

LEMMA SaveSees ==
    ASSUME CountInv, HistType, OwnInv, NEW e \in Edits, Save(e)
    PROVE  /\ Visible' = Visible /\ Open' = {e} /\ Own(e)' = {}
           /\ \A q \in Requests : Own(q)' = Own(q)
           /\ pc[e] = "accepted" /\ pc'[e] = "saved"
           /\ \A q \in Requests \ {e} : pc'[q] = pc[q] /\ object'[q] = object[q]
           /\ object' \in [Requests -> Rows]
           /\ UNCHANGED <<history, row, version, request, overlapped, outside>>
  <1>1. e \in Requests
    BY EditsAreRequests
  <1>2. /\ Goto(e, "accepted", "saved") /\ Open = {}
        /\ object' = [object EXCEPT ![e] = Sent(e)]
        /\ UNCHANGED <<history, row, version, request, overlapped, outside>>
    BY DEF Save, locks
  <1>3. "saved" \in Places /\ "accepted" \notin Written
    BY DEF Places, Uncommitted, Written, Noting
  <1>4. /\ pc[e] = "accepted" /\ pc'[e] = "saved"
        /\ \A q \in Requests \ {e} : pc'[q] = pc[q]
    BY <1>1, <1>2, <1>3, GotoType DEF CountInv
  <1>5. Visible' = Visible /\ \A q \in Requests : Own(q)' = Own(q)
    BY <1>1, <1>2, <1>3, <1>4, Unnoticed DEF CountInv
  <1>6. Open' = {e}
    BY <1>2, <1>4, EditsAreRequests DEF Open, Uncommitted
  <1>7. Own(e) = {}
    BY <1>1, <1>3, <1>4 DEF OwnInv
  <1>8. Sent(e) \in Rows
    <2>1. object[e] \in Rows /\ known[e].row \in Rows
      BY <1>1 DEF HistType
    <2> QED
      BY <1>1, <2>1 DEF Sent, Rows
  <1>9. /\ object' \in [Requests -> Rows]
        /\ \A q \in Requests \ {e} : object'[q] = object[q]
    BY <1>1, <1>2, <1>8 DEF HistType
  <1> QED
    BY <1>1, <1>2, <1>4, <1>5, <1>6, <1>7, <1>9

\* A transaction of an edit ends, which was the only one; a commit makes its entries
\* visible.
LEMMA EndSees ==
    ASSUME CountInv, HistType, OwnInv, NEW e \in Edits, Commit(e) \/ Abort(e)
    PROVE  /\ Open = {e} /\ Open' = {}
           /\ UNCHANGED <<history, known, fields, object, read, overlapped, outside>>
           /\ \A q \in Requests : Own(q)' = Own(q)
           /\ Visible' = IF Commit(e) THEN Visible \cup Own(e) ELSE Visible
           /\ pc'[e] = IF Commit(e) THEN "done" ELSE "aborted"
           /\ pc'[e] \in {"done", "aborted"}
           /\ Commit(e) => pc[e] = "released"
           /\ \A q \in Requests \ {e} : pc'[q] = pc[q]
  <1>1. e \in Requests
    BY EditsAreRequests
  <1>2. UNCHANGED <<history, known, fields, object, read, overlapped, outside>>
    BY DEF Commit, Abort, request
  <1>3. CASE Commit(e)
    <2>1. Goto(e, pc[e], "done") /\ pc[e] = "released"
      BY <1>3 DEF Commit, Goto
    <2>2. pc[e] \in Noting /\ e \in Open
      BY <2>1 DEF Noting, Open, Uncommitted
    <2>3. /\ Visible' = Visible \cup Own(e)
          /\ \A q \in Requests : Own(q)' = Own(q)
          /\ pc'[e] = "done" /\ \A q \in Requests \ {e} : pc'[q] = pc[q]
      BY <1>1, <1>2, <2>1, <2>2, Shown DEF CountInv
    <2>4. Open = {e} /\ Open' = {}
      BY <2>2, <2>3, EditsAreRequests DEF CountInv, RowLockInv, Open, Uncommitted
    <2> QED
      BY <1>2, <1>3, <2>1, <2>3, <2>4
  <1>4. CASE ~Commit(e)
    <2>1. Goto(e, pc[e], "aborted") /\ pc[e] \in Uncommitted
      BY <1>4 DEF Abort, Goto, CountInv, OthersInv
    <2>2. /\ "aborted" \in Places
          /\ pc[e] \notin Written \/ (pc[e] \in Noting /\ "aborted" \in Hidden)
      BY <2>1 DEF Places, Ended, Written, Noting, Hidden, Uncommitted
    <2>3. Visible' = Visible /\ \A q \in Requests : Own(q)' = Own(q)
      BY <1>1, <1>2, <2>1, <2>2, Unnoticed DEF CountInv
    <2>4. pc'[e] = "aborted" /\ \A q \in Requests \ {e} : pc'[q] = pc[q]
      BY <1>1, <2>1, <2>2, GotoType DEF CountInv
    <2>5. e \in Open
      BY <2>1 DEF Open
    <2>6. Open = {e} /\ Open' = {}
      BY <2>4, <2>5, EditsAreRequests DEF CountInv, RowLockInv, Open, Uncommitted
    <2> QED
      BY <1>2, <1>4, <2>3, <2>4, <2>6
  <1> QED
    BY <1>3, <1>4

LEMMA OthersMove ==
    ASSUME CountInv, HistType, NEW o \in Others, OtherStep(o)
    PROVE  /\ o \in Requests /\ o \notin Edits
           /\ \A q \in Requests \ {o} : pc'[q] = pc[q] /\ object'[q] = object[q]
           /\ \A e \in Edits : pc'[e] = pc[e] /\ object'[e] = object[e] /\ read'[e] = read[e]
           /\ Open' = Open /\ outside \subseteq outside'
           /\ UNCHANGED <<request, overlapped>>
  <1>1. o \in Requests /\ o \notin Edits
    BY OccAssumption DEF Requests
  <1>2. PICK to \in {"bulk", "frozen", "noted", "board", "done", "aborted"} : Goto(o, pc[o], to)
    BY DEF OtherStep, BulkStep, BulkWrite, Freeze, Enter, BulkCommit, Abort, BoardLoad,
           BoardSave, Goto
  <1>3. to \in Places
    BY DEF Places, Ended, Uncommitted
  <1>4. \A q \in Requests \ {o} : pc'[q] = pc[q]
    BY <1>1, <1>2, <1>3, GotoType DEF CountInv
  <1>5. \A e \in Edits : e \in Requests \ {o} /\ pc'[e] = pc[e]
    BY <1>1, <1>4 DEF Requests
  <1>6. Open' = Open
    BY <1>5 DEF Open
  <1>7. UNCHANGED <<request, overlapped>> /\ outside \subseteq outside'
    BY DEF OtherStep, BulkStep, BulkWrite, Freeze, Enter, BulkCommit, Abort, BoardLoad,
           BoardSave, request
  <1>8. /\ \A q \in Requests \ {o} : object'[q] = object[q]
        /\ \A e \in Edits : read'[e] = read[e]
    <2>1. object \in [Requests -> Rows] /\ read \in [Requests -> Nat]
      BY DEF CountInv, CountType, HistType
    <2> QED
      BY <1>1, <1>5, <2>1 DEF OtherStep, BulkStep, BulkWrite, Freeze, Enter, BulkCommit,
                              Abort, BoardLoad, BoardSave
  <1> QED
    BY <1>1, <1>4, <1>5, <1>6, <1>7, <1>8

\* All that such a request does but entering and committing its entry.
Unseen(o) == BulkWrite(o) \/ Freeze(o) \/ Abort(o) \/ BoardLoad(o) \/ BoardSave(o)

LEMMA OthersUnseen ==
    ASSUME CountInv, HistType, OwnInv, NEW o \in Others, Unseen(o)
    PROVE  /\ Visible' = Visible /\ UNCHANGED history
           /\ \A q \in Requests : Own(q)' = Own(q)
           /\ pc'[o] \in {"bulk", "frozen", "aborted", "board", "done"}
           /\ pc'[o] = "done" => BoardSave(o)
           /\ pc[o] \in Noting => Abort(o)
  <1>1. o \in Requests
    BY EditsAreRequests
  <1>2. PICK to : /\ Goto(o, pc[o], to) /\ to \in {"bulk", "frozen", "aborted", "board", "done"}
                  /\ to = "done" => BoardSave(o)
                  /\ Abort(o) => to = "aborted" /\ pc[o] \in Uncommitted \cup {"bulk"}
                  /\ ~Abort(o) => pc[o] \in {"start", "bulk", "saved", "board"}
    <2>1. CASE Abort(o)
      BY <2>1 DEF Abort, Goto
    <2>2. CASE ~Abort(o)
      BY <2>2 DEF Unseen, BulkWrite, Freeze, BeforeSnapshot, BoardLoad, BoardSave, Goto
    <2> QED
      BY <2>1, <2>2
  <1>3. to \in Places /\ (pc[o] \notin Written \/ (pc[o] \in Noting /\ to \in Hidden))
    BY <1>2 DEF Places, Ended, Written, Noting, Hidden, Uncommitted
  <1>4. UNCHANGED history
    BY DEF Unseen, BulkWrite, Freeze, Abort, BoardLoad, BoardSave
  <1>5. Visible' = Visible /\ \A q \in Requests : Own(q)' = Own(q)
    BY <1>1, <1>2, <1>3, <1>4, Unnoticed DEF CountInv
  <1>6. pc'[o] = to
    BY <1>1, <1>2, <1>3, GotoType DEF CountInv
  <1> QED
    BY <1>2, <1>4, <1>5, <1>6 DEF Noting

-----------------------------------------------------------------------------
(* Types *)

LEMMA InitHist == Init => HistInv
  <1> SUFFICES ASSUME Init PROVE HistInv
    OBVIOUS
  <1>1. history = <<>> /\ history \in Seq(Entry) /\ DOMAIN history = {} /\ Visible = {}
    BY DEF Init, Visible
  <1>2. row \in Rows
    BY DEF Init, Rows, Values
  <1>3. HistType
    BY <1>1, <1>2 DEF Init, HistType
  <1>4. \A r \in Requests : pc[r] = "start" /\ Own(r) = {}
    BY <1>1 DEF Init, Own
  <1>5. Open = {} /\ Settled
    BY <1>4, EditsAreRequests DEF Open, Settled, Uncommitted
  <1>6. OwnInv
    BY <1>4, <1>5 DEF OwnInv
  <1>7. Snapshot(history, Visible) = row
    BY <1>1 DEF Init, Snapshot
  <1>8. SnapshotInv
    BY <1>4, <1>7, EditsAreRequests DEF SnapshotInv, Noting, Entering
  <1>9. AloneInv /\ SinceInv /\ ConflictRefused
    BY <1>4, EditsAreRequests DEF AloneInv, SinceInv, ConflictRefused, Reading
  <1> QED
    BY <1>3, <1>6, <1>8, <1>9, InitQueue DEF HistInv

LEMMA HistTypeKept == CountInv /\ HistInv /\ [Next]_vars => HistType'
  <1> SUFFICES ASSUME CountInv, HistInv, [Next]_vars PROVE HistType'
    OBVIOUS
  <1>0. HistType /\ OwnInv /\ Edits \subseteq Requests
    BY EditsAreRequests DEF HistInv
  <1>1. CASE UNCHANGED vars
    BY <1>0, <1>1 DEF vars, request, HistType
  <1>2. ASSUME NEW e \in Edits, Fetch(e) PROVE HistType'
    <2>1. PICK F \in SUBSET Fields : fields' = [fields EXCEPT ![e] = F]
      BY <1>2 DEF Fetch
    <2>2. known' = [known EXCEPT ![e] = [version |-> version, row |-> row]]
      BY <1>2 DEF Fetch
    <2>3. fields' \in [Edits -> SUBSET Fields]
      BY <1>0, <2>1 DEF HistType
    <2>4. known' \in [Edits -> [version : Nat, row : Rows]]
      BY <1>0, <2>2 DEF HistType, CountInv, CountType
    <2> QED
      BY <1>0, <1>2, <2>3, <2>4 DEF Fetch, HistType
  <1>3. ASSUME NEW e \in Edits, Load(e) \/ Lock(e) \/ ReadVersion(e) \/ Check(e) \/ Release(e)
        PROVE  HistType'
    <2>1. object' \in [Requests -> Rows]
      BY <1>0, <1>3 DEF Load, Lock, ReadVersion, Check, Release, HistType
    <2> QED
      BY <1>0, <1>3, <2>1 DEF Load, Lock, ReadVersion, Check, Release, HistType, request
  <1>4. ASSUME NEW e \in Edits, Save(e) PROVE HistType'
    BY <1>0, <1>4, SaveSees DEF HistType, request
  <1>5. ASSUME NEW e \in Edits, Commit(e) PROVE HistType'
    BY <1>0, <1>5 DEF Commit, HistType, request
  <1>6. ASSUME NEW r \in Requests, Freeze(r) PROVE HistType'
    <2>1. object' \in [Requests -> Rows]
      BY <1>0, <1>6 DEF Freeze, HistType
    <2> QED
      BY <1>0, <1>6, <2>1 DEF Freeze, HistType, request
  <1>7. ASSUME NEW r \in Requests, Enter(r) PROVE HistType'
    <2>1. history' \in Seq(Entry)
      BY <1>0, <1>7, EnterGrows DEF CountInv
    <2> QED
      BY <1>0, <1>7, <2>1 DEF Enter, HistType, request
  <1>8. ASSUME NEW r \in Requests, Abort(r) PROVE HistType'
    BY <1>0, <1>8 DEF Abort, HistType, request
  <1>9. ASSUME NEW o \in Others, BulkWrite(o) \/ BulkCommit(o) \/ BoardLoad(o) \/ BoardSave(o)
        PROVE  HistType'
    <2>1. o \in Requests
      BY EditsAreRequests
    <2>2. /\ row \in Rows /\ object \in [Requests -> Rows] /\ object[o] \in Rows
          /\ [row EXCEPT ![Milestone] = o] \in Rows /\ [row EXCEPT ![Status] = o] \in Rows
      BY <1>0, <2>1 DEF HistType, Rows
    <2>3. row' \in {row, [row EXCEPT ![Milestone] = o], object[o]}
      BY <1>9 DEF BulkWrite, BulkCommit, BoardLoad, BoardSave
    <2>4. \/ object' = object
          \/ object' = [object EXCEPT ![o] = [row EXCEPT ![Status] = o]]
      BY <1>9 DEF BulkWrite, BulkCommit, BoardLoad, BoardSave
    <2>5. row' \in Rows /\ object' \in [Requests -> Rows]
      BY <2>2, <2>3, <2>4
    <2> QED
      BY <1>0, <1>9, <2>5 DEF BulkWrite, BulkCommit, BoardLoad, BoardSave, HistType, request
  <1> QED
    BY <1>0, <1>1, <1>2, <1>3, <1>4, <1>5, <1>6, <1>7, <1>8, <1>9, EditsAreRequests
       DEF Next, EditStep, BulkStep

-----------------------------------------------------------------------------
(* Whose entries are where *)

\* Of the other requests only a write makes the history unsettled.
LEMMA SettledKept ==
    ASSUME CountInv, HistType, Settled, NEW o \in Others, OtherStep(o)
    PROVE  Settled' \/ BulkWrite(o)
  <1>1. pc[o] \in Calm /\ o \in Requests
    BY EditsAreRequests DEF Settled, Calm
  <1>2. \A q \in Others \ {o} : pc'[q] = pc[q]
    BY OthersMove, EditsAreRequests
  <1>3. BulkWrite(o) \/ BoardLoad(o) \/ BoardSave(o)
    BY <1>1, EditsAreRequests
       DEF OtherStep, BulkStep, Freeze, BeforeSnapshot, Enter, BulkCommit, Abort, Goto, Calm,
           Uncommitted
  <1>4. BulkWrite(o) \/ pc'[o] \in Calm
    BY <1>1, <1>3 DEF BoardLoad, BoardSave, Goto, Calm, CountInv, CountType
  <1> QED
    BY <1>2, <1>4 DEF Settled, Calm

LEMMA OwnInvKept == CountInv /\ HistInv /\ [Next]_vars => OwnInv'
  <1> SUFFICES ASSUME CountInv, HistInv, [Next]_vars PROVE OwnInv'
    OBVIOUS
  <1>0. HistType /\ OwnInv /\ QueueInv
    BY DEF HistInv
  <1>1. CASE UNCHANGED vars
    BY <1>0, <1>1 DEF vars, OwnInv, Own, Settled
  <1>2. ASSUME NEW r \in Requests, UNCHANGED history, outside \subseteq outside',
               \A q \in Requests : Own(q)' = Own(q),
               \A q \in Requests \ {r} : pc'[q] = pc[q],
               pc[r] \in Written => pc'[r] \in Written,
               pc'[r] \in Noting => pc[r] \in Noting,
               Settled' \/ "bulk" \in outside'
        PROVE  OwnInv'
    <2>1. \A q \in Requests : /\ pc[q] \in Written => pc'[q] \in Written
                              /\ pc'[q] \in Noting => pc[q] \in Noting
      BY <1>2
    <2> QED
      BY <1>0, <1>2, <2>1 DEF OwnInv
  <1>3. ASSUME NEW e \in Edits, NEW to, \A q \in Requests \ {e} : pc'[q] = pc[q],
               outside \subseteq outside'
        PROVE  Settled' \/ "bulk" \in outside'
    BY <1>0, <1>3, EditsAreRequests DEF OwnInv, Settled
  <1>4. ASSUME NEW e \in Edits, Quiet(e) PROVE OwnInv'
    BY <1>0, <1>2, <1>3, <1>4, QuietSees, EditsAreRequests
  <1>5. ASSUME NEW e \in Edits, Save(e) PROVE OwnInv'
    <2>1. /\ UNCHANGED <<history, outside>> /\ \A q \in Requests : Own(q)' = Own(q)
          /\ \A q \in Requests \ {e} : pc'[q] = pc[q]
          /\ pc[e] \notin Written /\ pc'[e] \notin Noting
      BY <1>0, <1>5, SaveSees DEF Written, Noting
    <2> QED
      BY <1>2, <1>3, <2>1, EditsAreRequests
  <1>6. ASSUME NEW e \in Edits, Commit(e) \/ Abort(e) PROVE OwnInv'
    <2>1. /\ UNCHANGED <<history, outside>> /\ \A q \in Requests : Own(q)' = Own(q)
          /\ \A q \in Requests \ {e} : pc'[q] = pc[q]
          /\ pc'[e] \in Written /\ pc'[e] \notin Noting
      BY <1>0, <1>6, EndSees DEF Written, Noting
    <2> QED
      BY <1>2, <1>3, <2>1, EditsAreRequests
  <1>7. ASSUME NEW r \in Requests, Enter(r) PROVE OwnInv'
    <2>1. /\ Own(r)' = Later(history, history')
          /\ \A q \in Requests \ {r} : Own(q)' = Own(q) /\ pc'[q] = pc[q]
          /\ pc[r] = "frozen" /\ pc'[r] = "noted"
          /\ Len(history') \in {Len(history), Len(history) + 1}
      BY <1>0, <1>7, EnterGrows DEF CountInv
    <2>2. Len(history) \in Nat
      BY <1>0, PlacesOfHistory
    <2>3. \A i \in Own(r)' : i = Len(history')
      BY <2>1, <2>2 DEF Later
    <2>4. UNCHANGED outside
      BY <1>7 DEF Enter
    <2>5. "gap" \notin outside => \A q \in Requests \ {r} : pc[q] \notin Noting
      BY <1>0, <2>1 DEF QueueInv, Entering
    <2>6. Settled' = Settled
      <3>1. pc[r] \notin Calm /\ pc'[r] \notin Calm
        BY <2>1 DEF Calm
      <3> QED
        BY <2>1, <3>1, EditsAreRequests DEF Settled, Calm
    <2>7. \A q \in Requests : pc'[q] \notin Written => Own(q)' = {}
      BY <1>0, <2>1 DEF OwnInv, Written, Noting
    <2>8. "gap" \notin outside' =>
              \A q \in Requests : pc'[q] \in Noting => \A i \in Own(q)' : i = Len(history')
      BY <2>1, <2>3, <2>4, <2>5
    <2> QED
      BY <1>0, <2>4, <2>6, <2>7, <2>8 DEF OwnInv
  <1>8. ASSUME NEW o \in Others, OtherStep(o), ~Enter(o) PROVE OwnInv'
    <2>1. /\ o \in Requests /\ \A q \in Requests \ {o} : pc'[q] = pc[q]
          /\ outside \subseteq outside'
      BY <1>0, <1>8, OthersMove
    <2>2. Settled' \/ "bulk" \in outside'
      <3>1. CASE BulkWrite(o)
        BY <3>1 DEF BulkWrite
      <3> QED
        BY <1>0, <1>8, <2>1, <3>1, SettledKept DEF OwnInv
    <2>3. CASE Unseen(o)
      <3>1. /\ UNCHANGED history /\ \A q \in Requests : Own(q)' = Own(q)
            /\ pc'[o] \in {"bulk", "frozen", "aborted", "board", "done"}
            /\ pc[o] \in Noting => Abort(o)
        BY <1>0, <2>3, OthersUnseen
      <3>2. pc[o] \in Written => pc'[o] \in Written
        BY <2>1, <2>3, <3>1
           DEF Unseen, BulkWrite, Freeze, BeforeSnapshot, BoardLoad, BoardSave, Abort, Goto,
               Written, Noting, Uncommitted, CountInv, CountType
      <3>3. pc'[o] \notin Noting
        BY <3>1 DEF Noting
      <3> QED
        BY <1>2, <2>1, <2>2, <3>1, <3>2, <3>3
    <2>4. CASE BulkCommit(o)
      <3>1. Goto(o, pc[o], "done") /\ pc[o] \in Noting /\ UNCHANGED history
        BY <2>4 DEF BulkCommit, Goto, Noting
      <3>2. (\A q \in Requests : Own(q)' = Own(q)) /\ pc'[o] = "done"
        BY <1>0, <2>1, <3>1, Shown DEF CountInv
      <3>3. pc'[o] \in Written /\ pc'[o] \notin Noting
        BY <3>2 DEF Written, Noting
      <3> QED
        BY <1>2, <2>1, <2>2, <3>1, <3>2, <3>3
    <2> QED
      BY <1>8, <2>3, <2>4 DEF OtherStep, BulkStep, Unseen
  <1> QED
    BY <1>1, <1>4, <1>5, <1>6, <1>7, <1>8, EditsAreRequests
       DEF Next, EditStep, BulkStep, Quiet, OtherStep

-----------------------------------------------------------------------------
(* What the entries rebuild *)

\* Neither the row nor the entries change, nor what a request has in hand that is
\* entering or has entered.
LEMMA SnapshotStays ==
    ASSUME HistInv, NEW r \in Requests, UNCHANGED <<history, row>>, outside \subseteq outside',
           Visible' = Visible, \A q \in Requests : Own(q)' = Own(q),
           \A q \in Requests \ {r} : pc'[q] = pc[q] /\ object'[q] = object[q],
           pc'[r] \in Noting => pc[r] \in Noting /\ object'[r] = object[r],
           r \in Others => pc'[r] \in Calm /\ pc[r] \in Calm
    PROVE  SnapshotInv'
  <1>1. /\ Others \subseteq Requests
        /\ \A o \in Others : pc'[o] \in Calm <=> pc[o] \in Calm
    BY EditsAreRequests
  <1>2. Settled' = Settled
    BY <1>1 DEF Settled, Calm
  <1>3. \A q \in Requests : pc'[q] \in Noting => pc[q] \in Noting /\ object'[q] = object[q]
    OBVIOUS
  <1>4. \A b \in Others : pc'[b] \in Entering => pc[b] \in Entering /\ object'[b] = object[b]
    <2>1. Calm \cap Entering = {}
      BY DEF Calm, Entering, Noting
    <2> QED
      BY <1>1, <2>1
  <1> QED
    BY <1>1, <1>2, <1>3, <1>4 DEF HistInv, SnapshotInv

LEMMA SnapshotInvKept == CountInv /\ HistInv /\ [Next]_vars => SnapshotInv'
  <1> SUFFICES ASSUME CountInv, HistInv, [Next]_vars,
                      outside' \cap {"board", "gap"} = {}
               PROVE  SnapshotInv'
    BY DEF SnapshotInv
  <1>0. HistType /\ OwnInv /\ QueueInv
    BY DEF HistInv
  <1>1. CASE UNCHANGED vars
    BY <1>1 DEF vars, Own, Visible, Settled, HistInv, SnapshotInv
  <1>2. ASSUME NEW e \in Edits, Quiet(e) PROVE SnapshotInv'
    <2>1. /\ Visible' = Visible /\ \A q \in Requests : Own(q)' = Own(q)
          /\ UNCHANGED <<history, row>> /\ outside \subseteq outside'
          /\ \A q \in Requests \ {e} : pc'[q] = pc[q]
          /\ pc'[e] \in Noting => pc[e] \in Noting
          /\ \A q \in Requests : pc[q] # "fetched" => object'[q] = object[q]
      BY <1>0, <1>2, QuietSees
    <2>2. \A q \in Requests \ {e} : object'[q] = object[q]
      <3>1. CASE Load(e)
        BY <1>0, <3>1 DEF Load, HistType
      <3>2. CASE Freeze(e)
        BY <3>2 DEF Freeze
      <3> QED
        BY <1>2, <3>1, <3>2 DEF Quiet, Fetch, Lock, ReadVersion, Check, Release
    <2>3. "fetched" \notin Noting
      BY DEF Noting
    <2> QED
      BY <2>1, <2>2, <2>3, SnapshotStays, EditsAreRequests
  <1>3. ASSUME NEW e \in Edits, Save(e) PROVE SnapshotInv'
    <2>1. /\ Visible' = Visible /\ \A q \in Requests : Own(q)' = Own(q)
          /\ UNCHANGED <<history, row, outside>>
          /\ \A q \in Requests \ {e} : pc'[q] = pc[q] /\ object'[q] = object[q]
          /\ pc'[e] \notin Noting
      BY <1>0, <1>3, SaveSees DEF Noting
    <2> QED
      BY <2>1, SnapshotStays, EditsAreRequests
  <1>4. ASSUME NEW r \in Requests, Enter(r) PROVE SnapshotInv'
    <2>1. /\ Own(r)' = Later(history, history') /\ Visible' = Visible
          /\ Snapshot(history', Visible \cup Later(history, history')) = object[r]
          /\ Snapshot(history', Visible) = Snapshot(history, Visible)
          /\ pc[r] = "frozen" /\ pc'[r] = "noted"
          /\ \A q \in Requests \ {r} : pc'[q] = pc[q]
      BY <1>0, <1>4, EnterGrows DEF CountInv
    <2>2. UNCHANGED <<row, object, outside>>
      BY <1>4 DEF Enter
    <2>3. \A q \in Requests : pc'[q] \in Noting => q = r
      BY <1>0, <2>1, <2>2 DEF QueueInv, Entering
    <2>4. \A q \in Requests : /\ pc'[q] \in Calm <=> pc[q] \in Calm
                              /\ pc'[q] \in Entering <=> pc[q] \in Entering
      BY <2>1 DEF Calm, Entering, Noting
    <2>5. Settled' = Settled
      BY <2>4, EditsAreRequests DEF Settled, Calm
    <2>6. Settled' => Snapshot(history', Visible') = row'
      BY <2>1, <2>2, <2>5 DEF HistInv, SnapshotInv
    <2>7. \A q \in Requests : pc'[q] \in Noting =>
              Snapshot(history', Visible' \cup Own(q)') = object'[q]
      BY <2>1, <2>2, <2>3
    <2>8. \A b \in Others : pc'[b] \in Entering /\ (\A o \in Others \ {b} : pc'[o] \in Calm) =>
              object'[b] = row'
      BY <2>2, <2>4, EditsAreRequests DEF HistInv, SnapshotInv
    <2> QED
      BY <2>6, <2>7, <2>8 DEF SnapshotInv
  <1>5. ASSUME NEW r \in Requests, pc[r] \in Noting, UNCHANGED <<history, object, outside>>,
               Visible' = Visible \cup Own(r),
               pc'[r] = "done", \A q \in Requests \ {r} : pc'[q] = pc[q],
               Settled' => row' = object[r]
        PROVE  SnapshotInv'
    <2>1. \A q \in Requests : pc'[q] \notin Entering
      <3>1. \A q \in Requests \ {r} : pc[q] \notin Entering
        BY <1>0, <1>5 DEF QueueInv, Entering
      <3> QED
        BY <1>5, <3>1 DEF Entering, Noting
    <2>2. Snapshot(history, Visible \cup Own(r)) = object[r]
      BY <1>5 DEF HistInv, SnapshotInv
    <2>3. Settled' => Snapshot(history', Visible') = row'
      BY <1>5, <2>2
    <2> QED
      BY <2>1, <2>3, EditsAreRequests DEF SnapshotInv, Entering
  <1>6. ASSUME NEW e \in Edits, Commit(e) PROVE SnapshotInv'
    <2>1. /\ UNCHANGED <<history, object, outside>> /\ Visible' = Visible \cup Own(e)
          /\ pc[e] = "released" /\ pc'[e] = "done"
          /\ \A q \in Requests \ {e} : pc'[q] = pc[q]
      BY <1>0, <1>6, EndSees
    <2>2. pc[e] \in Noting /\ row' = object[e] /\ e \in Requests
      BY <1>6, <2>1, EditsAreRequests DEF Noting, Commit
    <2> QED
      BY <1>5, <2>1, <2>2
  <1>7. ASSUME NEW e \in Edits, Abort(e), ~Commit(e) PROVE SnapshotInv'
    <2>1. /\ UNCHANGED <<history, object, outside>> /\ Visible' = Visible
          /\ \A q \in Requests : Own(q)' = Own(q)
          /\ pc'[e] = "aborted" /\ \A q \in Requests \ {e} : pc'[q] = pc[q]
      BY <1>0, <1>7, EndSees
    <2>2. UNCHANGED row
      BY <1>7 DEF Abort
    <2>3. pc'[e] \notin Noting
      BY <2>1 DEF Noting
    <2> QED
      BY <2>1, <2>2, <2>3, SnapshotStays, EditsAreRequests
  <1>8. ASSUME NEW o \in Others, BulkCommit(o) PROVE SnapshotInv'
    <2>1. /\ Goto(o, pc[o], "done") /\ pc[o] \in Noting
          /\ UNCHANGED <<history, object, row, outside>>
      BY <1>8 DEF BulkCommit, Goto, Noting
    <2>2. /\ Visible' = Visible \cup Own(o) /\ pc'[o] = "done"
          /\ \A q \in Requests \ {o} : pc'[q] = pc[q]
      BY <1>0, <2>1, Shown, EditsAreRequests DEF CountInv
    <2>3. Settled' => row' = object[o]
      <3> SUFFICES ASSUME Settled' PROVE row' = object[o]
        OBVIOUS
      <3>1. \A q \in Others \ {o} : pc[q] \in Calm
        BY <2>2, EditsAreRequests DEF Settled, Calm
      <3> QED
        BY <2>1, <3>1 DEF HistInv, SnapshotInv, Entering
    <2> QED
      BY <1>5, <2>1, <2>2, <2>3, EditsAreRequests
  <1>9. ASSUME NEW o \in Others, Unseen(o) PROVE SnapshotInv'
    <2>1. /\ o \in Requests /\ \A q \in Requests \ {o} : pc'[q] = pc[q] /\ object'[q] = object[q]
          /\ outside \subseteq outside'
      BY <1>0, <1>9, OthersMove DEF OtherStep, BulkStep, Unseen
    <2>2. /\ Visible' = Visible /\ UNCHANGED history
          /\ \A q \in Requests : Own(q)' = Own(q)
          /\ pc'[o] \in {"bulk", "frozen", "aborted", "board", "done"}
          /\ pc'[o] = "done" => BoardSave(o)
          /\ pc[o] \in Noting => Abort(o)
      BY <1>0, <1>9, OthersUnseen
    <2>3. CASE BoardLoad(o)
      <3>1. pc[o] = "start" /\ pc'[o] = "board" /\ row' = row
        BY <2>1, <2>3 DEF BoardLoad, Goto, CountInv, CountType
      <3> QED
        BY <2>1, <2>2, <3>1, SnapshotStays DEF Calm, Noting
    <2>4. ~BoardSave(o)
      BY DEF BoardSave
    <2>5. CASE ~BoardLoad(o)
      <3>1. pc'[o] \in {"bulk", "frozen", "aborted"}
        <4>1. pc'[o] # "board"
          BY <1>9, <2>1, <2>4, <2>5
             DEF Unseen, BulkWrite, Freeze, Abort, Goto, CountInv, CountType
        <4> QED
          BY <2>2, <2>4, <4>1
      <3>2. ~Settled' /\ pc'[o] \notin Noting
        BY <3>1 DEF Settled, Noting
      <3>3. \A q \in Requests : pc'[q] \in Noting =>
                Snapshot(history', Visible' \cup Own(q)') = object'[q]
        <4> TAKE q \in Requests
        <4>1. pc'[q] \in Noting => q # o /\ pc[q] \in Noting
          BY <2>1, <3>2
        <4>2. outside \cap {"board", "gap"} = {}
          BY <2>1
        <4> QED
          BY <2>1, <2>2, <4>1, <4>2 DEF HistInv, SnapshotInv
      <3>4. \A b \in Others : pc'[b] \in Entering /\ (\A q \in Others \ {b} : pc'[q] \in Calm) =>
                object'[b] = row'
        <4> SUFFICES ASSUME NEW b \in Others, pc'[b] \in Entering,
                            \A q \in Others \ {b} : pc'[q] \in Calm
                     PROVE  object'[b] = row'
          OBVIOUS
        <4>1. b = o
          BY <3>1 DEF Calm
        <4>2. pc'[o] = "frozen"
          BY <3>1, <4>1 DEF Entering, Noting
        <4>3. Freeze(o)
          BY <1>9, <2>1, <2>4, <2>5, <4>2
             DEF Unseen, BulkWrite, Abort, Goto, CountInv, CountType
        <4> QED
          BY <1>0, <2>1, <4>1, <4>3, EditsAreRequests DEF Freeze, HistType
      <3> QED
        BY <3>2, <3>3, <3>4 DEF SnapshotInv
    <2> QED
      BY <2>3, <2>5
  <1> QED
    BY <1>1, <1>2, <1>3, <1>4, <1>6, <1>7, <1>8, <1>9, EditsAreRequests
       DEF Next, EditStep, BulkStep, Quiet, Unseen

-----------------------------------------------------------------------------
(* An edit that is alone with the row *)

\* As long as nobody has written outside the lock, the other requests but read.
LEMMA OthersRead ==
    ASSUME CountInv, HistType, OwnInv, NEW o \in Others, OtherStep(o), outside' = {}
    PROVE  /\ BoardLoad(o) /\ outside = {}
           /\ Visible' = Visible /\ \A q \in Requests : Own(q)' = Own(q)
           /\ UNCHANGED <<history, row, version>>
  <1>1. o \in Requests /\ o \notin Edits
    BY EditsAreRequests
  <1>2. outside = {}
    BY OthersMove
  <1>3. pc[o] \in Calm
    BY <1>2 DEF OwnInv, Settled, Calm
  <1>4. BoardLoad(o)
    BY <1>1, <1>3 DEF OtherStep, BulkStep, BulkWrite, Freeze, BeforeSnapshot, Enter, BulkCommit,
                      Abort, BoardSave, Goto, Calm, Uncommitted
  <1> QED
    BY <1>2, <1>4, OthersUnseen DEF Unseen, BoardLoad

LEMMA AloneInvKept == CountInv /\ HistInv /\ [Next]_vars => AloneInv'
  <1> SUFFICES ASSUME CountInv, HistInv, [Next]_vars,
                      NEW d \in Edits, d \notin overlapped',
                      pc'[d] \in {"locked", "versioned", "accepted"}
               PROVE  /\ Open' = {}
                      /\ pc'[d] # "locked" /\ outside' = {} => read'[d] = version'
    BY DEF AloneInv
  <1> DEFINE L == {"locked", "versioned", "accepted"}
  <1>0. HistType /\ OwnInv /\ d \in Requests
    BY EditsAreRequests DEF HistInv
  <1>i. d \notin overlapped /\ pc[d] \in L =>
            /\ Open = {}
            /\ pc[d] # "locked" /\ outside = {} => read[d] = version
    BY DEF HistInv, AloneInv
  <1>k. \A e \in Edits : pc[e] \in L => pkLock = e
    BY DEF CountInv, KeyLockInv, Locked
  <1>t. pc \in [Requests -> Places] /\ read \in [Requests -> Nat]
    BY DEF CountInv, CountType, Places
  <1>1. CASE UNCHANGED vars
    BY <1>i, <1>1 DEF vars, Open
  <1>2. ASSUME NEW e \in Edits, Quiet(e)
        PROVE  /\ Open' = {}
               /\ pc'[d] # "locked" /\ outside' = {} => read'[d] = version'
    <2>1. /\ Open' = Open /\ UNCHANGED version /\ outside \subseteq outside'
          /\ \A q \in Requests \ {e} : pc'[q] = pc[q]
      BY <1>0, <1>2, QuietSees
    <2>2. overlapped \subseteq overlapped'
      BY <1>2 DEF Quiet, Fetch, Load, Lock, ReadVersion, Check, Freeze, Release
    <2>3. CASE d # e
      <3>1. pc'[d] = pc[d] /\ read'[d] = read[d]
        BY <1>0, <1>2, <1>t, <2>1, <2>3, EditsAreRequests
           DEF Quiet, Fetch, Load, Lock, ReadVersion, Check, Freeze, Release
      <3> QED
        BY <1>i, <2>1, <2>2, <3>1
    <2>4. CASE d = e /\ Lock(e)
      <3>1. pc'[e] = "locked" /\ Open = {}
        BY <1>0, <1>t, <2>4 DEF Lock, Goto
      <3> QED
        BY <2>1, <2>4, <3>1
    <2>5. CASE d = e /\ ReadVersion(e)
      <3>1. pc[e] = "locked" /\ read'[e] = version
        BY <1>0, <1>t, <2>5 DEF ReadVersion, Goto
      <3> QED
        BY <1>i, <2>1, <2>2, <2>5, <3>1
    <2>6. CASE d = e /\ Check(e)
      <3>1. pc[e] = "versioned" /\ read' = read
        BY <2>6 DEF Check, Goto
      <3> QED
        BY <1>i, <2>1, <2>2, <2>6, <3>1
    <2>7. CASE d = e /\ (Fetch(e) \/ Load(e) \/ Freeze(e) \/ Release(e))
      <3>1. pc'[e] \in {"fetched", "loaded", "frozen", "released"}
        BY <1>0, <1>t, <2>7 DEF Fetch, Load, Freeze, Release, Goto
      <3> QED
        BY <2>7, <3>1
    <2> QED
      BY <1>2, <2>3, <2>4, <2>5, <2>6, <2>7 DEF Quiet
  <1>3. ASSUME NEW e \in Edits, Save(e) PROVE FALSE
    <2>1. /\ pc[e] = "accepted" /\ pc'[e] = "saved"
          /\ \A q \in Requests \ {e} : pc'[q] = pc[q]
      BY <1>0, <1>3, SaveSees
    <2>2. d # e /\ pc[d] \in L
      BY <1>0, <2>1
    <2> QED
      BY <1>k, <2>1, <2>2
  <1>4. ASSUME NEW e \in Edits, Commit(e) \/ Abort(e) PROVE FALSE
    <2>1. /\ Open = {e} /\ UNCHANGED overlapped /\ pc'[e] \in {"done", "aborted"}
          /\ \A q \in Requests \ {e} : pc'[q] = pc[q]
      BY <1>0, <1>4, EndSees
    <2> QED
      BY <1>0, <1>i, <2>1
  <1>5. ASSUME NEW e \in Edits, Enter(e)
        PROVE  /\ Open' = {}
               /\ pc'[d] # "locked" /\ outside' = {} => read'[d] = version'
    <2>1. /\ pc[e] = "frozen" /\ pc'[e] = "noted"
          /\ \A q \in Requests \ {e} : pc'[q] = pc[q]
      BY <1>0, <1>5, EnterGrows, EditsAreRequests DEF CountInv
    <2>2. pc[d] = pc'[d] /\ UNCHANGED <<read, version, overlapped, outside>>
      BY <1>0, <1>5, <2>1 DEF Enter
    <2>3. e \in Open
      BY <2>1 DEF Open, Uncommitted
    <2> QED
      BY <1>i, <2>2, <2>3
  <1>6. ASSUME NEW o \in Others, OtherStep(o)
        PROVE  /\ Open' = {}
               /\ pc'[d] # "locked" /\ outside' = {} => read'[d] = version'
    <2>1. /\ Open' = Open /\ pc'[d] = pc[d] /\ read'[d] = read[d] /\ UNCHANGED overlapped
      BY <1>0, <1>6, OthersMove
    <2>2. outside' = {} => outside = {} /\ version' = version
      BY <1>0, <1>6, OthersRead
    <2> QED
      BY <1>i, <2>1, <2>2
  <1> QED
    BY <1>1, <1>2, <1>3, <1>4, <1>5, <1>6 DEF Next, EditStep, Quiet, OtherStep, Requests

-----------------------------------------------------------------------------
(* What a client has read, and what came since *)

\* The visible entries after a place.
After(p) == {k \in Visible : k > p}

LEMMA AfterFinite ==
    ASSUME HistType, NEW p \in Nat
    PROVE  IsFiniteSet(After(p)) /\ Cardinality(After(p)) \in Nat
  <1>1. After(p) \subseteq 1..Len(history) /\ Len(history) \in Nat
    BY PlacesOfHistory DEF After
  <1>2. IsFiniteSet(1..Len(history))
    BY <1>1, FS_Interval
  <1>3. IsFiniteSet(After(p))
    BY <1>1, <1>2, FS_Subset
  <1> QED
    BY <1>3, FS_CardinalityType

LEMMA SinceStays ==
    ASSUME HistType, NEW d \in Edits, NEW p \in 0..Len(history), Since(d, p),
           known'[d] = known[d], Len(history') >= Len(history), Len(history') \in Nat,
           \A i \in 1..Len(history) : history'[i] = history[i],
           Visible' \cap (1..p) = Visible \cap (1..p),
           \A c \in Open' : \A i \in Own(c)' : i > p,
           known[d].version + Cardinality(After(p)') <= version'
    PROVE  \E q \in 0..Len(history') : Since(d, q)'
  <1>1. Len(history) \in Nat /\ history \in Seq(Entry)
    BY PlacesOfHistory DEF HistType
  <1>2. Snapshot(history, Visible \cap (1..p)) = Snapshot(history', Visible \cap (1..p))
    <2>1. PICK at : at = Visible \cap (1..p)
      OBVIOUS
    <2>2. at \in SUBSET (1..Len(history))
      BY <1>1, <2>1
    <2>3. \A i \in at : history[i] = history'[i]
      BY <2>2
    <2>4. Snapshot(history, at) = Snapshot(history', at)
      BY <1>1, <2>2, <2>3, SnapshotSame
    <2> QED
      BY <2>1, <2>4
  <1>3. p \in 0..Len(history')
    BY <1>1
  <1>4. Since(d, p)'
    BY <1>2 DEF Since, After
  <1> QED
    BY <1>3, <1>4

\* A step that changes neither the entries nor what is visible nor the version.
LEMMA SinceUnseen ==
    ASSUME HistType, NEW d \in Edits, NEW p \in 0..Len(history), Since(d, p),
           known'[d] = known[d], UNCHANGED <<history, version>>,
           Visible' = Visible, Open' \subseteq Open,
           \A c \in Edits : Own(c)' = Own(c)
    PROVE  \E q \in 0..Len(history') : Since(d, q)'
  <1>1. \A c \in Open' : \A i \in Own(c)' : i > p
    BY DEF Since, Open
  <1>2. Len(history) \in Nat
    BY PlacesOfHistory
  <1>3. known[d].version + Cardinality(After(p)') <= version'
    BY DEF Since, After
  <1> QED
    BY <1>1, <1>2, <1>3, SinceStays

\* What the client reads is what all the visible entries rebuild.
LEMMA SinceFetch ==
    ASSUME CountInv, HistInv, outside = {}, NEW e \in Edits, Fetch(e)
    PROVE  \E p \in 0..Len(history') : Since(e, p)'
  <1>0. HistType /\ OwnInv
    BY DEF HistInv
  <1>1. /\ Open' = Open /\ \A d \in Requests : Own(d)' = Own(d)
        /\ Visible' = Visible /\ UNCHANGED <<history, version, row>>
    BY <1>0, QuietSees DEF Quiet
  <1>2. known'[e].version = version /\ known'[e].row = row
    BY <1>0 DEF Fetch, HistType
  <1>3. Snapshot(history, Visible) = row
    BY DEF HistInv, OwnInv, SnapshotInv
  <1>4. /\ Len(history) \in Nat /\ DOMAIN history = 1..Len(history)
        /\ Visible \in SUBSET (1..Len(history))
    BY <1>0, PlacesOfHistory
  <1>5. \A d \in Open : d \in Edits /\ \A i \in Own(d) : i = Len(history) /\ i \notin Visible /\ i > 0
    <2> TAKE d \in Open
    <2>1. d \in Edits /\ pc[d] \in Uncommitted
      BY DEF Open
    <2>2. \A i \in Own(d) : i \in 1..Len(history) /\ history[i].by = d
      BY <1>4 DEF Own
    <2>3. d \in Requests /\ (pc[d] \notin Written \/ pc[d] \in Noting)
      BY <2>1, EditsAreRequests DEF Written, Noting, Uncommitted
    <2>4. \A i \in Own(d) : i = Len(history)
      BY <1>0, <2>3 DEF OwnInv
    <2> QED
      BY <1>4, <2>1, <2>2, <2>4 DEF Visible
  <1>6. ASSUME NEW p \in 0..Len(history),
               Visible \cap (1..p) = Visible, After(p) = {},
               \A d \in Open : \A i \in Own(d) : i > p
        PROVE  Since(e, p)'
    <2>1. Cardinality({k \in Visible : k > p}) = 0
      BY <1>6, FS_EmptySet DEF After
    <2>2. version \in Nat
      BY DEF CountInv, CountType
    <2>3. \A d \in Open' : \A i \in Own(d)' : i > p
      BY <1>1, <1>6, EditsAreRequests DEF Open
    <2>4. known'[e].row = Snapshot(history', Visible' \cap (1..p))
      BY <1>1, <1>2, <1>3, <1>6
    <2>5. known'[e].version + Cardinality({k \in Visible' : k > p}) <= version'
      BY <1>1, <1>2, <2>1, <2>2
    <2> QED
      BY <2>3, <2>4, <2>5 DEF Since
  <1>7. CASE \A d \in Open : Own(d) = {}
    <2>1. \A k \in Visible : k \in 1..Len(history) /\ ~(k > Len(history))
      BY <1>4
    <2>2. Visible \cap (1..Len(history)) = Visible /\ After(Len(history)) = {}
      BY <2>1 DEF After
    <2>3. Len(history) \in 0..Len(history)
      BY <1>4
    <2> QED
      BY <1>1, <1>6, <1>7, <2>2, <2>3
  <1>8. CASE \E d \in Open : Own(d) # {}
    <2>1. Len(history) \notin Visible /\ Len(history) > 0
      BY <1>5, <1>8
    <2>2. PICK p : p = Len(history) - 1
      OBVIOUS
    <2>3. p \in 0..Len(history) /\ \A i \in Visible : i \in 1..p /\ ~(i > p)
      BY <1>4, <2>1, <2>2
    <2>4. \A d \in Open : \A i \in Own(d) : i > p
      BY <1>4, <1>5, <2>2
    <2> QED
      BY <1>1, <1>6, <2>3, <2>4 DEF After
  <1> QED
    BY <1>7, <1>8

\* The version grows with the entry that a commit makes visible.
LEMMA SinceCommit ==
    ASSUME CountInv, HistInv, outside = {}, NEW e \in Edits, Commit(e),
           NEW d \in Edits, NEW p \in 0..Len(history), Since(d, p)
    PROVE  \E q \in 0..Len(history') : Since(d, q)'
  <1>0. HistType /\ OwnInv
    BY DEF HistInv
  <1>1. /\ Open = {e} /\ Open' = {} /\ UNCHANGED <<history, known>>
        /\ Visible' = Visible \cup Own(e)
    BY <1>0, EndSees
  <1>2. version' = version + 1 /\ version \in Nat
    BY <1>1 DEF CountInv, CountType, RowLockInv, Commit
  <1>3. Len(history) \in Nat /\ p \in Nat /\ Visible \in SUBSET (1..Len(history))
    BY <1>0, PlacesOfHistory
  <1>4. \A i \in Own(e) : i > p /\ i = Len(history)
    <2>1. e \in Requests /\ pc[e] \in Noting
      BY <1>0, EndSees, EditsAreRequests DEF Noting
    <2> QED
      BY <1>0, <1>1, <2>1 DEF Since, OwnInv
  <1>5. Visible' \cap (1..p) = Visible \cap (1..p)
    BY <1>1, <1>3, <1>4
  <1>6. After(p)' = After(p) \cup Own(e)
    BY <1>1, <1>4 DEF After
  <1>7. /\ IsFiniteSet(After(p)) /\ Cardinality(After(p)) \in Nat
        /\ IsFiniteSet(After(p) \cup {Len(history)})
        /\ Cardinality(After(p) \cup {Len(history)}) <= Cardinality(After(p)) + 1
    <2>1. IsFiniteSet(After(p)) /\ Cardinality(After(p)) \in Nat
      BY <1>0, <1>3, AfterFinite
    <2>2. PICK S, n : S = After(p) /\ n = Len(history)
      OBVIOUS
    <2>3. /\ IsFiniteSet(S \cup {n})
          /\ Cardinality(S \cup {n}) \in {Cardinality(S), Cardinality(S) + 1}
      BY <2>1, <2>2, FS_AddElement
    <2> QED
      BY <2>1, <2>2, <2>3
  <1>8. Cardinality(After(p)') <= Cardinality(After(p)) + 1 /\ Cardinality(After(p)') \in Nat
    <2>1. CASE Own(e) = {}
      BY <1>6, <1>7, <2>1
    <2>2. CASE Own(e) # {}
      <3>1. Own(e) = {Len(history)}
        BY <1>4, <2>2
      <3> QED
        BY <1>6, <1>7, <3>1, FS_CardinalityType
    <2> QED
      BY <2>1, <2>2
  <1>9. known[d].version + Cardinality(After(p)') <= version'
    <2>1. known[d].version \in Nat /\ known[d].version + Cardinality(After(p)) <= version
      BY <1>0 DEF Since, HistType, After
    <2> QED
      BY <1>2, <1>7, <1>8, <2>1
  <1> QED
    BY <1>0, <1>1, <1>3, <1>5, <1>9, SinceStays

LEMMA SinceInvKept == CountInv /\ HistInv /\ [Next]_vars => SinceInv'
  <1> SUFFICES ASSUME CountInv, HistInv, [Next]_vars, outside' = {},
                      NEW d \in Edits, pc'[d] \in Reading
               PROVE  \E p \in 0..Len(history') : Since(d, p)'
    BY DEF SinceInv
  <1>0. HistType /\ OwnInv /\ d \in Requests /\ pc \in [Requests -> Places]
    BY EditsAreRequests DEF HistInv, CountInv, CountType, Places
  <1>i. outside = {} /\ pc[d] \in Reading => \E p \in 0..Len(history) : Since(d, p)
    BY DEF HistInv, SinceInv
  <1>1. CASE UNCHANGED vars
    <2>1. PICK p \in 0..Len(history) : Since(d, p)
      BY <1>i, <1>1 DEF vars
    <2>2. /\ UNCHANGED <<history, version, known>> /\ Visible' = Visible /\ Open' = Open
          /\ \A c \in Edits : Own(c)' = Own(c)
      BY <1>1 DEF vars, request, Visible, Open, Own
    <2> QED
      BY <1>0, <2>1, <2>2, SinceUnseen
  <1>2. ASSUME NEW e \in Edits, Quiet(e)
        PROVE  \E p \in 0..Len(history') : Since(d, p)'
    <2>1. /\ Open' = Open /\ \A c \in Edits : Own(c)' = Own(c)
          /\ Visible' = Visible /\ UNCHANGED <<history, version>>
          /\ outside \subseteq outside'
          /\ \A q \in Requests \ {e} : pc'[q] = pc[q]
      BY <1>0, <1>2, QuietSees, EditsAreRequests
    <2>2. CASE Fetch(e) /\ d = e
      BY <2>1, <2>2, SinceFetch
    <2>3. CASE ~(Fetch(e) /\ d = e)
      <3>1. known'[d] = known[d]
        BY <1>0, <1>2, <2>3
           DEF Quiet, Fetch, Load, Lock, ReadVersion, Check, Freeze, Release, request, HistType
      <3>2. pc[d] \in Reading
        <4>1. CASE d # e
          BY <1>0, <2>1, <4>1
        <4>2. CASE d = e
          BY <1>0, <1>2, <2>3, <4>2
             DEF Quiet, Load, Lock, ReadVersion, Check, Freeze, Release, Goto, Reading
        <4> QED
          BY <4>1, <4>2
      <3>3. PICK p \in 0..Len(history) : Since(d, p)
        BY <1>i, <2>1, <3>2
      <3> QED
        BY <1>0, <2>1, <3>1, <3>3, SinceUnseen
    <2> QED
      BY <2>2, <2>3
  <1>3. ASSUME NEW e \in Edits, Save(e)
        PROVE  \E p \in 0..Len(history') : Since(d, p)'
    <2>1. /\ Own(e)' = {} /\ Open' = {e} /\ Visible' = Visible
          /\ UNCHANGED <<history, version, request, outside>>
          /\ pc'[e] = "saved" /\ \A q \in Requests \ {e} : pc'[q] = pc[q]
      BY <1>0, <1>3, SaveSees
    <2>2. d # e
      BY <2>1 DEF Reading
    <2>3. PICK p \in 0..Len(history) : Since(d, p)
      BY <1>0, <1>i, <2>1, <2>2
    <2>4. Len(history) \in Nat
      BY <1>0, PlacesOfHistory
    <2>5. known[d].version + Cardinality(After(p)') <= version'
      BY <2>1, <2>3 DEF Since, After
    <2> QED
      BY <1>0, <2>1, <2>3, <2>4, <2>5, SinceStays DEF request
  <1>4. ASSUME NEW e \in Edits, Enter(e)
        PROVE  \E p \in 0..Len(history') : Since(d, p)'
    <2>1. /\ Own(e)' = Later(history, history') /\ Visible' = Visible
          /\ \A q \in Requests \ {e} : Own(q)' = Own(q)
          /\ history' \in Seq(Entry) /\ Len(history') \in {Len(history), Len(history) + 1}
          /\ \A i \in 1..Len(history) : history'[i] = history[i]
          /\ pc[e] = "frozen" /\ pc'[e] = "noted"
          /\ \A q \in Requests \ {e} : pc'[q] = pc[q]
      BY <1>0, <1>4, EnterGrows, EditsAreRequests DEF CountInv
    <2>2. UNCHANGED <<version, known, outside>>
      BY <1>4 DEF Enter, request
    <2>3. d # e
      BY <2>1 DEF Reading
    <2>4. PICK p \in 0..Len(history) : Since(d, p)
      BY <1>0, <1>i, <2>1, <2>2, <2>3
    <2>5. Len(history) \in Nat /\ p \in Nat /\ p <= Len(history)
      BY <1>0, PlacesOfHistory
    <2>6. \A c \in Open' : \A i \in Own(c)' : i > p
      <3>1. \A c \in Open' : c \in Edits /\ c \in Requests /\ c \in Open
        BY <2>1, EditsAreRequests DEF Open, Uncommitted
      <3>2. \A i \in Own(e)' : i > p
        BY <2>1, <2>5 DEF Later
      <3> QED
        BY <2>1, <2>4, <3>1, <3>2 DEF Since
    <2>7. known[d].version + Cardinality(After(p)') <= version'
      BY <2>1, <2>2, <2>4 DEF Since, After
    <2>8. Len(history') >= Len(history) /\ Len(history') \in Nat
      BY <2>1, <2>5
    <2> QED
      BY <1>0, <2>1, <2>2, <2>4, <2>6, <2>7, <2>8, SinceStays
  <1>5. ASSUME NEW e \in Edits, Commit(e) \/ Abort(e)
        PROVE  \E p \in 0..Len(history') : Since(d, p)'
    <2>1. /\ Open' = {} /\ UNCHANGED <<history, known, outside>>
          /\ \A c \in Edits : Own(c)' = Own(c)
          /\ Visible' = IF Commit(e) THEN Visible \cup Own(e) ELSE Visible
          /\ pc'[e] \in {"done", "aborted"} /\ \A q \in Requests \ {e} : pc'[q] = pc[q]
      BY <1>0, <1>5, EndSees, EditsAreRequests
    <2>2. d # e
      BY <2>1 DEF Reading
    <2>3. PICK p \in 0..Len(history) : Since(d, p)
      BY <1>0, <1>i, <2>1, <2>2
    <2>4. CASE Commit(e)
      BY <2>1, <2>3, <2>4, SinceCommit
    <2>5. CASE ~Commit(e)
      <3>1. version' = version
        BY <1>5, <2>5 DEF Abort
      <3> QED
        BY <1>0, <2>1, <2>3, <2>5, <3>1, SinceUnseen
    <2> QED
      BY <2>4, <2>5
  <1>6. ASSUME NEW o \in Others, OtherStep(o)
        PROVE  \E p \in 0..Len(history') : Since(d, p)'
    <2>1. /\ Open' = Open /\ pc'[d] = pc[d] /\ UNCHANGED known
      BY <1>0, <1>6, OthersMove DEF request
    <2>2. /\ outside = {} /\ UNCHANGED <<history, version>> /\ Visible' = Visible
          /\ \A c \in Edits : Own(c)' = Own(c)
      BY <1>0, <1>6, OthersRead, EditsAreRequests
    <2>3. PICK p \in 0..Len(history) : Since(d, p)
      BY <1>i, <2>1, <2>2
    <2> QED
      BY <1>0, <2>1, <2>2, <2>3, SinceUnseen
  <1> QED
    BY <1>1, <1>2, <1>3, <1>4, <1>5, <1>6 DEF Next, EditStep, Quiet, OtherStep, Requests

-----------------------------------------------------------------------------
(* The check of the version *)

\* The entries that came since the client read are among those that are looked at.
LEMMA LookedAt ==
    ASSUME HistType, NEW p \in Nat, NEW count \in Nat, Cardinality(After(p)) <= count,
           NEW j \in After(p)
    PROVE  DOMAIN history[j].diff \subseteq modified_fields(count)
  <1>1. /\ IsFiniteSet(After(p)) /\ Cardinality(After(p)) \in Nat
        /\ j \in Nat /\ j \in Visible
        /\ \A k \in Visible : k \in Nat
    <2>1. IsFiniteSet(After(p)) /\ Cardinality(After(p)) \in Nat
      BY AfterFinite
    <2>2. \A k \in Visible : k \in Nat
      BY PlacesOfHistory
    <2>3. j \in Visible
      BY DEF After
    <2> QED
      BY <2>1, <2>2, <2>3
  <1>2. After(j) \subseteq After(p) \ {j}
    <2>1. j > p
      BY DEF After
    <2>2. ASSUME NEW k \in After(j) PROVE k \in After(p) /\ k # j
      <3>1. k \in Visible /\ k > j /\ k \in Nat
        BY <1>1 DEF After
      <3>2. k > p /\ k # j
        BY <1>1, <2>1, <3>1
      <3> QED
        BY <3>1, <3>2 DEF After
    <2> QED
      BY <2>2
  <1>3. PICK S : S = After(p)
    OBVIOUS
  <1>4. IsFiniteSet(S \ {j}) /\ Cardinality(S \ {j}) = Cardinality(S) - 1
    BY <1>1, <1>3, FS_RemoveElement
  <1>5. Cardinality(After(j)) <= Cardinality(S \ {j})
    BY <1>2, <1>3, <1>4, FS_Subset
  <1>6. Cardinality(After(j)) < count
    <2>1. Cardinality(After(j)) \in Nat
      BY <1>1, AfterFinite
    <2> QED
      BY <1>1, <1>3, <1>4, <1>5, <2>1
  <1> QED
    BY <1>1, <1>6 DEF modified_fields, After

LEMMA AcceptedExact ==
    ASSUME CountInv, HistInv, outside = {},
           NEW e \in Edits, e \notin overlapped, pc[e] = "versioned", Accepts(e),
           NEW f \in fields[e]
    PROVE  row[f] = known[e].row[f]
  <1>1. HistType /\ OwnInv /\ f \in Fields
    BY DEF HistInv, HistType
  <1>2. read[e] = version /\ version \in Nat /\ known[e].version \in Nat
    BY <1>1 DEF HistInv, AloneInv, CountInv, CountType, HistType
  <1>3. Snapshot(history, Visible) = row
    BY <1>1 DEF HistInv, OwnInv, SnapshotInv
  <1>4. PICK p \in 0..Len(history) : Since(e, p)
    BY DEF HistInv, SinceInv, Reading
  <1>5. p \in Nat /\ Visible \in SUBSET (1..Len(history))
    BY <1>1, PlacesOfHistory
  <1>6. PICK count \in Nat : count = version - known[e].version
    BY <1>2 DEF Accepts
  <1>7. Cardinality(After(p)) <= count
    <2>1. Cardinality(After(p)) \in Nat
      BY <1>1, <1>5, AfterFinite
    <2>2. known[e].version + Cardinality(After(p)) <= version
      BY <1>4 DEF Since, After
    <2> QED
      BY <1>2, <1>6, <2>1, <2>2
  <1>8. f \notin modified_fields(count)
    BY <1>2, <1>6 DEF Accepts
  <1>9. \A j \in Visible \ (Visible \cap (1..p)) : f \notin DOMAIN history[j].diff
    <2> TAKE j \in Visible \ (Visible \cap (1..p))
    <2>1. j \in After(p)
      BY <1>5 DEF After
    <2> QED
      BY <1>1, <1>5, <1>7, <1>8, <2>1, LookedAt
  <1>10. Snapshot(history, Visible \cap (1..p))[f] = Snapshot(history, Visible)[f]
    <2>1. PICK less : less = Visible \cap (1..p)
      OBVIOUS
    <2>2. less \subseteq Visible /\ \A j \in Visible \ less : f \notin DOMAIN history[j].diff
      BY <1>9, <2>1
    <2>3. PICK at, entries : at = Visible /\ entries = history
      OBVIOUS
    <2>4. less \subseteq at /\ \A j \in at \ less : f \notin DOMAIN entries[j].diff
      BY <2>2, <2>3
    <2>5. Snapshot(entries, less)[f] = Snapshot(entries, at)[f]
      BY <1>1, <2>4, SnapshotWithout
    <2>6. Snapshot(history, less)[f] = Snapshot(history, Visible)[f]
      BY <2>3, <2>5
    <2> QED
      BY <2>1, <2>6
  <1> QED
    BY <1>3, <1>4, <1>10 DEF Since

LEMMA ConflictRefusedKept == CountInv /\ HistInv /\ [Next]_vars => ConflictRefused'
  <1> SUFFICES ASSUME CountInv, HistInv, [Next]_vars, outside' = {},
                      NEW d \in Edits, d \notin overlapped', pc'[d] = "accepted",
                      NEW f \in fields'[d]
               PROVE  row'[f] = known'[d].row[f]
    BY DEF ConflictRefused
  <1>0. HistType /\ OwnInv /\ d \in Requests /\ pc \in [Requests -> Places]
    BY EditsAreRequests DEF HistInv, CountInv, CountType, Places
  <1>i. outside = {} /\ d \notin overlapped /\ pc[d] = "accepted" =>
            Open = {} /\ \A g \in fields[d] : row[g] = known[d].row[g]
    BY DEF HistInv, ConflictRefused, AloneInv
  <1>1. CASE UNCHANGED vars
    BY <1>i, <1>1 DEF vars, request
  <1>2. ASSUME NEW e \in Edits, Quiet(e)
        PROVE  row'[f] = known'[d].row[f]
    <2>1. /\ UNCHANGED row /\ outside \subseteq outside'
          /\ \A q \in Requests \ {e} : pc'[q] = pc[q]
      BY <1>0, <1>2, QuietSees
    <2>2. d \notin overlapped
      BY <1>2 DEF Quiet, Fetch, Load, Lock, ReadVersion, Check, Freeze, Release
    <2>3. CASE d # e
      <3>1. pc[d] = "accepted" /\ known'[d] = known[d] /\ fields'[d] = fields[d]
        BY <1>0, <1>2, <2>1, <2>3
           DEF Quiet, Fetch, Load, Lock, ReadVersion, Check, Freeze, Release, request, HistType
      <3> QED
        BY <1>i, <2>1, <2>2, <3>1
    <2>4. CASE d = e
      <3>1. Check(e) /\ pc[e] = "versioned" /\ Accepts(e) /\ UNCHANGED <<known, fields>>
        BY <1>0, <1>2, <2>4
           DEF Quiet, Fetch, Load, Lock, ReadVersion, Check, Freeze, Release, Goto, request
      <3> QED
        BY <2>1, <2>2, <2>4, <3>1, AcceptedExact
    <2> QED
      BY <2>3, <2>4
  <1>3. ASSUME NEW e \in Edits, Save(e)
        PROVE  row'[f] = known'[d].row[f]
    <2>1. /\ pc'[e] = "saved" /\ \A q \in Requests \ {e} : pc'[q] = pc[q]
          /\ UNCHANGED <<row, request, overlapped, outside>>
      BY <1>0, <1>3, SaveSees
    <2> QED
      BY <1>0, <1>i, <2>1 DEF request
  <1>4. ASSUME NEW e \in Edits, Enter(e)
        PROVE  row'[f] = known'[d].row[f]
    <2>1. pc'[e] = "noted" /\ \A q \in Requests \ {e} : pc'[q] = pc[q]
      BY <1>0, <1>4, EnterGrows, EditsAreRequests DEF CountInv
    <2>2. UNCHANGED <<row, request, overlapped, outside>>
      BY <1>4 DEF Enter
    <2> QED
      BY <1>0, <1>i, <2>1, <2>2 DEF request
  <1>5. ASSUME NEW e \in Edits, Commit(e) \/ Abort(e) PROVE FALSE
    <2>1. /\ Open = {e} /\ UNCHANGED <<overlapped, outside>> /\ pc'[e] \in {"done", "aborted"}
          /\ \A q \in Requests \ {e} : pc'[q] = pc[q]
      BY <1>0, <1>5, EndSees
    <2> QED
      BY <1>0, <1>i, <2>1
  <1>6. ASSUME NEW o \in Others, OtherStep(o)
        PROVE  row'[f] = known'[d].row[f]
    <2>1. pc'[d] = pc[d] /\ UNCHANGED <<known, fields, overlapped>>
      BY <1>0, <1>6, OthersMove DEF request
    <2>2. outside = {} /\ UNCHANGED row
      BY <1>0, <1>6, OthersRead
    <2> QED
      BY <1>i, <2>1, <2>2
  <1> QED
    BY <1>1, <1>2, <1>3, <1>4, <1>5, <1>6 DEF Next, EditStep, Quiet, OtherStep, Requests

LEMMA HistInductive == CountInv /\ HistInv /\ [Next]_vars => HistInv'
  <1>1. CountInv /\ HistInv /\ [Next]_vars => QueueInv'
    BY QueueInductive DEF CountInv, HistInv
  <1> QED
    BY <1>1, HistTypeKept, OwnInvKept, SnapshotInvKept, AloneInvKept, SinceInvKept,
       ConflictRefusedKept DEF HistInv

LEMMA OccAlways == Spec => [](CountInv /\ HistInv)
  BY InitCount, InitHist, CountInductive, HistInductive, PTL DEF Spec

\* For any number of requests and fields the variables stay in their types, the
\* key's lock is with the edit that is between Lock and Release, the history's with
\* the request that has read the row for its entry, and one transaction at a time
\* has the row.
THEOREM OccTypeCorrect == Spec => []TypeOK
  <1>1. CountInv /\ HistInv => TypeOK
    <2> SUFFICES ASSUME CountInv, HistInv PROVE TypeOK
      OBVIOUS
    <2>1. HistType /\ QueueInv
      BY DEF HistInv
    <2>2. \A i \in DOMAIN history :
              history[i].by \in Requests /\ DOMAIN history[i].diff \in (SUBSET Fields) \ {{}}
      <3>1. history \in Seq(Entry)
        BY <2>1 DEF HistType
      <3>2. \A i \in DOMAIN history : history[i] \in Entry
        BY <3>1
      <3>3. \A x \in Entry : x.by \in Requests /\ DOMAIN x.diff \in (SUBSET Fields) \ {{}}
        BY DEF Entry
      <3> QED
        BY <3>2, <3>3
    <2> QED
      BY <2>1, <2>2 DEF TypeOK, CountInv, CountType, RowLockInv, KeyLockInv, HistType, QueueInv
  <1> QED
    BY OccAlways, <1>1, PTL

\* For any number of edits, bulk requests and fields, committed or rolled back in
\* any order, the entries that are visible rebuild the row that is stored, edits
\* that are open or not; unless the task board wrote, a bulk request has written
\* and its entry is not there yet, or a snapshot was taken between the end of
\* another's lock on the history and its commit.
THEOREM HistoryExactHolds == Spec => []HistoryExact
  <1>1. CountInv /\ HistInv => HistoryExact
    BY DEF HistInv, SnapshotInv, HistoryExact
  <1> QED
    BY OccAlways, <1>1, PTL

\* An edit that did not overlap another one and is accepted names only fields that
\* still have the values its client has read: as many entries as the version has
\* grown by are enough to find every change.
THEOREM ConflictRefusedHolds == Spec => []ConflictRefused
  <1>1. CountInv /\ HistInv => ConflictRefused
    BY DEF HistInv
  <1> QED
    BY OccAlways, <1>1, PTL
=============================================================================
