----------------------------- MODULE RetroVoting -----------------------------
(***************************************************************************)
(* Voting on the items of a sprint retrospective (sprint_execution/views.py *)
(* SprintRetrospectiveView.post and RetrospectiveVoteView.post).            *)
(*                                                                         *)
(* The items are a row of the database; the votes are two kinds of entries  *)
(* of the Django cache, which is LocMemCache (settings/common.py:40): each  *)
(* server process has its own.  An entry belongs to the index of an item,   *)
(* and it disappears after a day or when its process restarts.  A vote is   *)
(* two reads and two writes of the cache that nothing makes atomic.         *)
(*                                                                         *)
(* The development server (README.md:71) is one process with a thread per   *)
(* request; docker/entrypoint.sh starts processes that serve one request at *)
(* a time.  The lists went_well and to_improve do not share any key, so one *)
(* of them stands for both.  A POST of the retrospective touches no cache,  *)
(* so the process that serves it does not matter.                           *)
(***************************************************************************)
EXTENDS Integers, FiniteSets, Sequences

CONSTANTS
    Members,    \* members of the project
    Outsiders,  \* other users
    Workers,    \* server processes
    Requests,   \* POSTs of votes
    Lists,      \* the lists of items that the Scrum Master may post
    NoRetro,    \* the sprint has no retrospective
    MaxPosts,   \* bound on the POSTs of the retrospective
    MaxLosses   \* bound on expiries and restarts

Users == Members \cup Outsiders
Posts == 1..MaxPosts

\* One past the end included; -1 stands for the negative ones.
Indexes == {-1} \cup UNION {0..Len(l) : l \in Lists}

\* What a POST of the retrospective holds in memory between its two saves.
Retro == [list : Lists, created : BOOLEAN]

ASSUME RequestsAssumption == IsFiniteSet(Requests)
ASSUME ListsAssumption == \A l \in Lists : l \in Seq(STRING)
ASSUME NoRetroAssumption == NoRetro \notin Lists \cup Retro
ASSUME BoundsAssumption == MaxPosts \in Nat /\ MaxLosses \in Nat

VARIABLES
    threaded,   \* whether a process serves several requests at a time
    items,      \* the items of the sprint's retrospective, or NoRetro
    votes,      \* votes[w][i]: "retro_vote_..." in the cache of w; 0 if absent
    voted,      \* voted[w]: the <<user, index>> with "user_voted_..." there
    req,        \* the votes and the local variables of their handlers
    saving,     \* saving[k]: the instance that the k-th POST is to save again
    overlapped, \* history: the votes that met another one on their item
    posts, losses   \* how often the items were posted, and entries lost

vars == <<threaded, items, votes, voted, req, saving, overlapped, posts, losses>>

Idle == {"queued", "done"}
Busy == {"check", "read", "write", "remember"}

Vote ==
    [pc : Idle \cup Busy, user : Users, index : Indexes, worker : Workers,
     current_votes : Nat, code : {0, 200, 400, 403, 404}]

TypeOK ==
    /\ threaded \in BOOLEAN
    /\ items \in Lists \cup {NoRetro}
    /\ votes \in [Workers -> [Indexes -> Nat]]
    /\ voted \in [Workers -> SUBSET (Users \X Indexes)]
    /\ req \in [Requests -> Vote]
    /\ saving \in [Posts -> Retro \cup {NoRetro}]
    /\ overlapped \in SUBSET Requests
    /\ posts \in 0..MaxPosts
    /\ losses \in 0..MaxLosses

Init ==
    /\ threaded \in BOOLEAN
    /\ items = NoRetro
    /\ votes = [w \in Workers |-> [i \in Indexes |-> 0]]
    /\ voted = [w \in Workers |-> {}]
    /\ req \in [Requests ->
         {[pc |-> "queued", user |-> u, index |-> i, worker |-> w,
           current_votes |-> 0, code |-> 0] :
             u \in Users, i \in Indexes, w \in Workers}]
    /\ saving = [k \in Posts |-> NoRetro]
    /\ overlapped = {}
    /\ posts = 0
    /\ losses = 0

-----------------------------------------------------------------------------
(* RetrospectiveVoteView.post *)

Cache == <<votes, voted>>
Rest == <<threaded, items, saving, posts, losses>>

Goto(r, from, to) ==
    /\ req[r].pc = from
    /\ req' = [req EXCEPT ![r].pc = to]

Answer(r, from, code) ==
    /\ req[r].pc = from
    /\ req' = [req EXCEPT ![r] = [@ EXCEPT !.pc = "done", !.code = code]]

\* Faulty variant: the parts of the key are swapped.
UserKeySwapped(r) == <<req[r].index, req[r].user>>

UserKey(r) == <<req[r].user, req[r].index>>

\* A process that serves one request at a time takes r only when it is free.
Free(r) ==
    threaded \/ \A q \in Requests : req[q].worker = req[r].worker => req[q].pc \in Idle

\* The votes in progress on the same counter as r.
Meets(r) ==
    {q \in Requests \ {r} : /\ req[q].worker = req[r].worker
                            /\ req[q].index = req[r].index
                            /\ req[q].pc \in Busy}

\* The lookups, in the order of their early returns; a negative index passes.
Begin(r) ==
    /\ Free(r)
    /\ \/ /\ req[r].user \notin Members
          /\ Answer(r, "queued", 403)
          /\ UNCHANGED overlapped
       \/ /\ req[r].user \in Members /\ items = NoRetro
          /\ Answer(r, "queued", 404)
          /\ UNCHANGED overlapped
       \/ /\ req[r].user \in Members /\ items # NoRetro /\ req[r].index >= Len(items)
          /\ Answer(r, "queued", 400)
          /\ UNCHANGED overlapped
       \/ /\ req[r].user \in Members /\ items # NoRetro /\ req[r].index < Len(items)
          /\ Goto(r, "queued", "check")
          /\ overlapped' =
                overlapped \cup Meets(r) \cup {q \in {r} : Meets(r) # {}}
    /\ UNCHANGED <<Cache, Rest>>

\* Faulty variant: nobody is turned away.
CheckNobody(r) ==
    /\ Goto(r, "check", "read")
    /\ UNCHANGED <<Cache, overlapped, Rest>>

\* "Verificar si ya voto"
CheckVoted(r) ==
    /\ IF UserKey(r) \in voted[req[r].worker]
       THEN Answer(r, "check", 400)
       ELSE Goto(r, "check", "read")
    /\ UNCHANGED <<Cache, overlapped, Rest>>

ReadVotes(r) ==
    /\ req[r].pc = "read"
    /\ LET current == votes[req[r].worker][req[r].index]
       IN  req' = [req EXCEPT ![r] = [@ EXCEPT !.pc = "write", !.current_votes = current]]
    /\ UNCHANGED <<Cache, overlapped, Rest>>

\* Faulty variant: the counter is incremented in the cache on top of the
\* increment of the value that was read.
WriteVotesTwice(r) ==
    /\ Goto(r, "write", "remember")
    /\ votes' = [votes EXCEPT
         ![req[r].worker][req[r].index] = @ + req[r].current_votes + 1]
    /\ UNCHANGED <<voted, overlapped, Rest>>

\* Faulty variant: the counter gets the value that was read.
WriteOldVotes(r) ==
    /\ Goto(r, "write", "remember")
    /\ votes' = [votes EXCEPT ![req[r].worker][req[r].index] = req[r].current_votes]
    /\ UNCHANGED <<voted, overlapped, Rest>>

WriteVotes(r) ==
    /\ Goto(r, "write", "remember")
    /\ votes' = [votes EXCEPT ![req[r].worker][req[r].index] = req[r].current_votes + 1]
    /\ UNCHANGED <<voted, overlapped, Rest>>

\* Faulty variant: the entry does not name the item.
RememberVoterOfAll(r) ==
    /\ Answer(r, "remember", 200)
    /\ voted' = [voted EXCEPT ![req[r].worker] = @ \cup ({req[r].user} \X Indexes)]
    /\ UNCHANGED <<votes, overlapped, Rest>>

RememberVoter(r) ==
    /\ Answer(r, "remember", 200)
    /\ voted' = [voted EXCEPT ![req[r].worker] = @ \cup {UserKey(r)}]
    /\ UNCHANGED <<votes, overlapped, Rest>>

Handle(r) ==
    Begin(r) \/ CheckVoted(r) \/ ReadVotes(r) \/ WriteVotes(r) \/ RememberVoter(r)

-----------------------------------------------------------------------------
(* The Scrum Master, the clock and the processes *)

\* SprintRetrospectiveView.post: update_or_create makes or replaces the row.
Post(l) ==
    /\ posts < MaxPosts
    /\ posts' = posts + 1
    /\ items' = l
    /\ saving' = [saving EXCEPT ![posts + 1] = [list |-> l, created |-> items = NoRetro]]
    /\ UNCHANGED <<threaded, votes, voted, req, overlapped, losses>>

\* The end of the handler: calculate_commitment_accuracy saves the whole row
\* again if the sprint has points, and _clear_voting_cache, which is called on
\* an update, removes no entry.
SaveAccuracy(k) ==
    /\ saving[k] # NoRetro
    /\ items' \in {items, saving[k].list}
    /\ saving' = [saving EXCEPT ![k] = NoRetro]
    /\ UNCHANGED <<threaded, votes, voted, req, overlapped, posts, losses>>

Lose ==
    /\ losses < MaxLosses
    /\ losses' = losses + 1
    /\ UNCHANGED <<threaded, items, saving, overlapped, posts>>

\* A day has passed since an entry was set.
Expire(w) ==
    /\ Lose
    /\ \/ /\ \E i \in Indexes : votes[w][i] > 0 /\ votes' = [votes EXCEPT ![w][i] = 0]
          /\ UNCHANGED voted
       \/ /\ \E k \in voted[w] : voted' = [voted EXCEPT ![w] = @ \ {k}]
          /\ UNCHANGED votes
    /\ UNCHANGED req

\* A process restarts: its cache and its handlers are gone.
Restart(w) ==
    /\ Lose
    /\ votes' = [votes EXCEPT ![w] = [i \in Indexes |-> 0]]
    /\ voted' = [voted EXCEPT ![w] = {}]
    /\ req' = [r \in Requests |->
         IF req[r].worker = w /\ req[r].pc \in Busy
         THEN [req[r] EXCEPT !.pc = "done"]
         ELSE req[r]]

Next ==
    \/ \E r \in Requests : Handle(r)
    \/ \E l \in Lists : Post(l)
    \/ \E k \in Posts : SaveAccuracy(k)
    \/ \E w \in Workers : Expire(w) \/ Restart(w)

Spec == Init /\ [][Next]_vars

-----------------------------------------------------------------------------
(* Properties *)

On(w, i) == {r \in Requests : req[r].worker = w /\ req[r].index = i}

Accepted(w, i) == {r \in On(w, i) : req[r].code = 200}

\* The votes that have reached the counter.
Counted(w, i) == Accepted(w, i) \cup {r \in On(w, i) : req[r].pc = "remember"}

\* However the handlers overlap, whatever expires and whichever process
\* restarts, the counter of an item never exceeds the votes cast: a racing
\* vote may be lost, but none is invented.
NoPhantomVotes ==
    \A w \in Workers, i \in Indexes : votes[w][i] <= Cardinality(Counted(w, i))

\* As long as nothing expires and the list is not replaced, only votes that
\* met another one on their item may be lost, and never all of them.
LoneVotesStand ==
    losses = 0 /\ posts <= 1 => \A w \in Workers, i \in Indexes :
        /\ votes[w][i] >= Cardinality(Accepted(w, i) \ overlapped)
        /\ Accepted(w, i) # {} => votes[w][i] >= 1

\* As long as nothing expires and the list is not replaced, an item on which
\* no two votes ever met shows exactly the votes that were accepted, and a
\* second vote of one user in one process is accepted only when both met
\* others.
LoneExact ==
    losses = 0 /\ posts <= 1 => \A w \in Workers, i \in Indexes :
        /\ On(w, i) \cap overlapped = {} /\ (\A r \in On(w, i) : req[r].pc \in Idle) =>
              votes[w][i] = Cardinality(Accepted(w, i))
        /\ \A r, q \in Accepted(w, i) :
              r # q /\ req[r].user = req[q].user => {r, q} \subseteq overlapped

\* As long as the list is not replaced, nobody is told "Ya has votado por este
\* item" but for a vote on that very item that was accepted before.
RefusedOnlyAfterVote ==
    [][\A r \in Requests :
         posts <= 1 /\ req[r].pc = "check" /\ req'[r].code = 400 =>
            \E q \in Accepted(req[r].worker, req[r].index) : req[q].user = req[r].user]_vars

\* "Ya has votado por este item" (views.py:1426): while nothing expires and
\* the list is not replaced, no user has two votes on an item accepted.
VotesOnce ==
    losses = 0 /\ posts <= 1 => \A r, q \in Requests :
        r # q /\ req[r].code = 200 /\ req[q].code = 200 =>
            req[r].user # req[q].user \/ req[r].index # req[q].index

\* "Limpiar cache de votos si se esta actualizando" (views.py:1175): after an
\* update of the retrospective some process shows no votes.
ClearedOnUpdate ==
    [][\A k \in Posts :
         saving[k] # NoRetro /\ ~saving[k].created /\ saving'[k] = NoRetro =>
            \E w \in Workers : \A i \in Indexes : votes'[w][i] = 0]_vars

=============================================================================
