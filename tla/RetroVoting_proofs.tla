------------------------- MODULE RetroVoting_proofs -------------------------
(***************************************************************************)
(* What holds of RetroVoting for any number of users, items, processes and  *)
(* requests.                                                                *)
(***************************************************************************)
EXTENDS RetroVoting, FiniteSetTheorems, TLAPS

-----------------------------------------------------------------------------
(* What a step does to the record of one request *)

Codes == {0, 200, 400, 403, 404}

\* Only r moved, to p; its code is now c and its current_votes n.
Stepped(r, p, c, n) ==
    /\ req' \in [Requests -> Vote]
    /\ \A q \in Requests : q # r => req'[q] = req[q]
    /\ req'[r].user = req[r].user
    /\ req'[r].index = req[r].index
    /\ req'[r].worker = req[r].worker
    /\ req'[r].pc = p /\ req'[r].code = c /\ req'[r].current_votes = n

LEMMA SetPc ==
    ASSUME NEW v \in Vote, NEW p \in Idle \cup Busy
    PROVE  /\ [v EXCEPT !.pc = p] \in Vote
           /\ [v EXCEPT !.pc = p].pc = p
           /\ [v EXCEPT !.pc = p].user = v.user
           /\ [v EXCEPT !.pc = p].index = v.index
           /\ [v EXCEPT !.pc = p].worker = v.worker
           /\ [v EXCEPT !.pc = p].code = v.code
           /\ [v EXCEPT !.pc = p].current_votes = v.current_votes
  BY DEF Vote

LEMMA GotoSteps ==
    ASSUME TypeOK, NEW r \in Requests, NEW from, NEW to \in Idle \cup Busy,
           Goto(r, from, to)
    PROVE  Stepped(r, to, req[r].code, req[r].current_votes) /\ req[r].pc = from
  <1> DEFINE h == [req[r] EXCEPT !.pc = to]
  <1>1. req[r] \in Vote
    BY DEF TypeOK
  <1>2. /\ h \in Vote
        /\ h.user = req[r].user /\ h.index = req[r].index
        /\ h.worker = req[r].worker /\ h.pc = to /\ h.code = req[r].code
        /\ h.current_votes = req[r].current_votes
    BY <1>1, SetPc
  <1>3. req' = [req EXCEPT ![r] = h] /\ req[r].pc = from
    BY DEF Goto
  <1> HIDE DEF h
  <1> QED
    BY <1>1, <1>2, <1>3 DEF Stepped, TypeOK

LEMMA AnswerSteps ==
    ASSUME TypeOK, NEW r \in Requests, NEW from, NEW code \in Codes,
           Answer(r, from, code)
    PROVE  Stepped(r, "done", code, req[r].current_votes) /\ req[r].pc = from
  <1> DEFINE g == [req[r] EXCEPT !.pc = "done"]
             h == [g EXCEPT !.code = code]
  <1>1. g \in Vote
    BY SetPc DEF TypeOK, Idle
  <1>2. h \in Vote
    <2> HIDE DEF g
    <2> QED BY <1>1 DEF Vote, Codes
  <1>3. /\ h.user = req[r].user /\ h.index = req[r].index
        /\ h.worker = req[r].worker /\ h.pc = "done" /\ h.code = code
        /\ h.current_votes = req[r].current_votes
    BY DEF TypeOK, Vote
  <1>4. req' = [req EXCEPT ![r] = h] /\ req[r].pc = from
    BY DEF Answer, TypeOK, Vote
  <1> HIDE DEF g, h
  <1> QED
    BY <1>2, <1>3, <1>4 DEF Stepped, TypeOK

LEMMA ReadSteps ==
    ASSUME TypeOK, NEW r \in Requests, ReadVotes(r)
    PROVE  /\ Stepped(r, "write", req[r].code, votes[req[r].worker][req[r].index])
           /\ req[r].pc = "read"
  <1> DEFINE n == votes[req[r].worker][req[r].index]
             g == [req[r] EXCEPT !.pc = "write"]
             h == [g EXCEPT !.current_votes = n]
  <1>1. n \in Nat
    BY DEF TypeOK, Vote
  <1>2. g \in Vote
    BY SetPc DEF TypeOK, Busy
  <1>3. h \in Vote
    <2> HIDE DEF g, n
    <2> QED BY <1>1, <1>2 DEF Vote
  <1>4. /\ h.user = req[r].user /\ h.index = req[r].index
        /\ h.worker = req[r].worker /\ h.pc = "write" /\ h.code = req[r].code
        /\ h.current_votes = n
    BY DEF TypeOK, Vote
  <1>5. req' = [req EXCEPT ![r] = h] /\ req[r].pc = "read"
    BY DEF ReadVotes, TypeOK, Vote
  <1> HIDE DEF n, g, h
  <1>6. Stepped(r, "write", req[r].code, n)
    BY <1>3, <1>4, <1>5 DEF Stepped, TypeOK
  <1> QED
    BY <1>5, <1>6 DEF n

-----------------------------------------------------------------------------
(* Type correctness *)

LEMMA HandleType ==
    ASSUME TypeOK, NEW r \in Requests, Handle(r)
    PROVE  TypeOK'
  <1>1. req' \in [Requests -> Vote]
    <2>1. CASE Begin(r)
      BY <2>1, AnswerSteps, GotoSteps DEF Begin, Stepped, Codes, Busy
    <2>2. CASE CheckVoted(r)
      BY <2>2, AnswerSteps, GotoSteps DEF CheckVoted, Stepped, Codes, Busy
    <2>3. CASE ReadVotes(r)
      BY <2>3, ReadSteps DEF Stepped
    <2>4. CASE WriteVotes(r)
      BY <2>4, GotoSteps DEF WriteVotes, Stepped, Busy
    <2>5. CASE RememberVoter(r)
      BY <2>5, AnswerSteps DEF RememberVoter, Stepped, Codes
    <2> QED
      BY <2>1, <2>2, <2>3, <2>4, <2>5 DEF Handle
  <1>2. votes' \in [Workers -> [Indexes -> Nat]]
    <2>1. CASE WriteVotes(r)
      <3>1. /\ req[r].worker \in Workers /\ req[r].index \in Indexes
            /\ req[r].current_votes + 1 \in Nat
        BY DEF TypeOK, Vote
      <3> QED
        BY <2>1, <3>1 DEF WriteVotes, TypeOK
    <2>2. CASE ~WriteVotes(r)
      BY <2>2 DEF Handle, Begin, CheckVoted, ReadVotes, RememberVoter, Cache, TypeOK
    <2> QED
      BY <2>1, <2>2
  <1>3. voted' \in [Workers -> SUBSET (Users \X Indexes)]
    <2>1. CASE RememberVoter(r)
      <3>1. /\ req[r].worker \in Workers /\ UserKey(r) \in Users \X Indexes
        BY DEF TypeOK, Vote, UserKey
      <3> QED
        BY <2>1, <3>1 DEF RememberVoter, TypeOK
    <2>2. CASE ~RememberVoter(r)
      BY <2>2 DEF Handle, Begin, CheckVoted, ReadVotes, WriteVotes, Cache, TypeOK
    <2> QED
      BY <2>1, <2>2
  <1>4. UNCHANGED Rest
    BY DEF Handle, Begin, CheckVoted, ReadVotes, WriteVotes, RememberVoter
  <1>5. overlapped' \in SUBSET Requests
    BY DEF Handle, Begin, CheckVoted, ReadVotes, WriteVotes, RememberVoter, Meets, TypeOK
  <1> QED
    BY <1>1, <1>2, <1>3, <1>4, <1>5 DEF TypeOK, Rest

\* What a restart does to the requests.
LEMMA RestartSteps ==
    ASSUME TypeOK, NEW w \in Workers, Restart(w), NEW r \in Requests
    PROVE  /\ req'[r] \in Vote
           /\ req'[r].worker = req[r].worker /\ req'[r].index = req[r].index
           /\ req'[r].code = req[r].code
           /\ req[r].worker = w => req'[r].pc \in Idle
           /\ req[r].worker # w => req'[r] = req[r]
           /\ req'[r].current_votes = req[r].current_votes
           /\ req'[r].pc = req[r].pc \/ req'[r].pc = "done"
  <1> DEFINE h == [req[r] EXCEPT !.pc = "done"]
  <1>1. h \in Vote
    BY SetPc DEF TypeOK, Idle
  <1>2. /\ h.worker = req[r].worker /\ h.index = req[r].index /\ h.pc = "done"
        /\ h.code = req[r].code /\ h.current_votes = req[r].current_votes
    BY DEF TypeOK, Vote
  <1>3. req[r] \in Vote /\ req[r].pc \in Idle \cup Busy
    BY DEF TypeOK, Vote
  <1>4. req'[r] = IF req[r].worker = w /\ req[r].pc \in Busy THEN h ELSE req[r]
    BY DEF Restart
  <1> HIDE DEF h
  <1> QED
    BY <1>1, <1>2, <1>3, <1>4 DEF Idle

LEMMA WorldType ==
    ASSUME TypeOK,
           \/ \E l \in Lists : Post(l)
           \/ \E k \in Posts : SaveAccuracy(k)
           \/ (\E w \in Workers : Expire(w) \/ Restart(w))
    PROVE  TypeOK'
  <1>1. ASSUME NEW l \in Lists, Post(l) PROVE TypeOK'
    <2>1. posts' \in 0..MaxPosts /\ posts + 1 \in Posts
      BY <1>1, BoundsAssumption DEF Post, Posts, TypeOK
    <2>2. [list |-> l, created |-> items = NoRetro] \in Retro
      BY DEF Retro
    <2>3. saving' \in [Posts -> Retro \cup {NoRetro}]
      BY <1>1, <2>1, <2>2 DEF Post, TypeOK
    <2> QED
      BY <1>1, <2>1, <2>3 DEF Post, TypeOK
  <1>5. ASSUME NEW k \in Posts, SaveAccuracy(k) PROVE TypeOK'
    <2>1. saving[k].list \in Lists
      BY <1>5, NoRetroAssumption DEF SaveAccuracy, TypeOK, Retro
    <2> QED
      BY <1>5, <2>1 DEF SaveAccuracy, TypeOK
  <1>2. ASSUME Lose PROVE losses' \in 0..MaxLosses
    BY <1>2, BoundsAssumption DEF Lose, TypeOK
  <1>3. ASSUME NEW w \in Workers, Expire(w) PROVE TypeOK'
    <2>1. votes' \in [Workers -> [Indexes -> Nat]]
      BY <1>3 DEF Expire, TypeOK
    <2>2. voted' \in [Workers -> SUBSET (Users \X Indexes)]
      BY <1>3 DEF Expire, TypeOK
    <2> QED
      BY <1>2, <1>3, <2>1, <2>2 DEF Expire, Lose, TypeOK
  <1>4. ASSUME NEW w \in Workers, Restart(w) PROVE TypeOK'
    <2>1. req' \in [Requests -> Vote]
      <3>1. req' = [r \in Requests |-> req'[r]]
        BY <1>4 DEF Restart
      <3> QED
        BY <1>4, <3>1, RestartSteps
    <2>2. /\ votes' \in [Workers -> [Indexes -> Nat]]
          /\ voted' \in [Workers -> SUBSET (Users \X Indexes)]
      BY <1>4 DEF Restart, TypeOK
    <2> QED
      BY <1>2, <1>4, <2>1, <2>2 DEF Restart, Lose, TypeOK
  <1> QED
    BY <1>1, <1>3, <1>4, <1>5

LEMMA InitType == Init => TypeOK
  <1> SUFFICES ASSUME Init PROVE TypeOK
    OBVIOUS
  <1>1. req \in [Requests -> Vote]
    BY DEF Init, Vote, Idle
  <1> QED
    BY <1>1, BoundsAssumption DEF Init, TypeOK

LEMMA StutterType == ASSUME TypeOK, UNCHANGED vars PROVE TypeOK'
  BY DEF TypeOK, vars

\* The variables keep their types whatever overlaps, expires or restarts: a key
\* of the cache always names a user and an index of a list that was posted
\* (RetrospectiveVoteView.post).
THEOREM VotingTypeCorrect == Spec => []TypeOK
  <1>1. Init => TypeOK
    BY InitType
  <1>2. TypeOK /\ [Next]_vars => TypeOK'
    BY HandleType, WorldType, StutterType DEF Next
  <1> QED
    BY <1>1, <1>2, PTL DEF Spec

-----------------------------------------------------------------------------
(* No vote is invented *)

\* A handler that is about to write holds a number that the votes counted so
\* far justify, and only a request that has left its mark has been accepted.
ReadJustified ==
    \A r \in Requests, w \in Workers, i \in Indexes :
        req[r].pc = "write" /\ req[r].worker = w /\ req[r].index = i =>
            req[r].current_votes <= Cardinality(Counted(w, i))

AcceptedAtEnd == \A r \in Requests : req[r].code = 200 => req[r].pc = "done"

NPInv == TypeOK /\ NoPhantomVotes /\ ReadJustified /\ AcceptedAtEnd

\* Sets of requests are finite, and so have a size that is monotonic.
LEMMA CountedSize ==
    ASSUME NEW S \in SUBSET Requests, NEW T \in SUBSET S
    PROVE  /\ IsFiniteSet(S)
           /\ Cardinality(S) \in Nat /\ Cardinality(T) \in Nat
           /\ Cardinality(T) <= Cardinality(S)
  <1>1. IsFiniteSet(S)
    BY RequestsAssumption, FS_Subset
  <1>2. IsFiniteSet(T) /\ Cardinality(T) <= Cardinality(S)
    BY <1>1, FS_Subset
  <1> QED
    BY <1>1, <1>2, FS_CardinalityType

LEMMA CountedDef ==
    ASSUME NEW w, NEW i, NEW r
    PROVE  r \in Counted(w, i) <=>
             /\ r \in Requests /\ req[r].worker = w /\ req[r].index = i
             /\ req[r].code = 200 \/ req[r].pc = "remember"
  BY DEF Counted, Accepted, On

\* A step of one handler takes no vote back, as long as it leaves "remember"
\* only with an acceptance.
LEMMA CountedKept ==
    ASSUME NPInv, NEW r \in Requests, NEW p, NEW c, NEW n, Stepped(r, p, c, n),
           req[r].pc = "remember" => c = 200, req[r].pc # "done",
           NEW w, NEW i
    PROVE  Counted(w, i) \subseteq Counted(w, i)'
  <1> SUFFICES ASSUME NEW q \in Counted(w, i) PROVE q \in Counted(w, i)'
    OBVIOUS
  <1>1. /\ q \in Requests /\ req[q].worker = w /\ req[q].index = i
        /\ req[q].code = 200 \/ req[q].pc = "remember"
    BY CountedDef
  <1>2. /\ req'[q].worker = w /\ req'[q].index = i
        /\ req'[q].code = 200 \/ req'[q].pc = "remember"
    <2>1. CASE q # r
      BY <1>1, <2>1 DEF Stepped
    <2>2. CASE q = r
      BY <1>1, <2>2 DEF Stepped, NPInv, AcceptedAtEnd
    <2> QED
      BY <2>1, <2>2
  <1> QED
    BY <1>1, <1>2 DEF Counted, Accepted, On

\* What is left to show of a step that keeps the votes counted.
LEMMA KeptSuffices ==
    ASSUME NPInv, TypeOK', votes' = votes,
           \A w, i : Counted(w, i) \subseteq Counted(w, i)'
    PROVE  NoPhantomVotes'
  <1> SUFFICES ASSUME NEW w \in Workers, NEW i \in Indexes
               PROVE  votes'[w][i] <= Cardinality(Counted(w, i)')
    BY DEF NoPhantomVotes
  <1>1. Counted(w, i)' \in SUBSET Requests
    BY DEF Counted, Accepted, On
  <1>2. Counted(w, i) \in SUBSET Counted(w, i)'
    OBVIOUS
  <1>3. /\ Cardinality(Counted(w, i)) <= Cardinality(Counted(w, i)')
        /\ Cardinality(Counted(w, i)) \in Nat /\ Cardinality(Counted(w, i)') \in Nat
    BY <1>1, <1>2, CountedSize
  <1>4. votes[w][i] <= Cardinality(Counted(w, i)) /\ votes[w][i] \in Nat
    BY DEF NPInv, NoPhantomVotes, TypeOK
  <1> QED
    BY <1>3, <1>4

\* A handler that was about to write and still is stays justified.
LEMMA WriterKept ==
    ASSUME NPInv, NEW q \in Requests, req[q].pc = "write", req'[q] = req[q],
           NEW w \in Workers, NEW i \in Indexes, req'[q].worker = w, req'[q].index = i,
           Counted(w, i) \subseteq Counted(w, i)'
    PROVE  req'[q].current_votes <= Cardinality(Counted(w, i)')
  <1>1. Counted(w, i)' \in SUBSET Requests /\ Counted(w, i) \in SUBSET Counted(w, i)'
    BY DEF Counted, Accepted, On
  <1>2. /\ Cardinality(Counted(w, i)) <= Cardinality(Counted(w, i)')
        /\ Cardinality(Counted(w, i)) \in Nat /\ Cardinality(Counted(w, i)') \in Nat
    BY <1>1, CountedSize
  <1>3. req[q].current_votes <= Cardinality(Counted(w, i)) /\ req[q].current_votes \in Nat
    BY DEF NPInv, ReadJustified, TypeOK, Vote
  <1> QED
    BY <1>2, <1>3

\* A step of r that leaves the counters alone: to p, with the code c.
LEMMA QuietStep ==
    ASSUME NPInv, TypeOK', NEW r \in Requests, NEW p, NEW c,
           Stepped(r, p, c, req[r].current_votes), votes' = votes,
           req[r].pc = "remember" => c = 200, req[r].pc # "done",
           p # "write", c = 200 => p = "done"
    PROVE  NPInv'
  <1>1. \A w, i : Counted(w, i) \subseteq Counted(w, i)'
    BY CountedKept
  <1>2. NoPhantomVotes'
    BY <1>1, KeptSuffices
  <1>3. ReadJustified'
    <2> SUFFICES ASSUME NEW q \in Requests, NEW w \in Workers, NEW i \in Indexes,
                        req'[q].pc = "write", req'[q].worker = w, req'[q].index = i
                 PROVE  req'[q].current_votes <= Cardinality(Counted(w, i)')
      BY DEF ReadJustified
    <2>1. req'[q] = req[q] /\ req[q].pc = "write"
      BY DEF Stepped
    <2> QED
      BY <1>1, <2>1, WriterKept
  <1>4. AcceptedAtEnd'
    BY DEF AcceptedAtEnd, NPInv, Stepped
  <1> QED
    BY <1>2, <1>3, <1>4 DEF NPInv

LEMMA ReadVotesJustified ==
    ASSUME NPInv, TypeOK', NEW r \in Requests, ReadVotes(r)
    PROVE  NPInv'
  <1> DEFINE n == votes[req[r].worker][req[r].index]
  <1>1. Stepped(r, "write", req[r].code, n) /\ req[r].pc = "read" /\ votes' = votes
    BY ReadSteps DEF NPInv, ReadVotes, Cache
  <1>2. \A w, i : Counted(w, i) \subseteq Counted(w, i)'
    <2> HIDE DEF n
    <2> QED BY <1>1, CountedKept
  <1>3. NoPhantomVotes'
    BY <1>1, <1>2, KeptSuffices
  <1>4. ReadJustified'
    <2> SUFFICES ASSUME NEW q \in Requests, NEW w \in Workers, NEW i \in Indexes,
                        req'[q].pc = "write", req'[q].worker = w, req'[q].index = i
                 PROVE  req'[q].current_votes <= Cardinality(Counted(w, i)')
      BY DEF ReadJustified
    <2>1. CASE q # r
      <3>1. req'[q] = req[q] /\ req[q].pc = "write"
        BY <1>1, <2>1 DEF Stepped
      <3> QED
        BY <1>2, <3>1, WriterKept
    <2>2. CASE q = r
      <3>1. req'[q].current_votes = votes'[w][i]
        BY <1>1, <2>2 DEF Stepped
      <3> QED
        BY <1>3, <3>1 DEF NoPhantomVotes
    <2> QED
      BY <2>1, <2>2
  <1>5. AcceptedAtEnd'
    BY <1>1 DEF AcceptedAtEnd, NPInv, Stepped
  <1> QED
    BY <1>3, <1>4, <1>5 DEF NPInv

LEMMA WriteVotesJustified ==
    ASSUME NPInv, TypeOK', NEW r \in Requests, WriteVotes(r)
    PROVE  NPInv'
  <1>1. /\ Stepped(r, "remember", req[r].code, req[r].current_votes)
        /\ req[r].pc = "write" /\ req[r].code # 200
    BY GotoSteps DEF NPInv, WriteVotes, Busy, AcceptedAtEnd
  <1>2. \A w, i : Counted(w, i) \subseteq Counted(w, i)'
    BY <1>1, CountedKept
  <1>3. PICK w \in Workers, i \in Indexes : req[r].worker = w /\ req[r].index = i
    BY DEF NPInv, TypeOK, Vote
  <1>4. /\ votes'[w][i] = req[r].current_votes + 1
        /\ \A x \in Workers, j \in Indexes :
             x # w \/ j # i => votes'[x][j] = votes[x][j]
    BY <1>3 DEF WriteVotes, NPInv, TypeOK
  <1>5. votes'[w][i] <= Cardinality(Counted(w, i)')
    <2> DEFINE S == Counted(w, i)
    <2>1. S \in SUBSET Requests /\ r \notin S
      BY <1>1 DEF Counted, Accepted, On
    <2>2. S \cup {r} \in SUBSET Counted(w, i)' /\ Counted(w, i)' \in SUBSET Requests
      <3>1. r \in Counted(w, i)'
        BY <1>1, <1>3 DEF Counted, Accepted, On, Stepped
      <3> QED
        BY <1>2, <3>1 DEF Counted, Accepted, On
    <2>3. req[r].current_votes <= Cardinality(S) /\ req[r].current_votes \in Nat
      <3>1. req[r].current_votes <= Cardinality(Counted(w, i))
        BY <1>1, <1>3 DEF NPInv, ReadJustified
      <3> QED
        BY <3>1 DEF NPInv, TypeOK, Vote
    <2> HIDE DEF S
    <2>4. IsFiniteSet(S) /\ Cardinality(S) \in Nat
      BY <2>1, CountedSize
    <2>5. Cardinality(S \cup {r}) = Cardinality(S) + 1
      BY <2>1, <2>4, FS_AddElement
    <2>6. Cardinality(S \cup {r}) <= Cardinality(Counted(w, i)') /\ Cardinality(Counted(w, i)') \in Nat
      BY <2>2, CountedSize
    <2> QED
      BY <1>4, <2>3, <2>4, <2>5, <2>6
  <1>6. NoPhantomVotes'
    <2> SUFFICES ASSUME NEW x \in Workers, NEW j \in Indexes, x # w \/ j # i
                 PROVE  votes'[x][j] <= Cardinality(Counted(x, j)')
      BY <1>5 DEF NoPhantomVotes
    <2>1. Counted(x, j)' \in SUBSET Requests /\ Counted(x, j) \in SUBSET Counted(x, j)'
      BY <1>2 DEF Counted, Accepted, On
    <2>2. /\ Cardinality(Counted(x, j)) <= Cardinality(Counted(x, j)')
          /\ Cardinality(Counted(x, j)) \in Nat /\ Cardinality(Counted(x, j)') \in Nat
      BY <2>1, CountedSize
    <2>3. votes[x][j] <= Cardinality(Counted(x, j)) /\ votes[x][j] \in Nat
      BY DEF NPInv, NoPhantomVotes, TypeOK
    <2> QED
      BY <1>4, <2>2, <2>3
  <1>7. ReadJustified'
    <2> SUFFICES ASSUME NEW q \in Requests, NEW x \in Workers, NEW j \in Indexes,
                        req'[q].pc = "write", req'[q].worker = x, req'[q].index = j
                 PROVE  req'[q].current_votes <= Cardinality(Counted(x, j)')
      BY DEF ReadJustified
    <2>1. req'[q] = req[q] /\ req[q].pc = "write"
      BY <1>1 DEF Stepped
    <2> QED
      BY <1>2, <2>1, WriterKept
  <1>8. AcceptedAtEnd'
    BY <1>1 DEF AcceptedAtEnd, NPInv, Stepped
  <1> QED
    BY <1>6, <1>7, <1>8 DEF NPInv

LEMMA HandleNP ==
    ASSUME NPInv, NEW r \in Requests, Handle(r)
    PROVE  NPInv'
  <1> USE DEF Busy, Codes, Cache
  <1>1. TypeOK'
    BY HandleType DEF NPInv
  <1>2. TypeOK /\ (req[r].pc # "done" => req[r].code # 200)
    BY DEF NPInv, AcceptedAtEnd
  <1>3. CASE Begin(r)
    <2>1. votes' = votes
      BY <1>3 DEF Begin
    <2>2. CASE Goto(r, "queued", "check")
      <3>1. /\ Stepped(r, "check", req[r].code, req[r].current_votes)
            /\ req[r].pc = "queued"
        BY <1>2, <2>2, GotoSteps
      <3> QED
        BY <1>1, <1>2, <2>1, <3>1, QuietStep
    <2>3. ASSUME NEW c \in {400, 403, 404}, Answer(r, "queued", c) PROVE NPInv'
      <3>1. /\ Stepped(r, "done", c, req[r].current_votes)
            /\ req[r].pc = "queued"
        BY <1>2, <2>3, AnswerSteps
      <3> QED
        BY <1>1, <1>2, <2>1, <3>1, QuietStep
    <2> QED
      BY <1>3, <2>2, <2>3 DEF Begin
  <1>4. CASE CheckVoted(r)
    <2>1. CASE Goto(r, "check", "read")
      BY <1>1, <1>2, <1>4, <2>1, GotoSteps, QuietStep DEF CheckVoted
    <2>2. CASE Answer(r, "check", 400)
      BY <1>1, <1>2, <1>4, <2>2, AnswerSteps, QuietStep DEF CheckVoted
    <2> QED
      BY <1>4, <2>1, <2>2 DEF CheckVoted
  <1>5. CASE RememberVoter(r)
    BY <1>1, <1>2, <1>5, AnswerSteps, QuietStep DEF RememberVoter
  <1> QED
    BY <1>1, <1>3, <1>4, <1>5, ReadVotesJustified, WriteVotesJustified DEF Handle

\* A restarted process has forgotten its votes, and none of its handlers is
\* left; the others go on as before.
LEMMA RestartNP ==
    ASSUME NPInv, TypeOK', NEW w \in Workers, Restart(w)
    PROVE  NPInv'
  <1> DEFINE Same(q) ==
        /\ req'[q].worker = req[q].worker
        /\ req'[q].code = req[q].code
        /\ req[q].worker = w => req'[q].pc \in Idle
        /\ req[q].worker # w => req'[q] = req[q]
        /\ req'[q].pc = req[q].pc \/ req'[q].pc = "done"
  <1>1. \A q \in Requests : Same(q)
    BY RestartSteps DEF NPInv
  <1>2. \A i \in Indexes : votes'[w][i] = 0
    BY DEF Restart, NPInv, TypeOK
  <1>3. \A x \in Workers : x # w => \A i : Counted(x, i)' = Counted(x, i)
    BY <1>1 DEF Counted, Accepted, On
  <1>4. \A x \in Workers : x # w => votes'[x] = votes[x]
    BY DEF Restart, NPInv, TypeOK
  <1>5. NoPhantomVotes'
    <2> SUFFICES ASSUME NEW x \in Workers, NEW i \in Indexes
                 PROVE  votes'[x][i] <= Cardinality(Counted(x, i)')
      BY DEF NoPhantomVotes
    <2>1. CASE x = w
      <3>1. Counted(x, i)' \in SUBSET Requests
        BY DEF Counted, Accepted, On
      <3>2. Cardinality(Counted(x, i)') \in Nat
        BY <3>1, CountedSize
      <3> QED
        BY <1>2, <2>1, <3>2
    <2>2. CASE x # w
      BY <1>3, <1>4, <2>2 DEF NPInv, NoPhantomVotes
    <2> QED
      BY <2>1, <2>2
  <1>6. ReadJustified'
    <2> SUFFICES ASSUME NEW q \in Requests, NEW x \in Workers, NEW i \in Indexes,
                        req'[q].pc = "write", req'[q].worker = x, req'[q].index = i
                 PROVE  req'[q].current_votes <= Cardinality(Counted(x, i)')
      BY DEF ReadJustified
    <2>1. x # w /\ req'[q] = req[q]
      BY <1>1 DEF Idle
    <2> QED
      BY <1>3, <2>1, WriterKept
  <1>7. AcceptedAtEnd'
    BY <1>1 DEF AcceptedAtEnd, NPInv
  <1> QED
    BY <1>5, <1>6, <1>7 DEF NPInv

\* An entry that expires only lowers a counter.
LEMMA ExpireNP ==
    ASSUME NPInv, TypeOK', NEW w \in Workers, Expire(w)
    PROVE  NPInv'
  <1>1. req' = req
    BY DEF Expire
  <1>2. \A x, i : Counted(x, i)' = Counted(x, i)
    BY <1>1 DEF Counted, Accepted, On
  <1>3. \A x \in Workers, i \in Indexes : votes'[x][i] = votes[x][i] \/ votes'[x][i] = 0
    BY DEF Expire, NPInv, TypeOK
  <1>4. NoPhantomVotes'
    <2> SUFFICES ASSUME NEW x \in Workers, NEW i \in Indexes
                 PROVE  votes'[x][i] <= Cardinality(Counted(x, i))
      BY <1>2 DEF NoPhantomVotes
    <2>1. Counted(x, i) \in SUBSET Requests
      BY DEF Counted, Accepted, On
    <2>2. Cardinality(Counted(x, i)) \in Nat
      BY <2>1, CountedSize
    <2>3. votes[x][i] <= Cardinality(Counted(x, i))
      BY DEF NPInv, NoPhantomVotes
    <2> QED
      BY <1>3, <2>2, <2>3
  <1>5. ReadJustified' /\ AcceptedAtEnd'
    BY <1>1, <1>2 DEF ReadJustified, AcceptedAtEnd, NPInv
  <1> QED
    BY <1>4, <1>5 DEF NPInv

LEMMA SameNP ==
    ASSUME NPInv, TypeOK', req' = req, votes' = votes
    PROVE  NPInv'
  <1>1. \A x, i : Counted(x, i)' = Counted(x, i)
    BY DEF Counted, Accepted, On
  <1> QED
    BY <1>1 DEF NPInv, NoPhantomVotes, ReadJustified, AcceptedAtEnd

LEMMA InitNP == Init => NPInv
  <1> SUFFICES ASSUME Init PROVE NPInv
    OBVIOUS
  <1>1. TypeOK
    BY InitType
  <1>2. NoPhantomVotes
    <2> SUFFICES ASSUME NEW w \in Workers, NEW i \in Indexes
                 PROVE  votes[w][i] <= Cardinality(Counted(w, i))
      BY DEF NoPhantomVotes
    <2>1. Counted(w, i) \in SUBSET Requests
      BY DEF Counted, Accepted, On
    <2>2. Cardinality(Counted(w, i)) \in Nat
      BY <2>1, CountedSize
    <2> QED
      BY <2>2 DEF Init
  <1>3. \A r \in Requests : req[r].pc = "queued" /\ req[r].code = 0
    BY DEF Init
  <1> QED
    BY <1>1, <1>2, <1>3 DEF NPInv, ReadJustified, AcceptedAtEnd

LEMMA NPNext == NPInv /\ [Next]_vars => NPInv'
  <1> SUFFICES ASSUME NPInv, [Next]_vars PROVE NPInv'
    OBVIOUS
  <1>1. ASSUME NEW r \in Requests, Handle(r) PROVE NPInv'
    BY <1>1, HandleNP
  <1>2. ASSUME NEW l \in Lists, Post(l) PROVE NPInv'
    BY <1>2, WorldType, SameNP DEF Post, NPInv
  <1>3. ASSUME NEW k \in Posts, SaveAccuracy(k) PROVE NPInv'
    BY <1>3, WorldType, SameNP DEF SaveAccuracy, NPInv
  <1>4. ASSUME NEW w \in Workers, Expire(w) PROVE NPInv'
    BY <1>4, WorldType, ExpireNP DEF NPInv
  <1>5. ASSUME NEW w \in Workers, Restart(w) PROVE NPInv'
    BY <1>5, WorldType, RestartNP DEF NPInv
  <1>6. CASE UNCHANGED vars
    BY <1>6, StutterType, SameNP DEF vars, NPInv
  <1> QED
    BY <1>1, <1>2, <1>3, <1>4, <1>5, <1>6 DEF Next

\* However the handlers of RetrospectiveVoteView.post overlap, whatever expires
\* and whichever process restarts, the counter of an item is never above the
\* number of votes cast on it.
THEOREM NoPhantomVotesHolds == Spec => []NoPhantomVotes
  <1>1. NPInv => NoPhantomVotes
    BY DEF NPInv
  <1> QED
    BY InitNP, NPNext, <1>1, PTL DEF Spec

-----------------------------------------------------------------------------
(* Every step of a handler *)

\* The step leaves the cache alone.
Reads(r, from, p, c, n) ==
    /\ Stepped(r, p, c, n) /\ req[r].pc = from
    /\ votes' = votes /\ voted' = voted

LEMMA HandleSteps ==
    ASSUME TypeOK, NEW r \in Requests, Handle(r)
    PROVE  /\ losses' = losses /\ threaded' = threaded
           /\ \/ \E c \in {400, 403, 404} : Reads(r, "queued", "done", c, req[r].current_votes)
              \/ Reads(r, "queued", "check", req[r].code, req[r].current_votes) /\ Free(r)
              \/ /\ Reads(r, "check", "done", 400, req[r].current_votes)
                 /\ UserKey(r) \in voted[req[r].worker]
              \/ /\ Reads(r, "check", "read", req[r].code, req[r].current_votes)
                 /\ UserKey(r) \notin voted[req[r].worker]
              \/ Reads(r, "read", "write", req[r].code, votes[req[r].worker][req[r].index])
              \/ /\ Stepped(r, "remember", req[r].code, req[r].current_votes)
                 /\ req[r].pc = "write" /\ voted' = voted
                 /\ votes' = [votes EXCEPT
                       ![req[r].worker][req[r].index] = req[r].current_votes + 1]
              \/ /\ Stepped(r, "done", 200, req[r].current_votes)
                 /\ req[r].pc = "remember" /\ votes' = votes
                 /\ voted' = [voted EXCEPT ![req[r].worker] = @ \cup {UserKey(r)}]
  <1>1. losses' = losses /\ threaded' = threaded
    BY DEF Handle, Begin, CheckVoted, ReadVotes, WriteVotes, RememberVoter, Rest
  <1>2. CASE Begin(r)
    <2>1. votes' = votes /\ voted' = voted /\ Free(r)
      BY <1>2 DEF Begin, Cache
    <2>2. CASE \E c \in {400, 403, 404} : Answer(r, "queued", c)
      BY <1>1, <2>1, <2>2, AnswerSteps DEF Codes, Reads
    <2>3. CASE Goto(r, "queued", "check")
      BY <1>1, <2>1, <2>3, GotoSteps DEF Busy, Reads
    <2> QED
      BY <1>2, <2>2, <2>3 DEF Begin
  <1>3. CASE CheckVoted(r)
    <2>1. votes' = votes /\ voted' = voted
      BY <1>3 DEF CheckVoted, Cache
    <2>2. CASE UserKey(r) \in voted[req[r].worker]
      BY <1>1, <1>3, <2>1, <2>2, AnswerSteps DEF CheckVoted, Codes, Reads
    <2>3. CASE UserKey(r) \notin voted[req[r].worker]
      BY <1>1, <1>3, <2>1, <2>3, GotoSteps DEF CheckVoted, Busy, Reads
    <2> QED
      BY <2>2, <2>3
  <1>4. CASE ReadVotes(r)
    BY <1>1, <1>4, ReadSteps DEF ReadVotes, Cache, Reads
  <1>5. CASE WriteVotes(r)
    BY <1>1, <1>5, GotoSteps DEF WriteVotes, Busy
  <1>6. CASE RememberVoter(r)
    BY <1>1, <1>6, AnswerSteps DEF RememberVoter, Codes
  <1> QED
    BY <1>2, <1>3, <1>4, <1>5, <1>6 DEF Handle

\* What is needed most often of this.
LEMMA HandleFrame ==
    ASSUME TypeOK, NEW r \in Requests, Handle(r)
    PROVE  /\ \A q \in Requests : q # r => req'[q] = req[q]
           /\ req'[r].user = req[r].user /\ req'[r].index = req[r].index
           /\ req'[r].worker = req[r].worker
           /\ req[r].pc # "done"
           /\ req'[r].pc = "done" \/ req'[r].code = req[r].code
           /\ req'[r].code = 200 => req[r].pc = "remember" \/ req[r].code = 200
  <1>1. CASE \E c \in {400, 403, 404} : Reads(r, "queued", "done", c, req[r].current_votes)
    BY <1>1 DEF Reads, Stepped
  <1>2. CASE Reads(r, "queued", "check", req[r].code, req[r].current_votes)
    BY <1>2 DEF Reads, Stepped
  <1>3. CASE /\ Reads(r, "check", "done", 400, req[r].current_votes)
             /\ UserKey(r) \in voted[req[r].worker]
    BY <1>3 DEF Reads, Stepped
  <1>4. CASE Reads(r, "check", "read", req[r].code, req[r].current_votes)
    BY <1>4 DEF Reads, Stepped
  <1>5. CASE Reads(r, "read", "write", req[r].code, votes[req[r].worker][req[r].index])
    BY <1>5 DEF Reads, Stepped
  <1>6. CASE /\ Stepped(r, "remember", req[r].code, req[r].current_votes)
             /\ req[r].pc = "write"
             /\ votes' = [votes EXCEPT
                   ![req[r].worker][req[r].index] = req[r].current_votes + 1]
    BY <1>6 DEF Stepped
  <1>7. CASE /\ Stepped(r, "done", 200, req[r].current_votes)
             /\ req[r].pc = "remember" /\ votes' = votes
    BY <1>7 DEF Stepped
  <1> QED
    BY <1>1, <1>2, <1>3, <1>4, <1>5, <1>6, <1>7, HandleSteps

LEMMA HandleVotes ==
    ASSUME TypeOK, NEW r \in Requests, Handle(r)
    PROVE  \/ votes' = votes /\ req'[r].pc # "remember"
           \/ /\ req'[r].pc = "remember"
              /\ votes' = [votes EXCEPT
                    ![req[r].worker][req[r].index] = req[r].current_votes + 1]
  <1>1. CASE \E c \in {400, 403, 404} : Reads(r, "queued", "done", c, req[r].current_votes)
    BY <1>1 DEF Reads, Stepped
  <1>2. CASE Reads(r, "queued", "check", req[r].code, req[r].current_votes)
    BY <1>2 DEF Reads, Stepped
  <1>3. CASE /\ Reads(r, "check", "done", 400, req[r].current_votes)
             /\ UserKey(r) \in voted[req[r].worker]
    BY <1>3 DEF Reads, Stepped
  <1>4. CASE Reads(r, "check", "read", req[r].code, req[r].current_votes)
    BY <1>4 DEF Reads, Stepped
  <1>5. CASE Reads(r, "read", "write", req[r].code, votes[req[r].worker][req[r].index])
    BY <1>5 DEF Reads, Stepped
  <1>6. CASE /\ Stepped(r, "remember", req[r].code, req[r].current_votes)
             /\ req[r].pc = "write"
             /\ votes' = [votes EXCEPT
                   ![req[r].worker][req[r].index] = req[r].current_votes + 1]
    BY <1>6 DEF Stepped
  <1>7. CASE /\ Stepped(r, "done", 200, req[r].current_votes)
             /\ req[r].pc = "remember" /\ votes' = votes
    BY <1>7 DEF Stepped
  <1> QED
    BY <1>1, <1>2, <1>3, <1>4, <1>5, <1>6, <1>7, HandleSteps

LEMMA HandleRefuses ==
    ASSUME TypeOK, NEW r \in Requests, Handle(r), req[r].pc = "check", req'[r].code = 400
    PROVE  req[r].code = 400 \/ UserKey(r) \in voted[req[r].worker]
  <1>1. CASE \E c \in {400, 403, 404} : Reads(r, "queued", "done", c, req[r].current_votes)
    BY <1>1 DEF Reads, Stepped
  <1>2. CASE Reads(r, "queued", "check", req[r].code, req[r].current_votes)
    BY <1>2 DEF Reads, Stepped
  <1>3. CASE /\ Reads(r, "check", "done", 400, req[r].current_votes)
             /\ UserKey(r) \in voted[req[r].worker]
    BY <1>3 DEF Reads, Stepped
  <1>4. CASE Reads(r, "check", "read", req[r].code, req[r].current_votes)
    BY <1>4 DEF Reads, Stepped
  <1>5. CASE Reads(r, "read", "write", req[r].code, votes[req[r].worker][req[r].index])
    BY <1>5 DEF Reads, Stepped
  <1>6. CASE /\ Stepped(r, "remember", req[r].code, req[r].current_votes)
             /\ req[r].pc = "write"
             /\ votes' = [votes EXCEPT
                   ![req[r].worker][req[r].index] = req[r].current_votes + 1]
    BY <1>6 DEF Stepped
  <1>7. CASE /\ Stepped(r, "done", 200, req[r].current_votes)
             /\ req[r].pc = "remember" /\ votes' = votes
    BY <1>7 DEF Stepped
  <1> QED
    BY <1>1, <1>2, <1>3, <1>4, <1>5, <1>6, <1>7, HandleSteps

\* Only a step that is lost, or none, changes the requests otherwise.
LEMMA WorldSteps ==
    ASSUME TypeOK, [Next]_vars, \A r \in Requests : ~Handle(r)
    PROVE  /\ threaded' = threaded
           /\ \/ UNCHANGED <<votes, voted, req, losses>>
              \/ losses' = losses + 1
  BY DEF Next, Post, SaveAccuracy, Expire, Restart, Lose, vars

-----------------------------------------------------------------------------
(* Who is refused *)

CodeInv == \A r \in Requests : req[r].pc # "done" => req[r].code = 0

\* A mark in the cache is the trace of an accepted vote.
VotedInv ==
    \A w \in Workers, u \in Users, i \in Indexes :
        <<u, i>> \in voted[w] => \E q \in Accepted(w, i) : req[q].user = u

LEMMA CodeNext ==
    ASSUME TypeOK, CodeInv, [Next]_vars
    PROVE  CodeInv'
  <1>1. ASSUME NEW r \in Requests, Handle(r) PROVE CodeInv'
    BY <1>1, HandleFrame DEF CodeInv
  <1>2. ASSUME NEW w \in Workers, Restart(w) PROVE CodeInv'
    BY <1>2, RestartSteps DEF CodeInv
  <1>3. ASSUME req' = req PROVE CodeInv'
    BY <1>3 DEF CodeInv
  <1> QED
    BY <1>1, <1>2, <1>3 DEF Next, Post, SaveAccuracy, Expire, vars

LEMMA VotedNext ==
    ASSUME TypeOK, CodeInv, VotedInv, [Next]_vars
    PROVE  VotedInv'
  <1> SUFFICES ASSUME NEW w \in Workers, NEW u \in Users, NEW i \in Indexes,
                      <<u, i>> \in voted'[w]
               PROVE  \E q \in Requests : /\ req'[q].worker = w /\ req'[q].index = i
                                          /\ req'[q].code = 200 /\ req'[q].user = u
    BY DEF VotedInv, Accepted, On
  <1>1. ASSUME <<u, i>> \in voted[w]
        PROVE  \E q \in Requests : /\ req[q].worker = w /\ req[q].index = i
                                   /\ req[q].code = 200 /\ req[q].user = u
                                   /\ req[q].pc = "done"
    BY <1>1 DEF VotedInv, Accepted, On, CodeInv
  <1>2. ASSUME NEW r \in Requests, Handle(r), <<u, i>> \in voted[w]
        PROVE  \E q \in Requests : /\ req'[q].worker = w /\ req'[q].index = i
                                   /\ req'[q].code = 200 /\ req'[q].user = u
    <2>1. PICK q \in Requests : /\ req[q].worker = w /\ req[q].index = i
                                /\ req[q].code = 200 /\ req[q].user = u
                                /\ req[q].pc = "done"
      BY <1>1, <1>2
    <2>2. q # r /\ req'[q] = req[q]
      BY <1>2, <2>1, HandleFrame
    <2> QED
      BY <2>1, <2>2
  <1>3. ASSUME NEW r \in Requests, Handle(r), <<u, i>> \notin voted[w]
        PROVE  \E q \in Requests : /\ req'[q].worker = w /\ req'[q].index = i
                                   /\ req'[q].code = 200 /\ req'[q].user = u
    <2>1. /\ Stepped(r, "done", 200, req[r].current_votes)
          /\ voted' = [voted EXCEPT ![req[r].worker] = @ \cup {UserKey(r)}]
      BY <1>3, HandleSteps DEF Reads
    <2>2. req[r].worker = w /\ UserKey(r) = <<u, i>>
      BY <1>3, <2>1 DEF TypeOK
    <2> QED
      BY <2>1, <2>2 DEF UserKey, Stepped
  <1>4. ASSUME NEW x \in Workers, Restart(x)
        PROVE  \E q \in Requests : /\ req'[q].worker = w /\ req'[q].index = i
                                   /\ req'[q].code = 200 /\ req'[q].user = u
    <2>1. x # w /\ <<u, i>> \in voted[w]
      BY <1>4 DEF Restart, TypeOK
    <2>2. PICK q \in Requests : /\ req[q].worker = w /\ req[q].index = i
                                /\ req[q].code = 200 /\ req[q].user = u
      BY <1>1, <2>1
    <2>3. req'[q] = req[q]
      BY <1>4, <2>1, <2>2, RestartSteps
    <2> QED
      BY <2>2, <2>3
  <1>5. ASSUME req' = req, voted' = voted \/ \E x \in Workers : Expire(x)
        PROVE  \E q \in Requests : /\ req'[q].worker = w /\ req'[q].index = i
                                   /\ req'[q].code = 200 /\ req'[q].user = u
    <2>1. <<u, i>> \in voted[w]
      BY <1>5 DEF Expire, TypeOK
    <2> QED
      BY <1>1, <1>5, <2>1
  <1> QED
    BY <1>2, <1>3, <1>4, <1>5 DEF Next, Post, SaveAccuracy, Expire, vars

LEMMA RefusalJustified ==
    ASSUME TypeOK, CodeInv, VotedInv, [Next]_vars, NEW r \in Requests,
           req[r].pc = "check", req'[r].code = 400
    PROVE  \E q \in Accepted(req[r].worker, req[r].index) : req[q].user = req[r].user
  <1>1. req[r].code = 0
    BY DEF CodeInv
  <1>2. req[r].worker \in Workers /\ req[r].user \in Users /\ req[r].index \in Indexes
    BY DEF TypeOK, Vote
  <1>3. ASSUME NEW q \in Requests, Handle(q)
        PROVE  q = r /\ UserKey(r) \in voted[req[r].worker]
    <2>1. q = r
      BY <1>1, <1>3, HandleFrame
    <2> QED
      BY <1>1, <1>3, <2>1, HandleRefuses
  <1>4. ASSUME NEW w \in Workers, Restart(w) PROVE FALSE
    BY <1>1, <1>4, RestartSteps
  <1>5. req' # req
    BY <1>1
  <1>6. UserKey(r) \in voted[req[r].worker]
    BY <1>3, <1>4, <1>5 DEF Next, Post, SaveAccuracy, Expire, vars
  <1> QED
    BY <1>2, <1>6 DEF VotedInv, UserKey

(* Nobody is refused for a vote of somebody else or on another item, and    *)
(* nobody whose vote was lost before it was accepted                        *)
(* (RetrospectiveVoteView.post, "Ya has votado por este item").             *)
THEOREM RefusalHolds == Spec => RefusedOnlyAfterVote
  <1> DEFINE Inv == TypeOK /\ CodeInv /\ VotedInv
  <1>1. Init => Inv
    <2> SUFFICES ASSUME Init PROVE Inv
      OBVIOUS
    <2>1. CodeInv /\ VotedInv
      BY DEF Init, CodeInv, VotedInv
    <2> QED
      BY <2>1, InitType
  <1>2. Inv /\ [Next]_vars => Inv'
    BY HandleType, WorldType, StutterType, CodeNext, VotedNext DEF Next
  <1>3. Inv /\ [Next]_vars =>
          [\A r \in Requests :
             posts <= 1 /\ req[r].pc = "check" /\ req'[r].code = 400 =>
                \E q \in Accepted(req[r].worker, req[r].index) : req[q].user = req[r].user]_vars
    BY RefusalJustified
  <1> HIDE DEF Inv
  <1> QED
    BY <1>1, <1>2, <1>3, PTL DEF Spec, RefusedOnlyAfterVote

-----------------------------------------------------------------------------
(* The votes that meet no other one *)

\* The votes on an item that are counted and met no other one.
Lone(w, i) == Counted(w, i) \ overlapped

\* Two votes in progress on one item know of each other.
OverlapInv ==
    \A r, q \in Requests :
        /\ r # q /\ req[r].worker = req[q].worker /\ req[r].index = req[q].index
        /\ req[r].pc \in Busy /\ req[q].pc \in Busy
        => r \in overlapped

\* The counter, and what a handler is about to add to, is never below the
\* number of these votes; and it shows at least one vote if any was counted.
StandsInv ==
    \A w \in Workers, i \in Indexes :
        /\ votes[w][i] >= Cardinality(Lone(w, i))
        /\ \A r \in On(w, i) :
             req[r].pc = "write" => req[r].current_votes >= Cardinality(Lone(w, i))
        /\ Counted(w, i) # {} => votes[w][i] >= 1

\* The handlers that have passed the check of the mark.
Passed == {"read", "write", "remember"}

SameVote(r, q) == r # q /\ req[r].worker = req[q].worker /\ UserKey(r) = UserKey(q)

\* An accepted vote has left its mark; a lone one that passed the check has
\* none before it, and lets none pass after it.
MarkInv ==
    /\ \A r \in Requests : req[r].code = 200 => UserKey(r) \in voted[req[r].worker]
    /\ \A r \in Requests :
         req[r].pc \in Passed /\ r \notin overlapped => UserKey(r) \notin voted[req[r].worker]
    /\ \A r, q \in Requests :
         SameVote(r, q) /\ req[q].code = 200 /\ req[r].pc \in Passed => q \in overlapped
    /\ \A r, q \in Requests :
         SameVote(r, q) /\ req[r].code = 200 /\ req[q].code = 200 => r \in overlapped

LoneInv == losses = 0 => OverlapInv /\ StandsInv /\ MarkInv

LEMMA BusyPlaces ==
    /\ Busy = Passed \cup {"check"}
    /\ "queued" \notin Busy /\ "done" \notin Busy
    /\ \A p \in Idle : p \notin Busy
  BY DEF Busy, Idle, Passed

LEMMA HandleOverlap ==
    ASSUME TypeOK, NEW r \in Requests, Handle(r)
    PROVE  /\ overlapped \subseteq overlapped'
           /\ req[r].pc = "queued" /\ req'[r].pc \in Busy =>
                /\ Meets(r) \subseteq overlapped'
                /\ Meets(r) # {} => r \in overlapped'
  <1>1. overlapped \subseteq overlapped'
    BY DEF Handle, Begin, CheckVoted, ReadVotes, WriteVotes, RememberVoter
  <1>2. ASSUME req[r].pc = "queued" PROVE Begin(r)
    BY <1>2 DEF Handle, CheckVoted, ReadVotes, WriteVotes, RememberVoter, Goto, Answer
  <1>3. ASSUME NEW c \in {400, 403, 404}, Answer(r, "queued", c)
        PROVE  req'[r].pc \notin Busy
    <2>1. req'[r].pc = "done"
      BY <1>3, AnswerSteps DEF Codes, Stepped
    <2> QED
      BY <2>1, BusyPlaces
  <1>4. ASSUME Begin(r), req'[r].pc \in Busy
        PROVE  overlapped' = overlapped \cup Meets(r) \cup {q \in {r} : Meets(r) # {}}
    BY <1>3, <1>4 DEF Begin
  <1> QED
    BY <1>1, <1>2, <1>4

\* What a handler passes through, and what it has seen there.
LEMMA HandlePlaces ==
    ASSUME TypeOK, CodeInv, NEW r \in Requests, Handle(r)
    PROVE  /\ req'[r].pc = "read" => UserKey(r) \notin voted[req[r].worker]
           /\ req'[r].pc = "write" =>
                /\ req[r].pc = "read"
                /\ req'[r].current_votes = votes[req[r].worker][req[r].index]
           /\ req'[r].pc = "remember" => req[r].pc = "write"
           /\ req'[r].code = 200 => req[r].pc = "remember"
           /\ \/ voted' = voted /\ req'[r].code # 200
              \/ /\ req'[r].code = 200
                 /\ voted' = [voted EXCEPT ![req[r].worker] = @ \cup {UserKey(r)}]
           /\ req[r].pc \in Busy \cup {"queued"}
  <1> DEFINE Goal ==
        /\ req'[r].pc = "read" => UserKey(r) \notin voted[req[r].worker]
        /\ req'[r].pc = "write" =>
             /\ req[r].pc = "read"
             /\ req'[r].current_votes = votes[req[r].worker][req[r].index]
        /\ req'[r].pc = "remember" => req[r].pc = "write"
        /\ req'[r].code = 200 => req[r].pc = "remember"
        /\ \/ voted' = voted /\ req'[r].code # 200
           \/ /\ req'[r].code = 200
              /\ voted' = [voted EXCEPT ![req[r].worker] = @ \cup {UserKey(r)}]
        /\ req[r].pc \in Busy \cup {"queued"}
  <1>0. req[r].code # 200
    BY HandleFrame DEF CodeInv
  <1>1. ASSUME \E c \in {400, 403, 404} : Reads(r, "queued", "done", c, req[r].current_votes)
        PROVE  Goal
    BY <1>1, BusyPlaces DEF Reads, Stepped, Passed
  <1>2. ASSUME Reads(r, "queued", "check", req[r].code, req[r].current_votes)
        PROVE  Goal
    BY <1>0, <1>2, BusyPlaces DEF Reads, Stepped, Passed
  <1>3. ASSUME Reads(r, "check", "done", 400, req[r].current_votes)
        PROVE  Goal
    BY <1>3, BusyPlaces DEF Reads, Stepped, Passed
  <1>4. ASSUME /\ Reads(r, "check", "read", req[r].code, req[r].current_votes)
               /\ UserKey(r) \notin voted[req[r].worker]
        PROVE  Goal
    BY <1>0, <1>4, BusyPlaces DEF Reads, Stepped, Passed
  <1>5. ASSUME Reads(r, "read", "write", req[r].code, votes[req[r].worker][req[r].index])
        PROVE  Goal
    BY <1>0, <1>5, BusyPlaces DEF Reads, Stepped, Passed
  <1>6. ASSUME /\ Stepped(r, "remember", req[r].code, req[r].current_votes)
               /\ req[r].pc = "write" /\ voted' = voted
        PROVE  Goal
    BY <1>0, <1>6, BusyPlaces DEF Stepped, Passed
  <1>7. ASSUME /\ Stepped(r, "done", 200, req[r].current_votes)
               /\ req[r].pc = "remember"
               /\ voted' = [voted EXCEPT ![req[r].worker] = @ \cup {UserKey(r)}]
        PROVE  Goal
    BY <1>7, BusyPlaces DEF Stepped, Passed
  <1>8. Goal
    <2> DEFINE Marked == voted' = [voted EXCEPT ![req[r].worker] = @ \cup {UserKey(r)}]
    <2>1. \/ \E c \in {400, 403, 404} : Reads(r, "queued", "done", c, req[r].current_votes)
          \/ Reads(r, "queued", "check", req[r].code, req[r].current_votes)
          \/ Reads(r, "check", "done", 400, req[r].current_votes)
          \/ /\ Reads(r, "check", "read", req[r].code, req[r].current_votes)
             /\ UserKey(r) \notin voted[req[r].worker]
          \/ Reads(r, "read", "write", req[r].code, votes[req[r].worker][req[r].index])
          \/ /\ Stepped(r, "remember", req[r].code, req[r].current_votes)
             /\ req[r].pc = "write" /\ voted' = voted
          \/ /\ Stepped(r, "done", 200, req[r].current_votes)
             /\ req[r].pc = "remember" /\ Marked
      BY HandleSteps, Zenon
    <2> HIDE DEF Goal, Marked
    <2>2. Stepped(r, "done", 200, req[r].current_votes) /\ req[r].pc = "remember" /\ Marked
          => Goal
      BY <1>7 DEF Marked
    <2> QED
      BY <1>1, <1>2, <1>3, <1>4, <1>5, <1>6, <2>1, <2>2
  <1> QED
    BY <1>8

LEMMA OverlapNext ==
    ASSUME TypeOK, CodeInv, OverlapInv, NEW r \in Requests, Handle(r)
    PROVE  OverlapInv'
  <1> SUFFICES ASSUME NEW a \in Requests, NEW b \in Requests, a # b,
                      req'[a].worker = req'[b].worker, req'[a].index = req'[b].index,
                      req'[a].pc \in Busy, req'[b].pc \in Busy
               PROVE  a \in overlapped'
    BY DEF OverlapInv
  <1>1. /\ req[a].worker = req[b].worker /\ req[a].index = req[b].index
        /\ a # r => req'[a] = req[a]
        /\ b # r => req'[b] = req[b]
        /\ req[r].pc \in Busy \cup {"queued"}
    BY HandleFrame, HandlePlaces
  <1>2. CASE req[a].pc \in Busy /\ req[b].pc \in Busy
    BY <1>1, <1>2, HandleOverlap DEF OverlapInv
  <1>3. CASE a = r /\ req[a].pc = "queued"
    <2>1. b \in Meets(r)
      BY <1>1, <1>3 DEF Meets
    <2> QED
      BY <1>3, <2>1, HandleOverlap
  <1>4. CASE b = r /\ req[b].pc = "queued"
    <2>1. a \in Meets(r)
      BY <1>1, <1>4 DEF Meets
    <2> QED
      BY <1>4, <2>1, HandleOverlap
  <1> QED
    BY <1>1, <1>2, <1>3, <1>4

LEMMA LoneSize ==
    ASSUME NEW w, NEW i
    PROVE  /\ Lone(w, i) \in SUBSET Requests /\ IsFiniteSet(Lone(w, i))
           /\ Cardinality(Lone(w, i)) \in Nat
  <1>1. Lone(w, i) \in SUBSET Requests
    BY DEF Lone, Counted, Accepted, On
  <1> QED
    BY <1>1, CountedSize

\* A step of r adds no other vote to those that met none.
LEMMA LoneGrows ==
    ASSUME TypeOK, CodeInv, NEW r \in Requests, Handle(r), NEW w, NEW i
    PROVE  /\ Lone(w, i)' \subseteq Lone(w, i) \cup {r}
           /\ r \in Lone(w, i)' /\ r \notin Lone(w, i) =>
                /\ req'[r].pc = "remember" /\ r \notin overlapped'
                /\ req[r].worker = w /\ req[r].index = i
           /\ Cardinality(Lone(w, i)') <= Cardinality(Lone(w, i)) + 1
           /\ r \notin Lone(w, i)' \/ r \in Lone(w, i) =>
                Cardinality(Lone(w, i)') <= Cardinality(Lone(w, i))
  <1> DEFINE S == Lone(w, i)
             T == Lone(w, i)'
  <1>1. T \subseteq S \cup {r}
    <2> SUFFICES ASSUME NEW q \in T, q # r PROVE q \in S
      OBVIOUS
    <2>1. req'[q] = req[q] /\ q \notin overlapped
      BY HandleFrame, HandleOverlap DEF Lone, Counted, Accepted, On
    <2> QED
      BY <2>1 DEF Lone, Counted, Accepted, On
  <1>2. r \in T /\ r \notin S =>
          /\ req'[r].pc = "remember" /\ r \notin overlapped'
          /\ req[r].worker = w /\ req[r].index = i
    <2> SUFFICES ASSUME r \in T, r \notin S
                 PROVE  /\ req'[r].pc = "remember" /\ r \notin overlapped'
                        /\ req[r].worker = w /\ req[r].index = i
      OBVIOUS
    <2>1. /\ r \notin overlapped /\ r \notin overlapped'
          /\ req[r].worker = w /\ req[r].index = i
          /\ req'[r].code = 200 \/ req'[r].pc = "remember"
      BY HandleFrame, HandleOverlap DEF Lone, Counted, Accepted, On
    <2>2. req[r].pc # "remember"
      BY <2>1 DEF Lone, Counted, Accepted, On
    <2> QED
      BY <2>1, <2>2, HandlePlaces
  <1>3. S \in SUBSET Requests /\ IsFiniteSet(S) /\ Cardinality(S) \in Nat
    BY LoneSize
  <1>4. T \in SUBSET Requests
    BY DEF Lone, Counted, Accepted, On
  <1> HIDE DEF S, T
  <1>5. IsFiniteSet(S \cup {r}) /\ Cardinality(S \cup {r}) <= Cardinality(S) + 1
        /\ Cardinality(S \cup {r}) \in Nat
    BY <1>3, FS_AddElement
  <1>6. Cardinality(T) <= Cardinality(S \cup {r}) /\ Cardinality(T) \in Nat
    BY <1>1, <1>5, FS_Subset, FS_CardinalityType
  <1>7. r \notin T \/ r \in S => Cardinality(T) <= Cardinality(S)
    BY <1>1, <1>3, FS_Subset
  <1> QED
    BY <1>1, <1>2, <1>3, <1>5, <1>6, <1>7 DEF S, T

\* The counters of the items that this step does not write.
LEMMA StandsQuiet ==
    ASSUME TypeOK, CodeInv, StandsInv, NEW r \in Requests, Handle(r),
           NEW w \in Workers, NEW i \in Indexes,
           req'[r].pc # "remember" \/ ~(req[r].worker = w /\ req[r].index = i)
    PROVE  /\ votes'[w][i] >= Cardinality(Lone(w, i)')
           /\ \A q \in On(w, i)' :
                req'[q].pc = "write" => req'[q].current_votes >= Cardinality(Lone(w, i)')
           /\ Counted(w, i)' # {} => votes'[w][i] >= 1
  <1>1. votes'[w][i] = votes[w][i] /\ votes[w][i] \in Nat
    <2>1. req[r].worker \in Workers /\ req[r].index \in Indexes
      BY DEF TypeOK, Vote
    <2>2. CASE votes' = votes
      BY <2>2 DEF TypeOK
    <2>3. CASE /\ req'[r].pc = "remember"
               /\ votes' = [votes EXCEPT
                     ![req[r].worker][req[r].index] = req[r].current_votes + 1]
      BY <2>1, <2>3 DEF TypeOK
    <2> QED
      BY <2>2, <2>3, HandleVotes
  <1>2. /\ Cardinality(Lone(w, i)') <= Cardinality(Lone(w, i))
        /\ Cardinality(Lone(w, i)) \in Nat
    BY LoneGrows, LoneSize
  <1>3. Cardinality(Lone(w, i)') \in Nat
    <2>1. Lone(w, i)' \in SUBSET Requests
      BY DEF Lone, Counted, Accepted, On
    <2> QED
      BY <2>1, CountedSize
  <1>4. votes[w][i] >= Cardinality(Lone(w, i))
    BY DEF StandsInv
  <1>5. ASSUME NEW q \in On(w, i)', req'[q].pc = "write"
        PROVE  req'[q].current_votes >= Cardinality(Lone(w, i)')
    <2>1. q \in Requests /\ req'[q].worker = w /\ req'[q].index = i
      BY DEF On
    <2>2. CASE q = r
      BY <1>1, <1>2, <1>3, <1>4, <1>5, <2>1, <2>2, HandlePlaces, HandleFrame
    <2>3. CASE q # r
      <3>1. req'[q] = req[q] /\ q \in On(w, i) /\ req[q].pc = "write"
        BY <1>5, <2>1, <2>3, HandleFrame DEF On
      <3>2. req[q].current_votes >= Cardinality(Lone(w, i)) /\ req[q].current_votes \in Nat
        BY <2>1, <3>1 DEF StandsInv, TypeOK, Vote
      <3> QED
        BY <1>2, <1>3, <3>1, <3>2
    <2> QED
      BY <2>2, <2>3
  <1>6. ASSUME NEW q \in Counted(w, i)' PROVE votes[w][i] >= 1
    <2>1. /\ q \in Requests /\ req'[q].worker = w /\ req'[q].index = i
          /\ req'[q].code = 200 \/ req'[q].pc = "remember"
      BY DEF Counted, Accepted, On
    <2>2. q \in Counted(w, i)
      <3>1. CASE q = r
        BY <2>1, <3>1, HandleFrame, HandlePlaces DEF Counted, Accepted, On
      <3>2. CASE q # r
        BY <2>1, <3>2, HandleFrame DEF Counted, Accepted, On
      <3> QED
        BY <3>1, <3>2
    <2> QED
      BY <2>2 DEF StandsInv
  <1> QED
    BY <1>1, <1>2, <1>3, <1>4, <1>5, <1>6

\* The counter that this step writes.
LEMMA StandsWrite ==
    ASSUME TypeOK, CodeInv, OverlapInv, StandsInv, NEW r \in Requests, Handle(r),
           NEW w \in Workers, NEW i \in Indexes,
           req'[r].pc = "remember", req[r].worker = w, req[r].index = i
    PROVE  /\ votes'[w][i] >= Cardinality(Lone(w, i)')
           /\ \A q \in On(w, i)' :
                req'[q].pc = "write" => req'[q].current_votes >= Cardinality(Lone(w, i)')
           /\ votes'[w][i] >= 1
  <1>1. req[r].pc = "write" /\ req[r].current_votes \in Nat
    BY HandlePlaces DEF TypeOK, Vote
  <1>2. votes'[w][i] = req[r].current_votes + 1
    <2>1. votes' = [votes EXCEPT ![w][i] = req[r].current_votes + 1]
      BY HandleVotes
    <2> QED
      BY <2>1 DEF TypeOK
  <1>3. req[r].current_votes >= Cardinality(Lone(w, i))
    BY <1>1 DEF StandsInv, On
  <1>4. /\ Cardinality(Lone(w, i)') <= Cardinality(Lone(w, i)) + 1
        /\ Cardinality(Lone(w, i)) \in Nat
    BY LoneGrows, LoneSize
  <1>5. Cardinality(Lone(w, i)') \in Nat
    <2>1. Lone(w, i)' \in SUBSET Requests
      BY DEF Lone, Counted, Accepted, On
    <2> QED
      BY <2>1, CountedSize
  <1>6. ASSUME NEW q \in On(w, i)', req'[q].pc = "write"
        PROVE  req'[q].current_votes >= Cardinality(Lone(w, i)')
    <2>1. q # r /\ q \in Requests /\ req'[q] = req[q] /\ q \in On(w, i) /\ req[q].pc = "write"
      BY <1>6, HandleFrame DEF On
    <2>2. r \in overlapped
      BY <1>1, <2>1, BusyPlaces DEF OverlapInv, On, Passed
    <2>3. r \notin Lone(w, i)'
      BY <2>2, HandleOverlap DEF Lone
    <2>4. Cardinality(Lone(w, i)') <= Cardinality(Lone(w, i))
      BY <2>3, LoneGrows
    <2>5. req[q].current_votes >= Cardinality(Lone(w, i)) /\ req[q].current_votes \in Nat
      BY <2>1 DEF StandsInv, TypeOK, Vote
    <2> QED
      BY <1>4, <1>5, <2>1, <2>4, <2>5
  <1> QED
    BY <1>1, <1>2, <1>3, <1>4, <1>5, <1>6

LEMMA StandsNext ==
    ASSUME TypeOK, CodeInv, OverlapInv, StandsInv, NEW r \in Requests, Handle(r)
    PROVE  StandsInv'
  <1> SUFFICES ASSUME NEW w \in Workers, NEW i \in Indexes
               PROVE  /\ votes'[w][i] >= Cardinality(Lone(w, i)')
                      /\ \A q \in On(w, i)' :
                           req'[q].pc = "write" =>
                               req'[q].current_votes >= Cardinality(Lone(w, i)')
                      /\ Counted(w, i)' # {} => votes'[w][i] >= 1
    BY DEF StandsInv
  <1>1. CASE req'[r].pc # "remember" \/ ~(req[r].worker = w /\ req[r].index = i)
    BY <1>1, StandsQuiet
  <1>2. CASE req'[r].pc = "remember" /\ req[r].worker = w /\ req[r].index = i
    BY <1>2, StandsWrite
  <1> QED
    BY <1>1, <1>2

LEMMA MarkNext ==
    ASSUME TypeOK, CodeInv, OverlapInv, MarkInv, NEW r \in Requests, Handle(r)
    PROVE  MarkInv'
  <1> USE BusyPlaces
  <1>1. \A q \in Requests :
          /\ UserKey(q)' = UserKey(q) /\ req'[q].worker = req[q].worker
          /\ q # r => req'[q] = req[q]
    BY HandleFrame DEF UserKey
  <1>2. \A a, b : SameVote(a, b)' /\ a \in Requests /\ b \in Requests => SameVote(a, b)
    BY <1>1 DEF SameVote
  <1>3. \A q \in Requests : req[q].worker \in Workers
    BY DEF TypeOK, Vote
  <1>4. \A w \in Workers : voted[w] \subseteq voted'[w]
    <2>1. CASE voted' = voted
      BY <2>1
    <2>2. CASE voted' = [voted EXCEPT ![req[r].worker] = @ \cup {UserKey(r)}]
      BY <2>2 DEF TypeOK
    <2> QED
      BY <2>1, <2>2, HandlePlaces
  <1>5. req'[r].code = 200 => req[r].pc = "remember" /\ UserKey(r) \in voted'[req[r].worker]
    BY <1>3, HandlePlaces DEF TypeOK
  <1>6. \A q \in Requests : q # r /\ req'[q].code = 200 => req[q].code = 200
    BY <1>1
  <1>7. ASSUME NEW a \in Requests, NEW b \in Requests, SameVote(a, b),
               req[a].pc \in Busy, req[b].pc \in Busy
        PROVE  a \in overlapped /\ b \in overlapped
    <2>1. /\ a # b /\ req[a].worker = req[b].worker /\ req[a].index = req[b].index
      BY <1>7 DEF SameVote, UserKey
    <2> QED
      BY <1>7, <2>1 DEF OverlapInv
  <1>8. ASSUME NEW a \in Requests, req'[a].code = 200
        PROVE  UserKey(a)' \in voted'[req'[a].worker]
    BY <1>1, <1>3, <1>4, <1>5, <1>8 DEF MarkInv
  <1>9. ASSUME NEW a \in Requests, req'[a].pc \in Passed, a \notin overlapped'
        PROVE  UserKey(a)' \notin voted'[req'[a].worker]
    <2>1. a \notin overlapped
      BY <1>9, HandleOverlap
    <2>2. CASE a = r
      <3>1. UserKey(a) \notin voted[req[a].worker]
        BY <1>9, <2>1, <2>2, HandlePlaces DEF MarkInv, Passed
      <3>2. req'[r].code # 200
        BY <1>5, <1>9, <2>2, HandleFrame DEF Passed, CodeInv
      <3> QED
        BY <1>1, <2>2, <3>1, <3>2, HandlePlaces
    <2>3. CASE a # r
      <3>1. UserKey(a) \notin voted[req[a].worker] /\ req[a].pc \in Busy
        BY <1>1, <1>9, <2>1, <2>3 DEF MarkInv
      <3>2. CASE voted' = voted
        BY <1>1, <3>1, <3>2
      <3>3. CASE /\ req'[r].code = 200
                 /\ voted' = [voted EXCEPT ![req[r].worker] = @ \cup {UserKey(r)}]
        <4>1. req[r].pc \in Busy
          BY <1>5, <3>3 DEF Passed
        <4>2. ~SameVote(a, r)
          BY <1>7, <2>1, <3>1, <4>1
        <4>3. req[a].worker # req[r].worker \/ UserKey(a) # UserKey(r)
          BY <2>3, <4>2 DEF SameVote
        <4> QED
          BY <1>1, <1>3, <3>1, <3>3, <4>3 DEF TypeOK
      <3> QED
        BY <3>2, <3>3, HandlePlaces
    <2> QED
      BY <2>2, <2>3
  <1>10. ASSUME NEW a \in Requests, NEW b \in Requests, SameVote(a, b)',
                req'[b].code = 200, req'[a].pc \in Passed
         PROVE  b \in overlapped'
    <2>1. SameVote(a, b) /\ a # b /\ overlapped \subseteq overlapped'
      BY <1>2, <1>10, HandleOverlap DEF SameVote
    <2>2. CASE b = r
      BY <1>1, <1>5, <1>7, <1>10, <2>1, <2>2 DEF Passed
    <2>3. CASE b # r /\ a # r
      BY <1>1, <1>10, <2>1, <2>3 DEF MarkInv
    <2>4. CASE a = r
      <3>1. req[b].code = 200 /\ UserKey(b) \in voted[req[b].worker]
        BY <1>6, <1>10, <2>1, <2>4 DEF MarkInv
      <3>2. UserKey(r) \in voted[req[r].worker]
        BY <2>1, <2>4, <3>1 DEF SameVote
      <3>3. req[r].pc \in Passed
        BY <1>10, <2>4, <3>2, HandlePlaces DEF Passed
      <3> QED
        BY <2>1, <2>4, <3>1, <3>3 DEF MarkInv
    <2> QED
      BY <2>2, <2>3, <2>4
  <1>11. ASSUME NEW a \in Requests, NEW b \in Requests, SameVote(a, b)',
                req'[a].code = 200, req'[b].code = 200
         PROVE  a \in overlapped'
    <2>1. SameVote(a, b) /\ a # b /\ overlapped \subseteq overlapped'
      BY <1>2, <1>11, HandleOverlap DEF SameVote
    <2>2. CASE a # r /\ b # r
      BY <1>6, <1>11, <2>1, <2>2 DEF MarkInv
    <2>3. CASE a = r
      <3>1. req[b].code = 200 /\ UserKey(b) \in voted[req[b].worker] /\ req[r].pc \in Passed
        BY <1>5, <1>6, <1>11, <2>1, <2>3 DEF MarkInv, Passed
      <3>2. UserKey(r) \in voted[req[r].worker]
        BY <2>1, <2>3, <3>1 DEF SameVote
      <3> QED
        BY <2>1, <2>3, <3>1, <3>2 DEF MarkInv
    <2>4. CASE b = r
      <3>1. req[a].code = 200 /\ req[b].pc \in Passed
        BY <1>5, <1>6, <1>11, <2>1, <2>4 DEF Passed
      <3>2. SameVote(b, a)
        BY <2>1 DEF SameVote
      <3> QED
        BY <2>1, <3>1, <3>2 DEF MarkInv
    <2> QED
      BY <2>2, <2>3, <2>4
  <1> QED
    BY <1>8, <1>9, <1>10, <1>11 DEF MarkInv

LEMMA LoneNext ==
    ASSUME TypeOK, CodeInv, LoneInv, [Next]_vars
    PROVE  LoneInv'
  <1>0. losses \in Nat
    BY BoundsAssumption DEF TypeOK
  <1>1. ASSUME NEW r \in Requests, Handle(r)
        PROVE  LoneInv'
    BY <1>1, HandleSteps, OverlapNext, StandsNext, MarkNext DEF LoneInv
  <1>2. ASSUME UNCHANGED <<votes, voted, req, overlapped, losses>>
        PROVE  LoneInv'
    <2>1. OverlapInv => OverlapInv'
      BY <1>2 DEF OverlapInv
    <2>2. StandsInv => StandsInv'
      <3>1. \A w, i : /\ On(w, i)' = On(w, i) /\ Counted(w, i)' = Counted(w, i)
                      /\ Lone(w, i)' = Lone(w, i)
        BY <1>2 DEF Lone, Counted, Accepted, On
      <3>2. votes' = votes /\ req' = req
        BY <1>2
      <3> SUFFICES ASSUME StandsInv, NEW w \in Workers, NEW i \in Indexes
                   PROVE  /\ votes'[w][i] >= Cardinality(Lone(w, i)')
                          /\ \A r \in On(w, i)' :
                               req'[r].pc = "write" =>
                                   req'[r].current_votes >= Cardinality(Lone(w, i)')
                          /\ Counted(w, i)' # {} => votes'[w][i] >= 1
        BY DEF StandsInv
      <3> QED
        BY <3>1, <3>2 DEF StandsInv
    <2>3. MarkInv => MarkInv'
      BY <1>2 DEF MarkInv, SameVote, UserKey
    <2> QED
      BY <1>2, <2>1, <2>2, <2>3 DEF LoneInv
  <1>3. ASSUME \A r \in Requests : ~Handle(r)
        PROVE  UNCHANGED <<votes, voted, req, overlapped, losses>> \/ losses' = losses + 1
    BY <1>3 DEF Next, Post, SaveAccuracy, Expire, Restart, Lose, vars
  <1> QED
    BY <1>0, <1>1, <1>2, <1>3 DEF LoneInv

LEMMA InitLone == Init => CodeInv /\ LoneInv
  <1> SUFFICES ASSUME Init PROVE CodeInv /\ LoneInv
    OBVIOUS
  <1>1. CodeInv /\ \A r \in Requests : req[r].code = 0 /\ req[r].pc = "queued"
    BY DEF Init, CodeInv
  <1>2. OverlapInv /\ MarkInv
    BY <1>1, BusyPlaces DEF OverlapInv, MarkInv, Passed
  <1>3. ASSUME NEW w \in Workers, NEW i \in Indexes
        PROVE  Counted(w, i) = {} /\ Lone(w, i) = {} /\ votes[w][i] = 0
    BY <1>1 DEF Init, Lone, Counted, Accepted, On
  <1>4. StandsInv
    <2>1. Cardinality({}) = 0
      BY FS_EmptySet
    <2>2. ASSUME NEW w \in Workers, NEW i \in Indexes
          PROVE  Cardinality(Lone(w, i)) = 0 /\ votes[w][i] = 0 /\ Counted(w, i) = {}
      BY <1>3, <2>1, Zenon
    <2>3. \A w, i : \A r \in On(w, i) : req[r].pc # "write"
      BY <1>1 DEF On
    <2> QED
      BY <2>2, <2>3 DEF StandsInv
  <1> QED
    BY <1>1, <1>2, <1>4 DEF LoneInv

(* Only votes that met another one on their item can be lost, and never all *)
(* of them: the two reads and two writes of RetrospectiveVoteView.post.     *)
THEOREM LoneVotesStandHolds == Spec => []LoneVotesStand
  <1> DEFINE Inv == TypeOK /\ CodeInv /\ LoneInv
  <1>1. Init => Inv
    BY InitType, InitLone
  <1>2. Inv /\ [Next]_vars => Inv'
    BY HandleType, WorldType, StutterType, CodeNext, LoneNext DEF Next
  <1>3. Inv => LoneVotesStand
    <2> SUFFICES ASSUME Inv, losses = 0, NEW w \in Workers, NEW i \in Indexes
                 PROVE  /\ votes[w][i] >= Cardinality(Accepted(w, i) \ overlapped)
                        /\ Accepted(w, i) # {} => votes[w][i] >= 1
      BY DEF LoneVotesStand
    <2>1. /\ votes[w][i] >= Cardinality(Lone(w, i)) /\ votes[w][i] \in Nat
          /\ Counted(w, i) # {} => votes[w][i] >= 1
      BY DEF LoneInv, StandsInv, TypeOK
    <2>2. /\ Accepted(w, i) \subseteq Counted(w, i)
          /\ Accepted(w, i) \ overlapped \in SUBSET Lone(w, i)
          /\ Lone(w, i) \in SUBSET Requests
      BY DEF Lone, Counted, Accepted, On
    <2>3. /\ Cardinality(Accepted(w, i) \ overlapped) <= Cardinality(Lone(w, i))
          /\ Cardinality(Accepted(w, i) \ overlapped) \in Nat
          /\ Cardinality(Lone(w, i)) \in Nat
      BY <2>2, CountedSize
    <2> QED
      BY <2>1, <2>2, <2>3
  <1> HIDE DEF Inv
  <1> QED
    BY <1>1, <1>2, <1>3, PTL DEF Spec

(* Where no two votes met, the counter is exact once the handlers are done, *)
(* and no user is counted twice by a process unless both votes met others   *)
(* (RetrospectiveVoteView.post).                                            *)
THEOREM LoneExactHolds == Spec => []LoneExact
  <1> DEFINE Inv == NPInv /\ CodeInv /\ LoneInv
  <1>1. Init => Inv
    BY InitNP, InitLone
  <1>2. Inv /\ [Next]_vars => Inv'
    BY NPNext, CodeNext, LoneNext DEF NPInv
  <1>3. Inv => LoneExact
    <2> SUFFICES ASSUME Inv, losses = 0, NEW w \in Workers, NEW i \in Indexes
                 PROVE  /\ /\ On(w, i) \cap overlapped = {}
                           /\ \A r \in On(w, i) : req[r].pc \in Idle
                           => votes[w][i] = Cardinality(Accepted(w, i))
                        /\ \A r, q \in Accepted(w, i) :
                              r # q /\ req[r].user = req[q].user => {r, q} \subseteq overlapped
      BY DEF LoneExact
    <2>1. ASSUME On(w, i) \cap overlapped = {}, \A r \in On(w, i) : req[r].pc \in Idle
          PROVE  votes[w][i] = Cardinality(Accepted(w, i))
      <3>1. \A r \in On(w, i) : req[r].pc # "remember"
        BY <2>1, BusyPlaces DEF Passed
      <3>2. Counted(w, i) = Accepted(w, i) /\ Lone(w, i) = Accepted(w, i)
        BY <2>1, <3>1 DEF Lone, Counted, Accepted, On
      <3>3. votes[w][i] <= Cardinality(Counted(w, i)) /\ votes[w][i] \in Nat
        BY DEF NPInv, NoPhantomVotes, TypeOK
      <3>4. votes[w][i] >= Cardinality(Lone(w, i)) /\ Cardinality(Lone(w, i)) \in Nat
        BY LoneSize DEF LoneInv, StandsInv
      <3> QED
        BY <3>2, <3>3, <3>4
    <2>2. ASSUME NEW r \in Accepted(w, i), NEW q \in Accepted(w, i), r # q,
                 req[r].user = req[q].user
          PROVE  r \in overlapped /\ q \in overlapped
      <3>1. /\ r \in Requests /\ q \in Requests /\ req[r].code = 200 /\ req[q].code = 200
            /\ SameVote(r, q) /\ SameVote(q, r)
        BY <2>2 DEF Accepted, On, SameVote, UserKey
      <3> QED
        BY <3>1 DEF LoneInv, MarkInv
    <2> QED
      BY <2>1, <2>2
  <1> HIDE DEF Inv
  <1> QED
    BY <1>1, <1>2, <1>3, PTL DEF Spec
=============================================================================
