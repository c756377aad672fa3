------------------------ MODULE EventsServer_proofs ------------------------
(***************************************************************************)
(* What holds of EventsServer for any number of clients, keys and commands. *)
(***************************************************************************)
EXTENDS EventsServer, SequenceTheorems, TLAPS

-----------------------------------------------------------------------------
(* Sequences of keys and of set-ups *)

Elements(s) == {s[i] : i \in DOMAIN s}

LEMMA ElementsOfConcat ==
    ASSUME NEW S, NEW s \in Seq(S), NEW t \in Seq(S)
    PROVE  /\ s \o t \in Seq(S)
           /\ Elements(s \o t) = Elements(s) \cup Elements(t)
  <1>1. /\ s \o t \in Seq(S) /\ Len(s \o t) = Len(s) + Len(t)
        /\ \A i \in 1..Len(s) + Len(t) :
              (s \o t)[i] = IF i <= Len(s) THEN s[i] ELSE t[i - Len(s)]
    BY ConcatProperties
  <1>2. Len(s) \in Nat /\ Len(t) \in Nat
    BY LenProperties
  <1>3. /\ DOMAIN (s \o t) = 1..Len(s) + Len(t)
        /\ DOMAIN s = 1..Len(s) /\ DOMAIN t = 1..Len(t)
    BY <1>1, LenProperties
  <1>4. Elements(s \o t) \subseteq Elements(s) \cup Elements(t)
    <2> SUFFICES ASSUME NEW i \in 1..Len(s) + Len(t)
                 PROVE  (s \o t)[i] \in Elements(s) \cup Elements(t)
      BY <1>3 DEF Elements
    <2>1. CASE i <= Len(s)
      BY <2>1, <1>1, <1>2, <1>3 DEF Elements
    <2>2. CASE i > Len(s)
      BY <2>2, <1>1, <1>2, <1>3, i - Len(s) \in 1..Len(t) DEF Elements
    <2> QED
      BY <2>1, <2>2, <1>2
  <1>5. Elements(s) \subseteq Elements(s \o t)
    <2> SUFFICES ASSUME NEW i \in 1..Len(s)
                 PROVE  s[i] \in Elements(s \o t)
      BY <1>3 DEF Elements
    <2>1. i \in 1..Len(s) + Len(t) /\ (s \o t)[i] = s[i]
      BY <1>1, <1>2
    <2> QED
      BY <2>1, <1>3 DEF Elements
  <1>6. Elements(t) \subseteq Elements(s \o t)
    <2> SUFFICES ASSUME NEW i \in 1..Len(t)
                 PROVE  t[i] \in Elements(s \o t)
      BY <1>3 DEF Elements
    <2>1. /\ i + Len(s) \in 1..Len(s) + Len(t)
          /\ (s \o t)[i + Len(s)] = t[(i + Len(s)) - Len(s)]
      BY <1>1, <1>2
    <2>2. (i + Len(s)) - Len(s) = i
      BY <1>2
    <2> QED
      BY <2>1, <2>2, <1>3 DEF Elements
  <1> QED
    BY <1>1, <1>4, <1>5, <1>6

LEMMA ElementsOfSingle ==
    ASSUME NEW S, NEW k \in S
    PROVE  <<k>> \in Seq(S) /\ Elements(<<k>>) = {k}
  BY DEF Elements

LEMMA ElementsOfEmpty ==
    ASSUME NEW S
    PROVE  <<>> \in Seq(S) /\ Elements(<<>>) = {}
  BY DEF Elements

LEMMA ElementsOfTail ==
    ASSUME NEW S, NEW s \in Seq(S), s # <<>>
    PROVE  /\ Head(s) \in S /\ Tail(s) \in Seq(S)
           /\ Elements(s) = Elements(Tail(s)) \cup {Head(s)}
  <1>1. /\ Head(s) \in S /\ Tail(s) \in Seq(S) /\ Head(s) = s[1]
        /\ Len(Tail(s)) = Len(s) - 1
        /\ \A i \in 1..Len(Tail(s)) : Tail(s)[i] = s[i + 1]
    BY HeadTailProperties
  <1>2. /\ Len(s) \in Nat /\ Len(s) > 0
        /\ DOMAIN s = 1..Len(s) /\ DOMAIN Tail(s) = 1..Len(Tail(s))
    BY <1>1, LenProperties, EmptySeq
  <1>3. ASSUME NEW i \in 1..Len(s)
        PROVE  s[i] \in Elements(Tail(s)) \cup {Head(s)}
    <2>1. CASE i = 1
      BY <2>1, <1>1
    <2>2. CASE i # 1
      <3>1. i - 1 \in 1..Len(Tail(s)) /\ Tail(s)[i - 1] = s[(i - 1) + 1]
        BY <2>2, <1>1, <1>2
      <3>2. (i - 1) + 1 = i
        OBVIOUS
      <3> QED
        BY <3>1, <3>2, <1>2 DEF Elements
    <2> QED
      BY <2>1, <2>2
  <1>4. ASSUME NEW i \in 1..Len(Tail(s))
        PROVE  Tail(s)[i] \in Elements(s)
    BY <1>1, <1>2, i + 1 \in 1..Len(s) DEF Elements
  <1>5. Head(s) \in Elements(s)
    BY <1>1, <1>2, 1 \in 1..Len(s) DEF Elements
  <1>6. Elements(s) \subseteq Elements(Tail(s)) \cup {Head(s)}
    BY <1>2, <1>3 DEF Elements
  <1>7. Elements(Tail(s)) \subseteq Elements(s)
    BY <1>2, <1>4 DEF Elements
  <1> QED
    BY <1>1, <1>5, <1>6, <1>7

LEMMA ElementsOfAppend ==
    ASSUME NEW s \in Seq(SettingUp), NEW x \in SettingUp
    PROVE  /\ Append(s, x) \in Seq(SettingUp) /\ Append(s, x) # <<>>
           /\ Elements(Append(s, x)) = Elements(s) \cup {x}
  <1>1. /\ Append(s, x) \in Seq(SettingUp) /\ Len(Append(s, x)) = Len(s) + 1
        /\ \A i \in 1..Len(s) : Append(s, x)[i] = s[i]
        /\ Append(s, x)[Len(s) + 1] = x
    BY AppendProperties
  <1>2. Len(s) \in Nat /\ DOMAIN s = 1..Len(s) /\ DOMAIN Append(s, x) = 1..Len(s) + 1
    BY <1>1, LenProperties
  <1>3. \A i \in 1..Len(s) + 1 : i \in 1..Len(s) \/ i = Len(s) + 1
    BY <1>2
  <1>4. 1..Len(s) \subseteq 1..Len(s) + 1 /\ Len(s) + 1 \in 1..Len(s) + 1
    BY <1>2
  <1>5. Elements(Append(s, x)) \subseteq Elements(s) \cup {x}
    BY <1>1, <1>2, <1>3 DEF Elements
  <1>6. Elements(s) \cup {x} \subseteq Elements(Append(s, x))
    BY <1>1, <1>2, <1>4 DEF Elements
  <1>7. Append(s, x) # <<>>
    BY <1>1, <1>2, EmptySeq
  <1> QED
    BY <1>1, <1>5, <1>6, <1>7

\* The keys of a sequence of set-ups.
KeysOf(s) == {x.key : x \in Elements(s)}

LEMMA AskedProperties ==
    ASSUME NEW starts \in Seq(Keys)
    PROVE  Asked(starts) \in Seq(SettingUp) /\ KeysOf(Asked(starts)) = Elements(starts)
  <1>1. Len(starts) \in Nat /\ DOMAIN starts = 1..Len(starts)
        /\ \A i \in 1..Len(starts) : starts[i] \in Keys
    BY LenProperties
  <1>2. /\ DOMAIN Asked(starts) = 1..Len(starts)
        /\ \A i \in 1..Len(starts) :
              Asked(starts)[i] = [key |-> starts[i], asked |-> "exchange"]
    BY <1>1 DEF Asked
  <1>3. Asked(starts) \in [1..Len(starts) -> SettingUp]
    BY <1>1 DEF Asked, SettingUp
  <1>4. Asked(starts) \in Seq(SettingUp)
    BY <1>1, <1>3, SeqDef
  <1>5. KeysOf(Asked(starts)) = Elements(starts)
    BY <1>1, <1>2 DEF KeysOf, Elements
  <1> QED
    BY <1>4, <1>5

LEMMA AskedOfEmpty == Asked(<<>>) = <<>>
  BY DEF Asked

LEMMA AskedOfSingle ==
    ASSUME NEW k \in Keys
    PROVE  /\ Asked(<<k>>) = <<[key |-> k, asked |-> "exchange"]>>
           /\ [key |-> k, asked |-> "exchange"] \in SettingUp
  BY DEF Asked, SettingUp

LEMMA KeysOfConcat ==
    ASSUME NEW s \in Seq(SettingUp), NEW t \in Seq(SettingUp)
    PROVE  s \o t \in Seq(SettingUp) /\ KeysOf(s \o t) = KeysOf(s) \cup KeysOf(t)
  BY ElementsOfConcat DEF KeysOf

LEMMA KeysOfTail ==
    ASSUME NEW s \in Seq(SettingUp), s # <<>>
    PROVE  /\ Head(s) \in SettingUp /\ Tail(s) \in Seq(SettingUp)
           /\ KeysOf(s) = KeysOf(Tail(s)) \cup {Head(s).key}
  BY ElementsOfTail DEF KeysOf

LEMMA KeysOfSingle ==
    ASSUME NEW x \in SettingUp
    PROVE  <<x>> \in Seq(SettingUp) /\ KeysOf(<<x>>) = {x.key}
  <1>1. <<x>> \in Seq(SettingUp) /\ Elements(<<x>>) = {x}
    BY ElementsOfSingle
  <1>2. {y.key : y \in {x}} = {x.key}
    OBVIOUS
  <1> QED
    BY <1>1, <1>2 DEF KeysOf

LEMMA KeysOfEmpty ==
    <<>> \in Seq(SettingUp) /\ KeysOf(<<>>) = {}
  BY ElementsOfEmpty DEF KeysOf

\* A set-up that has gone on to its next request is still a set-up of its key.
LEMMA KeysOfRotated ==
    ASSUME NEW s \in Seq(SettingUp), s # <<>>, NEW x \in SettingUp, x.key = Head(s).key
    PROVE  /\ Append(Tail(s), x) \in Seq(SettingUp) /\ Append(Tail(s), x) # <<>>
           /\ KeysOf(Append(Tail(s), x)) = KeysOf(s)
  <1>1. Tail(s) \in Seq(SettingUp) /\ Elements(s) = Elements(Tail(s)) \cup {Head(s)}
    BY ElementsOfTail
  <1> PICK t \in Seq(SettingUp) : t = Tail(s)
    BY <1>1
  <1>2. /\ Append(t, x) \in Seq(SettingUp) /\ Append(t, x) # <<>>
        /\ Elements(Append(t, x)) = Elements(t) \cup {x}
    BY ElementsOfAppend
  <1> QED
    BY <1>1, <1>2 DEF KeysOf

-----------------------------------------------------------------------------
(* What a step does to the state of one client *)

\* Nothing of d changes.
Same(d) ==
    /\ ws'[d] = ws[d] /\ wanted'[d] = wanted[d] /\ channel'[d] = channel[d]
    /\ waiting'[d] = waiting[d] /\ settingUp'[d] = settingUp[d]
    /\ cancelling'[d] = cancelling[d] /\ subs'[d] = subs[d]
    /\ consumers'[d] = consumers[d] /\ made'[d] = made[d]
    /\ (d \in overlapped' <=> d \in overlapped)

SameOthers(c) == broker' = broker /\ \A d \in Clients \ {c} : Same(d)

\* With the connection there: the process ends, or the cells of Perform.
Performed(c, starts, stops) ==
    IF stops # {} /\ subs[c] = NoTable
    THEN process' = "rejection"
    ELSE /\ process' = process
         /\ settingUp'[c] = settingUp[c] \o Asked(starts)
         /\ cancelling'[c] = cancelling[c] \cup Tags(c, stops)

\* The types of what Perform and Get change.
Requested ==
    /\ process' \in {process, "rejection"}
    /\ settingUp' \in [Clients -> Seq(SettingUp)]
    /\ cancelling' \in [Clients -> SUBSET (Nat \ {0})]
    /\ channel' \in [Clients -> {"none", "pending", "open", "closing", "closed"}]
    /\ waiting' \in [Clients -> [starts : Seq(Keys), stops : SUBSET Keys]]

LEMMA TagsAreNumbers ==
    ASSUME TypeOK, NEW c \in Clients, NEW stops \in SUBSET Keys,
           stops = {} \/ subs[c] # NoTable
    PROVE  Tags(c, stops) \subseteq Nat \ {0}
  BY DEF TypeOK, Tags

LEMMA PerformSteps ==
    ASSUME TypeOK, NEW c \in Clients, NEW starts \in Seq(Keys),
           NEW stops \in SUBSET Keys, Perform(c, starts, stops)
    PROVE  /\ process' \in {process, "rejection"}
           /\ settingUp' \in [Clients -> Seq(SettingUp)]
           /\ cancelling' \in [Clients -> SUBSET (Nat \ {0})]
           /\ broker => Performed(c, starts, stops)
           /\ \A d \in Clients \ {c} :
                  settingUp'[d] = settingUp[d] /\ cancelling'[d] = cancelling[d]
  <1>1. CASE Refused(c, starts, stops)
    <2>1. broker => stops # {} /\ subs[c] = NoTable
      BY <1>1 DEF Refused
    <2> QED
      BY <1>1, <2>1 DEF Perform, Exit, Performed, TypeOK
  <1>2. CASE ~Refused(c, starts, stops)
    <2> DEFINE tags == Tags(c, stops)
               asked == Asked(starts)
    <2>1. ~(stops # {} /\ subs[c] = NoTable)
      BY <1>2 DEF Refused
    <2>2. tags \subseteq Nat \ {0}
      BY <2>1, TagsAreNumbers
    <2>3. /\ settingUp' = [settingUp EXCEPT ![c] = @ \o asked]
          /\ cancelling' = [cancelling EXCEPT ![c] = @ \cup tags]
          /\ process' = process
      BY <1>2 DEF Perform
    <2>4. settingUp[c] \o asked \in Seq(SettingUp)
      BY AskedProperties, KeysOfConcat DEF TypeOK
    <2>5. Performed(c, starts, stops)
      BY <2>1, <2>3 DEF Performed, TypeOK
    <2> HIDE DEF tags, asked
    <2> QED
      BY <2>2, <2>3, <2>4, <2>5 DEF TypeOK
  <1> QED
    BY <1>1, <1>2

LEMMA GetSteps ==
    ASSUME TypeOK, NEW c \in Clients, NEW starts \in Seq(Keys),
           NEW stops \in SUBSET Keys, Get(c, starts, stops)
    PROVE  /\ Requested
           /\ broker =>
              IF channel[c] = "open"
              THEN /\ channel'[c] = "open" /\ waiting'[c] = waiting[c]
                   /\ Performed(c, starts, stops)
              ELSE /\ channel'[c] = "pending" /\ process' = process
                   /\ waiting'[c].starts = waiting[c].starts \o starts
                   /\ waiting'[c].stops = waiting[c].stops \cup stops
                   /\ settingUp'[c] = settingUp[c] /\ cancelling'[c] = cancelling[c]
           /\ \A d \in Clients \ {c} :
                  /\ settingUp'[d] = settingUp[d] /\ cancelling'[d] = cancelling[d]
                  /\ channel'[d] = channel[d] /\ waiting'[d] = waiting[d]
  <1>1. CASE channel[c] = "open"
    <2>1. Perform(c, starts, stops) /\ channel' = channel /\ waiting' = waiting
      BY <1>1 DEF Get
    <2> QED
      BY <1>1, <2>1, PerformSteps DEF Requested, TypeOK
  <1>2. CASE channel[c] # "open" /\ ~broker
    <2>1. Exit("rejection") /\ channel' = channel /\ waiting' = waiting
      BY <1>2 DEF Get
    <2> QED
      BY <1>2, <2>1 DEF Exit, Requested, TypeOK
  <1>3. CASE channel[c] # "open" /\ broker
    <2> DEFINE w == [waiting[c] EXCEPT !.starts = @ \o starts, !.stops = @ \cup stops]
    <2>1. waiting[c].starts \o starts \in Seq(Keys)
      BY ElementsOfConcat DEF TypeOK
    <2>2. /\ w \in [starts : Seq(Keys), stops : SUBSET Keys]
          /\ w.starts = waiting[c].starts \o starts
          /\ w.stops = waiting[c].stops \cup stops
      BY <2>1 DEF TypeOK
    <2>3. /\ waiting' = [waiting EXCEPT ![c] = w]
          /\ channel' = [channel EXCEPT ![c] = "pending"]
          /\ UNCHANGED <<process, settingUp, cancelling>>
      BY <1>3 DEF Get, TypeOK
    <2> HIDE DEF w
    <2>4. /\ waiting' \in [Clients -> [starts : Seq(Keys), stops : SUBSET Keys]]
          /\ waiting'[c] = w
          /\ \A d \in Clients \ {c} : waiting'[d] = waiting[d]
      BY <2>2, <2>3 DEF TypeOK
    <2> QED
      BY <1>3, <2>2, <2>3, <2>4 DEF Requested, TypeOK
  <1> QED
    BY <1>1, <1>2, <1>3

-----------------------------------------------------------------------------
(* The type invariant, and the frame: a step is about one client *)

LEMMA InitType == Init => TypeOK
  <1> SUFFICES ASSUME Init PROVE TypeOK
    OBVIOUS
  <1>1. Nothing \in [starts : Seq(Keys), stops : SUBSET Keys]
    BY ElementsOfEmpty DEF Nothing
  <1> QED
    BY <1>1, KeysOfEmpty DEF Init, TypeOK

\* What a command of c does to the history and to the counter.
LEMMA NotedSteps ==
    ASSUME TypeOK, NEW c \in Clients, Noted(c)
    PROVE  /\ overlapped' \subseteq Clients
           /\ \A d \in Clients \ {c} : d \in overlapped' <=> d \in overlapped
           /\ c \notin overlapped' => Quiet(c) /\ c \notin overlapped
  BY DEF TypeOK, Noted

LEMMA CountedSteps ==
    ASSUME TypeOK, NEW c \in Clients, Counted(c)
    PROVE  commands' \in [Clients -> Nat]
  BY DEF TypeOK, Counted

LEMMA SubscribeSteps ==
    ASSUME TypeOK, NEW c \in Clients, NEW k \in Keys, Subscribe(c, k)
    PROVE  /\ TypeOK' /\ SameOthers(c)
           /\ Get(c, <<k>>, {k} \cap wanted[c])
           /\ wanted'[c] = wanted[c] \cup {k}
           /\ ws'[c] = ws[c] /\ subs'[c] = subs[c]
           /\ consumers'[c] = consumers[c] /\ made'[c] = made[c]
  <1>1. Get(c, <<k>>, {k} \cap wanted[c]) /\ Noted(c) /\ Counted(c)
    BY DEF Subscribe
  <1>2. <<k>> \in Seq(Keys) /\ {k} \cap wanted[c] \in SUBSET Keys
    BY ElementsOfSingle
  <1>3. /\ wanted' \in [Clients -> SUBSET Keys]
        /\ wanted'[c] = wanted[c] \cup {k}
        /\ \A d \in Clients \ {c} : wanted'[d] = wanted[d]
    BY DEF Subscribe, TypeOK
  <1>4. Requested
    BY <1>1, <1>2, GetSteps
  <1>5. TypeOK'
    BY <1>1, <1>3, <1>4, NotedSteps, CountedSteps DEF Subscribe, outside, Requested, TypeOK
  <1>6. SameOthers(c)
    BY <1>1, <1>2, <1>3, GetSteps, NotedSteps DEF Subscribe, outside, SameOthers, Same
  <1> QED
    BY <1>1, <1>3, <1>5, <1>6 DEF Subscribe

LEMMA UnsubscribeSteps ==
    ASSUME TypeOK, NEW c \in Clients, NEW k \in Keys, Unsubscribe(c, k)
    PROVE  /\ TypeOK' /\ SameOthers(c)
           /\ Get(c, <<>>, {k})
           /\ wanted'[c] = wanted[c] \ {k}
           /\ ws'[c] = ws[c] /\ subs'[c] = subs[c]
           /\ consumers'[c] = consumers[c] /\ made'[c] = made[c]
  <1>1. Get(c, <<>>, {k}) /\ Noted(c) /\ Counted(c)
    BY DEF Unsubscribe
  <1>2. <<>> \in Seq(Keys) /\ {k} \in SUBSET Keys
    BY ElementsOfEmpty
  <1>3. /\ wanted' \in [Clients -> SUBSET Keys]
        /\ wanted'[c] = wanted[c] \ {k}
        /\ \A d \in Clients \ {c} : wanted'[d] = wanted[d]
    BY DEF Unsubscribe, TypeOK
  <1>4. Requested
    BY <1>1, <1>2, GetSteps
  <1>5. TypeOK'
    BY <1>1, <1>3, <1>4, NotedSteps, CountedSteps DEF Unsubscribe, outside, Requested, TypeOK
  <1>6. SameOthers(c)
    BY <1>1, <1>2, <1>3, GetSteps, NotedSteps DEF Unsubscribe, outside, SameOthers, Same
  <1> QED
    BY <1>1, <1>3, <1>5, <1>6 DEF Unsubscribe

LEMMA ConnectSteps ==
    ASSUME TypeOK, NEW c \in Clients, Connect(c)
    PROVE  TypeOK' /\ SameOthers(c)
  BY DEF Connect, outside, server, TypeOK, SameOthers, Same

LEMMA AuthenticateSteps ==
    ASSUME TypeOK, NEW c \in Clients, Authenticate(c)
    PROVE  TypeOK' /\ SameOthers(c)
  BY DEF Authenticate, outside, server, TypeOK, SameOthers, Same

LEMMA CloseSteps ==
    ASSUME TypeOK, NEW c \in Clients, Close(c)
    PROVE  TypeOK' /\ SameOthers(c)
  <1>1. Noted(c)
    BY DEF Close
  <1> QED
    BY <1>1, NotedSteps DEF Close, outside, TypeOK, SameOthers, Same

LEMMA FailsSteps ==
    ASSUME TypeOK, NEW c \in Clients, Fails(c)
    PROVE  TypeOK' /\ SameOthers(c)
  BY DEF Fails, outside, client, server, TypeOK, SameOthers, Same

LEMMA ChannelOpenedSteps ==
    ASSUME TypeOK, NEW c \in Clients, ChannelOpened(c)
    PROVE  /\ TypeOK' /\ SameOthers(c)
           /\ Performed(c, waiting[c].starts, waiting[c].stops)
           /\ channel'[c] = "open" /\ waiting'[c] = Nothing
           /\ ws'[c] = ws[c] /\ wanted'[c] = wanted[c] /\ subs'[c] = subs[c]
           /\ consumers'[c] = consumers[c] /\ made'[c] = made[c]
  <1>1. /\ waiting[c].starts \in Seq(Keys) /\ waiting[c].stops \in SUBSET Keys
        /\ Nothing \in [starts : Seq(Keys), stops : SUBSET Keys]
    BY ElementsOfEmpty DEF TypeOK, Nothing
  <1>2. Perform(c, waiting[c].starts, waiting[c].stops) /\ broker
    BY DEF ChannelOpened
  <1> HIDE DEF Nothing
  <1> QED
    BY <1>1, <1>2, PerformSteps DEF ChannelOpened, outside, client, TypeOK, SameOthers, Same

\* A set-up goes on to its next request.
LEMMA GoesOnSteps ==
    ASSUME TypeOK, NEW c \in Clients, NEW request \in {"queue", "consumer"},
           settingUp[c] # <<>>, GoesOn(c, request)
    PROVE  /\ First(c) \in SettingUp
           /\ settingUp' \in [Clients -> Seq(SettingUp)]
           /\ settingUp'[c] =
                  Append(Tail(settingUp[c]), [key |-> First(c).key, asked |-> request])
           /\ settingUp'[c] # <<>>
           /\ KeysOf(settingUp'[c]) = KeysOf(settingUp[c])
           /\ \A d \in Clients \ {c} : settingUp'[d] = settingUp[d]
  <1> DEFINE x == [key |-> First(c).key, asked |-> request]
  <1>1. First(c) \in SettingUp
    BY KeysOfTail DEF First, TypeOK
  <1>2. x \in SettingUp /\ x.key = Head(settingUp[c]).key
    BY <1>1 DEF First, SettingUp
  <1>3. settingUp' = [settingUp EXCEPT ![c] = Append(Tail(@), x)]
    BY DEF GoesOn
  <1>4. /\ Append(Tail(settingUp[c]), x) \in Seq(SettingUp)
        /\ Append(Tail(settingUp[c]), x) # <<>>
        /\ KeysOf(Append(Tail(settingUp[c]), x)) = KeysOf(settingUp[c])
    BY <1>2, KeysOfRotated DEF TypeOK
  <1> HIDE DEF x
  <1>5. /\ settingUp' \in [Clients -> Seq(SettingUp)]
        /\ settingUp'[c] = Append(Tail(settingUp[c]), x)
        /\ \A d \in Clients \ {c} : settingUp'[d] = settingUp[d]
    BY <1>3, <1>4 DEF TypeOK
  <1> QED
    BY <1>1, <1>4, <1>5 DEF x

LEMMA AssertedSteps ==
    ASSUME TypeOK, NEW c \in Clients, ExchangeAsserted(c) \/ QueueAsserted(c)
    PROVE  /\ TypeOK' /\ SameOthers(c) /\ process' = process
           /\ First(c) \in SettingUp /\ settingUp[c] # <<>> /\ channel[c] = "open"
           /\ \E request \in {"queue", "consumer"} :
                 settingUp'[c] =
                    Append(Tail(settingUp[c]), [key |-> First(c).key, asked |-> request])
           /\ KeysOf(settingUp'[c]) = KeysOf(settingUp[c])
           /\ ws'[c] = ws[c] /\ wanted'[c] = wanted[c] /\ channel'[c] = channel[c]
           /\ waiting'[c] = waiting[c] /\ cancelling'[c] = cancelling[c]
           /\ subs'[c] = subs[c] /\ consumers'[c] = consumers[c] /\ made'[c] = made[c]
  <1>1. PICK request \in {"queue", "consumer"} : GoesOn(c, request)
    BY DEF ExchangeAsserted, QueueAsserted
  <1>2. settingUp[c] # <<>> /\ channel[c] = "open"
    BY DEF ExchangeAsserted, QueueAsserted, Answers
  <1>3. /\ process' = process /\ exchange' \in {exchange, TRUE}
        /\ UNCHANGED <<broker, client, channel, waiting, cancelling, subs, consumers, made>>
    BY DEF ExchangeAsserted, QueueAsserted, outside
  <1> HIDE DEF GoesOn
  <1>4. TypeOK' /\ SameOthers(c)
    BY <1>1, <1>2, <1>3, GoesOnSteps DEF client, TypeOK, SameOthers, Same
  <1>5. /\ First(c) \in SettingUp
        /\ settingUp'[c] =
               Append(Tail(settingUp[c]), [key |-> First(c).key, asked |-> request])
        /\ KeysOf(settingUp'[c]) = KeysOf(settingUp[c])
    BY <1>1, <1>2, GoesOnSteps
  <1> QED
    BY <1>1, <1>2, <1>3, <1>4, <1>5 DEF client

\* The table that registerSubscription leaves.
Table(c) == IF subs[c] = NoTable THEN [k \in Keys |-> 0] ELSE subs[c]
NewTag(c) == made[c] + 1
NewKey(c) == First(c).key

LEMMA SetUpSteps ==
    ASSUME TypeOK, NEW c \in Clients, SetUp(c)
    PROVE  /\ TypeOK' /\ SameOthers(c)
           /\ NewKey(c) \in Keys /\ NewTag(c) \in Nat \ {0}
           /\ Table(c) \in [Keys -> Nat]
           /\ settingUp[c] # <<>> /\ settingUp'[c] = Tail(settingUp[c])
           /\ made'[c] = NewTag(c)
           /\ consumers'[c] = consumers[c] \cup {[tag |-> NewTag(c), key |-> NewKey(c)]}
           /\ subs'[c] = [Table(c) EXCEPT ![NewKey(c)] = NewTag(c)]
           /\ subs'[c] # NoTable
           /\ ws'[c] = ws[c] /\ wanted'[c] = wanted[c] /\ channel[c] = "open"
           /\ channel'[c] = "open" /\ waiting'[c] = waiting[c]
           /\ cancelling'[c] = cancelling[c] /\ process' = process
  <1>1. /\ settingUp[c] \in Seq(SettingUp) /\ settingUp[c] # <<>>
        /\ First(c) \in SettingUp /\ Tail(settingUp[c]) \in Seq(SettingUp)
    BY KeysOfTail DEF SetUp, Answers, TypeOK, First
  <1>2. NewTag(c) \in Nat \ {0} /\ NewKey(c) \in Keys
    BY <1>1 DEF TypeOK, NewTag, NewKey, SettingUp
  <1>3. Table(c) \in [Keys -> Nat]
    BY DEF TypeOK, Table
  <1> DEFINE t == [Table(c) EXCEPT ![NewKey(c)] = NewTag(c)]
             x == [tag |-> NewTag(c), key |-> NewKey(c)]
  <1>4. t \in [Keys -> Nat] /\ t # NoTable
    BY <1>2, <1>3, NoTableAssumption
  <1>5. x \in Consumer
    BY <1>2 DEF Consumer
  <1>6. /\ subs' = [subs EXCEPT ![c] = t]
        /\ consumers' = [consumers EXCEPT ![c] = @ \cup {x}]
        /\ made' = [made EXCEPT ![c] = NewTag(c)]
        /\ settingUp' = [settingUp EXCEPT ![c] = Tail(@)]
    BY DEF SetUp, Table, NewKey, NewTag, TypeOK
  <1>7. /\ subs' \in [Clients -> {NoTable} \cup [Keys -> Nat]]
        /\ subs'[c] = t
        /\ \A d \in Clients \ {c} : subs'[d] = subs[d]
    BY <1>4, <1>6 DEF TypeOK
  <1>8. /\ consumers' \in [Clients -> SUBSET Consumer]
        /\ consumers'[c] = consumers[c] \cup {x}
        /\ \A d \in Clients \ {c} : consumers'[d] = consumers[d]
    BY <1>5, <1>6 DEF TypeOK
  <1>9. /\ UNCHANGED <<process, outside, client, channel, waiting, cancelling>>
        /\ channel[c] = "open"
    BY DEF SetUp, Answers
  <1> HIDE DEF t, x
  <1>10. TypeOK'
    BY <1>1, <1>2, <1>6, <1>7, <1>8, <1>9 DEF outside, client, TypeOK
  <1>11. SameOthers(c)
    BY <1>6, <1>7, <1>8, <1>9 DEF outside, client, TypeOK, SameOthers, Same
  <1> QED
    BY <1>1, <1>2, <1>3, <1>4, <1>6, <1>7, <1>8, <1>9, <1>10, <1>11
       DEF client, TypeOK, t, x

LEMMA UnboundSteps ==
    ASSUME TypeOK, NEW c \in Clients, Unbound(c)
    PROVE  TypeOK' /\ SameOthers(c)
  BY DEF Unbound, outside, client, server, TypeOK, SameOthers, Same

LEMMA CancelledSteps ==
    ASSUME TypeOK, NEW c \in Clients, NEW tag, Cancelled(c, tag)
    PROVE  TypeOK' /\ SameOthers(c)
  <1>1. exchange' \in BOOLEAN
    BY DEF Cancelled, Unbind
  <1> QED
    BY <1>1 DEF Cancelled, client, TypeOK, SameOthers, Same

LEMMA ChannelEndedSteps ==
    ASSUME TypeOK, NEW c \in Clients, ChannelEnded(c)
    PROVE  TypeOK' /\ SameOthers(c)
  <1>1. exchange' \in BOOLEAN
    BY DEF ChannelEnded, Unbind
  <1> QED
    BY <1>1 DEF ChannelEnded, client, TypeOK, SameOthers, Same

LEMMA ClientStep ==
    ASSUME TypeOK, NEW c \in Clients, Command(c) \/ Reply(c)
    PROVE  TypeOK' /\ SameOthers(c)
  BY ConnectSteps, AuthenticateSteps, CloseSteps, FailsSteps, SubscribeSteps,
     UnsubscribeSteps, ChannelOpenedSteps, AssertedSteps, SetUpSteps, UnboundSteps,
     CancelledSteps, ChannelEndedSteps
     DEF Command, Reply

LEMMA TypeInductive == TypeOK /\ [Next]_vars => TypeOK'
  <1> SUFFICES ASSUME TypeOK, [Next]_vars PROVE TypeOK'
    OBVIOUS
  <1>1. CASE Publish \/ BrokerLost
    BY <1>1 DEF Publish, BrokerLost, client, server, TypeOK
  <1>2. CASE BrokerClosed
    BY <1>2 DEF BrokerClosed, client, TypeOK
  <1>3. CASE UNCHANGED vars
    BY <1>3 DEF vars, outside, client, server, TypeOK
  <1> QED
    BY <1>1, <1>2, <1>3, ClientStep DEF Next

\* Every variable of the events server keeps its type: subscriptions, channels,
\* set-ups, tags and counters, for any clients, keys and commands.
THEOREM ServerTypeCorrect == Spec => []TypeOK
  <1> QED
    BY InitType, TypeInductive, PTL DEF Spec

-----------------------------------------------------------------------------
(* Every connection is served as long as the broker is there               *)

Starting(c) == KeysOf(settingUp[c])

\* The consumer that the table has for k exists and is not being cancelled.
Live(c, k) ==
    /\ subs[c] # NoTable
    /\ subs[c][k] # 0 /\ subs[c][k] \notin cancelling[c]
    /\ [tag |-> subs[c][k], key |-> k] \in consumers[c]

\* No tag of the table or of a cancellation is still to be given, and no tag
\* stands for two keys.
TagsInv(c) ==
    /\ subs[c] # NoTable =>
           /\ \A k \in Keys : subs[c][k] <= made[c]
           /\ \A k, l \in Keys : subs[c][k] = subs[c][l] /\ subs[c][k] # 0 => k = l
    /\ \A t \in cancelling[c] : t <= made[c]

\* The stages of a client's channel.
StagesInv(c) ==
    /\ ws[c] = "new" => channel[c] = "none"
    /\ ws[c] = "open" => channel[c] \in {"none", "pending", "open"}
    /\ channel[c] = "none" => wanted[c] = {}
    /\ channel[c] \in {"none", "pending"} => subs[c] = NoTable
    /\ channel[c] # "pending" => waiting[c] = Nothing

\* A wanted key has its consumer, or its set-up is on its way.
WantedInv(c) ==
    ws[c] = "open" =>
        \A k \in wanted[c] :
            k \in Elements(waiting[c].starts) \cup Starting(c) \/ Live(c, k)

ServedInv(c) == TagsInv(c) /\ StagesInv(c) /\ WantedInv(c)

LEMMA InitServed ==
    ASSUME Init, NEW c \in Clients
    PROVE  ServedInv(c)
  BY DEF Init, ServedInv, TagsInv, StagesInv, WantedInv

LEMMA SameServed ==
    ASSUME NEW c \in Clients, ServedInv(c), Same(c)
    PROVE  ServedInv(c)'
  BY DEF ServedInv, TagsInv, StagesInv, WantedInv, Starting, Live, Same

LEMMA PerformServes ==
    ASSUME TypeOK, NEW c \in Clients, NEW starts \in Seq(Keys),
           NEW stops \in SUBSET Keys, TagsInv(c), Performed(c, starts, stops), up',
           subs'[c] = subs[c], consumers'[c] = consumers[c], made'[c] = made[c]
    PROVE  /\ TagsInv(c)'
           /\ Starting(c)' = Starting(c) \cup Elements(starts)
           /\ \A k \in Keys \ stops : Live(c, k) => Live(c, k)'
  <1>1. /\ stops = {} \/ subs[c] # NoTable
        /\ settingUp'[c] = settingUp[c] \o Asked(starts)
        /\ cancelling'[c] = cancelling[c] \cup ({subs[c][k] : k \in stops} \ {0})
    BY DEF Performed, Tags, up
  <1>2. Starting(c)' = Starting(c) \cup Elements(starts)
    <2>1. /\ Asked(starts) \in Seq(SettingUp) /\ settingUp[c] \in Seq(SettingUp)
          /\ KeysOf(Asked(starts)) = Elements(starts)
      BY AskedProperties DEF TypeOK
    <2> QED
      BY <1>1, <2>1, KeysOfConcat DEF Starting
  <1>3. TagsInv(c)'
    BY <1>1 DEF TagsInv
  <1>4. ASSUME NEW k \in Keys \ stops, Live(c, k)
        PROVE  Live(c, k)'
    <2>1. subs[c] # NoTable /\ subs[c][k] # 0 /\ subs[c][k] \notin cancelling[c]
      BY <1>4 DEF Live
    <2>2. \A l \in stops : subs[c][l] # subs[c][k]
      BY <2>1 DEF TagsInv
    <2>3. subs'[c][k] \notin cancelling'[c]
      BY <1>1, <2>1, <2>2
    <2> QED
      BY <1>4, <2>3 DEF Live
  <1> QED
    BY <1>2, <1>3, <1>4

LEMMA GetServes ==
    ASSUME TypeOK, NEW c \in Clients, NEW starts \in Seq(Keys),
           NEW stops \in SUBSET Keys, ServedInv(c), Get(c, starts, stops), up', broker,
           ws[c] = "open", ws'[c] = "open",
           subs'[c] = subs[c], consumers'[c] = consumers[c], made'[c] = made[c]
    PROVE  /\ TagsInv(c)' /\ StagesInv(c)'
           /\ Elements(starts) \subseteq Elements(waiting'[c].starts) \cup Starting(c)'
           /\ \A k \in wanted[c] \ stops :
                 k \in Elements(waiting'[c].starts) \cup Starting(c)' \/ Live(c, k)'
  <1> USE DEF ServedInv
  <1>1. CASE channel[c] = "open"
    <2>1. /\ channel'[c] = "open" /\ waiting'[c] = waiting[c]
          /\ Performed(c, starts, stops)
      BY <1>1, GetSteps
    <2>2. /\ TagsInv(c)'
          /\ Starting(c)' = Starting(c) \cup Elements(starts)
          /\ \A k \in Keys \ stops : Live(c, k) => Live(c, k)'
      BY <2>1, PerformServes
    <2>3. StagesInv(c)'
      BY <1>1, <2>1 DEF StagesInv
    <2>4. wanted[c] \subseteq Keys
      BY DEF TypeOK
    <2> QED
      BY <2>1, <2>2, <2>3, <2>4 DEF WantedInv
  <1>2. CASE channel[c] # "open"
    <2>1. /\ channel'[c] = "pending"
          /\ waiting'[c].starts = waiting[c].starts \o starts
          /\ settingUp'[c] = settingUp[c] /\ cancelling'[c] = cancelling[c]
      BY <1>2, GetSteps
    <2>2. Elements(waiting'[c].starts) = Elements(waiting[c].starts) \cup Elements(starts)
      BY <2>1, ElementsOfConcat DEF TypeOK
    <2>3. Starting(c)' = Starting(c) /\ \A k \in Keys : Live(c, k) => Live(c, k)'
      BY <2>1 DEF Starting, Live
    <2>4. StagesInv(c)'
      BY <1>2, <2>1 DEF StagesInv
    <2>5. TagsInv(c)'
      BY <2>1 DEF TagsInv
    <2>6. wanted[c] \subseteq Keys
      BY DEF TypeOK
    <2> QED
      BY <2>2, <2>3, <2>4, <2>5, <2>6 DEF WantedInv
  <1> QED
    BY <1>1, <1>2

LEMMA SubscribeServes ==
    ASSUME TypeOK, NEW c \in Clients, NEW k \in Keys, ServedInv(c), Subscribe(c, k), up', broker
    PROVE  ServedInv(c)'
  <1>1. /\ Get(c, <<k>>, {k} \cap wanted[c])
        /\ wanted'[c] = wanted[c] \cup {k}
        /\ ws[c] = "open" /\ ws'[c] = "open"
        /\ subs'[c] = subs[c] /\ consumers'[c] = consumers[c] /\ made'[c] = made[c]
    BY SubscribeSteps DEF Subscribe
  <1>2. /\ <<k>> \in Seq(Keys) /\ Elements(<<k>>) = {k}
        /\ {k} \cap wanted[c] \in SUBSET Keys
    BY ElementsOfSingle
  <1>3. /\ TagsInv(c)' /\ StagesInv(c)'
        /\ Elements(<<k>>) \subseteq Elements(waiting'[c].starts) \cup Starting(c)'
        /\ \A l \in wanted[c] \ ({k} \cap wanted[c]) :
              l \in Elements(waiting'[c].starts) \cup Starting(c)' \/ Live(c, l)'
    BY <1>1, <1>2, GetServes
  <1> QED
    BY <1>1, <1>2, <1>3 DEF ServedInv, WantedInv

LEMMA UnsubscribeServes ==
    ASSUME TypeOK, NEW c \in Clients, NEW k \in Keys, ServedInv(c), Unsubscribe(c, k), up', broker
    PROVE  ServedInv(c)'
  <1>1. /\ Get(c, <<>>, {k})
        /\ wanted'[c] = wanted[c] \ {k}
        /\ ws[c] = "open" /\ ws'[c] = "open"
        /\ subs'[c] = subs[c] /\ consumers'[c] = consumers[c] /\ made'[c] = made[c]
    BY UnsubscribeSteps DEF Unsubscribe
  <1>2. <<>> \in Seq(Keys) /\ {k} \in SUBSET Keys
    BY ElementsOfEmpty
  <1>3. /\ TagsInv(c)' /\ StagesInv(c)'
        /\ \A l \in wanted[c] \ {k} :
              l \in Elements(waiting'[c].starts) \cup Starting(c)' \/ Live(c, l)'
    BY <1>1, <1>2, GetServes
  <1> QED
    BY <1>1, <1>3 DEF ServedInv, WantedInv

LEMMA ChannelOpenedServes ==
    ASSUME TypeOK, NEW c \in Clients, ServedInv(c), ChannelOpened(c), up'
    PROVE  ServedInv(c)'
  <1>1. /\ Performed(c, waiting[c].starts, waiting[c].stops)
        /\ channel[c] = "pending" /\ channel'[c] = "open" /\ waiting'[c] = Nothing
        /\ ws'[c] = ws[c] /\ wanted'[c] = wanted[c] /\ subs'[c] = subs[c]
        /\ consumers'[c] = consumers[c] /\ made'[c] = made[c]
    BY ChannelOpenedSteps DEF ChannelOpened
  <1>2. /\ waiting[c].starts \in Seq(Keys) /\ waiting[c].stops \in SUBSET Keys
        /\ wanted[c] \subseteq Keys
    BY DEF TypeOK
  <1>3. /\ TagsInv(c)'
        /\ Starting(c)' = Starting(c) \cup Elements(waiting[c].starts)
    BY <1>1, <1>2, PerformServes DEF ServedInv
  <1>4. StagesInv(c)'
    BY <1>1 DEF ServedInv, StagesInv
  <1>5. WantedInv(c)'
    <2>1. subs[c] = NoTable
      BY <1>1 DEF ServedInv, StagesInv
    <2>2. ws[c] = "open" =>
              \A k \in wanted[c] : k \in Elements(waiting[c].starts) \cup Starting(c)
      BY <2>1 DEF ServedInv, WantedInv, Live
    <2> QED
      BY <1>1, <1>3, <2>2 DEF WantedInv
  <1> QED
    BY <1>3, <1>4, <1>5 DEF ServedInv

LEMMA SetUpServes ==
    ASSUME TypeOK, NEW c \in Clients, ServedInv(c), SetUp(c)
    PROVE  ServedInv(c)'
  <1> PICK k \in Keys, t \in Nat \ {0} : k = NewKey(c) /\ t = NewTag(c)
    BY SetUpSteps
  <1>1. /\ k \in Keys /\ t \in Nat \ {0} /\ t = made[c] + 1
        /\ Table(c) \in [Keys -> Nat]
        /\ settingUp[c] # <<>> /\ settingUp'[c] = Tail(settingUp[c])
        /\ k = Head(settingUp[c]).key
        /\ made'[c] = t
        /\ consumers'[c] = consumers[c] \cup {[tag |-> t, key |-> k]}
        /\ subs'[c] = [Table(c) EXCEPT ![k] = t] /\ subs'[c] # NoTable
        /\ ws'[c] = ws[c] /\ wanted'[c] = wanted[c]
        /\ channel[c] = "open" /\ channel'[c] = "open"
        /\ waiting'[c] = waiting[c] /\ cancelling'[c] = cancelling[c]
    BY SetUpSteps DEF NewKey, NewTag, First
  <1>2. subs'[c][k] = t /\ \A l \in Keys \ {k} : subs'[c][l] = Table(c)[l]
    BY <1>1
  <1>3. /\ made[c] \in Nat /\ wanted[c] \subseteq Keys
        /\ cancelling[c] \subseteq Nat
    BY DEF TypeOK
  <1>4. /\ \A l \in Keys : Table(c)[l] <= made[c]
        /\ \A l, m \in Keys : Table(c)[l] = Table(c)[m] /\ Table(c)[l] # 0 => l = m
    BY <1>3 DEF Table, ServedInv, TagsInv
  <1>5. TagsInv(c)'
    <2>1. \A l \in Keys : subs'[c][l] <= made'[c]
      BY <1>1, <1>2, <1>3, <1>4
    <2>2. ASSUME NEW l \in Keys, NEW m \in Keys,
                 subs'[c][l] = subs'[c][m], subs'[c][l] # 0
          PROVE  l = m
      BY <2>2, <1>1, <1>2, <1>3, <1>4
    <2>3. \A u \in cancelling'[c] : u <= made'[c]
      BY <1>1, <1>3 DEF ServedInv, TagsInv
    <2> QED
      BY <2>1, <2>2, <2>3 DEF TagsInv
  <1>6. StagesInv(c)'
    BY <1>1 DEF ServedInv, StagesInv
  <1>7. Live(c, k)'
    <2>1. \A u \in cancelling[c] : u <= made[c]
      BY DEF ServedInv, TagsInv
    <2>2. t \notin cancelling[c]
      BY <2>1, <1>1, <1>3
    <2>3. [tag |-> subs'[c][k], key |-> k] \in consumers'[c]
      BY <1>1, <1>2
    <2>4. subs'[c][k] # 0 /\ subs'[c][k] \notin cancelling'[c] /\ subs'[c] # NoTable
      BY <2>2, <1>1, <1>2
    <2> QED
      BY <2>3, <2>4 DEF Live
  <1>8. \A l \in Keys \ {k} : Live(c, l) => Live(c, l)'
    BY <1>1, <1>2 DEF Live, Table
  <1>9. Starting(c) = Starting(c)' \cup {k}
    BY <1>1, KeysOfTail DEF Starting, TypeOK
  <1>10. WantedInv(c)'
    <2> SUFFICES ASSUME ws[c] = "open", NEW l \in wanted[c]
                 PROVE  \/ l \in Elements(waiting'[c].starts) \cup Starting(c)'
                        \/ Live(c, l)'
      BY <1>1 DEF WantedInv
    <2>1. CASE l = k
      BY <2>1, <1>7
    <2>2. CASE l # k
      <3>1. l \in Elements(waiting[c].starts) \cup Starting(c) \/ Live(c, l)
        BY DEF ServedInv, WantedInv
      <3>2. l \in Keys \ {k}
        BY <2>2, <1>3
      <3>3. CASE Live(c, l)
        BY <3>2, <3>3, <1>8
      <3> QED
        BY <3>1, <3>2, <3>3, <1>1, <1>9
    <2> QED
      BY <2>1, <2>2
  <1> QED
    BY <1>5, <1>6, <1>10 DEF ServedInv

LEMMA AssertedServes ==
    ASSUME TypeOK, NEW c \in Clients, ServedInv(c), ExchangeAsserted(c) \/ QueueAsserted(c)
    PROVE  ServedInv(c)'
  <1>1. /\ KeysOf(settingUp'[c]) = KeysOf(settingUp[c])
        /\ ws'[c] = ws[c] /\ wanted'[c] = wanted[c] /\ channel'[c] = channel[c]
        /\ waiting'[c] = waiting[c] /\ cancelling'[c] = cancelling[c]
        /\ subs'[c] = subs[c] /\ consumers'[c] = consumers[c] /\ made'[c] = made[c]
    BY AssertedSteps
  <1> QED
    BY <1>1 DEF ServedInv, TagsInv, StagesInv, WantedInv, Starting, Live

LEMMA CancelledServes ==
    ASSUME TypeOK, NEW c \in Clients, NEW t, ServedInv(c), Cancelled(c, t)
    PROVE  ServedInv(c)'
  <1>1. /\ t \in cancelling[c]
        /\ cancelling'[c] = cancelling[c] \ {t}
        /\ consumers'[c] = {x \in consumers[c] : x.tag # t}
        /\ ws'[c] = ws[c] /\ wanted'[c] = wanted[c] /\ channel'[c] = channel[c]
        /\ waiting'[c] = waiting[c] /\ settingUp'[c] = settingUp[c]
        /\ subs'[c] = subs[c] /\ made'[c] = made[c]
    BY DEF Cancelled, client, TypeOK
  <1>2. \A k \in Keys : Live(c, k) => Live(c, k)'
    BY <1>1 DEF Live
  <1>3. Starting(c)' = Starting(c) /\ wanted[c] \subseteq Keys
    BY <1>1 DEF Starting, TypeOK
  <1>4. WantedInv(c)'
    BY <1>1, <1>2, <1>3 DEF ServedInv, WantedInv
  <1> QED
    BY <1>1, <1>4 DEF ServedInv, TagsInv, StagesInv

LEMMA CloseServes ==
    ASSUME TypeOK, NEW c \in Clients, ServedInv(c), Close(c)
    PROVE  ServedInv(c)'
  BY DEF Close, TypeOK, ServedInv, TagsInv, StagesInv, WantedInv

LEMMA ChannelEndedServes ==
    ASSUME TypeOK, NEW c \in Clients, ServedInv(c), ChannelEnded(c), up'
    PROVE  ServedInv(c)'
  <1>1. /\ channel[c] = "closing" /\ channel'[c] = "closed"
        /\ cancelling'[c] = cancelling[c] /\ subs'[c] = subs[c] /\ made'[c] = made[c]
        /\ ws'[c] = ws[c] /\ waiting'[c] = waiting[c]
    BY DEF ChannelEnded, client, TypeOK
  <1>2. ws[c] # "open"
    BY <1>1 DEF ServedInv, StagesInv
  <1> QED
    BY <1>1, <1>2 DEF ServedInv, TagsInv, StagesInv, WantedInv

LEMMA ConnectServes ==
    ASSUME TypeOK, NEW c \in Clients, ServedInv(c), Connect(c)
    PROVE  ServedInv(c)'
  <1>1. /\ ws[c] = "new" /\ ws'[c] = "open"
        /\ wanted'[c] = wanted[c] /\ channel'[c] = channel[c]
        /\ waiting'[c] = waiting[c] /\ settingUp'[c] = settingUp[c]
        /\ cancelling'[c] = cancelling[c] /\ subs'[c] = subs[c]
        /\ consumers'[c] = consumers[c] /\ made'[c] = made[c]
    BY DEF Connect, server, TypeOK
  <1>2. wanted[c] = {} /\ channel[c] = "none"
    BY <1>1 DEF ServedInv, StagesInv
  <1> QED
    BY <1>1, <1>2 DEF ServedInv, TagsInv, StagesInv, WantedInv

LEMMA AuthenticateServes ==
    ASSUME TypeOK, NEW c \in Clients, ServedInv(c), Authenticate(c)
    PROVE  ServedInv(c)'
  <1>1. Same(c)
    BY DEF Authenticate, server, Same
  <1> QED
    BY <1>1, SameServed

LEMMA ClientServes ==
    ASSUME TypeOK, NEW c \in Clients, ServedInv(c), Command(c) \/ Reply(c), up', broker
    PROVE  ServedInv(c)'
  <1>1. ~Fails(c) /\ ~Unbound(c)
    BY DEF Fails, Unbound, up
  <1> QED
    BY <1>1, ConnectServes, AuthenticateServes, CloseServes, SubscribeServes,
       UnsubscribeServes, ChannelOpenedServes, AssertedServes, SetUpServes,
       CancelledServes, ChannelEndedServes DEF Command, Reply

\* Every step is taken by a process that runs.
LEMMA OnlyWhenUp ==
    ASSUME Next
    PROVE  up
  BY DEF Next, Publish, BrokerLost, BrokerClosed, Command, Reply, Connect, Authenticate,
         Close, Fails, Subscribe, Unsubscribe, ChannelOpened, ExchangeAsserted,
         QueueAsserted, SetUp, Unbound, Answers, Cancelled, ChannelEnded

AllServed == up /\ broker => \A c \in Clients : ServedInv(c)

LEMMA ServedInductive == TypeOK /\ AllServed /\ [Next]_vars => AllServed'
  <1> SUFFICES ASSUME TypeOK, AllServed, [Next]_vars, up', broker'
               PROVE  \A c \in Clients : ServedInv(c)'
    BY DEF AllServed
  <1>1. CASE UNCHANGED vars
    <2>1. \A c \in Clients : Same(c)
      BY <1>1 DEF vars, client, server, Same
    <2>2. up /\ broker
      BY <1>1 DEF vars, outside, up
    <2> QED
      BY <2>1, <2>2, SameServed DEF AllServed
  <1>2. ASSUME NEW d \in Clients, Command(d) \/ Reply(d)
        PROVE  \A c \in Clients : ServedInv(c)'
    <2>1. SameOthers(d) /\ up
      BY <1>2, ClientStep, OnlyWhenUp DEF Next
    <2>2. broker
      BY <2>1 DEF SameOthers
    <2>3. ServedInv(d)'
      BY <1>2, <2>1, <2>2, ClientServes DEF AllServed
    <2> QED
      BY <2>1, <2>2, <2>3, SameServed DEF AllServed, SameOthers
  <1>3. CASE Publish
    <2>1. \A c \in Clients : Same(c)
      BY <1>3 DEF Publish, client, server, Same
    <2>2. up /\ broker
      BY <1>3 DEF Publish
    <2> QED
      BY <2>1, <2>2, SameServed DEF AllServed
  <1>4. CASE BrokerLost \/ BrokerClosed
    BY <1>4 DEF BrokerLost, BrokerClosed
  <1> QED
    BY <1>1, <1>2, <1>3, <1>4 DEF Next

\* However hastily clients subscribe, unsubscribe and leave, whenever the
\* connection is there and nothing of an open client is on its way, every key it
\* wants has its consumer.
THEOREM ServedHolds == Spec => []Served
  <1>1. Init => AllServed
    BY InitServed DEF AllServed
  <1>2. TypeOK /\ AllServed => Served
    <2> SUFFICES ASSUME TypeOK, AllServed, NEW c \in Clients, up, broker, ws[c] = "open",
                        Quiet(c),
                        NEW k \in wanted[c]
                 PROVE  k \in Consumed(c)
      BY DEF Served
    <2>1. waiting[c] = Nothing /\ settingUp[c] = <<>>
      BY DEF AllServed, ServedInv, StagesInv, Quiet, Asking
    <2>2. Elements(waiting[c].starts) = {} /\ Starting(c) = {}
      BY <2>1, ElementsOfEmpty, KeysOfEmpty DEF Nothing, Starting
    <2>3. Live(c, k)
      BY <2>2 DEF AllServed, ServedInv, WantedInv
    <2> QED
      BY <2>3 DEF Live, Consumed
  <1> QED
    BY InitType, TypeInductive, ServedInductive, <1>1, <1>2, PTL DEF Spec

-----------------------------------------------------------------------------
(* Clients that wait for their commands *)

\* Whoever is not in the middle of something has nothing on its way.
RestInv(c) ==
    /\ ws[c] # "open" => channel[c] \in {"none", "closing", "closed"}
    /\ channel[c] \in {"none", "closing", "closed"} =>
           settingUp[c] = <<>> /\ cancelling[c] = {} /\ wanted[c] = {}
    /\ channel[c] \in {"none", "closed"} => consumers[c] = {}

\* The first subscription waits for the channel.
PendingInv(c) ==
    channel[c] = "pending" =>
        /\ settingUp[c] = <<>> /\ cancelling[c] = {} /\ consumers[c] = {}
        /\ waiting[c].stops = {}
        /\ \E k \in Keys : waiting[c].starts = <<k>> /\ wanted[c] = {k}

\* One set-up at most is on its way; every consumer is the one that the table
\* has for a wanted key, or is being cancelled.
OpenInv(c) ==
    channel[c] = "open" =>
        /\ \/ settingUp[c] = <<>>
           \/ \E x \in SettingUp : settingUp[c] = <<x>> /\ x.key \in wanted[c]
        /\ subs[c] = NoTable =>
               cancelling[c] = {} /\ consumers[c] = {} /\ settingUp[c] # <<>>
        /\ \A x \in consumers[c] :
               \/ x.tag \in cancelling[c]
               \/ /\ x.key \in wanted[c] \ Starting(c)
                  /\ subs[c] # NoTable /\ subs[c][x.key] = x.tag

PatientInv(c) == RestInv(c) /\ PendingInv(c) /\ OpenInv(c)

LEMMA InitPatient ==
    ASSUME Init, NEW c \in Clients
    PROVE  PatientInv(c)
  BY DEF Init, PatientInv, RestInv, PendingInv, OpenInv

LEMMA SamePatient ==
    ASSUME NEW c \in Clients, PatientInv(c), Same(c)
    PROVE  PatientInv(c)'
  BY DEF PatientInv, RestInv, PendingInv, OpenInv, Starting, Same

\* At rest, with the channel open, consumers and wanted keys correspond.
LEMMA OpenAtRest ==
    ASSUME TypeOK, NEW c \in Clients, PatientInv(c), Quiet(c), channel[c] = "open"
    PROVE  /\ settingUp[c] = <<>> /\ cancelling[c] = {} /\ Starting(c) = {}
           /\ subs[c] \in [Keys -> Nat] /\ subs[c] # NoTable
           /\ \A x \in consumers[c] :
                 x.key \in wanted[c] /\ subs[c][x.key] = x.tag /\ x.tag # 0
  <1>1. settingUp[c] = <<>> /\ cancelling[c] = {} /\ Starting(c) = {}
    BY KeysOfEmpty DEF Quiet, Asking, Starting
  <1>2. subs[c] # NoTable
    BY <1>1 DEF PatientInv, OpenInv
  <1>3. \A x \in consumers[c] : x.tag # 0
    BY DEF TypeOK, Consumer
  <1> QED
    BY <1>1, <1>2, <1>3 DEF PatientInv, OpenInv, TypeOK

LEMMA SubscribePatiently ==
    ASSUME TypeOK, NEW c \in Clients, NEW k \in Keys, ServedInv(c), PatientInv(c),
           Quiet(c), broker, Subscribe(c, k)
    PROVE  PatientInv(c)' /\ process' = process
  <1>1. /\ Get(c, <<k>>, {k} \cap wanted[c])
        /\ wanted'[c] = wanted[c] \cup {k}
        /\ ws[c] = "open" /\ ws'[c] = "open"
        /\ subs'[c] = subs[c] /\ consumers'[c] = consumers[c]
    BY SubscribeSteps DEF Subscribe
  <1>2. /\ <<k>> \in Seq(Keys) /\ Elements(<<k>>) = {k}
        /\ {k} \cap wanted[c] \in SUBSET Keys
    BY ElementsOfSingle
  <1>3. channel[c] \in {"none", "open"}
    BY <1>1 DEF ServedInv, StagesInv, Quiet, Asking
  <1>4. CASE channel[c] = "none"
    <2>1. /\ channel'[c] = "pending" /\ process' = process
          /\ waiting'[c].starts = waiting[c].starts \o <<k>>
          /\ waiting'[c].stops = waiting[c].stops \cup ({k} \cap wanted[c])
          /\ settingUp'[c] = settingUp[c] /\ cancelling'[c] = cancelling[c]
      BY <1>1, <1>2, <1>4, GetSteps
    <2>2. /\ settingUp[c] = <<>> /\ cancelling[c] = {} /\ wanted[c] = {}
          /\ consumers[c] = {}
      BY <1>4 DEF PatientInv, RestInv
    <2>3. waiting[c].starts = <<>> /\ waiting[c].stops = {}
      BY <1>4 DEF ServedInv, StagesInv, Nothing
    <2>4. waiting'[c].starts = <<k>> /\ waiting'[c].stops = {} /\ wanted'[c] = {k}
      BY <1>1, <1>2, <2>1, <2>2, <2>3, ConcatEmptySeq
    <2> QED
      BY <1>1, <2>1, <2>2, <2>4 DEF PatientInv, RestInv, PendingInv, OpenInv
  <1>5. CASE channel[c] = "open"
    <2>1. /\ channel'[c] = "open"
          /\ Performed(c, <<k>>, {k} \cap wanted[c])
      BY <1>1, <1>2, <1>5, GetSteps
    <2>2. /\ settingUp[c] = <<>> /\ cancelling[c] = {}
          /\ subs[c] \in [Keys -> Nat] /\ subs[c] # NoTable
          /\ \A x \in consumers[c] :
                x.key \in wanted[c] /\ subs[c][x.key] = x.tag /\ x.tag # 0
      BY <1>5, OpenAtRest
    <2>3. /\ process' = process
          /\ settingUp'[c] = settingUp[c] \o Asked(<<k>>)
          /\ cancelling'[c] = {subs[c][l] : l \in {k} \cap wanted[c]} \ {0}
      BY <2>1, <2>2 DEF Performed, Tags
    <2> PICK y \in SettingUp : y = [key |-> k, asked |-> "exchange"]
      BY AskedOfSingle
    <2>4. settingUp'[c] = <<y>> /\ y.key = k /\ Starting(c)' = {k} /\ <<y>> # <<>>
      <3>1. Asked(<<k>>) = <<y>> /\ y.key = k
        BY AskedOfSingle
      <3>2. <<y>> \in Seq(SettingUp) /\ KeysOf(<<y>>) = {k}
        BY <3>1, KeysOfSingle
      <3>3. settingUp'[c] = <<y>>
        BY <2>2, <2>3, <3>1, <3>2, ConcatEmptySeq
      <3> QED
        BY <3>1, <3>2, <3>3 DEF Starting
    <2>5. ASSUME NEW x \in consumers'[c]
          PROVE  \/ x.tag \in cancelling'[c]
                 \/ x.key \in wanted'[c] \ Starting(c)' /\ subs'[c][x.key] = x.tag
      BY <1>1, <2>2, <2>3, <2>4
    <2> QED
      BY <1>1, <2>1, <2>2, <2>3, <2>4, <2>5 DEF PatientInv, RestInv, PendingInv, OpenInv
  <1> QED
    BY <1>3, <1>4, <1>5

LEMMA UnsubscribePatiently ==
    ASSUME TypeOK, NEW c \in Clients, NEW k \in Keys, ServedInv(c), PatientInv(c),
           Quiet(c), broker, Unsubscribe(c, k)
    PROVE  PatientInv(c)' /\ process' = process
  <1>1. /\ Get(c, <<>>, {k})
        /\ wanted'[c] = wanted[c] \ {k} /\ k \in wanted[c]
        /\ ws[c] = "open" /\ ws'[c] = "open"
        /\ subs'[c] = subs[c] /\ consumers'[c] = consumers[c]
    BY UnsubscribeSteps DEF Unsubscribe
  <1>2. <<>> \in Seq(Keys) /\ {k} \in SUBSET Keys
    BY ElementsOfEmpty
  <1>3. channel[c] = "open"
    BY <1>1 DEF ServedInv, StagesInv, Quiet, Asking
  <1>4. channel'[c] = "open" /\ Performed(c, <<>>, {k})
    BY <1>1, <1>2, <1>3, GetSteps
  <1>5. /\ settingUp[c] = <<>> /\ cancelling[c] = {} /\ Starting(c) = {}
        /\ subs[c] \in [Keys -> Nat] /\ subs[c] # NoTable
        /\ \A x \in consumers[c] :
              x.key \in wanted[c] /\ subs[c][x.key] = x.tag /\ x.tag # 0
    BY <1>3, OpenAtRest
  <1>6. /\ process' = process
        /\ settingUp'[c] = settingUp[c] \o <<>>
        /\ cancelling'[c] = {subs[c][l] : l \in {k}} \ {0}
    BY <1>4, <1>5, AskedOfEmpty DEF Performed, Tags
  <1>7. settingUp'[c] = <<>> /\ Starting(c)' = {}
    BY <1>5, <1>6, ConcatEmptySeq, KeysOfEmpty DEF Starting
  <1>8. ASSUME NEW x \in consumers'[c]
        PROVE  \/ x.tag \in cancelling'[c]
               \/ x.key \in wanted'[c] \ Starting(c)' /\ subs'[c][x.key] = x.tag
    BY <1>1, <1>5, <1>6, <1>7
  <1> QED
    BY <1>1, <1>4, <1>5, <1>6, <1>7, <1>8 DEF PatientInv, RestInv, PendingInv, OpenInv

LEMMA ClosePatiently ==
    ASSUME TypeOK, NEW c \in Clients, ServedInv(c), PatientInv(c), Quiet(c), broker, Close(c)
    PROVE  PatientInv(c)' /\ process' = process
  <1>1. /\ ws[c] = "open" /\ ws'[c] = "closed" /\ process' = process
        /\ wanted'[c] = {} /\ settingUp'[c] = settingUp[c]
        /\ cancelling'[c] = cancelling[c] /\ consumers'[c] = consumers[c]
        /\ channel'[c] = IF channel[c] = "open" THEN "closing" ELSE channel[c]
    BY DEF Close, TypeOK
  <1>2. channel[c] \in {"none", "open"} /\ settingUp[c] = <<>> /\ cancelling[c] = {}
    BY <1>1 DEF ServedInv, StagesInv, Quiet, Asking
  <1> QED
    BY <1>1, <1>2 DEF PatientInv, RestInv, PendingInv, OpenInv

LEMMA ConnectPatiently ==
    ASSUME TypeOK, NEW c \in Clients, ServedInv(c), PatientInv(c), Connect(c)
    PROVE  PatientInv(c)' /\ process' = process
  <1>1. /\ ws[c] = "new" /\ ws'[c] = "open" /\ process' = process
        /\ wanted'[c] = wanted[c] /\ channel'[c] = channel[c]
        /\ settingUp'[c] = settingUp[c] /\ cancelling'[c] = cancelling[c]
        /\ consumers'[c] = consumers[c]
    BY DEF Connect, server, TypeOK
  <1>2. channel[c] = "none"
    BY <1>1 DEF ServedInv, StagesInv
  <1> QED
    BY <1>1, <1>2 DEF PatientInv, RestInv, PendingInv, OpenInv

LEMMA AuthenticatePatiently ==
    ASSUME TypeOK, NEW c \in Clients, PatientInv(c), Authenticate(c)
    PROVE  PatientInv(c)' /\ process' = process
  <1>1. Same(c) /\ process' = process
    BY DEF Authenticate, server, Same
  <1> QED
    BY <1>1, SamePatient

LEMMA ChannelOpenedPatiently ==
    ASSUME TypeOK, NEW c \in Clients, ServedInv(c), PatientInv(c), ChannelOpened(c)
    PROVE  PatientInv(c)' /\ process' = process
  <1>1. /\ Performed(c, waiting[c].starts, waiting[c].stops)
        /\ channel[c] = "pending" /\ channel'[c] = "open"
        /\ ws'[c] = ws[c] /\ wanted'[c] = wanted[c] /\ subs'[c] = subs[c]
        /\ consumers'[c] = consumers[c]
    BY ChannelOpenedSteps DEF ChannelOpened
  <1>2. /\ settingUp[c] = <<>> /\ cancelling[c] = {} /\ consumers[c] = {}
        /\ waiting[c].stops = {} /\ ws[c] = "open"
    BY <1>1, SMT DEF PatientInv, RestInv, PendingInv, TypeOK
  <1>3. PICK k \in Keys : waiting[c].starts = <<k>> /\ wanted[c] = {k}
    BY <1>1 DEF PatientInv, PendingInv
  <1>4. /\ process' = process /\ settingUp'[c] = settingUp[c] \o Asked(<<k>>)
        /\ cancelling'[c] = cancelling[c] \cup ({subs[c][l] : l \in {}} \ {0})
    BY <1>1, <1>2, <1>3 DEF Performed, Tags
  <1> PICK y \in SettingUp : y = [key |-> k, asked |-> "exchange"]
    BY AskedOfSingle
  <1>5. settingUp'[c] = <<y>> /\ y.key = k /\ cancelling'[c] = {}
    <2>1. Asked(<<k>>) = <<y>> /\ <<y>> \in Seq(SettingUp)
      BY AskedOfSingle, KeysOfSingle
    <2> QED
      BY <1>2, <1>4, <2>1, ConcatEmptySeq
  <1>6. <<y>> # <<>>
    OBVIOUS
  <1> QED
    BY <1>1, <1>2, <1>3, <1>4, <1>5, <1>6 DEF PatientInv, RestInv, PendingInv, OpenInv

LEMMA SetUpPatiently ==
    ASSUME TypeOK, NEW c \in Clients, PatientInv(c), SetUp(c)
    PROVE  PatientInv(c)' /\ process' = process
  <1> PICK k \in Keys, t \in Nat \ {0} : k = NewKey(c) /\ t = NewTag(c)
    BY SetUpSteps
  <1>1. /\ Table(c) \in [Keys -> Nat] /\ k = Head(settingUp[c]).key
        /\ settingUp[c] # <<>> /\ settingUp'[c] = Tail(settingUp[c])
        /\ consumers'[c] = consumers[c] \cup {[tag |-> t, key |-> k]}
        /\ subs'[c] = [Table(c) EXCEPT ![k] = t] /\ subs'[c] # NoTable
        /\ ws'[c] = ws[c] /\ wanted'[c] = wanted[c]
        /\ channel[c] = "open" /\ channel'[c] = "open"
        /\ cancelling'[c] = cancelling[c] /\ process' = process
    BY SetUpSteps DEF NewKey, First
  <1>2. PICK y \in SettingUp : settingUp[c] = <<y>> /\ y.key \in wanted[c]
    BY <1>1 DEF PatientInv, OpenInv
  <1>3. wanted[c] \subseteq Keys
    BY DEF TypeOK
  <1>4. y.key = k /\ settingUp'[c] = <<>> /\ Starting(c) = {k} /\ Starting(c)' = {}
    <2>1. y.key = k /\ settingUp'[c] = <<>>
      BY <1>1, <1>2
    <2> QED
      BY <1>2, <2>1, KeysOfSingle, KeysOfEmpty DEF Starting
  <1>5. ASSUME NEW x \in consumers'[c]
        PROVE  \/ x.tag \in cancelling'[c]
               \/ x.key \in wanted'[c] \ Starting(c)' /\ subs'[c][x.key] = x.tag
    <2>1. CASE x = [tag |-> t, key |-> k]
      BY <2>1, <1>1, <1>2, <1>4
    <2>2. CASE x \in consumers[c]
      <3>1. \/ x.tag \in cancelling[c]
            \/ /\ x.key \in wanted[c] \ {k}
               /\ subs[c] # NoTable /\ subs[c][x.key] = x.tag
        BY <2>2, <1>1, <1>4 DEF PatientInv, OpenInv
      <3>2. subs[c] # NoTable => Table(c) = subs[c]
        BY DEF Table
      <3> QED
        BY <3>1, <3>2, <1>1, <1>3, <1>4
    <2> QED
      BY <2>1, <2>2, <1>1
  <1>6. ws[c] = "open"
    BY <1>1, SMT DEF PatientInv, RestInv
  <1> QED
    BY <1>1, <1>4, <1>5, <1>6 DEF PatientInv, RestInv, PendingInv, OpenInv

LEMMA AssertedPatiently ==
    ASSUME TypeOK, NEW c \in Clients, PatientInv(c), ExchangeAsserted(c) \/ QueueAsserted(c)
    PROVE  PatientInv(c)' /\ process' = process
  <1>1. /\ First(c) \in SettingUp /\ settingUp[c] # <<>> /\ channel[c] = "open"
        /\ KeysOf(settingUp'[c]) = KeysOf(settingUp[c])
        /\ ws'[c] = ws[c] /\ wanted'[c] = wanted[c] /\ channel'[c] = channel[c]
        /\ waiting'[c] = waiting[c] /\ cancelling'[c] = cancelling[c]
        /\ subs'[c] = subs[c] /\ consumers'[c] = consumers[c] /\ process' = process
    BY AssertedSteps
  <1>2. PICK request \in {"queue", "consumer"} :
            settingUp'[c] =
                Append(Tail(settingUp[c]), [key |-> First(c).key, asked |-> request])
    BY AssertedSteps
  <1>3. PICK x \in SettingUp : settingUp[c] = <<x>> /\ x.key \in wanted[c]
    BY <1>1 DEF PatientInv, OpenInv
  <1> PICK y \in SettingUp : y = [key |-> x.key, asked |-> request]
    BY DEF SettingUp
  <1>4. settingUp'[c] = <<y>> /\ y.key \in wanted'[c] /\ <<y>> # <<>>
    <2>1. First(c) = x /\ Tail(settingUp[c]) = <<>>
      BY <1>3 DEF First
    <2> QED
      BY <1>1, <1>2, <1>3, <2>1
  <1>5. ws[c] = "open"
    BY <1>1, SMT DEF PatientInv, RestInv
  <1> QED
    BY <1>1, <1>4, <1>5 DEF PatientInv, RestInv, PendingInv, OpenInv, Starting

LEMMA CancelledPatiently ==
    ASSUME TypeOK, NEW c \in Clients, NEW t, PatientInv(c), Cancelled(c, t)
    PROVE  PatientInv(c)' /\ process' = process
  <1>1. /\ t \in cancelling[c] /\ channel[c] = "open" /\ channel'[c] = "open"
        /\ cancelling'[c] = cancelling[c] \ {t}
        /\ consumers'[c] = {x \in consumers[c] : x.tag # t}
        /\ ws'[c] = ws[c] /\ wanted'[c] = wanted[c] /\ settingUp'[c] = settingUp[c]
        /\ subs'[c] = subs[c] /\ process' = process
    BY DEF Cancelled, client, TypeOK
  <1>2. Starting(c)' = Starting(c)
    BY <1>1 DEF Starting
  <1> QED
    BY <1>1, <1>2 DEF PatientInv, RestInv, PendingInv, OpenInv

LEMMA ChannelEndedPatiently ==
    ASSUME TypeOK, NEW c \in Clients, PatientInv(c), ChannelEnded(c)
    PROVE  PatientInv(c)' /\ process' = process
  <1>1. channel[c] = "closing" /\ settingUp[c] = <<>> /\ cancelling[c] = {} /\ wanted[c] = {}
    BY DEF ChannelEnded, PatientInv, RestInv
  <1>2. /\ process' = process /\ settingUp'[c] = <<>> /\ cancelling'[c] = {}
        /\ channel'[c] = "closed" /\ consumers'[c] = {} /\ wanted'[c] = {} /\ ws'[c] = ws[c]
    BY <1>1 DEF ChannelEnded, Asking, client, TypeOK
  <1> QED
    BY <1>1, <1>2 DEF PatientInv, RestInv, PendingInv, OpenInv

\* No step of a client that has waited makes a promise be rejected.
LEMMA ClientPatiently ==
    ASSUME TypeOK, NEW c \in Clients, ServedInv(c), PatientInv(c), Command(c) \/ Reply(c),
           up, broker, c \notin overlapped'
    PROVE  (up' => PatientInv(c)') /\ process' # "rejection"
  <1>1. process # "rejection"
    BY DEF up
  <1>2. ASSUME NEW k \in Keys, Subscribe(c, k) \/ Unsubscribe(c, k)
        PROVE  PatientInv(c)' /\ process' = process
    <2>1. Quiet(c)
      BY <1>2, NotedSteps DEF Subscribe, Unsubscribe
    <2> QED
      BY <1>2, <2>1, SubscribePatiently, UnsubscribePatiently
  <1>3. CASE Close(c)
    <2>1. Quiet(c)
      BY <1>3, NotedSteps DEF Close
    <2> QED
      BY <1>1, <1>3, <2>1, ClosePatiently
  <1>4. CASE Fails(c) \/ Unbound(c)
    BY <1>4 DEF Fails, Unbound, up
  <1>5. CASE \/ Connect(c) \/ Authenticate(c) \/ ChannelOpened(c) \/ ExchangeAsserted(c)
             \/ QueueAsserted(c) \/ SetUp(c) \/ ChannelEnded(c)
             \/ \E tag \in cancelling[c] : Cancelled(c, tag)
    BY <1>1, <1>5, ConnectPatiently, AuthenticatePatiently, ChannelOpenedPatiently,
       AssertedPatiently, SetUpPatiently, CancelledPatiently, ChannelEndedPatiently
  <1> QED
    BY <1>1, <1>2, <1>3, <1>4, <1>5 DEF Command, Reply

AllPatient ==
    /\ up /\ broker => \A c \in Clients \ overlapped : PatientInv(c)
    /\ PatientServerStays

LEMMA PatientInductive ==
    TypeOK /\ AllServed /\ AllPatient /\ [Next]_vars => AllPatient'
  <1> SUFFICES ASSUME TypeOK, AllServed, AllPatient, [Next]_vars
               PROVE  AllPatient'
    OBVIOUS
  <1>1. CASE UNCHANGED vars
    <2>1. \A c \in Clients : Same(c)
      BY <1>1 DEF vars, client, server, Same
    <2>2. process' = process /\ overlapped' = overlapped /\ broker' = broker
      BY <1>1 DEF vars, outside, client
    <2> QED
      BY <2>1, <2>2, SamePatient DEF AllPatient, PatientServerStays, up
  <1>2. ASSUME NEW d \in Clients, Command(d) \/ Reply(d)
        PROVE  AllPatient'
    <2>1. SameOthers(d) /\ up
      BY <1>2, ClientStep, OnlyWhenUp DEF Next
    <2>2. broker' = broker
      BY <2>1 DEF SameOthers
    <2>3. CASE ~broker
      BY <2>2, <2>3 DEF AllPatient, PatientServerStays
    <2>4. CASE broker
      <3>1. d \in overlapped => d \in overlapped'
        BY <1>2, NotedSteps DEF Command, Reply, Connect, Authenticate, Close, Fails,
             Subscribe, Unsubscribe, ChannelOpened, ExchangeAsserted, QueueAsserted,
             SetUp, Unbound, Cancelled, ChannelEnded, client
      <3>2. \A c \in (Clients \ overlapped') \ {d} : PatientInv(c)'
        BY <2>1, <2>4, SamePatient DEF AllPatient, SameOthers, Same
      <3>3. d \notin overlapped' => (up' => PatientInv(d)') /\ process' # "rejection"
        BY <1>2, <2>1, <2>4, <3>1, ClientPatiently DEF AllPatient, AllServed
      <3>4. PatientServerStays'
        BY <3>3 DEF PatientServerStays
      <3> QED
        BY <3>2, <3>3, <3>4 DEF AllPatient
    <2> QED
      BY <2>3, <2>4
  <1>3. CASE Publish
    <2>1. \A c \in Clients : Same(c)
      BY <1>3 DEF Publish, client, server, Same
    <2>2. up /\ process' = process /\ overlapped' = overlapped /\ broker' = broker
      BY <1>3 DEF Publish, client
    <2> QED
      BY <2>1, <2>2, SamePatient DEF AllPatient, PatientServerStays, up
  <1>4. CASE BrokerLost \/ BrokerClosed
    BY <1>4 DEF BrokerLost, BrokerClosed, AllPatient, PatientServerStays
  <1> QED
    BY <1>1, <1>2, <1>3, <1>4 DEF Next

LEMMA InitAllPatient == Init => AllPatient
  <1> SUFFICES ASSUME Init PROVE AllPatient
    OBVIOUS
  <1>1. process = "up"
    BY DEF Init
  <1> QED
    BY <1>1, InitPatient DEF AllPatient, PatientServerStays

\* For a client whose commands and end have each found the one before it done
\* there is exactly one consumer per wanted key, and none after it has left,
\* whatever other clients do.
THEOREM PatientExactHolds == Spec => []PatientExact
  <1>1. Init => AllServed
    BY InitServed DEF AllServed
  <1>2. TypeOK /\ AllServed /\ AllPatient => PatientExact
    <2> SUFFICES ASSUME TypeOK, AllServed, AllPatient, NEW c \in Clients \ overlapped,
                        up, broker, Quiet(c)
                 PROVE  /\ Consumed(c) = wanted[c]
                        /\ \A x, y \in consumers[c] : x.key = y.key => x = y
      BY DEF PatientExact
    <2>1. c \in Clients /\ PatientInv(c) /\ ServedInv(c) /\ consumers[c] \subseteq Consumer
      BY DEF TypeOK, AllPatient, AllServed
    <2>2. CASE channel[c] # "open"
      <3>1. channel[c] \in {"none", "closed"}
        BY <2>1, <2>2 DEF TypeOK, Quiet, Asking
      <3>2. wanted[c] = {} /\ consumers[c] = {}
        BY <2>1, <3>1 DEF PatientInv, RestInv
      <3> QED
        BY <3>2 DEF Consumed
    <2>3. CASE channel[c] = "open"
      <3>1. /\ settingUp[c] = <<>> /\ Starting(c) = {}
            /\ \A x \in consumers[c] :
                  x.key \in wanted[c] /\ subs[c][x.key] = x.tag
        BY <2>1, <2>3, OpenAtRest
      <3>2. ws[c] = "open" /\ waiting[c] = Nothing
        BY <2>1, <2>3, SMT DEF PatientInv, RestInv, ServedInv, StagesInv
      <3>3. Elements(waiting[c].starts) = {}
        BY <3>2, ElementsOfEmpty DEF Nothing
      <3>4. \A k \in wanted[c] : Live(c, k)
        BY <2>1, <3>1, <3>2, <3>3 DEF ServedInv, WantedInv
      <3>5. ASSUME NEW k \in wanted[c]
            PROVE  k \in Consumed(c)
        <4> DEFINE x == [tag |-> subs[c][k], key |-> k]
        <4>1. x \in consumers[c]
          BY <3>4 DEF Live
        <4>2. x.key = k
          OBVIOUS
        <4> QED
          BY <4>1, <4>2 DEF Consumed
      <3>6. Consumed(c) \subseteq wanted[c]
        BY <3>1 DEF Consumed
      <3>7. ASSUME NEW x \in consumers[c], NEW y \in consumers[c], x.key = y.key
            PROVE  x = y
        BY <3>1, <3>7, <2>1 DEF Consumer
      <3> QED
        BY <3>5, <3>6, <3>7
    <2> QED
      BY <2>2, <2>3
  <1> QED
    BY InitType, TypeInductive, ServedInductive, PatientInductive, InitAllPatient,
       <1>1, <1>2, PTL DEF Spec

\* As long as the connection to the broker lasts, no promise is rejected unless
\* some client did not wait for a request of its own, or lost its socket
\* meanwhile.
THEOREM PatientServerStaysHolds == Spec => []PatientServerStays
  <1>1. Init => AllServed
    BY InitServed DEF AllServed
  <1>2. AllPatient => PatientServerStays
    BY DEF AllPatient
  <1> QED
    BY InitType, TypeInductive, ServedInductive, PatientInductive, InitAllPatient,
       <1>1, <1>2, PTL DEF Spec
=============================================================================
