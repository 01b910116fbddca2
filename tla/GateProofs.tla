------------------------------- MODULE GateProofs -------------------------------
(***************************************************************************)
(* Proofs about AuthCache and Gate, for any clients, users, questions,     *)
(* packets, configurations of Kafka and time limits.                       *)
(***************************************************************************)
EXTENDS Gate, FiniteSetTheorems, TLAPS

(* A request knows what it asks.                                           *)
Asking == \A h \in Handler : Waiting(h) => asked[h] \in Subject

(* An entry is about the user it is found by, and has been kept no longer  *)
(* than its age says since the authoriser gave the answer, which took a    *)
(* request to arrive.                                                      *)
CacheFresh ==
    \A u \in User : cache[u] # None =>
        /\ cache[u].user = u
        /\ okAge[cache[u]] <= Timeout + age[u]

(* An answer on its way is as old as its request at most.                  *)
AnswerFresh ==
    \A h \in Handler : pc[h] = "ok" => okAge[asked[h]] <= waited[h]

(* The inductive invariant.                                                *)
AuthInv == AuthTypeOK /\ Asking /\ CacheFresh /\ AnswerFresh

-----------------------------------------------------------------------------
LEMMA AuthInitial == AuthInit => AuthInv
BY TimeAssumption
   DEF AuthInit, AuthInv, AuthTypeOK, Asking, CacheFresh, AnswerFresh, Waiting

(* A positive answer resets the age of its subject, so it disturbs nothing *)
(* that bounds ages from above.                                            *)
LEMMA AuthEvaluate ==
    ASSUME AuthInv, NEW h \in Handler, Evaluate(h)
    PROVE  AuthInv'
<1> USE DEF AuthInv, AuthTypeOK
<1>1. asked[h] \in Subject
    BY DEF Evaluate, Asking, Waiting
<1>2. AuthTypeOK'
    BY <1>1, TimeAssumption DEF Evaluate, cacheVars
<1>3. Asking'
    BY DEF Evaluate, Asking, Waiting
<1>4. \A q \in Subject : okAge'[q] <= okAge[q]
    BY <1>1 DEF Evaluate
<1>5. CacheFresh'
    BY <1>4, TimeAssumption DEF Evaluate, CacheFresh, cacheVars
<1>6. AnswerFresh'
    <2>1. SUFFICES ASSUME NEW g \in Handler, pc'[g] = "ok"
                   PROVE  okAge'[asked'[g]] <= waited'[g]
        BY DEF AnswerFresh
    <2>2. CASE g = h
        BY <2>1, <2>2, <1>1 DEF Evaluate
    <2>3. CASE g # h
        <3>1. pc[g] = "ok" /\ asked'[g] = asked[g] /\ waited'[g] = waited[g]
            BY <2>1, <2>3 DEF Evaluate
        <3>2. asked[g] \in Subject
            BY <3>1 DEF Asking, Waiting
        <3> QED BY <3>1, <3>2, <1>4, <1>2, TimeAssumption DEF AnswerFresh
    <2> QED BY <2>2, <2>3
<1> QED BY <1>2, <1>3, <1>5, <1>6

LEMMA AuthReceive ==
    ASSUME AuthInv, NEW h \in Handler, Receive(h)
    PROVE  AuthInv'
<1> USE DEF AuthInv, AuthTypeOK
<1>1. asked[h] \in Subject /\ asked[h].user \in User
    BY DEF Receive, Asking, Waiting, Subject
<1>2. AuthTypeOK'
    BY <1>1, TimeAssumption DEF Receive, AddCache, cacheVars
<1>3. Asking' /\ AnswerFresh'
    BY DEF Receive, Asking, AnswerFresh, Waiting
<1>4. CacheFresh'
    <2>1. CASE pc[h] = "ok"
        <3>1. okAge[asked[h]] <= Timeout
            BY <2>1, <1>1, TimeAssumption DEF AnswerFresh
        <3> QED BY <2>1, <3>1, <1>1, TimeAssumption, NoneAssumption
                DEF Receive, AddCache, CacheFresh
    <2>2. CASE pc[h] # "ok"
        BY <2>2 DEF Receive, CacheFresh, cacheVars
    <2> QED BY <2>1, <2>2
<1> QED BY <1>2, <1>3, <1>4

(* Time makes answers, entries and requests older alike.                   *)
LEMMA AuthTick ==
    ASSUME AuthInv, Tick
    PROVE  AuthInv'
<1> USE DEF AuthInv, AuthTypeOK
<1>1. AuthTypeOK'
    <2>1. waited' \in [Handler -> 0..Timeout]
        BY TimeAssumption DEF Tick
    <2>2. age' \in [User -> 0..TTL] /\ cache' \in [User -> Subject \cup {None}]
        BY TimeAssumption DEF Tick
    <2>3. okAge' \in [Subject -> 0..Horizon]
        BY TimeAssumption DEF Tick
    <2> QED BY <2>1, <2>2, <2>3 DEF Tick
<1>2. Asking'
    BY DEF Tick, Asking, Waiting
<1>3. \A q \in Subject : okAge'[q] <= okAge[q] + 1
    BY TimeAssumption DEF Tick
<1>4. CacheFresh'
    <2>1. SUFFICES ASSUME NEW u \in User, cache'[u] # None
                   PROVE  cache'[u].user = u /\ okAge'[cache'[u]] <= Timeout + age'[u]
        BY DEF CacheFresh
    <2>2. cache[u] # None /\ cache'[u] = cache[u] /\ age'[u] = age[u] + 1
        BY <2>1 DEF Tick
    <2>3. cache[u] \in Subject /\ okAge[cache[u]] <= Timeout + age[u]
        BY <2>2 DEF CacheFresh
    <2> QED BY <1>1, <2>1, <2>2, <2>3, <1>3, TimeAssumption DEF CacheFresh
<1>5. AnswerFresh'
    <2>1. SUFFICES ASSUME NEW g \in Handler, pc'[g] = "ok"
                   PROVE  okAge'[asked'[g]] <= waited'[g]
        BY DEF AnswerFresh
    <2>2. pc[g] = "ok" /\ asked'[g] = asked[g] /\ waited'[g] = waited[g] + 1
        BY <2>1 DEF Tick, Waiting
    <2>3. asked[g] \in Subject /\ okAge[asked[g]] <= waited[g]
        BY <2>2 DEF Asking, Waiting, AnswerFresh
    <2> QED BY <1>1, <2>1, <2>2, <2>3, <1>3, TimeAssumption
<1> QED BY <1>1, <1>2, <1>4, <1>5

LEMMA AuthStep == AuthInv /\ [AuthNext]_authVars => AuthInv'
<1> SUFFICES ASSUME AuthInv, [AuthNext]_authVars PROVE AuthInv'
    OBVIOUS
<1>1. ASSUME NEW h \in Handler, NEW q \in Subject, Ask(h, q) PROVE AuthInv'
    BY <1>1, TimeAssumption
       DEF Ask, AuthInv, AuthTypeOK, Asking, CacheFresh, AnswerFresh, Waiting, cacheVars
<1>2. ASSUME NEW h \in Handler, Fail(h) \/ Return(h) PROVE AuthInv'
    BY <1>2
       DEF Fail, Return, AuthInv, AuthTypeOK, Asking, CacheFresh, AnswerFresh, Waiting,
           cacheVars
<1>3. CASE UNCHANGED authVars
    BY <1>3
       DEF authVars, cacheVars, askVars, AuthInv, AuthTypeOK, Asking, CacheFresh,
           AnswerFresh, Waiting
<1> QED BY <1>1, <1>2, <1>3, AuthEvaluate, AuthReceive, AuthTick DEF AuthNext

(* The step in which a goroutine is told yes: it finds an entry, or what   *)
(* it waits for arrives.                                                   *)
LEMMA Grounded ==
    ASSUME AuthInv, AuthNext, NEW h \in Handler, pc[h] # "yes", pc'[h] = "yes"
    PROVE  okAge[asked'[h]] <= TTL + Timeout
<1> USE TimeAssumption DEF AuthInv, AuthTypeOK
<1>1. ASSUME NEW q \in Subject, Ask(h, q) PROVE okAge[asked'[h]] <= TTL + Timeout
    <2>1. cache[q.user] = q /\ asked'[h] = q /\ q.user \in User
        BY <1>1 DEF Ask, Hit, Subject
    <2>2. okAge[q] <= Timeout + age[q.user] /\ age[q.user] \in 0..TTL
        BY <2>1, NoneAssumption DEF CacheFresh
    <2> QED BY <2>1, <2>2
<1>2. ASSUME Receive(h) PROVE okAge[asked'[h]] <= TTL + Timeout
    <2>1. pc[h] = "ok" /\ asked'[h] = asked[h]
        BY <1>2 DEF Receive
    <2>2. asked[h] \in Subject /\ okAge[asked[h]] <= waited[h] /\ waited[h] \in 0..Timeout
        BY <2>1 DEF Asking, Waiting, AnswerFresh
    <2> QED BY <2>1, <2>2
<1>3. ASSUME NEW g \in Handler, g # h,
             Receive(g) \/ \E q \in Subject : Ask(g, q)
      PROVE  FALSE
    BY <1>3 DEF Receive, Ask
<1>4. ASSUME NEW g \in Handler, Evaluate(g) \/ Fail(g) \/ Return(g) PROVE FALSE
    BY <1>4 DEF Evaluate, Fail, Return
<1>5. ASSUME Tick PROVE FALSE
    BY <1>5 DEF Tick
<1> QED BY <1>1, <1>2, <1>3, <1>4, <1>5 DEF AuthNext

(***************************************************************************)
(* No goroutine is told yes on the strength of an answer to another        *)
(* question or of one older than the cache and a request allow (authhttp). *)
(***************************************************************************)
THEOREM AnswersGrounded == AuthSpec => AnswerGrounded
<1>1. AuthInv /\ [AuthNext]_authVars =>
        [\A h \in Handler :
            pc[h] # "yes" /\ pc'[h] = "yes" => okAge[asked'[h]] <= TTL + Timeout]_authVars
    BY Grounded
<1> QED BY <1>1, AuthInitial, AuthStep, PTL DEF AuthSpec, AnswerGrounded

-----------------------------------------------------------------------------
(* What is asked about a packet is a question of the authoriser's.         *)
LEMMA SubjectOfPacket ==
    ASSUME NEW c \in Client, NEW p \in Packet, AskedAbout(p), ~Malformed(p)
    PROVE  SubjectOf(c, p) \in Subject
<1>1. p.kind \in {"connect", "publish", "subscribe"}
    BY DEF AskedAbout
<1>2. p.kind # "connect" => Filter(p) \in Key
    BY PacketAssumption
<1> QED BY <1>1, <1>2, ClientAssumption DEF SubjectOf, Subject

(* A step of the gate is one of the authoriser's, or leaves it alone.      *)
LEMMA GateStep == [Next]_vars => [AuthNext]_authVars
<1> SUFFICES ASSUME [Next]_vars PROVE [AuthNext]_authVars
    OBVIOUS
<1> DEFINE Q == [AuthNext]_authVars
<1>1. ASSUME NEW c \in Client, Authorise(c) \/ Refused(c) \/ Granted(c) PROVE Q
    BY <1>1, ClientAssumption DEF Authorise, Refused, Granted, AuthNext
<1>2. ASSUME NEW c \in Client, NEW k \in KafkaTopic, SendEvent(c, k) PROVE Q
    BY <1>2 DEF SendEvent
<1>3. ASSUME NEW c \in Client, SendTimesOut(c) \/ Handle(c) PROVE Q
    BY <1>3 DEF SendTimesOut, Handle
<1>4. ASSUME NEW c \in Client, NEW p \in Packet, Begin(c, p) PROVE Q
    <2>1. CASE AskedAbout(p) /\ ~Malformed(p) /\ Ask(c, SubjectOf(c, p))
        BY <2>1, SubjectOfPacket, ClientAssumption DEF AuthNext
    <2> QED BY <1>4, <2>1 DEF Begin
<1>5. ASSUME KafkaChanges \/ Time PROVE Q
    BY <1>5 DEF KafkaChanges, Time, AuthNext
<1>6. ASSUME UNCHANGED vars PROVE Q
    BY <1>6 DEF vars
<1> HIDE DEF Q
<1>7. Q BY <1>1, <1>2, <1>3, <1>4, <1>5, <1>6 DEF Next, Step
<1> QED BY <1>7 DEF Q

(***************************************************************************)
(* The broker uses the authoriser and its cache the way AuthCache          *)
(* describes, so what holds there holds of the workers and connections.    *)
(***************************************************************************)
THEOREM GateImplementsAuth == Spec => AuthSpec
<1>1. Init => AuthInit
    BY DEF Init
<1> QED BY <1>1, GateStep, PTL DEF Spec, AuthSpec

(***************************************************************************)
(* So no worker and no connection is told yes on the strength of an        *)
(* answer to another question, or of one too old.                          *)
(***************************************************************************)
THEOREM WorkersAnswersGrounded == Spec => AnswerGrounded
BY GateImplementsAuth, AnswersGrounded

-----------------------------------------------------------------------------
(* The order of events.                                                    *)
GateTypeOK ==
    /\ sent \in [Client -> Nat]
    /\ stage \in [Client -> {"idle", "check", "bridge", "gone"}]
    /\ packet \in [Client -> Packet \cup {None}]
    /\ left \in [Client -> SUBSET KafkaTopic]
    /\ held \in [Client -> Nat]
    /\ log \in [KafkaTopic -> [Client -> Seq(Nat)]]
    /\ handled \in [Client -> Nat]

(* Once a CONNECT was accepted, and only then, there are other packets.    *)
Connected(c) ==
    /\ stage[c] # "idle" => sent[c] > 0 /\ packet[c] \in Packet
    /\ stage[c] = "bridge" => handled[c] > 0
    /\ stage[c] = "idle" /\ sent[c] > 0 => handled[c] > 0
    /\ stage[c] = "check" /\ packet[c].kind # "connect" => handled[c] > 0

(* No event is about a later packet than the client's last, and none about *)
(* this one where its event is still to be sent.                           *)
LogBound(c) ==
    \A k \in KafkaTopic :
       /\ log[k][c] # <<>> => handled[c] > 0
       /\ \A i \in DOMAIN log[k][c] :
             /\ log[k][c][i] <= sent[c]
             /\ stage[c] = "check" \/ k \in left[c] => log[k][c][i] < sent[c]

NothingLeft(c) == stage[c] # "bridge" => left[c] = {}

OrderInv ==
    /\ GateTypeOK /\ EventsInOrder
    /\ \A c \in Client : Connected(c) /\ LogBound(c) /\ NothingLeft(c)

LEMMA OrderInitial == Init => OrderInv
BY DEF Init, OrderInv, GateTypeOK, EventsInOrder, Connected, LogBound, NothingLeft

(* Appending a number greater than all keeps a sequence increasing.        *)
LEMMA AppendLater ==
    ASSUME NEW s \in Seq(Nat), NEW n \in Nat,
           \A i, j \in DOMAIN s : i < j => s[i] < s[j],
           \A i \in DOMAIN s : s[i] < n
    PROVE  /\ Append(s, n) \in Seq(Nat)
           /\ Append(s, n) # <<>>
           /\ \A i, j \in DOMAIN Append(s, n) : i < j => Append(s, n)[i] < Append(s, n)[j]
           /\ \A i \in DOMAIN Append(s, n) : Append(s, n)[i] <= n
<1>1. /\ Append(s, n) \in Seq(Nat) /\ Len(Append(s, n)) = Len(s) + 1
      /\ DOMAIN s = 1..Len(s) /\ DOMAIN Append(s, n) = 1..(Len(s) + 1)
      /\ Len(s) \in Nat
    OBVIOUS
<1>2. \A i \in 1..Len(s) : Append(s, n)[i] = s[i] /\ s[i] \in Nat
    OBVIOUS
<1>3. Append(s, n)[Len(s) + 1] = n
    OBVIOUS
<1>4. \A i, j \in 1..(Len(s) + 1) : i < j => Append(s, n)[i] < Append(s, n)[j]
    <2>1. SUFFICES ASSUME NEW i \in 1..(Len(s) + 1), NEW j \in 1..(Len(s) + 1), i < j
                   PROVE  Append(s, n)[i] < Append(s, n)[j]
        OBVIOUS
    <2>2. i \in 1..Len(s)
        BY <2>1, <1>1
    <2>3. CASE j = Len(s) + 1
        BY <2>2, <2>3, <1>1, <1>2, <1>3
    <2>4. CASE j \in 1..Len(s)
        BY <2>1, <2>2, <2>4, <1>1, <1>2
    <2> QED BY <2>3, <2>4, <1>1
<1>5. \A i \in 1..(Len(s) + 1) : Append(s, n)[i] <= n
    BY <1>1, <1>2, <1>3
<1>6. Append(s, n) # <<>>
    BY <1>1
<1> QED BY <1>1, <1>4, <1>5, <1>6

LEMMA OrderSend ==
    ASSUME OrderInv, NEW c \in Client, NEW k \in KafkaTopic, SendEvent(c, k)
    PROVE  OrderInv'
<1> USE DEF OrderInv, GateTypeOK
<1> DEFINE s == log[k][c]
<1>1. s \in Seq(Nat) /\ sent[c] \in Nat /\ handled[c] > 0
    BY DEF SendEvent, Connected
<1>2. \A i \in DOMAIN s : s[i] < sent[c]
    BY DEF SendEvent, LogBound
<1>3. \A i, j \in DOMAIN s : i < j => s[i] < s[j]
    BY DEF EventsInOrder
<1>4. /\ Append(s, sent[c]) \in Seq(Nat)
      /\ \A i, j \in DOMAIN Append(s, sent[c]) :
            i < j => Append(s, sent[c])[i] < Append(s, sent[c])[j]
      /\ \A i \in DOMAIN Append(s, sent[c]) : Append(s, sent[c])[i] <= sent[c]
    BY <1>1, <1>2, <1>3, AppendLater
<1>5. /\ log'[k][c] = Append(s, sent[c])
      /\ \A m \in KafkaTopic, d \in Client :
            <<m, d>> # <<k, c>> => log'[m][d] = log[m][d]
    BY DEF SendEvent, Record
<1>6. log' \in [KafkaTopic -> [Client -> Seq(Nat)]]
    BY <1>4 DEF SendEvent, Record
<1> HIDE DEF s
<1>7. GateTypeOK'
    BY <1>6 DEF SendEvent
<1>8. EventsInOrder'
    <2>1. SUFFICES ASSUME NEW m \in KafkaTopic, NEW d \in Client
                   PROVE  /\ \A i, j \in DOMAIN log'[m][d] :
                                i < j => log'[m][d][i] < log'[m][d][j]
                          /\ log'[m][d] # <<>> => handled'[d] > 0
        BY DEF EventsInOrder
    <2>2. CASE <<m, d>> = <<k, c>>
        BY <2>2, <1>1, <1>4, <1>5 DEF SendEvent
    <2>3. CASE <<m, d>> # <<k, c>>
        BY <2>3, <1>5 DEF SendEvent, EventsInOrder
    <2> QED BY <2>2, <2>3
<1>9. ASSUME NEW d \in Client PROVE Connected(d)' /\ NothingLeft(d)' /\ LogBound(d)'
    <2>1. Connected(d)' /\ NothingLeft(d)'
        BY DEF SendEvent, Connected, NothingLeft
    <2>2. ASSUME NEW m \in KafkaTopic, <<m, d>> # <<k, c>>
          PROVE  /\ log'[m][d] # <<>> => handled'[d] > 0
                 /\ \A i \in DOMAIN log'[m][d] :
                       /\ log'[m][d][i] <= sent'[d]
                       /\ stage'[d] = "check" \/ m \in left'[d] => log'[m][d][i] < sent'[d]
        <3>1. log'[m][d] = log[m][d] /\ (m \in left'[d] => m \in left[d])
            BY <2>2, <1>5 DEF SendEvent
        <3> QED BY <3>1 DEF SendEvent, LogBound
    <2>3. /\ handled'[c] > 0 /\ k \notin left'[c] /\ stage'[c] # "check"
          /\ \A i \in DOMAIN log'[k][c] : log'[k][c][i] <= sent'[c]
        BY <1>1, <1>4, <1>5 DEF SendEvent
    <2>4. LogBound(d)'
        BY <2>2, <2>3 DEF LogBound
    <2> QED BY <2>1, <2>4
<1> QED BY <1>7, <1>8, <1>9

LEMMA OrderBegin ==
    ASSUME OrderInv, NEW c \in Client, NEW p \in Packet, Begin(c, p)
    PROVE  OrderInv'
<1> USE DEF OrderInv, GateTypeOK
<1>1. \/ /\ left' = [left EXCEPT ![c] = KafkaTopics(p)] /\ stage'[c] = "bridge"
         /\ ~AskedAbout(p)
      \/ left' = left /\ stage'[c] = "check"
      \/ left' = left /\ stage'[c] = "idle" /\ Malformed(p)
    <2>1. CASE AskedAbout(p) /\ stage' = [stage EXCEPT ![c] = "check"] /\ UNCHANGED <<left, held>>
        BY <2>1
    <2>2. CASE Malformed(p) /\ UNCHANGED <<authVars, stage, left, held>>
        <3>1. stage[c] = "idle" BY DEF Begin
        <3> QED BY <2>2, <3>1
    <2>3. CASE ~AskedAbout(p) /\ Pass(c, p)
        BY <2>3 DEF Pass
    <2> QED BY <2>1, <2>2, <2>3 DEF Begin
<1>2. KafkaTopics(p) \subseteq KafkaTopic
    BY PacketAssumption
<1>3. GateTypeOK'
    <2>1. /\ sent' \in [Client -> Nat]
          /\ packet' \in [Client -> Packet \cup {None}]
          /\ log' = log /\ handled' = handled
        BY DEF Begin
    <2>2. left' \in [Client -> SUBSET KafkaTopic]
        BY <1>1, <1>2
    <2>3. /\ stage' \in [Client -> {"idle", "check", "bridge", "gone"}]
          /\ held' \in [Client -> Nat]
        <3>1. CASE Pass(c, p) BY <3>1 DEF Pass
        <3>2. CASE ~Pass(c, p)
            <4>1. held' = held /\ (stage' = stage \/ stage' = [stage EXCEPT ![c] = "check"])
                BY <3>2 DEF Begin
            <4> QED BY <4>1
        <3> QED BY <3>1, <3>2
    <2> QED BY <2>1, <2>2, <2>3
<1>4. EventsInOrder'
    BY DEF Begin, EventsInOrder
<1>5. p.kind # "connect" => handled[c] > 0
    BY DEF Begin, Connected
<1>6. p.kind = "connect" => AskedAbout(p) /\ ~Malformed(p)
    BY DEF AskedAbout, Malformed, IsShared
<1>7. /\ sent'[c] = sent[c] + 1 /\ packet'[c] = p
      /\ handled' = handled /\ log' = log
      /\ stage[c] = "idle"
      /\ \A d \in Client \ {c} : /\ sent'[d] = sent[d] /\ packet'[d] = packet[d]
                                 /\ stage'[d] = stage[d] /\ left'[d] = left[d]
    BY DEF Begin, Pass
<1>8. Connected(c)' /\ NothingLeft(c)'
    BY <1>1, <1>5, <1>6, <1>7 DEF Connected, NothingLeft
<1>9. \A k \in KafkaTopic : \A i \in DOMAIN log[k][c] : log[k][c][i] < sent'[c]
    BY <1>7 DEF LogBound
<1>10. LogBound(c)'
    <2>1. \A k \in KafkaTopic : \A i \in DOMAIN log[k][c] : log[k][c][i] <= sent'[c]
        BY <1>7 DEF LogBound
    <2> QED BY <2>1, <1>7, <1>9, SMTT(30) DEF LogBound
<1>11. \A d \in Client \ {c} : Connected(d)' /\ NothingLeft(d)' /\ LogBound(d)'
    BY <1>7 DEF Connected, NothingLeft, LogBound
<1> QED BY <1>3, <1>4, <1>8, <1>10, <1>11

LEMMA OrderStep == OrderInv /\ [Next]_vars => OrderInv'
<1> SUFFICES ASSUME OrderInv, [Next]_vars PROVE OrderInv'
    OBVIOUS
<1> DEFINE Q == OrderInv'
<1>1. ASSUME NEW c \in Client, Refused(c) PROVE Q
    BY <1>1 DEF Refused, bridgeVars, OrderInv, GateTypeOK, EventsInOrder, Connected,
                LogBound, NothingLeft
<1>2. ASSUME NEW c \in Client, Granted(c) PROVE Q
    <2> USE DEF OrderInv, GateTypeOK
    <2>1. handled'[c] > 0 /\ packet[c] = packet'[c]
        <3>1. stage[c] = "check" /\ sent[c] > 0
            BY <1>2 DEF Granted, Connected
        <3> QED BY <1>2, <3>1 DEF Granted, Connected
    <2>2. KafkaTopics(packet[c]) \subseteq KafkaTopic
        BY <1>2, PacketAssumption DEF Granted, Connected
    <2>3. GateTypeOK'
        BY <1>2, <2>2 DEF Granted, Pass
    <2>4. EventsInOrder'
        BY <1>2, <2>1 DEF Granted, EventsInOrder
    <2>5. \A d \in Client : Connected(d)' /\ NothingLeft(d)'
        BY <1>2, <2>1 DEF Granted, Pass, Connected, NothingLeft
    <2>6. \A d \in Client : LogBound(d)'
        BY <1>2, <2>1 DEF Granted, Pass, LogBound
    <2> QED BY <2>3, <2>4, <2>5, <2>6
<1>3. ASSUME NEW c \in Client, SendTimesOut(c) PROVE Q
    BY <1>3 DEF SendTimesOut, OrderInv, GateTypeOK, EventsInOrder, Connected,
                LogBound, NothingLeft
<1>4. ASSUME NEW c \in Client, Handle(c) PROVE Q
    BY <1>4 DEF Handle, bridgeVars, OrderInv, GateTypeOK, EventsInOrder, Connected,
                LogBound, NothingLeft
<1>5. ASSUME Time PROVE Q
    BY <1>5 DEF Time, OrderInv, GateTypeOK, EventsInOrder, Connected, LogBound, NothingLeft
<1>6. ASSUME KafkaChanges \/ (\E c \in Client : Authorise(c)) \/ UNCHANGED vars PROVE Q
    BY <1>6 DEF KafkaChanges, Authorise, vars, bridgeVars, OrderInv, GateTypeOK,
                EventsInOrder, Connected, LogBound, NothingLeft
<1>7. ASSUME NEW c \in Client, NEW k \in KafkaTopic, SendEvent(c, k) PROVE Q
    BY <1>7, OrderSend
<1>8. ASSUME NEW c \in Client, NEW p \in Packet, Begin(c, p) PROVE Q
    BY <1>8, OrderBegin
<1> HIDE DEF Q
<1>9. Q BY <1>1, <1>2, <1>3, <1>4, <1>5, <1>6, <1>7, <1>8 DEF Next, Step
<1> QED BY <1>9 DEF Q

(***************************************************************************)
(* Each Kafka topic gets the events of a client once and in the order of   *)
(* its packets, and none before its CONNECT was accepted (publish in       *)
(* plugins/bridge/kafka.go).                                               *)
(***************************************************************************)
THEOREM KafkaInOrder == Spec => []EventsInOrder
<1>1. OrderInv => EventsInOrder
    BY DEF OrderInv
<1> QED BY <1>1, OrderInitial, OrderStep, PTL DEF Spec

-----------------------------------------------------------------------------
(***************************************************************************)
(* How old the answer is that a packet was let through for: an answer that *)
(* could be given, and the waits for the Kafka topics done with, and for   *)
(* the one at hand.                                                        *)
(***************************************************************************)
Topics(c) == Cardinality(KafkaTopics(packet[c]))
Fresh == TTL + Timeout

Checked(c) ==
    /\ stage[c] = "check" =>
          /\ packet[c] \in Packet /\ AskedAbout(packet[c]) /\ ~Malformed(packet[c])
          /\ pc[c] # "idle" /\ asked[c] = SubjectOf(c, packet[c])
          /\ pc[c] = "yes" => okAge[asked[c]] <= Fresh
    /\ stage[c] # "check" => pc[c] = "idle"

Passed(c) ==
    stage[c] = "bridge" /\ AskedAbout(packet[c]) =>
       /\ packet[c] \in Packet /\ SubjectOf(c, packet[c]) \in Subject
       /\ left[c] \subseteq KafkaTopics(packet[c])
       /\ held[c] <= BridgeWait
       /\ okAge[SubjectOf(c, packet[c])] <=
             IF left[c] = {}
             THEN Fresh + BridgeWait * Topics(c)
             ELSE Fresh + BridgeWait * (Topics(c) - Cardinality(left[c])) + held[c]

AgeInv == \A c \in Client : Checked(c) /\ Passed(c)

LEMMA Product ==
    /\ \A m \in Nat : /\ BridgeWait * m \in Nat
                      /\ BridgeWait * (m + 1) = BridgeWait * m + BridgeWait
    /\ \A m, n \in Nat : m <= n => BridgeWait * m <= BridgeWait * n
BY WaitAssumption

(* The topics that are left are among those of the packet.                 *)
LEMMA TopicCount ==
    ASSUME NEW c \in Client, packet[c] \in Packet,
           NEW S, S \subseteq KafkaTopics(packet[c])
    PROVE  /\ Topics(c) \in Nat /\ Cardinality(S) \in Nat
           /\ Cardinality(S) <= Topics(c)
           /\ (Cardinality(S) = 0) <=> (S = {})
           /\ \A k \in S : Cardinality(S \ {k}) = Cardinality(S) - 1
<1>1. IsFiniteSet(KafkaTopics(packet[c]))
    BY PacketAssumption, FS_Subset
<1>2. IsFiniteSet(S) /\ Cardinality(S) <= Topics(c)
    BY <1>1, FS_Subset DEF Topics
<1>3. Topics(c) \in Nat /\ Cardinality(S) \in Nat
    BY <1>1, <1>2, FS_CardinalityType DEF Topics
<1>4. (Cardinality(S) = 0) <=> (S = {})
    BY <1>2, FS_EmptySet
<1>5. \A k \in S : Cardinality(S \ {k}) = Cardinality(S) - 1
    BY <1>2, FS_RemoveElement
<1> QED BY <1>2, <1>3, <1>4, <1>5

(* Answers age by at most one, when time passes, and not at all otherwise. *)
LEMMA Ageing ==
    ASSUME AuthInv, [AuthNext]_authVars
    PROVE  /\ okAge' \in [Subject -> 0..Horizon]
           /\ Tick => \A q \in Subject : okAge'[q] <= okAge[q] + 1
<1>1. okAge' \in [Subject -> 0..Horizon]
    BY AuthStep DEF AuthInv, AuthTypeOK
<1>2. Tick => \A q \in Subject : okAge'[q] <= okAge[q] + 1
    BY <1>1, TimeAssumption DEF Tick, AuthInv, AuthTypeOK
<1> QED BY <1>1, <1>2

LEMMA NoAgeing ==
    ASSUME AuthInv,
           \/ UNCHANGED authVars
           \/ \E h \in Handler : \/ \E q \in Subject : Ask(h, q)
                                 \/ Evaluate(h) \/ Receive(h) \/ Fail(h) \/ Return(h)
    PROVE  /\ [AuthNext]_authVars
           /\ \A q \in Subject : okAge'[q] <= okAge[q]
<1>1. [AuthNext]_authVars
    BY DEF AuthNext
<1>2. okAge' \in [Subject -> 0..Horizon]
    BY <1>1, Ageing
<1>3. ASSUME NEW h \in Handler, Evaluate(h)
      PROVE  \A q \in Subject : okAge'[q] <= okAge[q]
    BY <1>2, <1>3 DEF Evaluate, AuthInv, AuthTypeOK
<1>4. ASSUME okAge' = okAge PROVE \A q \in Subject : okAge'[q] <= okAge[q]
    BY <1>4 DEF AuthInv, AuthTypeOK
<1>5. ASSUME NEW h \in Handler,
             Receive(h) \/ Fail(h) \/ Return(h) \/ \E q \in Subject : Ask(h, q)
      PROVE  okAge' = okAge
    BY <1>5 DEF Receive, Fail, Return, Ask
<1>6. UNCHANGED authVars => okAge' = okAge
    BY DEF authVars
<1> QED BY <1>1, <1>3, <1>4, <1>5, <1>6

(* Steps that leave a client alone leave what is known of it.              *)
LEMMA AgeKept ==
    ASSUME AuthInv, [AuthNext]_authVars, NEW c \in Client, Checked(c), Passed(c),
           GateTypeOK, \A q \in Subject : okAge'[q] <= okAge[q],
           pc'[c] = pc[c], asked'[c] = asked[c], stage'[c] = stage[c],
           packet'[c] = packet[c], left'[c] = left[c], held'[c] = held[c]
    PROVE  Checked(c)' /\ Passed(c)'
<1>1. /\ okAge' \in [Subject -> 0..Horizon] /\ okAge \in [Subject -> 0..Horizon]
      /\ \A q \in Subject : okAge'[q] <= okAge[q]
    BY Ageing DEF AuthInv, AuthTypeOK
<1>2. Checked(c)'
    <2>1. SUFFICES ASSUME stage[c] = "check" PROVE Checked(c)'
        BY DEF Checked
    <2>2. asked[c] \in Subject
        BY <2>1, SubjectOfPacket DEF Checked
    <2>3. okAge'[asked[c]] \in Nat /\ okAge[asked[c]] \in Nat
          /\ okAge'[asked[c]] <= okAge[asked[c]]
        BY <1>1, <2>2
    <2>4. Fresh \in Nat BY TimeAssumption DEF Fresh
    <2> QED BY <2>1, <2>3, <2>4 DEF Checked, Fresh
<1>3. Passed(c)'
    <2>1. SUFFICES ASSUME stage[c] = "bridge", AskedAbout(packet[c]) PROVE Passed(c)'
        BY DEF Passed
    <2> DEFINE q == SubjectOf(c, packet[c])
               l == Cardinality(left[c])
               bound == IF left[c] = {} THEN Fresh + BridgeWait * Topics(c)
                        ELSE Fresh + BridgeWait * (Topics(c) - l) + held[c]
    <2>2. /\ packet[c] \in Packet /\ q \in Subject /\ okAge[q] <= bound
          /\ left[c] \subseteq KafkaTopics(packet[c]) /\ held[c] <= BridgeWait
        BY <2>1 DEF Passed
    <2>3. Topics(c) \in Nat /\ l \in Nat /\ l <= Topics(c)
        BY <2>2, TopicCount
    <2>4. bound \in Nat
        <3>1. Topics(c) - l \in Nat BY <2>3
        <3>2. BridgeWait * Topics(c) \in Nat /\ BridgeWait * (Topics(c) - l) \in Nat
            BY <2>3, <3>1, Product
        <3>3. Fresh \in Nat /\ held[c] \in Nat BY TimeAssumption DEF Fresh, GateTypeOK
        <3> QED BY <3>2, <3>3
    <2>5. okAge'[q] \in Nat /\ okAge[q] \in Nat /\ okAge'[q] <= okAge[q]
        BY <1>1, <2>2
    <2>6. okAge'[q] <= bound
        <3> HIDE DEF q, bound
        <3> QED BY <2>2, <2>4, <2>5
    <2> QED BY <2>1, <2>2, <2>6 DEF Passed, Topics, Fresh
<1> QED BY <1>2, <1>3

GateInv == AuthInv /\ OrderInv /\ AgeInv

(* What the wait for one more topic adds.                                  *)
LEMMA OneTopic ==
    ASSUME GateInv, NEW c \in Client, stage[c] = "bridge", AskedAbout(packet[c]),
           left[c] # {}
    PROVE  LET q == SubjectOf(c, packet[c])
               done == Topics(c) - Cardinality(left[c])
           IN  /\ q \in Subject /\ packet[c] \in Packet /\ okAge[q] \in Nat
               /\ left[c] \subseteq KafkaTopics(packet[c])
               /\ Topics(c) \in Nat /\ Cardinality(left[c]) \in Nat
               /\ done \in Nat /\ done + 1 <= Topics(c)
               /\ okAge[q] <= Fresh + BridgeWait * done + held[c]
               /\ okAge[q] <= Fresh + BridgeWait * (done + 1)
               /\ okAge[q] <= Fresh + BridgeWait * Topics(c)
<1> DEFINE q == SubjectOf(c, packet[c])
           l == Cardinality(left[c])
           done == Topics(c) - l
<1>1. /\ packet[c] \in Packet /\ q \in Subject
      /\ left[c] \subseteq KafkaTopics(packet[c])
      /\ held[c] <= BridgeWait
      /\ okAge[q] <= Fresh + BridgeWait * done + held[c]
    BY DEF GateInv, AgeInv, Passed
<1>2. Topics(c) \in Nat /\ l \in Nat /\ l <= Topics(c) /\ l # 0
    BY <1>1, TopicCount
<1>3. done \in Nat /\ done + 1 \in Nat /\ done + 1 <= Topics(c)
    BY <1>2
<1>4. okAge[q] \in Nat
    BY <1>1 DEF GateInv, AuthInv, AuthTypeOK
<1>5. Fresh \in Nat /\ held[c] \in Nat
    BY TimeAssumption DEF Fresh, GateInv, OrderInv, GateTypeOK
<1> HIDE DEF q, l, done
<1>6. /\ BridgeWait * done \in Nat /\ BridgeWait * (done + 1) \in Nat
      /\ BridgeWait * (done + 1) = BridgeWait * done + BridgeWait
      /\ BridgeWait * Topics(c) \in Nat
      /\ BridgeWait * (done + 1) <= BridgeWait * Topics(c)
    BY <1>2, <1>3, Product
<1>7. okAge[q] <= Fresh + BridgeWait * (done + 1)
    BY <1>1, <1>4, <1>5, <1>6, WaitAssumption
<1>8. okAge[q] <= Fresh + BridgeWait * Topics(c)
    BY <1>4, <1>5, <1>6, <1>7
<1> QED BY <1>1, <1>2, <1>3, <1>4, <1>7, <1>8 DEF q, l, done

LEMMA AgeSend ==
    ASSUME GateInv, NEW c \in Client, NEW k \in KafkaTopic, SendEvent(c, k)
    PROVE  Checked(c)' /\ Passed(c)'
<1> USE DEF GateInv, OrderInv, GateTypeOK
<1>1. /\ stage[c] = "bridge" /\ k \in left[c] /\ stage' = stage /\ packet' = packet
      /\ left'[c] = left[c] \ {k} /\ held'[c] = 0 /\ okAge' = okAge /\ pc' = pc
    BY DEF SendEvent, authVars, askVars
<1>2. Checked(c)'
    BY <1>1 DEF Checked, GateInv, AgeInv
<1>3. Passed(c)'
    <2>1. SUFFICES ASSUME AskedAbout(packet[c]) PROVE Passed(c)'
        BY <1>1 DEF Passed
    <2> DEFINE q == SubjectOf(c, packet[c])
               l == Cardinality(left[c])
    <2>2. /\ q \in Subject /\ packet[c] \in Packet /\ okAge[q] \in Nat
          /\ left[c] \subseteq KafkaTopics(packet[c])
          /\ Topics(c) \in Nat /\ l \in Nat
          /\ okAge[q] <= Fresh + BridgeWait * ((Topics(c) - l) + 1)
          /\ okAge[q] <= Fresh + BridgeWait * Topics(c)
        BY <1>1, <2>1, OneTopic
    <2>3. Cardinality(left'[c]) = l - 1
        <3>1. \A j \in left[c] : Cardinality(left[c] \ {j}) = Cardinality(left[c]) - 1
            BY <2>2, TopicCount
        <3> QED BY <1>1, <3>1
    <2>4. Topics(c) - Cardinality(left'[c]) = (Topics(c) - l) + 1
        BY <2>2, <2>3
    <2>5. BridgeWait * ((Topics(c) - l) + 1) \in Int
        BY <2>2, WaitAssumption
    <2>6. okAge[q] <= Fresh + BridgeWait * (Topics(c) - Cardinality(left'[c])) + held'[c]
        <3>1. Fresh \in Nat BY TimeAssumption DEF Fresh
        <3> DEFINE x == BridgeWait * ((Topics(c) - l) + 1)
        <3>2. BridgeWait * (Topics(c) - Cardinality(left'[c])) = x BY <2>4
        <3>3. okAge[q] <= Fresh + x /\ x \in Int /\ okAge[q] \in Int BY <2>2, <2>5
        <3> HIDE DEF q, l, x
        <3> QED BY <1>1, <3>1, <3>2, <3>3
    <2>7. okAge'[SubjectOf(c, packet'[c])]
            <= IF left'[c] = {} THEN Fresh + BridgeWait * Topics(c)
               ELSE Fresh + BridgeWait * (Topics(c) - Cardinality(left'[c])) + held'[c]
        <3>1. okAge'[SubjectOf(c, packet'[c])] = okAge[q] BY <1>1
        <3> HIDE DEF q, l
        <3> QED BY <2>2, <2>6, <3>1
    <2>8. left'[c] \subseteq KafkaTopics(packet'[c]) /\ held'[c] <= BridgeWait
        BY <1>1, <2>2, WaitAssumption
    <2>9. Topics(c)' = Topics(c)
        BY <1>1 DEF Topics
    <2> HIDE DEF l
    <2> QED BY <1>1, <2>2, <2>7, <2>8, <2>9 DEF Passed, Fresh
<1> QED BY <1>2, <1>3

LEMMA AgeTimeout ==
    ASSUME GateInv, NEW c \in Client, SendTimesOut(c)
    PROVE  Checked(c)' /\ Passed(c)'
<1>1. /\ stage[c] = "bridge" /\ left[c] # {} /\ stage' = stage /\ packet' = packet
      /\ left'[c] = {} /\ held' = held /\ okAge' = okAge /\ pc' = pc
    BY DEF SendTimesOut, authVars, askVars, GateInv, OrderInv, GateTypeOK
<1>2. Checked(c)'
    BY <1>1 DEF Checked, GateInv, AgeInv
<1>3. Passed(c)'
    <2>1. SUFFICES ASSUME AskedAbout(packet[c]) PROVE Passed(c)'
        BY <1>1 DEF Passed
    <2>2. /\ SubjectOf(c, packet[c]) \in Subject /\ packet[c] \in Packet
          /\ okAge[SubjectOf(c, packet[c])] <= Fresh + BridgeWait * Topics(c)
          /\ held[c] <= BridgeWait
        BY <1>1, <2>1, OneTopic DEF GateInv, AgeInv, Passed
    <2> QED BY <1>1, <2>1, <2>2 DEF Passed, Topics, Fresh
<1> QED BY <1>2, <1>3

(* Let through, a packet waits for all its topics.                         *)
LEMMA AgeGranted ==
    ASSUME GateInv, NEW c \in Client, Granted(c)
    PROVE  Checked(c)' /\ Passed(c)'
<1>1. /\ stage'[c] = "bridge" /\ packet' = packet /\ held'[c] = 0
      /\ left'[c] = KafkaTopics(packet[c]) /\ okAge' = okAge /\ pc'[c] = "idle"
    BY ClientAssumption
       DEF Granted, Pass, Return, GateInv, OrderInv, GateTypeOK, AuthInv, AuthTypeOK
<1>2. /\ packet[c] \in Packet /\ AskedAbout(packet[c]) /\ ~Malformed(packet[c])
      /\ okAge[SubjectOf(c, packet[c])] <= Fresh
    BY DEF Granted, GateInv, AgeInv, Checked
<1>3. SubjectOf(c, packet[c]) \in Subject
    BY <1>2, SubjectOfPacket
<1>4. Topics(c) \in Nat /\ (Topics(c) = 0 <=> KafkaTopics(packet[c]) = {})
    BY <1>2, TopicCount DEF Topics
<1>5. BridgeWait * (Topics(c) - Topics(c)) = 0 /\ BridgeWait * Topics(c) \in Nat
    <2>1. Topics(c) - Topics(c) = 0 BY <1>4
    <2>2. BridgeWait * 0 = 0 BY WaitAssumption
    <2> QED BY <1>4, <2>1, <2>2, Product
<1>6. okAge[SubjectOf(c, packet[c])] \in Nat /\ Fresh \in Nat
    BY <1>3, TimeAssumption DEF Fresh, GateInv, AuthInv, AuthTypeOK
<1>7. okAge[SubjectOf(c, packet[c])] <= Fresh + BridgeWait * Topics(c)
    BY <1>2, <1>5, <1>6
<1>8. okAge[SubjectOf(c, packet[c])]
        <= Fresh + BridgeWait * (Topics(c) - Cardinality(left'[c])) + held'[c]
    BY <1>1, <1>2, <1>5, <1>6 DEF Topics
<1>9. Passed(c)'
    BY <1>1, <1>2, <1>3, <1>7, <1>8, WaitAssumption DEF Passed, Topics, Fresh
<1> QED BY <1>1, <1>9 DEF Checked

(* While time passes a packet waits: for the authoriser, whose answer is   *)
(* not in yet, or for Kafka.                                               *)
LEMMA AgeTime ==
    ASSUME GateInv, NEW c \in Client, Time
    PROVE  Checked(c)' /\ Passed(c)'
<1>1. /\ stage' = stage /\ packet' = packet /\ left' = left
      /\ pc' = pc /\ asked' = asked
      /\ stage[c] = "check" => Waiting(c)
      /\ stage[c] = "bridge" => left[c] # {} /\ held[c] < BridgeWait
      /\ stage[c] = "bridge" => held'[c] = held[c] + 1
    BY DEF Time, Tick
<1>2. Checked(c)'
    BY <1>1 DEF Checked, Waiting, GateInv, AgeInv
<1>3. Passed(c)'
    <2>1. SUFFICES ASSUME stage[c] = "bridge", AskedAbout(packet[c]) PROVE Passed(c)'
        BY <1>1 DEF Passed
    <2> DEFINE q == SubjectOf(c, packet[c])
               done == Topics(c) - Cardinality(left[c])
    <2>2. /\ q \in Subject /\ packet[c] \in Packet /\ okAge[q] \in Nat
          /\ left[c] \subseteq KafkaTopics(packet[c]) /\ done \in Nat
          /\ okAge[q] <= Fresh + BridgeWait * done + held[c]
        BY <1>1, <2>1, OneTopic
    <2>3. okAge'[q] \in Nat /\ okAge'[q] <= okAge[q] + 1
        <3>1. AuthInv /\ Tick /\ [AuthNext]_authVars BY DEF Time, AuthNext, GateInv
        <3>2. /\ okAge' \in [Subject -> 0..Horizon]
              /\ \A r \in Subject : okAge'[r] <= okAge[r] + 1
            BY <3>1, Ageing
        <3>3. okAge'[q] \in 0..Horizon /\ okAge'[q] <= okAge[q] + 1
            BY <3>2, <2>2
        <3> HIDE DEF q
        <3> QED BY <3>3, TimeAssumption
    <2>4. held[c] \in Nat /\ Fresh \in Nat /\ BridgeWait * done \in Nat
        BY <2>2, Product, TimeAssumption DEF Fresh, GateInv, OrderInv, GateTypeOK
    <2>5. held'[c] <= BridgeWait
        BY <1>1, <2>1, <2>4, WaitAssumption
    <2>6. okAge'[q] <= Fresh + BridgeWait * done + held'[c]
        <3> HIDE DEF q, done
        <3> QED BY <1>1, <2>1, <2>2, <2>3, <2>4
    <2>7. Topics(c)' = Topics(c)
        BY <1>1 DEF Topics
    <2>8. left'[c] # {}
        BY <1>1, <2>1
    <2> QED BY <1>1, <2>2, <2>5, <2>6, <2>7, <2>8 DEF Passed, Fresh
<1> QED BY <1>2, <1>3

LEMMA AgeBegin ==
    ASSUME GateInv, NEW c \in Client, NEW p \in Packet, Begin(c, p)
    PROVE  Checked(c)' /\ Passed(c)'
<1> USE DEF GateInv, OrderInv, GateTypeOK
<1>1. packet'[c] = p /\ stage[c] = "idle" /\ c \in Handler
    BY ClientAssumption DEF Begin
<1>2. CASE AskedAbout(p) /\ ~Malformed(p) /\ Ask(c, SubjectOf(c, p))
           /\ stage' = [stage EXCEPT ![c] = "check"]
    <2>1. /\ stage'[c] = "check" /\ asked'[c] = SubjectOf(c, p)
          /\ pc[c] = "idle" /\ pc'[c] \in {"yes", "sent"} /\ okAge' = okAge
        BY <1>1, <1>2 DEF Ask, AuthInv, AuthTypeOK
    <2>2. pc'[c] = "yes" => okAge'[asked'[c]] <= Fresh
        <3>1. AuthNext
            BY <1>1, <1>2, SubjectOfPacket DEF AuthNext
        <3> QED BY <2>1, <3>1, <1>1, Grounded DEF Fresh
    <2> QED BY <1>1, <1>2, <2>1, <2>2 DEF Checked, Passed, Fresh
<1>3. CASE Malformed(p) /\ UNCHANGED <<authVars, stage, left, held>>
    BY <1>1, <1>3 DEF Checked, Passed, AgeInv, authVars, askVars
<1>4. CASE ~AskedAbout(p) /\ Pass(c, p) /\ UNCHANGED authVars
    BY <1>1, <1>4 DEF Pass, Checked, Passed, AgeInv, authVars, askVars
<1> QED BY <1>2, <1>3, <1>4 DEF Begin

(* The authoriser answers, or the request fails.                           *)
LEMMA AgeAuthorise ==
    ASSUME GateInv, NEW c \in Client, Authorise(c)
    PROVE  Checked(c)' /\ Passed(c)'
<1> USE DEF GateInv, AgeInv
<1>1. /\ stage' = stage /\ packet' = packet /\ left' = left /\ held' = held
      /\ asked' = asked /\ c \in Handler /\ AuthNext /\ [AuthNext]_authVars
    BY ClientAssumption DEF Authorise, AuthNext, Evaluate, Receive, Fail, bridgeVars
<1>2. pc[c] \in {"sent", "ok", "refused"} /\ pc'[c] \in {"ok", "refused", "yes", "no"}
    BY <1>1 DEF Authorise, Evaluate, Receive, Fail, Waiting, AuthInv, AuthTypeOK
<1>3. Checked(c)'
    <2>1. pc'[c] = "yes" => okAge[asked'[c]] <= Fresh /\ okAge' = okAge
        <3>1. pc'[c] = "yes" => okAge' = okAge
            BY <1>1, <1>2 DEF Authorise, Evaluate, Receive, Fail, AuthInv, AuthTypeOK
        <3> QED BY <1>1, <1>2, <3>1, Grounded DEF Fresh
    <2> QED BY <1>1, <1>2, <2>1 DEF Checked, Fresh
<1>4. Passed(c)'
    BY <1>1, <1>2 DEF Checked, Passed
<1> QED BY <1>3, <1>4

(* A step leaves alone what is known of every client but the one it is of. *)
LEMMA AgeOthers ==
    ASSUME GateInv, NEW c \in Client, Checked(c), Passed(c),
           NEW d \in Client, d # c,
           Step(d) \/ \E p \in Packet : Begin(d, p)
    PROVE  Checked(c)' /\ Passed(c)'
<1> USE DEF GateInv, OrderInv, GateTypeOK
<1>1. /\ stage'[c] = stage[c] /\ packet'[c] = packet[c]
      /\ left'[c] = left[c] /\ held'[c] = held[c]
    BY DEF Step, Begin, Authorise, Refused, Granted, SendEvent, SendTimesOut, Handle,
           Pass, bridgeVars
<1>2. pc'[c] = pc[c] /\ asked'[c] = asked[c]
    BY ClientAssumption
       DEF Step, Begin, Authorise, Refused, Granted, SendEvent, SendTimesOut, Handle,
           authVars, askVars, Ask, Evaluate, Receive, Fail, Return, AuthInv, AuthTypeOK
<1>3. \/ UNCHANGED authVars
      \/ \E h \in Handler : \/ \E q \in Subject : Ask(h, q)
                            \/ Evaluate(h) \/ Receive(h) \/ Fail(h) \/ Return(h)
    <2>1. ASSUME NEW p \in Packet, Begin(d, p)
          PROVE  UNCHANGED authVars \/ \E q \in Subject : Ask(d, q)
        BY <2>1, SubjectOfPacket DEF Begin
    <2>2. ASSUME Step(d)
          PROVE  UNCHANGED authVars \/ Evaluate(d) \/ Receive(d) \/ Fail(d) \/ Return(d)
        BY <2>2 DEF Step, Authorise, Refused, Granted, SendEvent, SendTimesOut, Handle
    <2> QED BY <2>1, <2>2, ClientAssumption
<1>4. [AuthNext]_authVars /\ \A q \in Subject : okAge'[q] <= okAge[q]
    BY <1>3, NoAgeing
<1> QED BY <1>1, <1>2, <1>4, AgeKept

LEMMA AgeStep == GateInv /\ [Next]_vars => AgeInv'
<1> SUFFICES ASSUME GateInv, [Next]_vars, NEW c \in Client
             PROVE  Checked(c)' /\ Passed(c)'
    BY DEF AgeInv
<1> DEFINE Q == Checked(c)' /\ Passed(c)'
<1>1. Checked(c) /\ Passed(c) /\ c \in Handler
    BY ClientAssumption DEF GateInv, AgeInv
<1>2. ASSUME Refused(c) PROVE Q
    BY <1>1, <1>2 DEF Refused, Return, Checked, Passed, GateInv, OrderInv, GateTypeOK,
                      AuthInv, AuthTypeOK
<1>3. ASSUME Handle(c) PROVE Q
    BY <1>1, <1>3 DEF Handle, authVars, askVars, Checked, Passed, GateInv, OrderInv,
                      GateTypeOK
<1>4. ASSUME NEW d \in Client, d # c, Step(d) \/ \E p \in Packet : Begin(d, p) PROVE Q
    BY <1>1, <1>4, AgeOthers
<1>5. ASSUME KafkaChanges \/ UNCHANGED vars PROVE Q
    <2>1. /\ UNCHANGED authVars /\ stage'[c] = stage[c] /\ packet'[c] = packet[c]
          /\ left'[c] = left[c] /\ held'[c] = held[c]
          /\ pc'[c] = pc[c] /\ asked'[c] = asked[c]
        BY <1>5 DEF KafkaChanges, vars, bridgeVars, authVars, askVars
    <2>2. AuthInv /\ GateTypeOK
        BY DEF GateInv, OrderInv
    <2>3. [AuthNext]_authVars /\ \A q \in Subject : okAge'[q] <= okAge[q]
        BY <2>1, <2>2, NoAgeing
    <2> QED BY <1>1, <2>1, <2>2, <2>3, AgeKept
<1>6. ASSUME Time PROVE Q BY <1>6, AgeTime
<1>7. ASSUME Granted(c) PROVE Q BY <1>7, AgeGranted
<1>8. ASSUME Authorise(c) PROVE Q BY <1>8, AgeAuthorise
<1>9. ASSUME SendTimesOut(c) PROVE Q BY <1>9, AgeTimeout
<1>10. ASSUME NEW k \in KafkaTopic, SendEvent(c, k) PROVE Q BY <1>10, AgeSend
<1>11. ASSUME NEW p \in Packet, Begin(c, p) PROVE Q BY <1>11, AgeBegin
<1> HIDE DEF Q
<1>12. Q
    BY <1>2, <1>3, <1>4, <1>5, <1>6, <1>7, <1>8, <1>9, <1>10, <1>11 DEF Next, Step
<1> QED BY <1>12 DEF Q

-----------------------------------------------------------------------------
(* A packet takes effect when its CONNECT is granted, an event is sent, or *)
(* the broker acts on it.                                                  *)
LEMMA EffectFresh ==
    ASSUME GateInv, Next, NEW c \in Client, Effect(c), AskedAbout(packet[c])
    PROVE  okAge[SubjectOf(c, packet[c])]
              <= TTL + Timeout + BridgeWait * Cardinality(KafkaTopics(packet[c]))
<1> DEFINE q == SubjectOf(c, packet[c])
<1> USE DEF GateInv, OrderInv, GateTypeOK
<1>1. \/ Granted(c) \/ Handle(c)
      \/ \E k \in KafkaTopic : SendEvent(c, k)
    <2>1. ASSUME NEW d \in Client, NEW k \in KafkaTopic, SendEvent(d, k), d # c PROVE FALSE
        BY <2>1 DEF SendEvent, Record, Effect
    <2>2. ASSUME NEW d \in Client, d # c, Granted(d) \/ Handle(d) PROVE FALSE
        BY <2>2 DEF Granted, Handle, Effect, bridgeVars
    <2>3. ASSUME NEW d \in Client,
                 \/ Authorise(d) \/ Refused(d) \/ SendTimesOut(d)
                 \/ \E p \in Packet : Begin(d, p)
          PROVE  FALSE
        BY <2>3 DEF Authorise, Refused, SendTimesOut, Begin, Effect, bridgeVars
    <2>4. ASSUME KafkaChanges \/ Time PROVE FALSE
        BY <2>4 DEF KafkaChanges, Time, Effect, bridgeVars
    <2> QED BY <2>1, <2>2, <2>3, <2>4 DEF Next, Step
<1>2. CASE Granted(c)
    <2>1. /\ packet[c] \in Packet /\ ~Malformed(packet[c]) /\ okAge[q] <= Fresh
        BY <1>2 DEF Granted, AgeInv, Checked
    <2>2. q \in Subject
        BY <2>1, SubjectOfPacket
    <2>3. BridgeWait * Topics(c) \in Nat
        BY <2>1, TopicCount, Product
    <2>4. okAge[q] \in Nat /\ Fresh \in Nat
        BY <2>2, TimeAssumption DEF Fresh, AuthInv, AuthTypeOK
    <2>5. okAge[q] <= Fresh + BridgeWait * Topics(c)
        <3> HIDE DEF q
        <3> QED BY <2>1, <2>3, <2>4
    <2> QED BY <2>5 DEF Fresh, Topics
<1>3. CASE Handle(c)
    BY <1>3 DEF Handle, AgeInv, Passed, Fresh, Topics
<1>4. ASSUME NEW k \in KafkaTopic, SendEvent(c, k)
      PROVE  okAge[q] <= Fresh + BridgeWait * Topics(c)
    BY <1>4, OneTopic DEF SendEvent
<1> QED BY <1>1, <1>2, <1>3, <1>4 DEF Fresh, Topics

(***************************************************************************)
(* What the broker does with a packet, and what it tells Kafka of it, the  *)
(* authoriser granted no longer ago than the cache, the request and the    *)
(* waits for Kafka allow.                                                  *)
(***************************************************************************)
THEOREM EffectsGrounded == Spec => EffectGrounded
<1>1. Init => GateInv
    BY AuthInitial, OrderInitial, ClientAssumption
       DEF Init, AuthInit, GateInv, AgeInv, Checked, Passed
<1>2. GateInv /\ [Next]_vars => GateInv'
    BY AuthStep, GateStep, OrderStep, AgeStep DEF GateInv
<1>3. GateInv /\ [Next]_vars =>
         [\A c \in Client :
             Effect(c) /\ AskedAbout(packet[c]) =>
                okAge[SubjectOf(c, packet[c])] <=
                   TTL + Timeout + BridgeWait * Cardinality(KafkaTopics(packet[c]))]_vars
    BY EffectFresh
<1> QED BY <1>1, <1>2, <1>3, PTL DEF Spec, EffectGrounded
=============================================================================
