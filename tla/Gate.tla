---------------------------------- MODULE Gate ---------------------------------
(***************************************************************************)
(* What a client's packets pass before the broker acts on them: the        *)
(* authoriser (broker/auth.go, plugins/auth/authhttp) and the bridge to    *)
(* Kafka (broker/bridge.go, plugins/bridge/kafka.go).  The goroutine that  *)
(* handles a packet waits for both.  CONNECT is handled by the goroutine   *)
(* of the connection, all else by the client's worker, which no packet     *)
(* reaches before the former is done.                                      *)
(***************************************************************************)
EXTENDS AuthCache, Sequences, FiniteSetsExt

CONSTANTS
    Client,
    Name(_),      \* the user name of a client
    Password(_),
    Group,        \* names that are legal as those of a share group
    Packet,       \* what clients send: kind, and topic as a sequence of levels
    KafkaTopic,
    OnEvent(_),   \* the Kafka topic configured for a kind of packet, or None
    DeliverMap,   \* pairs of a filter and a Kafka topic
    BridgeWait,   \* how long one send to Kafka may take: 5 seconds
    MaxPackets(_) \* packets a client sends

ASSUME ClientAssumption ==
    /\ {"connect", "1", "2"} \subseteq Action
    /\ \A c \in Client : c \in Handler /\ Name(c) \in User /\ Password(c) \in Key

VARIABLES
    sent,      \* per client, the number of packets sent
    stage,     \* per client, what the goroutine that handles it is doing
    packet,    \* per client, the packet it is handling
    left,      \* per client, the Kafka topics still to be sent its event
    held,      \* per client, how long the send has been waiting
    kafkaUp,   \* whether the producer takes messages
    log,       \* per Kafka topic and client, the numbers of the events
    handled    \* per client, the number of the last packet acted on

bridgeVars == <<left, held, log>>
vars == <<authVars, sent, stage, packet, bridgeVars, kafkaUp, handled>>

Init ==
    /\ AuthInit
    /\ sent = [c \in Client |-> 0]
    /\ stage = [c \in Client |-> "idle"]
    /\ packet = [c \in Client |-> None]
    /\ left = [c \in Client |-> {}]
    /\ held = [c \in Client |-> 0]
    /\ kafkaUp = TRUE
    /\ log = [k \in KafkaTopic |-> [c \in Client |-> <<>>]]
    /\ handled = [c \in Client |-> 0]
-----------------------------------------------------------------------------
(***************************************************************************)
(* CheckTopicAuth and CheckConnectAuth: what is asked about a packet.      *)
(***************************************************************************)
StartsWith(t, p) == Len(t) > Len(p) /\ SubSeq(t, 1, Len(p)) = p

IsShared(p) == p.kind = "subscribe" /\ StartsWith(p.topic, <<"$share">>)

(* The filter of a shared subscription: what follows the group's name.     *)
Malformed(p) == IsShared(p) /\ ~(Len(p.topic) >= 3 /\ p.topic[2] \in Group)
Filter(p) == IF IsShared(p) THEN SubSeq(p.topic, 3, Len(p.topic)) ELSE p.topic

AskedAbout(p) ==
    \/ p.kind = "connect"
    \/ /\ p.kind \in {"publish", "subscribe"}
       /\ ~StartsWith(p.topic, <<"$SYS", "broker", "connection", "clients">>)

SubjectOf(c, p) ==
    [action |-> CASE p.kind = "connect" -> "connect"
                  [] p.kind = "subscribe" -> "1"
                  [] p.kind = "publish" -> "2",
     user |-> Name(c),
     key |-> IF p.kind = "connect" THEN Password(c) ELSE Filter(p)]

(* matchTopic: + matches a level, # whatever is left, nothing included.    *)
MatchTopic(f, t) ==
    LET end == Min({i \in 1..Len(f) : f[i] = "#"} \cup {Len(f) + 1})
    IN  /\ end <= Len(f) \/ Len(t) = Len(f)
        /\ \A i \in 1..(end - 1) : i <= Len(t) /\ (f[i] = "+" \/ f[i] = t[i])

(* The Kafka topics one event goes to, each once.                          *)
KafkaTopics(p) ==
    ({OnEvent(p.kind)} \ {None})
    \cup {d[2] : d \in {e \in DeliverMap : p.kind = "publish" /\ MatchTopic(e[1], p.topic)}}

ASSUME PacketAssumption ==
    /\ IsFiniteSet(KafkaTopic)
    /\ \A p \in Packet :
          /\ KafkaTopics(p) \subseteq KafkaTopic
          /\ AskedAbout(p) /\ ~Malformed(p) /\ p.kind # "connect" => Filter(p) \in Key

ASSUME WaitAssumption == BridgeWait \in Nat
-----------------------------------------------------------------------------
Pass(c, p) ==
    /\ stage' = [stage EXCEPT ![c] = "bridge"]
    /\ left' = [left EXCEPT ![c] = KafkaTopics(p)]
    /\ held' = [held EXCEPT ![c] = 0]

(* A packet comes to be handled; CONNECT is the first.  A subscription     *)
(* with a malformed share is refused unasked.                              *)
Begin(c, p) ==
    /\ stage[c] = "idle" /\ sent[c] < MaxPackets(c)
    /\ (sent[c] = 0) <=> (p.kind = "connect")
    /\ sent' = [sent EXCEPT ![c] = @ + 1]
    /\ packet' = [packet EXCEPT ![c] = p]
    /\ \/ /\ AskedAbout(p) /\ ~Malformed(p)
          /\ Ask(c, SubjectOf(c, p))
          /\ stage' = [stage EXCEPT ![c] = "check"]
          /\ UNCHANGED <<left, held>>
       \/ Malformed(p) /\ UNCHANGED <<authVars, stage, left, held>>
       \/ ~AskedAbout(p) /\ Pass(c, p) /\ UNCHANGED authVars
    /\ UNCHANGED <<log, kafkaUp, handled>>

(* A refused CONNECT is the end of the connection.                         *)
Refused(c) ==
    /\ stage[c] = "check" /\ pc[c] = "no" /\ Return(c)
    /\ stage' = [stage EXCEPT ![c] =
                    IF packet[c].kind = "connect" THEN "gone" ELSE "idle"]
    /\ UNCHANGED <<sent, packet, bridgeVars, kafkaUp, handled>>

(* The connection is registered before its event is sent.                  *)
Granted(c) ==
    /\ stage[c] = "check" /\ pc[c] = "yes" /\ Return(c)
    /\ Pass(c, packet[c])
    /\ handled' = IF packet[c].kind = "connect"
                  THEN [handled EXCEPT ![c] = sent[c]] ELSE handled
    /\ UNCHANGED <<sent, packet, log, kafkaUp>>

Record(c, k) == log' = [log EXCEPT ![k][c] = Append(@, sent[c])]

(* One element of the set is sent at a time, in any order.                 *)
SendEvent(c, k) ==
    /\ stage[c] = "bridge" /\ k \in left[c] /\ kafkaUp
    /\ left' = [left EXCEPT ![c] = @ \ {k}]
    /\ held' = [held EXCEPT ![c] = 0]
    /\ Record(c, k)
    /\ UNCHANGED <<authVars, sent, stage, packet, kafkaUp, handled>>

(* Faulty: a send that timed out is tried again, from the first topic on.  *)
SendStartsOver(c) ==
    /\ stage[c] = "bridge" /\ left[c] # {} /\ ~kafkaUp /\ held[c] = BridgeWait
    /\ left' = [left EXCEPT ![c] = KafkaTopics(packet[c])]
    /\ held' = [held EXCEPT ![c] = 0]
    /\ UNCHANGED <<authVars, sent, stage, packet, log, kafkaUp, handled>>

(* Faulty: a send that timed out is tried again.                           *)
SendWaits(c) ==
    /\ stage[c] = "bridge" /\ left[c] # {} /\ ~kafkaUp /\ held[c] = BridgeWait
    /\ held' = [held EXCEPT ![c] = 0]
    /\ UNCHANGED <<authVars, sent, stage, packet, left, log, kafkaUp, handled>>

(* After the first send that times out the other topics are left out.      *)
SendTimesOut(c) ==
    /\ stage[c] = "bridge" /\ left[c] # {} /\ ~kafkaUp /\ held[c] = BridgeWait
    /\ left' = [left EXCEPT ![c] = {}]
    /\ UNCHANGED <<authVars, sent, stage, packet, held, log, kafkaUp, handled>>

(* The broker delivers, subscribes, unsubscribes or closes: whether or not *)
(* Kafka got the event, of which Publish in broker/bridge.go only logs the *)
(* failure.                                                                *)
Handle(c) ==
    /\ stage[c] = "bridge" /\ left[c] = {}
    /\ stage' = [stage EXCEPT ![c] =
                    IF packet[c].kind = "disconnect" THEN "gone" ELSE "idle"]
    /\ handled' = [handled EXCEPT ![c] = sent[c]]
    /\ UNCHANGED <<authVars, sent, packet, bridgeVars, kafkaUp>>

(* The producer's channel fills up, or is drained again.                   *)
KafkaChanges ==
    /\ kafkaUp' = ~kafkaUp
    /\ UNCHANGED <<authVars, sent, stage, packet, bridgeVars, handled>>

Authorise(c) ==
    /\ Evaluate(c) \/ Receive(c) \/ Fail(c)
    /\ UNCHANGED <<sent, stage, packet, bridgeVars, kafkaUp, handled>>

(* Only what waits for the authoriser or for Kafka takes time.             *)
Time ==
    /\ \A c \in Client :
          /\ stage[c] = "check" => Waiting(c)
          /\ stage[c] = "bridge" => left[c] # {} /\ ~kafkaUp /\ held[c] < BridgeWait
    /\ Tick
    /\ held' = [c \in Client |-> held[c] + IF stage[c] = "bridge" THEN 1 ELSE 0]
    /\ UNCHANGED <<sent, stage, packet, left, log, kafkaUp, handled>>

Step(c) ==
    \/ Authorise(c) \/ Refused(c) \/ Granted(c)
    \/ (\E k \in KafkaTopic : SendEvent(c, k)) \/ SendTimesOut(c) \/ Handle(c)

Next ==
    \/ \E c \in Client : Step(c) \/ \E p \in Packet : Begin(c, p)
    \/ KafkaChanges \/ Time

Spec == Init /\ [][Next]_vars

(* Goroutines and timers make progress; nobody promises that the           *)
(* authoriser answers or that Kafka takes anything.  A send that waits is  *)
(* served when the producer reads its channel, however briefly: SF.        *)
TimedOut(c) ==
    /\ waited[c] = Timeout /\ Fail(c)
    /\ UNCHANGED <<sent, stage, packet, bridgeVars, kafkaUp, handled>>

FairSpec ==
    /\ Spec /\ WF_vars(Time)
    /\ \A c \in Client :
          /\ WF_vars(TimedOut(c)) /\ WF_vars(Refused(c)) /\ WF_vars(Granted(c))
          /\ SF_vars(\E k \in KafkaTopic : SendEvent(c, k))
          /\ WF_vars(SendTimesOut(c)) /\ WF_vars(Handle(c))
-----------------------------------------------------------------------------
(***************************************************************************)
(* Each Kafka topic gets the events of a client once and in the order of   *)
(* its packets, whichever of them are lost to time-outs, and none from a   *)
(* connection before its CONNECT was accepted (publish in                  *)
(* plugins/bridge/kafka.go, called by CONNECT's goroutine and then by the  *)
(* client's worker).                                                       *)
(***************************************************************************)
EventsInOrder ==
    \A k \in KafkaTopic, c \in Client :
       /\ \A i, j \in DOMAIN log[k][c] : i < j => log[k][c][i] < log[k][c][j]
       /\ log[k][c] # <<>> => handled[c] > 0

(***************************************************************************)
(* What the broker does with a packet, and what it tells Kafka of it, the  *)
(* authoriser has granted not long ago: an answer may be as old as the     *)
(* cache and the request allow, and then wait for every Kafka topic in     *)
(* turn (processClientPublish, processClientSubscribe, handleConnection).  *)
(***************************************************************************)
Effect(c) ==
    handled'[c] # handled[c] \/ \E k \in KafkaTopic : log'[k][c] # log[k][c]

EffectGrounded ==
    [][\A c \in Client :
          Effect(c) /\ AskedAbout(packet[c]) =>
             okAge[SubjectOf(c, packet[c])] <=
                TTL + Timeout + BridgeWait * Cardinality(KafkaTopics(packet[c]))]_vars

(***************************************************************************)
(* Neither an authoriser that does not answer nor a Kafka that takes       *)
(* nothing holds a worker forever (Timeout of the HTTP client,             *)
(* plugins/auth/authhttp/authhttp.go, and time.After in                    *)
(* plugins/bridge/kafka.go).                                               *)
(***************************************************************************)
WorkerFreed ==
    \A c \in Client : stage[c] \in {"check", "bridge"} ~> stage[c] \in {"idle", "gone"}
=============================================================================
