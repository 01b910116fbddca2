-------------------------- MODULE LifecycleProofs ----------------------------
(***************************************************************************)
(* For any number of connections of a client: the registry keeps no closed *)
(* connection, a connection that the worker alone closed leaves no         *)
(* subscription behind, and no will is published after a DISCONNECT.       *)
(***************************************************************************)
EXTENDS Lifecycle, TLAPS

(* The places of Close, and those after the status was set.                *)
Marked == {"drop", "remove", "unsubscribe", "offline", "will", "publish", "panic"}

(* Who is in Close has a connection to close; the handler of a connection  *)
(* that is not stored yet has closed nothing, the worker does one thing at *)
(* a time.                                                                 *)
Engaged ==
    /\ \A a \in Actor : /\ step[a] = "idle" <=> target[a] = None
                        /\ step[a] \in Marked => status[target[a]] = "Disconnected"
    /\ \A c \in Conn : handler[c] \in {"new", "load"} => step[c] = "idle"
    /\ IF task.at = "idle" THEN task = Idle
       ELSE task.conn \in Conn /\ task.filter \in Filter /\ step[Worker] = "idle"

(* Nobody knows a connection whose handler has yet to store it.            *)
Unknown ==
    \A c \in Conn : handler[c] \in {"new", "load", "store"} =>
       /\ clients # c /\ status[c] = "Connected"
       /\ \A a \in Actor : target[a] # c
       /\ \A i \in 1..Len(queue) : queue[i].conn # c

(* A subscription in the tree is in its client's subMap, or about to be.   *)
InMap ==
    \A s \in tree :
       \/ s.filter \in subMap[s.conn]
       \/ task.at = "record" /\ task.conn = s.conn /\ task.filter = s.filter

(* The worker that alone closes a connection unsubscribes it, and takes up *)
(* no SUBSCRIBE of it afterwards.                                          *)
Cleaned ==
    \A c \in Conn : closers[c] = {Worker} =>
       \/ /\ target[Worker] = c
          /\ step[Worker] \in {"mark", "drop", "remove", "unsubscribe"}
       \/ /\ status[c] = "Disconnected" /\ task.conn # c
          /\ \A s \in tree : s.conn # c

(* A DISCONNECT that was dealt with has taken the will.                    *)
NoWill == \A c \in bye : ~will[c]

IInv == /\ TypeOK /\ Engaged /\ Unknown /\ InMap /\ Cleaned /\ NoWill
        /\ NoStaleEntry

-----------------------------------------------------------------------------
LEMMA InitHolds == Init => IInv
<1> SUFFICES ASSUME Init PROVE IInv
  OBVIOUS
<1> USE ActorAssumption, BoundAssumption DEF Init
<1>1. TypeOK
  BY DEF TypeOK, Idle
<1>2. Engaged
  BY DEF Engaged, Marked, Idle, Actor
<1>3. Unknown
  BY DEF Unknown
<1>4. InMap /\ Cleaned /\ NoWill /\ NoStaleEntry
  BY DEF InMap, Cleaned, NoWill, NoStaleEntry
<1> QED
  BY <1>1, <1>2, <1>3, <1>4 DEF IInv

(* A subscription is its connection and its filter.                        *)
LEMMA TreeRows ==
    ASSUME TypeOK, NEW s \in tree
    PROVE  /\ s.conn \in Conn /\ s.filter \in Filter
           /\ s = [conn |-> s.conn, filter |-> s.filter]
BY DEF TypeOK, Subscription

(* Submit puts one more task into the queue.                               *)
LEMMA SubmitStep ==
    ASSUME TypeOK, NEW c \in Conn, NEW f \in Filter,
           NEW kind \in {"sub", "unsub", "disconnect"}, Submit(c, kind, f)
    PROVE  /\ queue' \in Seq(Task) /\ Len(queue') <= MaxQueue
           /\ task' = task
           /\ \A i \in 1..Len(queue') :
                 queue'[i].conn = c \/ \E j \in 1..Len(queue) : queue'[i] = queue[j]
BY BoundAssumption DEF TypeOK, Submit, Task

(* Ready takes the first task out of the queue.                            *)
LEMMA ReadyStep ==
    ASSUME TypeOK, NEW kind \in {"sub", "unsub", "disconnect"}, Ready(kind)
    PROVE  /\ queue' \in Seq(Task) /\ Len(queue') <= MaxQueue
           /\ Head(queue) \in Task /\ Head(queue) = queue[1] /\ 1 \in 1..Len(queue)
           /\ Head(queue).conn \in Conn /\ Head(queue).filter \in Filter
           /\ \A i \in 1..Len(queue') : \E j \in 1..Len(queue) : queue'[i] = queue[j]
<1>1. queue \in Seq(Task) /\ queue # <<>> /\ queue' = Tail(queue)
  BY DEF TypeOK, Ready
<1>2. Head(queue) \in Task /\ Head(queue) = queue[1] /\ 1 \in 1..Len(queue)
  BY <1>1
<1>3. \A i \in 1..Len(queue') : i + 1 \in 1..Len(queue) /\ queue'[i] = queue[i + 1]
  BY <1>1
<1>4. queue' \in Seq(Task) /\ Len(queue') <= MaxQueue
  BY <1>1, BoundAssumption DEF TypeOK
<1> QED
  BY <1>2, <1>3, <1>4 DEF Task

-----------------------------------------------------------------------------
(* Close keeps the invariant.  The actor's step moves on by one, and the   *)
(* connection it is about is the one it called Close for.                  *)
LEMMA CloseHolds ==
    ASSUME IInv, NEW a \in Actor, CloseStep(a)
    PROVE  IInv'
<1> DEFINE Q == IInv'
<1>0. step[a] # "idle" => target[a] \in Conn
  BY DEF IInv, TypeOK, Engaged
<1> USE <1>0, ActorAssumption
    DEF IInv, TypeOK, Engaged, Marked, Unknown, InMap, Cleaned, NoWill,
        NoStaleEntry, connVars, readVars, treeVars, workVars, Advance, Return
<1>1. ASSUME CloseTest(a) PROVE Q
  <2> USE <1>1 DEF CloseTest
  <2>1. TypeOK'
    BY SMTT(30)
  <2>2. Engaged'
    <3>1. \A b \in Actor \ {a} : step'[b] = step[b] /\ target'[b] = target[b]
      OBVIOUS
    <3>2. /\ step'[a] = "idle" <=> target'[a] = None
          /\ step'[a] \in Marked => status'[target'[a]] = "Disconnected"
      OBVIOUS
    <3>3. \A c \in Conn : handler'[c] \in {"new", "load"} => step'[c] = "idle"
      BY DEF Actor
    <3>4. step[Worker] = "idle" => step'[Worker] = "idle"
      BY DEF Actor
    <3> HIDE <1>1
    <3>5. task' = task /\ status' = status /\ handler' = handler
      BY <1>1
    <3> QED
      BY <3>1, <3>2, <3>3, <3>4, <3>5
  <2>3. Unknown' /\ InMap'
    OBVIOUS
  <2>4. Cleaned'
    BY DEF Actor
  <2>5. NoWill' /\ NoStaleEntry'
    OBVIOUS
  <2> QED
    BY <2>1, <2>2, <2>3, <2>4, <2>5
<1>2. ASSUME CloseMark(a) PROVE Q
  BY <1>2 DEF CloseMark
<1>3. ASSUME CloseDrop(a) PROVE Q
  BY <1>3 DEF CloseDrop
<1>4. ASSUME CloseRemove(a) PROVE Q
  BY <1>4 DEF CloseRemove
<1>5. ASSUME CloseUnsubscribe(a) PROVE Q
  <2> USE <1>5 DEF CloseUnsubscribe
  <2>1. TypeOK'
    OBVIOUS
  <2>2. Engaged'
    OBVIOUS
  <2>3. Unknown' /\ InMap'
    OBVIOUS
  <2>4. Cleaned'
    <3>1. ASSUME a = Worker, NEW s \in tree', s.conn = target[a] PROVE FALSE
      <4>1. s \in tree /\ s.filter \notin subMap[s.conn]
        BY <3>1
      <4>2. task.at = "record"
        BY <4>1
      <4> QED
        BY <3>1, <4>2
    <3>2. a = Worker => status[target[a]] = "Disconnected" /\ task.conn # target[a]
      BY DEF Idle
    <3>3. a # Worker => step'[Worker] = step[Worker]
      OBVIOUS
    <3>4. a = Worker => \A c \in Conn : closers[c] = {Worker} /\ c # target[a] =>
                           /\ status[c] = "Disconnected" /\ task.conn # c
                           /\ \A s \in tree : s.conn # c
      OBVIOUS
    <3>5. tree' \subseteq tree /\ task' = task /\ status' = status /\ closers' = closers
          /\ target' = target
      OBVIOUS
    <3> HIDE <1>5
    <3> SUFFICES ASSUME NEW c \in Conn, closers[c] = {Worker}
                 PROVE  \/ /\ target[Worker] = c
                           /\ step'[Worker] \in {"mark", "drop", "remove", "unsubscribe"}
                        \/ /\ status[c] = "Disconnected" /\ task.conn # c
                           /\ \A s \in tree' : s.conn # c
      BY <3>5
    <3>6. CASE a # Worker
      BY <3>3, <3>5, <3>6
    <3>7. CASE a = Worker /\ c = target[a]
      BY <3>1, <3>2, <3>7
    <3>8. CASE a = Worker /\ c # target[a]
      BY <3>4, <3>5, <3>8
    <3> QED
      BY <3>6, <3>7, <3>8
  <2>5. NoWill' /\ NoStaleEntry'
    OBVIOUS
  <2> QED
    BY <2>1, <2>2, <2>3, <2>4, <2>5
<1>6. ASSUME CloseOffline(a) PROVE Q
  BY <1>6 DEF CloseOffline, Notify
<1>7. ASSUME CloseWill(a) PROVE Q
  <2> USE <1>7 DEF CloseWill
  <2>1. TypeOK'
    OBVIOUS
  <2>2. Engaged'
    <3>1. \A b \in Actor \ {a} : step'[b] = step[b] /\ target'[b] = target[b]
      OBVIOUS
    <3>2. /\ step'[a] = "idle" <=> target'[a] = None
          /\ step'[a] \in Marked => status'[target'[a]] = "Disconnected"
      OBVIOUS
    <3>3. \A c \in Conn : handler'[c] \in {"new", "load"} => step'[c] = "idle"
      BY DEF Actor
    <3>4. step[Worker] = "idle" => step'[Worker] = "idle"
      BY DEF Actor
    <3> HIDE <1>7
    <3>5. task' = task /\ status' = status /\ handler' = handler
      BY <1>7
    <3> QED
      BY <3>1, <3>2, <3>3, <3>4, <3>5
  <2>3. Unknown' /\ InMap'
    OBVIOUS
  <2>4. Cleaned'
    BY DEF Actor
  <2>5. NoWill' /\ NoStaleEntry'
    OBVIOUS
  <2> QED
    BY <2>1, <2>2, <2>3, <2>4, <2>5
<1>8. ASSUME ClosePublish(a) PROVE Q
  <2> USE <1>8 DEF ClosePublish
  <2>1. TypeOK'
    OBVIOUS
  <2>2. Engaged'
    <3>1. \A b \in Actor \ {a} : step'[b] = step[b] /\ target'[b] = target[b]
      OBVIOUS
    <3>2. /\ step'[a] = "idle" <=> target'[a] = None
          /\ step'[a] \in Marked => status'[target'[a]] = "Disconnected"
      OBVIOUS
    <3>3. \A c \in Conn : handler'[c] \in {"new", "load"} => step'[c] = "idle"
      BY DEF Actor
    <3>4. step[Worker] = "idle" => step'[Worker] = "idle"
      BY DEF Actor
    <3> HIDE <1>8
    <3>5. task' = task /\ status' = status /\ handler' = handler
      BY <1>8
    <3> QED
      BY <3>1, <3>2, <3>3, <3>4, <3>5
  <2>3. Unknown' /\ InMap'
    OBVIOUS
  <2>4. Cleaned'
    BY DEF Actor
  <2>5. NoWill' /\ NoStaleEntry'
    OBVIOUS
  <2> QED
    BY <2>1, <2>2, <2>3, <2>4, <2>5
<1> HIDE DEF Q
<1>9. Q
  BY <1>1, <1>2, <1>3, <1>4, <1>5, <1>6, <1>7, <1>8 DEF CloseStep
<1> QED
  BY <1>9 DEF Q
-----------------------------------------------------------------------------
(* handleConnection and readLoop keep the invariant.  A connection is not  *)
(* known to anybody before StoreNew, and whoever closes the old one is     *)
(* about to remove whatever entry there is.                                *)
LEMMA HandlerHolds ==
    ASSUME IInv, NEW c \in Conn, HandlerStep(c) \/ ClientStep(c)
    PROVE  IInv'
<1> DEFINE Q == IInv'
<1> USE ActorAssumption, BoundAssumption
    DEF IInv, TypeOK, Engaged, Marked, Unknown, InMap, Cleaned, NoWill,
        NoStaleEntry, connVars, readVars, treeVars, closeVars, workVars,
        Goto, Notify
<1>1. ASSUME LoadOld(c) PROVE Q
  <2> USE <1>1 DEF LoadOld, Call
  <2>1. TypeOK'
    BY DEF Actor
  <2>2. Engaged'
    BY DEF Actor
  <2>3. Unknown'
    BY DEF Actor
  <2>4. InMap' /\ NoWill'
    OBVIOUS
  <2>5. Cleaned'
    BY DEF Actor
  <2>6. NoStaleEntry'
    BY DEF Actor
  <2> QED
    BY <2>1, <2>2, <2>3, <2>4, <2>5, <2>6
<1>2. ASSUME StoreNew(c) PROVE Q
  BY <1>2 DEF StoreNew
<1>3. ASSUME Online(c) PROVE Q
  BY <1>3 DEF Online
<1>4. ASSUME Start(c) \/ Select(c) PROVE Q
  BY <1>4 DEF Start, Select
<1>5. ASSUME Refuse(c) \/ Accept(c) PROVE Q
  BY <1>5 DEF Refuse, Accept
<1>6. ASSUME PeerLost(c) \/ ReadDisconnect(c) PROVE Q
  <2>1. CASE PeerLost(c)
    BY <2>1 DEF PeerLost
  <2>2. CASE ReadDisconnect(c)
    BY <2>2 DEF ReadDisconnect, Reading
  <2> QED
    BY <1>6, <2>1, <2>2
<1>7. ASSUME NEW f \in Filter, ReadError(c, f) PROVE Q
  <2>1. Submit(c, "disconnect", f)
    BY <1>7 DEF ReadError
  <2>2. /\ queue' \in Seq(Task) /\ Len(queue') <= MaxQueue
        /\ task' = task
        /\ \A i \in 1..Len(queue') :
              queue'[i].conn = c \/ \E j \in 1..Len(queue) : queue'[i] = queue[j]
    BY <2>1, SubmitStep
  <2>3. /\ handler[c] = "read" /\ handler' = [handler EXCEPT ![c] = "end"]
        /\ UNCHANGED <<clients, connVars, readVars, treeVars, requests,
                       closeVars, note, willSent>>
    BY <1>7 DEF ReadError
  <2> HIDE <1>7
  <2>4. TypeOK'
    BY <2>2, <2>3
  <2>5. Engaged' /\ InMap' /\ Cleaned'
    BY <2>2, <2>3
  <2>6. Unknown'
    BY <2>2, <2>3
  <2>7. NoWill' /\ NoStaleEntry'
    BY <2>2, <2>3
  <2> QED
    BY <2>4, <2>5, <2>6, <2>7
<1>8. ASSUME NEW f \in Filter, Disconnect(c, f) PROVE Q
  <2>1. Submit(c, "disconnect", f)
    BY <1>8 DEF Disconnect
  <2>2. /\ queue' \in Seq(Task) /\ Len(queue') <= MaxQueue
        /\ task' = task
        /\ \A i \in 1..Len(queue') :
              queue'[i].conn = c \/ \E j \in 1..Len(queue) : queue'[i] = queue[j]
    BY <2>1, SubmitStep
  <2>3. /\ handler[c] = "bye" /\ handler' = [handler EXCEPT ![c] = "select"]
        /\ will' = [will EXCEPT ![c] = FALSE] /\ done' = [done EXCEPT ![c] = TRUE]
        /\ bye' = bye \cup {c}
        /\ UNCHANGED <<clients, status, open, peer, treeVars, requests,
                       closeVars, note, willSent>>
    BY <1>8 DEF Disconnect
  <2> HIDE <1>8
  <2>4. TypeOK'
    BY <2>2, <2>3
  <2>5. Engaged' /\ InMap' /\ Cleaned'
    BY <2>2, <2>3
  <2>6. Unknown'
    BY <2>2, <2>3
  <2>7. NoWill' /\ NoStaleEntry'
    BY <2>2, <2>3
  <2> QED
    BY <2>4, <2>5, <2>6, <2>7
<1>9. ASSUME NEW f \in Filter, NEW kind \in {"sub", "unsub"}, ReadPacket(c, kind, f)
      PROVE  Q
  <2>1. Submit(c, kind, f)
    BY <1>9 DEF ReadPacket
  <2>2. /\ queue' \in Seq(Task) /\ Len(queue') <= MaxQueue
        /\ task' = task
        /\ \A i \in 1..Len(queue') :
              queue'[i].conn = c \/ \E j \in 1..Len(queue) : queue'[i] = queue[j]
    BY <2>1, SubmitStep
  <2>3. /\ handler[c] = "read" /\ handler' = [handler EXCEPT ![c] = "select"]
        /\ requests < MaxRequests /\ requests' = requests + 1
        /\ UNCHANGED <<clients, connVars, readVars, treeVars, closeVars,
                       note, willSent>>
    BY <1>9 DEF ReadPacket, Reading
  <2> HIDE <1>9
  <2>4. TypeOK'
    BY <2>2, <2>3
  <2>5. Engaged' /\ InMap' /\ Cleaned'
    BY <2>2, <2>3
  <2>6. Unknown'
    BY <2>2, <2>3
  <2>7. NoWill' /\ NoStaleEntry'
    BY <2>2, <2>3
  <2> QED
    BY <2>4, <2>5, <2>6, <2>7
<1> HIDE DEF Q
<1>10. Q
  BY <1>1, <1>2, <1>3, <1>4, <1>5, <1>6, <1>7, <1>8, <1>9
     DEF HandlerStep, ClientStep
<1> QED
  BY <1>10 DEF Q

(* So do the worker's tasks: a SUBSCRIBE is taken up only for a connection *)
(* that is not closed yet, and the worker closes none before it is done.   *)
LEMMA WorkerHolds ==
    ASSUME IInv, WorkerStep
    PROVE  IInv'
<1> DEFINE Q == IInv'
<1> USE ActorAssumption, BoundAssumption
    DEF IInv, TypeOK, Engaged, Marked, Unknown, InMap, Cleaned, NoWill,
        NoStaleEntry, connVars, readVars, treeVars, closeVars, workVars
<1>1. ASSUME TakeSubscribe PROVE Q
  <2>1. Ready("sub")
    BY <1>1 DEF TakeSubscribe
  <2> QED
    BY <1>1, <2>1, ReadyStep DEF TakeSubscribe, Ready, Idle
<1>2. ASSUME SubscribeInsert PROVE Q
  BY <1>2 DEF SubscribeInsert, Subscription
<1>3. ASSUME SubscribeFails PROVE Q
  <2> USE <1>3 DEF SubscribeFails, Idle
  <2>1. TypeOK' /\ Engaged' /\ Unknown' /\ NoWill' /\ NoStaleEntry'
    OBVIOUS
  <2>2. InMap'
    <3>1. \A s \in tree : s = [conn |-> s.conn, filter |-> s.filter]
      BY TreeRows
    <3>2. ASSUME NEW s \in tree'
          PROVE  s \in tree /\ s.filter \in subMap'[s.conn]
      <4>1. s \in tree /\ s.filter \in subMap[s.conn]
        OBVIOUS
      <4>2. CASE UNCHANGED treeVars
        BY <4>1, <4>2
      <4>3. CASE /\ subMap' = [subMap EXCEPT ![task.conn] = @ \ {task.filter}]
                 /\ tree' = tree \ {[conn |-> task.conn, filter |-> task.filter]}
        <5>1. s.conn # task.conn \/ s.filter # task.filter
          BY <3>1, <4>1, <4>3
        <5>2. subMap \in [Conn -> SUBSET Filter] /\ s.conn \in Conn
          BY <4>1, TreeRows
        <5> HIDE <1>3 DEF TypeOK
        <5> QED
          BY <4>1, <4>3, <5>1, <5>2
      <4> QED
        BY <4>2, <4>3
    <3> QED
      BY <3>2
  <2>3. Cleaned'
    OBVIOUS
  <2> HIDE <1>3 DEF IInv, TypeOK, Engaged, Unknown, InMap, Cleaned, NoWill, NoStaleEntry
  <2> QED
    BY <2>1, <2>2, <2>3 DEF IInv
<1>4. ASSUME SubscribeRecord PROVE Q
  BY <1>4 DEF SubscribeRecord, Idle
<1>5. ASSUME TakeUnsubscribe PROVE Q
  <2>1. Ready("unsub")
    BY <1>5 DEF TakeUnsubscribe
  <2> USE <1>5, <2>1, ReadyStep DEF TakeUnsubscribe, Ready, Idle
  <2>2. TypeOK'
    OBVIOUS
  <2>3. Engaged' /\ Unknown' /\ NoWill' /\ NoStaleEntry'
    OBVIOUS
  <2>4. InMap'
    BY TreeRows
  <2>5. Cleaned'
    OBVIOUS
  <2> QED
    BY <2>2, <2>3, <2>4, <2>5
<1>6. ASSUME TakeDisconnect PROVE Q
  <2>1. Ready("disconnect")
    BY <1>6 DEF TakeDisconnect
  <2> QED
    BY <1>6, <2>1, ReadyStep DEF TakeDisconnect, Ready, Idle, Call, Actor
<1> HIDE DEF Q
<1>7. Q
  BY <1>1, <1>2, <1>3, <1>4, <1>5, <1>6 DEF WorkerStep
<1> QED
  BY <1>7 DEF Q

(* And so does the HTTP API.                                               *)
LEMMA HttpHolds ==
    ASSUME IInv, HttpDelete
    PROVE  IInv'
BY ActorAssumption, BoundAssumption
   DEF HttpDelete, Call, Actor, IInv, TypeOK, Engaged, Marked, Unknown, InMap,
       Cleaned, NoWill, NoStaleEntry, connVars, readVars, treeVars, closeVars, workVars

LEMMA Invariance == Spec => []IInv
<1>1. IInv /\ [Next]_vars => IInv'
  <2> SUFFICES ASSUME IInv, [Next]_vars PROVE IInv'
    OBVIOUS
  <2>1. CASE UNCHANGED vars
    BY <2>1 DEF vars, IInv, TypeOK, Engaged, Unknown, InMap, Cleaned, NoWill,
       NoStaleEntry
  <2>2. CASE Next
    BY <2>1, <2>2, HandlerHolds, CloseHolds, WorkerHolds, HttpHolds DEF Next, Stopped
  <2> QED
    BY <2>1, <2>2
<1> QED
  BY InitHolds, <1>1, PTL DEF Spec

-----------------------------------------------------------------------------
(* Lifecycle is type correct: no more tasks are queued than the channel    *)
(* holds, and whoever is in Close has a connection to close.               *)
THEOREM TypeCorrect == Spec => []TypeOK
BY Invariance, PTL DEF IInv

(* Close and handleConnection: the registry keeps no connection that was   *)
(* closed, for who closed it has yet to remove the entry.                  *)
THEOREM RegistryLive == Spec => []NoStaleEntry
BY Invariance, PTL DEF IInv

(* The order of a worker's tasks: a connection that only its worker closed *)
(* has no subscription left in the topic tree.                             *)
THEOREM WorkerCleansUp == Spec => []WorkerClosesClean
<1>1. IInv => WorkerClosesClean
  BY DEF IInv, WorkerClosesClean, Cleaned, Actor
<1> QED
  BY Invariance, <1>1, PTL

(* readLoop and Close: once a DISCONNECT was dealt with the will is not    *)
(* published, whoever is closing the connection.                           *)
THEOREM NoWillAfterBye == Spec => WillOnlyIfDropped
<1> DEFINE A == \A c \in bye : c \in willSent' => c \in willSent
<1>1. IInv /\ [Next]_vars => [A]_vars
  <2> SUFFICES ASSUME IInv, Next, NEW c \in bye, c \in willSent', c \notin willSent
               PROVE  FALSE
    OBVIOUS
  <2>1. PICK a \in Actor : ClosePublish(a)
    BY DEF Next, HandlerStep, ClientStep, WorkerStep, CloseStep, Stopped, vars,
       LoadOld, StoreNew, Online, Start, Select, Refuse, Accept, PeerLost,
       ReadDisconnect, ReadError, Disconnect, ReadPacket, CloseTest, CloseMark,
       CloseDrop, CloseRemove, CloseUnsubscribe, CloseOffline, CloseWill,
       TakeSubscribe, SubscribeInsert, SubscribeFails, SubscribeRecord,
       TakeUnsubscribe, TakeDisconnect, HttpDelete
  <2>2. target[a] = c /\ will[target[a]]
    BY <2>1 DEF ClosePublish
  <2> QED
    BY <2>2 DEF IInv, NoWill
<1> QED
  BY <1>1, Invariance, PTL DEF Spec, WillOnlyIfDropped
=============================================================================
