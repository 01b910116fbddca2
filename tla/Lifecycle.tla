------------------------------ MODULE Lifecycle ------------------------------
(***************************************************************************)
(* Connections that use one client identifier, from CONNECT to the end of  *)
(* Close: Broker.handleConnection and client.readLoop in the connection's  *)
(* own goroutine, ProcessMessage in the pool's worker for that identifier, *)
(* and the HTTP API's DELETE (broker/broker.go, client.go, http.go).       *)
(*                                                                         *)
(* The broker knows a connection by its identifier alone.  Close tests and *)
(* sets the status without a lock and can be run by three actors at once:  *)
(* the worker, a newer connection's handler, and an HTTP request.          *)
(***************************************************************************)
EXTENDS Naturals, Sequences, FiniteSets

CONSTANTS
    Conn,       \* successive TCP connections of the client; each stands for
                \*   its *client and for the goroutine that handles it
    Filter,     \* topic filters the client subscribes to
    MaxRequests,\* bound: SUBSCRIBE and UNSUBSCRIBE packets read, and HTTP
                \*   DELETE requests, all together
    MaxQueue,   \* capacity of the worker's task channel
    Worker, Http, None

Actor == Conn \cup {Worker, Http}

ASSUME ActorAssumption ==
    /\ Worker \notin Conn /\ Http \notin Conn /\ None \notin Conn
    /\ Worker # Http

ASSUME BoundAssumption ==
    /\ MaxRequests \in Nat
    /\ MaxQueue \in Nat \ {0}

VARIABLES
    clients,    \* the registry's entry for the identifier
    handler,    \* per connection, where its goroutine is
    status,     \* per connection, Connected or Disconnected
    open,       \* per connection, c.conn is not nil
    peer,       \* per connection, the client's end is there
    done,       \* per connection, its context is cancelled
    will,       \* per connection, willMsg is not nil
    subMap,     \* per connection, the filters in its subMap
    tree,       \* subscriptions in the topic tree
    queue,      \* the worker's tasks
    task,       \* what the worker is doing
    requests,   \* how many of the requests that are bounded there were
    step,       \* per actor, where its call of Close is
    target,     \* per actor, the connection it is closing
    note,       \* the last notification published
    willSent,   \* the connections whose will was published
    bye,        \* the connections whose DISCONNECT was dealt with
    closers     \* per connection, the actors that found it Connected

connVars == <<status, open, done, will>>
readVars == <<peer, bye>>
treeVars == <<subMap, tree>>
closeVars == <<step, target, closers>>
workVars == <<queue, task>>
vars == <<clients, handler, status, open, peer, done, will, subMap,
          tree, queue, task, requests, step, target, note, willSent, bye, closers>>

Subscription == [conn : Conn, filter : Filter]
Task == [conn : Conn, kind : {"sub", "unsub", "disconnect"}, filter : Filter]
             \* the filter of a "disconnect" means nothing
Idle == [conn |-> None, at |-> "idle", filter |-> None]

TypeOK ==
    /\ clients \in Conn \cup {None}
    /\ handler \in [Conn -> {"new", "load", "store", "online", "start",
                             "select", "read", "bye", "end"}]
    /\ status \in [Conn -> {"Connected", "Disconnected"}]
    /\ open \in [Conn -> BOOLEAN]
    /\ peer \in [Conn -> BOOLEAN]
    /\ done \in [Conn -> BOOLEAN]
    /\ will \in [Conn -> BOOLEAN]
    /\ subMap \in [Conn -> SUBSET Filter]
    /\ tree \in SUBSET Subscription
    /\ queue \in Seq(Task) /\ Len(queue) <= MaxQueue
    /\ task \in [conn : Conn \cup {None}, filter : Filter \cup {None},
                 at : {"idle", "insert", "record"}]
    /\ requests \in 0..MaxRequests
    /\ step \in [Actor -> {"idle", "test", "mark", "drop", "remove",
                           "unsubscribe", "offline", "will", "publish", "panic"}]
    /\ target \in [Actor -> Conn \cup {None}]
    /\ note \in {"none", "online", "offline"}
    /\ willSent \in SUBSET Conn
    /\ bye \in SUBSET Conn
    /\ closers \in [Conn -> SUBSET Actor]

Init ==
    /\ clients = None
    /\ handler = [c \in Conn |-> "new"]
    /\ status = [c \in Conn |-> "Connected"]
    /\ open = [c \in Conn |-> TRUE]
    /\ peer = [c \in Conn |-> TRUE]
    /\ done = [c \in Conn |-> FALSE]
    /\ will \in [Conn -> BOOLEAN]
    /\ subMap = [c \in Conn |-> {}]
    /\ tree = {}
    /\ queue = <<>>
    /\ task = Idle
    /\ requests = 0
    /\ step = [a \in Actor |-> "idle"]
    /\ target = [a \in Actor |-> None]
    /\ note = "none"
    /\ willSent = {}
    /\ bye = {}
    /\ closers = [c \in Conn |-> {}]

Goto(c, place) == handler' = [handler EXCEPT ![c] = place]

(* OnlineOfflineNotification, for the one identifier there is.             *)
Notify(what) == note' = what

Call(a, c) == /\ step' = [step EXCEPT ![a] = "test"]
              /\ target' = [target EXCEPT ![a] = c]
              /\ UNCHANGED closers
-----------------------------------------------------------------------------
(***************************************************************************)
(* Close, as actor a runs it on the connection target[a].                  *)
(***************************************************************************)
Advance(a, place) == step' = [step EXCEPT ![a] = place]

Return(a) == /\ step' = [step EXCEPT ![a] = "idle"]
             /\ target' = [target EXCEPT ![a] = None]

CloseTest(a) ==
    /\ step[a] = "test"
    /\ IF status[target[a]] = "Disconnected"
       THEN Return(a) /\ UNCHANGED closers
       ELSE /\ Advance(a, "mark")
            /\ closers' = [closers EXCEPT ![target[a]] = @ \cup {a}]
            /\ UNCHANGED target
    /\ UNCHANGED <<clients, handler, connVars, readVars, treeVars, workVars,
                   requests, note, willSent>>

CloseMark(a) ==
    /\ step[a] = "mark"
    /\ done' = [done EXCEPT ![target[a]] = TRUE]
    /\ status' = [status EXCEPT ![target[a]] = "Disconnected"]
    /\ Advance(a, "drop")
    /\ UNCHANGED <<clients, handler, open, will, readVars, treeVars, workVars,
                   requests, target, closers, note, willSent>>

(* Faulty: clears the will with the connection.                            *)
CloseDropClearsWill(a) ==
    /\ step[a] = "drop"
    /\ open' = [open EXCEPT ![target[a]] = FALSE]
    /\ will' = [will EXCEPT ![target[a]] = FALSE]
    /\ Advance(a, "remove")
    /\ UNCHANGED <<clients, handler, status, done, readVars, treeVars,
                   workVars, requests, target, closers, note, willSent>>

(* The bridge is told, then the socket is closed and the field set to nil. *)
CloseDrop(a) ==
    /\ step[a] = "drop"
    /\ open' = [open EXCEPT ![target[a]] = FALSE]
    /\ Advance(a, "remove")
    /\ UNCHANGED <<clients, handler, status, done, will, readVars, treeVars,
                   workVars, requests, target, closers, note, willSent>>

(* Faulty: removeClient is forgotten.                                      *)
CloseRemoveSkipped(a) ==
    /\ step[a] = "remove"
    /\ Advance(a, "unsubscribe")
    /\ UNCHANGED <<clients, handler, connVars, readVars, treeVars, workVars,
                   requests, target, closers, note, willSent>>

(* removeClient deletes the identifier's entry, whichever connection it is.*)
CloseRemove(a) ==
    /\ step[a] = "remove"
    /\ clients' = None
    /\ Advance(a, "unsubscribe")
    /\ UNCHANGED <<handler, connVars, readVars, treeVars, workVars, requests,
                   target, closers, note, willSent>>

CloseUnsubscribe(a) ==
    /\ step[a] = "unsubscribe"
    /\ tree' = {s \in tree : ~(s.conn = target[a] /\ s.filter \in subMap[s.conn])}
    /\ Advance(a, "offline")
    /\ UNCHANGED <<clients, handler, connVars, readVars, subMap, workVars,
                   requests, target, closers, note, willSent>>

CloseOffline(a) ==
    /\ step[a] = "offline"
    /\ Notify("offline")
    /\ Advance(a, "will")
    /\ UNCHANGED <<clients, handler, connVars, readVars, treeVars, workVars,
                   requests, target, closers, willSent>>

(* willMsg is read twice: to test it, and to publish it.                   *)
CloseWill(a) ==
    /\ step[a] = "will"
    /\ IF will[target[a]] THEN Advance(a, "publish") /\ UNCHANGED target
                          ELSE Return(a)
    /\ UNCHANGED <<clients, handler, connVars, readVars, treeVars, workVars,
                   requests, closers, note, willSent>>

(* To publish nil is a panic.  The HTTP server recovers from it; in any    *)
(* other goroutine it ends the broker.  The model lets the other actors    *)
(* run on, which adds to the behaviours and takes none away.               *)
ClosePublish(a) ==
    /\ step[a] = "publish"
    /\ IF will[target[a]]
       THEN willSent' = willSent \cup {target[a]} /\ Return(a)
       ELSE /\ IF a = Http THEN Return(a)
                           ELSE Advance(a, "panic") /\ UNCHANGED target
            /\ UNCHANGED willSent
    /\ UNCHANGED <<clients, handler, connVars, readVars, treeVars, workVars,
                   requests, closers, note>>

Crashed == \E a \in Actor : step[a] = "panic"

CloseStep(a) == \/ CloseTest(a) \/ CloseMark(a) \/ CloseDrop(a)
                \/ CloseRemove(a) \/ CloseUnsubscribe(a)
                \/ CloseOffline(a) \/ CloseWill(a) \/ ClosePublish(a)
-----------------------------------------------------------------------------
(***************************************************************************)
(* handleConnection.  A CONNECT that is malformed, not authorised or whose *)
(* CONNACK cannot be written ends it before the client is known.           *)
(***************************************************************************)
Refuse(c) ==
    /\ handler[c] = "new" /\ Goto(c, "end")
    /\ UNCHANGED <<clients, connVars, readVars, treeVars, workVars, requests,
                   closeVars, note, willSent>>

Accept(c) ==
    /\ handler[c] = "new" /\ Goto(c, "load")
    /\ UNCHANGED <<clients, connVars, readVars, treeVars, workVars, requests,
                   closeVars, note, willSent>>

(* Look the identifier up, and close the connection found.                 *)
LoadOld(c) ==
    /\ handler[c] = "load" /\ Goto(c, "store")
    /\ IF clients = None THEN UNCHANGED closeVars ELSE Call(c, clients)
    /\ UNCHANGED <<clients, connVars, readVars, treeVars, workVars, requests,
                   note, willSent>>

StoreNew(c) ==
    /\ handler[c] = "store" /\ step[c] = "idle" /\ Goto(c, "online")
    /\ clients' = c
    /\ UNCHANGED <<connVars, readVars, treeVars, workVars, requests, closeVars,
                   note, willSent>>

Online(c) ==
    /\ handler[c] = "online" /\ Goto(c, "start")
    /\ Notify("online")
    /\ UNCHANGED <<clients, connVars, readVars, treeVars, workVars, requests,
                   closeVars, willSent>>

(***************************************************************************)
(* readLoop.  It returns at once if the connection was closed before it    *)
(* began; it looks at the context between packets, not while it reads.        *)
(***************************************************************************)
Start(c) ==
    /\ handler[c] = "start" /\ Goto(c, IF open[c] THEN "select" ELSE "end")
    /\ UNCHANGED <<clients, connVars, readVars, treeVars, workVars, requests,
                   closeVars, note, willSent>>

Select(c) ==
    /\ handler[c] = "select" /\ Goto(c, IF done[c] THEN "end" ELSE "read")
    /\ UNCHANGED <<clients, connVars, readVars, treeVars, workVars, requests,
                   closeVars, note, willSent>>

(* Submit blocks while the worker's channel is full.                       *)
Submit(c, kind, f) ==
    /\ Len(queue) < MaxQueue
    /\ queue' = Append(queue, [conn |-> c, kind |-> kind, filter |-> f])
    /\ UNCHANGED task

Reading(c) == handler[c] = "read" /\ peer[c] /\ open[c]

ReadPacket(c, kind, f) ==
    /\ Reading(c) /\ requests < MaxRequests
    /\ requests' = requests + 1
    /\ Submit(c, kind, f)
    /\ Goto(c, "select")
    /\ UNCHANGED <<clients, connVars, readVars, treeVars, closeVars,
                   note, willSent>>

(* A DISCONNECT packet has been read.                                      *)
ReadDisconnect(c) ==
    /\ Reading(c) /\ Goto(c, "bye")
    /\ UNCHANGED <<clients, connVars, readVars, treeVars, workVars, requests,
                   closeVars, note, willSent>>

(* Faulty: keeps the will.                                                 *)
DisconnectKeepsWill(c, f) ==
    /\ handler[c] = "bye"
    /\ done' = [done EXCEPT ![c] = TRUE]
    /\ bye' = bye \cup {c}
    /\ Submit(c, "disconnect", f)
    /\ Goto(c, "select")
    /\ UNCHANGED <<clients, status, open, will, peer, treeVars, requests,
                   closeVars, note, willSent>>

(* It clears the will and cancels the context.                             *)
Disconnect(c, f) ==
    /\ handler[c] = "bye"
    /\ will' = [will EXCEPT ![c] = FALSE]
    /\ done' = [done EXCEPT ![c] = TRUE]
    /\ bye' = bye \cup {c}
    /\ Submit(c, "disconnect", f)
    /\ Goto(c, "select")
    /\ UNCHANGED <<clients, status, open, peer, treeVars, requests,
                   closeVars, note, willSent>>

(* Faulty: the read loop ends without a word to the worker.                *)
ReadErrorSilent(c, f) ==
    /\ handler[c] = "read" /\ ~(peer[c] /\ open[c])
    /\ Goto(c, "end")
    /\ UNCHANGED <<clients, connVars, readVars, treeVars, workVars, requests,
                   closeVars, note, willSent>>

(* The client is gone, its keepalive expired, or Close closed the socket.  *)
ReadError(c, f) ==
    /\ handler[c] = "read" /\ ~(peer[c] /\ open[c])
    /\ Submit(c, "disconnect", f)
    /\ Goto(c, "end")
    /\ UNCHANGED <<clients, connVars, readVars, treeVars, requests, closeVars,
                   note, willSent>>

PeerLost(c) ==
    /\ handler[c] # "new" /\ peer[c]
    /\ peer' = [peer EXCEPT ![c] = FALSE]
    /\ UNCHANGED <<clients, handler, connVars, bye, treeVars,
                   workVars, requests, closeVars, note, willSent>>
-----------------------------------------------------------------------------
(***************************************************************************)
(* The worker: one task after the other.                                   *)
(***************************************************************************)
Ready(kind) == /\ task = Idle /\ step[Worker] = "idle"
               /\ queue # <<>> /\ Head(queue).kind = kind
               /\ queue' = Tail(queue)

(* processClientSubscribe returns if the client is Disconnected by then.   *)
TakeSubscribe ==
    /\ Ready("sub")
    /\ task' = IF status[Head(queue).conn] = "Disconnected" THEN Idle
               ELSE [conn |-> Head(queue).conn, filter |-> Head(queue).filter,
                     at |-> "insert"]
    /\ UNCHANGED <<clients, handler, connVars, readVars, treeVars, requests,
                   closeVars, note, willSent>>

(* The topic tree gets the subscription, then the client's subMap does; a  *)
(* subscription to the same filter was taken out of both before.           *)
SubscribeInsert ==
    /\ task.at = "insert"
    /\ subMap' = [subMap EXCEPT ![task.conn] = @ \ {task.filter}]
    /\ tree' = tree \cup {[conn |-> task.conn, filter |-> task.filter]}
    /\ task' = [task EXCEPT !.at = "record"]
    /\ UNCHANGED <<clients, handler, connVars, readVars, queue, requests,
                   closeVars, note, willSent>>

(* Faulty: the subMap does not get it.                                     *)
SubscribeRecordForgotten ==
    /\ task.at = "record"
    /\ task' = Idle
    /\ UNCHANGED <<clients, handler, connVars, readVars, treeVars, queue, requests,
                   closeVars, note, willSent>>

(* The ACL or the $share syntax is against it, or the topic tree is, after *)
(* the former subscription to the filter has been taken out.               *)
SubscribeFails ==
    /\ task.at = "insert"
    /\ \/ UNCHANGED treeVars
       \/ /\ task.filter \in subMap[task.conn]
          /\ subMap' = [subMap EXCEPT ![task.conn] = @ \ {task.filter}]
          /\ tree' = tree \ {[conn |-> task.conn, filter |-> task.filter]}
    /\ task' = Idle
    /\ UNCHANGED <<clients, handler, connVars, readVars, queue, requests,
                   closeVars, note, willSent>>

SubscribeRecord ==
    /\ task.at = "record"
    /\ subMap' = [subMap EXCEPT ![task.conn] = @ \cup {task.filter}]
    /\ task' = Idle
    /\ UNCHANGED <<clients, handler, connVars, readVars, tree, queue, requests,
                   closeVars, note, willSent>>

TakeUnsubscribe ==
    /\ Ready("unsub")
    /\ LET c == Head(queue).conn
           f == Head(queue).filter
       IN  IF status[c] = "Connected" /\ f \in subMap[c]
           THEN /\ tree' = tree \ {[conn |-> c, filter |-> f]}
                /\ subMap' = [subMap EXCEPT ![c] = @ \ {f}]
           ELSE UNCHANGED treeVars
    /\ UNCHANGED <<clients, handler, connVars, readVars, task, requests, closeVars,
                   note, willSent>>

TakeDisconnect ==
    /\ Ready("disconnect")
    /\ Call(Worker, Head(queue).conn)
    /\ UNCHANGED <<clients, handler, connVars, readVars, treeVars, task, requests,
                   note, willSent>>

(* DELETE api/v1/connections/:clientid closes the connection it finds.     *)
HttpDelete ==
    /\ requests < MaxRequests /\ step[Http] = "idle"
    /\ requests' = requests + 1
    /\ IF clients = None THEN UNCHANGED closeVars ELSE Call(Http, clients)
    /\ UNCHANGED <<clients, handler, connVars, readVars, treeVars, workVars,
                   note, willSent>>

(* Every connection has come and gone, or the broker has crashed.          *)
Stopped ==
    /\ \/ Crashed
       \/ /\ queue = <<>> /\ task = Idle
          /\ \A a \in Actor : step[a] = "idle"
          /\ \A c \in Conn : handler[c] = "end"
    /\ UNCHANGED vars
-----------------------------------------------------------------------------
HandlerStep(c) ==
    \/ LoadOld(c) \/ StoreNew(c) \/ Online(c) \/ Start(c) \/ Select(c)
    \/ \E f \in Filter : ReadError(c, f) \/ Disconnect(c, f)

ClientStep(c) ==
    \/ Refuse(c) \/ Accept(c) \/ PeerLost(c) \/ ReadDisconnect(c)
    \/ \E f \in Filter : ReadPacket(c, "sub", f) \/ ReadPacket(c, "unsub", f)

WorkerStep == \/ TakeSubscribe \/ SubscribeInsert \/ SubscribeFails
              \/ SubscribeRecord \/ TakeUnsubscribe \/ TakeDisconnect

Next == \/ \E c \in Conn : HandlerStep(c) \/ ClientStep(c)
        \/ \E a \in Actor : CloseStep(a)
        \/ WorkerStep \/ HttpDelete \/ Stopped

Spec == Init /\ [][Next]_vars

(* Goroutines that can go on do: nothing they do here waits for a client.  *)
(* What clients and HTTP users do is up to them.                           *)
Fairness == /\ \A c \in Conn : WF_vars(HandlerStep(c))
            /\ \A a \in Actor : WF_vars(CloseStep(a))
            /\ WF_vars(WorkerStep)

FairSpec == Spec /\ Fairness
-----------------------------------------------------------------------------
(* The registry never keeps a connection that has been closed: an entry is *)
(* Disconnected only while the actor that closed it is about to remove it. *)
NoStaleEntry ==
    clients # None /\ status[clients] = "Disconnected" =>
       \E a \in Actor : target[a] = clients /\ step[a] \in {"drop", "remove"}

(* A connection that only the worker closed leaves no subscription behind: *)
(* its SUBSCRIBEs go through the same queue, the ones read before the end  *)
(* of the connection are handled before Close and none is after it.        *)
WorkerClosesClean ==
    \A c \in Conn :
       /\ status[c] = "Disconnected" /\ closers[c] = {Worker}
       /\ \A a \in Actor : target[a] # c
       => \A s \in tree : s.conn # c

(* The will of a connection is not published once the read loop has dealt  *)
(* with its DISCONNECT, whoever is closing the connection by then.         *)
WillOnlyIfDropped ==
    [][\A c \in bye : c \in willSent' => c \in willSent]_vars

(* The peer of a connection that is being read vanishes.                   *)
Dropped(c) == handler[c] = "read" /\ ~peer[c]

(* A dropped connection is closed and leaves the registry, unless the      *)
(* broker crashes first.                                                   *)
DroppedIsClosed ==
    \A c \in Conn :
       Dropped(c) ~> (Crashed \/ (status[c] = "Disconnected" /\ clients # c))

(* A dropped connection's will is published, unless the broker crashes.    *)
DroppedSendsWill ==
    \A c \in Conn : (Dropped(c) /\ will[c]) ~> (Crashed \/ c \in willSent)
=============================================================================
