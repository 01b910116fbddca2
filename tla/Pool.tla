--------------------------------- MODULE Pool --------------------------------
(***************************************************************************)
(* Clients that share workers: packets read by one goroutine per           *)
(* connection are handled by the worker its client identifier hashes to,   *)
(* which writes what they publish to the sockets of the subscribers        *)
(* (readLoop, WriterPacket and processClientPublish in broker/client.go,   *)
(* SubmitWork in broker/broker.go, pool/fixpool.go).                       *)
(*                                                                         *)
(* A write to a socket that is full waits, and the worker with it: for the *)
(* client to read, or for somebody to close the connection.  A client that *)
(* neither reads nor sends is closed by its own worker once its read loop  *)
(* has come to the read deadline.                                          *)
(***************************************************************************)
EXTENDS Integers, Sequences, FiniteSetsExt, Functions

CONSTANTS
    Client,
    Worker,
    Home(_),     \* the worker a client identifier hashes to
    Publisher,   \* the clients that publish, all to the same topic
    Subscriber,  \* the clients subscribed to it
    Acked,       \* the publishers that use QoS 1 and are sent a PUBACK
    MaxQueue,    \* tasks a worker's channel holds: 1024 in the code
    SocketSize,  \* packets a socket holds in one direction
    MaxSent,     \* packets the clients publish altogether
    MaxHung,     \* clients that hang
    None

ASSUME HomeAssumption ==
    /\ \A c \in Client : Home(c) \in Worker
    /\ Publisher \subseteq Client /\ Subscriber \subseteq Client
    /\ Acked \subseteq Publisher

ASSUME BoundAssumption ==
    /\ MaxQueue \in Nat \ {0} /\ SocketSize \in Nat \ {0}
    /\ MaxSent \in Nat /\ MaxHung \in Nat

(* Packet number 0 is the DISCONNECT that readLoop submits at its end.     *)
Packet == [from : Client, n : Nat]

ASSUME NoneAssumption ==
    /\ None \notin Client /\ None \notin Packet
    /\ \A S \in SUBSET Subscriber : S # None

VARIABLES
    peer,   \* per client, live, or hung: it neither sends nor reads
    open,   \* the clients that have not been closed (status Connected)
    sent,   \* per client, the number of packets it has published
    inbox,  \* per client, packets on their way to the broker
    reader, \* per client, where its readLoop is
    hold,   \* per client, the packet its readLoop is submitting
    queue,  \* per worker, the tasks in its channel
    task,   \* per worker, the packet it is handling, or None
    left,   \* per worker, the clients it has yet to write to
    cur,    \* per worker, the client it is writing to, or None
    outbox, \* per client, packets on their way to it
    last    \* per subscriber and publisher, the last packet received

clientVars == <<peer, sent, inbox>>
readVars == <<reader, hold>>
workVars == <<task, left, cur>>
vars == <<clientVars, open, readVars, queue, workVars, outbox, last>>

TypeOK ==
    /\ peer \in [Client -> {"live", "hung"}] /\ open \subseteq Client
    /\ sent \in [Client -> Nat]
    /\ inbox \in [Client -> Seq(Packet)] /\ outbox \in [Client -> Seq(Packet)]
    /\ reader \in [Client -> {"read", "submit", "end"}]
    /\ hold \in [Client -> Packet \cup {None}]
    /\ queue \in [Worker -> Seq(Packet)]
    /\ task \in [Worker -> Packet \cup {None}]
    /\ left \in [Worker -> {None} \cup SUBSET Subscriber]
    /\ cur \in [Worker -> Client \cup {None}]
    /\ last \in [Subscriber -> [Publisher -> Nat]]

Init ==
    /\ peer = [c \in Client |-> "live"]
    /\ open = Client
    /\ sent = [c \in Client |-> 0]
    /\ inbox = [c \in Client |-> <<>>]
    /\ reader = [c \in Client |-> "read"]
    /\ hold = [c \in Client |-> None]
    /\ queue = [w \in Worker |-> <<>>]
    /\ task = [w \in Worker |-> None]
    /\ left = [w \in Worker |-> {}]
    /\ cur = [w \in Worker |-> None]
    /\ outbox = [c \in Client |-> <<>>]
    /\ last = [s \in Subscriber |-> [p \in Publisher |-> 0]]
-----------------------------------------------------------------------------
(***************************************************************************)
(* The clients.  A live one reads whether or not it has something to send. *)
(***************************************************************************)
Send(c) ==
    /\ c \in Publisher \cap open /\ peer[c] = "live"
    /\ SumFunction(sent) < MaxSent /\ Len(inbox[c]) < SocketSize
    /\ sent' = [sent EXCEPT ![c] = @ + 1]
    /\ inbox' = [inbox EXCEPT ![c] = Append(@, [from |-> c, n |-> sent[c] + 1])]
    /\ UNCHANGED <<peer, open, readVars, queue, workVars, outbox, last>>

Receive(c) ==
    /\ peer[c] = "live" /\ outbox[c] # <<>>
    /\ outbox' = [outbox EXCEPT ![c] = Tail(@)]
    /\ LET p == Head(outbox[c]) IN
       last' = IF c \in Subscriber /\ p.n # 0
               THEN [last EXCEPT ![c][p.from] = p.n] ELSE last
    /\ UNCHANGED <<clientVars, open, readVars, queue, workVars>>

Hang(c) ==
    /\ peer[c] = "live" /\ c \in open
    /\ Cardinality({d \in Client : peer[d] = "hung"}) < MaxHung
    /\ peer' = [peer EXCEPT ![c] = "hung"]
    /\ UNCHANGED <<sent, inbox, open, readVars, queue, workVars, outbox, last>>

(* Close, as far as sockets go: what is on its way is lost.                *)
Close(c) ==
    /\ open' = open \ {c}
    /\ inbox' = [inbox EXCEPT ![c] = <<>>]
    /\ outbox' = [outbox EXCEPT ![c] = <<>>]

(* DELETE api/v1/connections/:clientid, here of clients that hang.         *)
HttpDelete(c) ==
    /\ c \in open /\ peer[c] = "hung" /\ Close(c)
    /\ UNCHANGED <<peer, sent, readVars, queue, workVars, last>>
-----------------------------------------------------------------------------
(***************************************************************************)
(* readLoop: one packet at a time, each submitted before the next is read. *)
(***************************************************************************)
Read(c) ==
    /\ reader[c] = "read" /\ c \in open /\ inbox[c] # <<>>
    /\ reader' = [reader EXCEPT ![c] = "submit"]
    /\ hold' = [hold EXCEPT ![c] = Head(inbox[c])]
    /\ inbox' = [inbox EXCEPT ![c] = Tail(@)]
    /\ UNCHANGED <<peer, sent, open, queue, workVars, outbox, last>>

(* Faulty: the loop ends and leaves the connection as it is.               *)
ReadFailsSilently(c) ==
    /\ reader[c] = "read"
    /\ c \notin open \/ (peer[c] = "hung" /\ inbox[c] = <<>>)
    /\ reader' = [reader EXCEPT ![c] = "end"]
    /\ UNCHANGED <<clientVars, hold, open, queue, workVars, outbox, last>>

(* The connection was closed, or nothing came before the read deadline.    *)
ReadFails(c) ==
    /\ reader[c] = "read"
    /\ c \notin open \/ (peer[c] = "hung" /\ inbox[c] = <<>>)
    /\ reader' = [reader EXCEPT ![c] = "submit"]
    /\ hold' = [hold EXCEPT ![c] = [from |-> c, n |-> 0]]
    /\ UNCHANGED <<clientVars, open, queue, workVars, outbox, last>>

(* Close cancelled the context before the loop came round to it.           *)
Cancelled(c) ==
    /\ reader[c] = "read" /\ c \notin open
    /\ reader' = [reader EXCEPT ![c] = "end"]
    /\ UNCHANGED <<clientVars, hold, open, queue, workVars, outbox, last>>

Submitted(c) ==
    /\ reader[c] = "submit"
    /\ reader' = [reader EXCEPT ![c] = IF hold[c].n = 0 THEN "end" ELSE "read"]
    /\ hold' = [hold EXCEPT ![c] = None]
    /\ UNCHANGED <<clientVars, open, workVars, outbox, last>>

(* Faulty: gives a packet to whichever worker has room; drops it if the    *)
(* channel is full.                                                        *)
SubmitToAny(c) ==
    /\ Submitted(c)
    /\ \E w \in Worker : /\ Len(queue[w]) < MaxQueue
                         /\ queue' = [queue EXCEPT ![w] = Append(@, hold[c])]

SubmitOrDrop(c) ==
    /\ Submitted(c)
    /\ queue' = [queue EXCEPT ![Home(c)] =
                   IF Len(@) < MaxQueue THEN Append(@, hold[c]) ELSE @]

(* Submit waits while the channel is full.                                 *)
Submit(c) ==
    /\ Submitted(c)
    /\ Len(queue[Home(c)]) < MaxQueue
    /\ queue' = [queue EXCEPT ![Home(c)] = Append(@, hold[c])]
-----------------------------------------------------------------------------
(***************************************************************************)
(* A worker.  A PUBLISH is acknowledged first if it is of QoS 1, then the  *)
(* subscribers are looked up and written to one after the other, in an     *)
(* order the publisher does not know.                                      *)
(***************************************************************************)
Take(w) ==
    /\ task[w] = None /\ queue[w] # <<>> /\ Head(queue[w]).n # 0
    /\ queue' = [queue EXCEPT ![w] = Tail(@)]
    /\ LET p == Head(queue[w]) IN
          /\ task' = [task EXCEPT ![w] = p]
          /\ cur' = [cur EXCEPT ![w] = IF p.from \in Acked THEN p.from ELSE None]
    /\ left' = [left EXCEPT ![w] = None]
    /\ UNCHANGED <<clientVars, open, readVars, outbox, last>>

TakeDisconnect(w) ==
    /\ task[w] = None /\ queue[w] # <<>> /\ Head(queue[w]).n = 0
    /\ queue' = [queue EXCEPT ![w] = Tail(@)]
    /\ Close(Head(queue[w]).from)
    /\ UNCHANGED <<peer, sent, readVars, workVars, last>>

Lookup(w) ==
    /\ task[w] # None /\ cur[w] = None /\ left[w] = None
    /\ left' = [left EXCEPT ![w] = Subscriber \cap open]
    /\ UNCHANGED <<clientVars, open, readVars, queue, task, cur, outbox, last>>

Pick(w) ==
    /\ cur[w] = None /\ left[w] # None
    /\ \E s \in left[w] : /\ cur' = [cur EXCEPT ![w] = s]
                          /\ left' = [left EXCEPT ![w] = @ \ {s}]
    /\ UNCHANGED <<clientVars, open, readVars, queue, task, outbox, last>>

(* WriterPacket: the PUBACK, before the lookup, or the packet itself.      *)
Written(w) == IF left[w] = None THEN [task[w] EXCEPT !.n = 0] ELSE task[w]

Write(w) ==
    /\ cur[w] \in open /\ Len(outbox[cur[w]]) < SocketSize
    /\ outbox' = [outbox EXCEPT ![cur[w]] = Append(@, Written(w))]
    /\ cur' = [cur EXCEPT ![w] = None]
    /\ UNCHANGED <<clientVars, open, readVars, queue, task, left, last>>

(* A closed client is passed over: WriterPacket finds it Disconnected, or  *)
(* Close ends a write that is waiting.                                     *)
WriteClosed(w) ==
    /\ cur[w] # None /\ cur[w] \notin open
    /\ cur' = [cur EXCEPT ![w] = None]
    /\ UNCHANGED <<clientVars, open, readVars, queue, task, left, outbox, last>>

(* In that case a PUBACK that fails is an error, and the publish is over.  *)
AckFails(w) ==
    /\ cur[w] # None /\ cur[w] \notin open /\ left[w] = None
    /\ cur' = [cur EXCEPT ![w] = None]
    /\ task' = [task EXCEPT ![w] = None]
    /\ left' = [left EXCEPT ![w] = {}]
    /\ UNCHANGED <<clientVars, open, readVars, queue, outbox, last>>

Finish(w) ==
    /\ task[w] # None /\ cur[w] = None /\ left[w] = {}
    /\ task' = [task EXCEPT ![w] = None]
    /\ UNCHANGED <<clientVars, open, readVars, queue, left, cur, outbox, last>>

ClientStep(c) == Send(c) \/ Hang(c) \/ HttpDelete(c)

ReaderStep(c) == Read(c) \/ ReadFails(c) \/ Cancelled(c)

WorkerStep(w) == \/ Take(w) \/ TakeDisconnect(w) \/ Lookup(w) \/ Pick(w)
                 \/ WriteClosed(w) \/ AckFails(w) \/ Finish(w)

Next == \/ \E c \in Client : ClientStep(c) \/ Receive(c) \/ ReaderStep(c) \/ Submit(c)
        \/ \E w \in Worker : WorkerStep(w) \/ Write(w)

Spec == Init /\ [][Next]_vars

(* Goroutines that can go on do, a live client reads, and a read deadline  *)
(* passes.  Who waits for a place in a channel, or for the lock of a       *)
(* client's socket, comes to it in his turn.  Nothing makes clients send   *)
(* or anybody use the HTTP API.                                            *)
Fairness == /\ \A c \in Client : /\ WF_vars(Receive(c)) /\ WF_vars(ReaderStep(c))
                                 /\ SF_vars(Submit(c))
            /\ \A w \in Worker : WF_vars(WorkerStep(w)) /\ SF_vars(Write(w))

FairSpec == Spec /\ Fairness
-----------------------------------------------------------------------------
(* The subscriber receives the packets of each publisher in the order in   *)
(* which they were sent, and as long as both are connected none is left    *)
(* out: they all pass one read loop, one channel and one worker, whatever  *)
(* the other workers write to the subscriber in between.                   *)
InOrder ==
    \A s \in Subscriber, p \in Publisher :
       LET all == outbox[s]
           own(i) == all[i].from = p /\ all[i].n # 0
       IN  /\ \A i \in 1..Len(all) : own(i) => all[i].n > last[s][p]
           /\ \A i, j \in 1..Len(all) :
                 i < j /\ own(i) /\ own(j) => all[i].n < all[j].n
           /\ {s, p} \subseteq open =>
                 \A i \in 1..Len(all) : own(i) =>
                    \A n \in (last[s][p] + 1)..(all[i].n - 1) :
                       \E j \in 1..(i - 1) : own(j) /\ all[j].n = n

BlockedOn(w, s) == /\ cur[w] = s /\ s \in open /\ peer[s] = "hung"
                   /\ Len(outbox[s]) = SocketSize

(* The worker waits, through hung clients, for itself.                     *)
Deadlocked(w) ==
    \E W \in SUBSET Worker :
       /\ w \in W
       /\ \A v \in W : \E s \in Client : BlockedOn(v, s) /\ Home(s) \in W

(* A hung client holds up the workers that write to it only until its read *)
(* deadline, unless each of the workers that could close such clients is   *)
(* itself held up by one of them.                                          *)
FreedInTheEnd ==
    \A w \in Worker, s \in Client :
       BlockedOn(w, s) ~> (~BlockedOn(w, s) \/ Deadlocked(w))

(* What a client publishes reaches every subscriber that goes on reading,  *)
(* however full channels and sockets are and whoever else hangs, unless    *)
(* the publisher's connection ends or its worker waits for itself.         *)
PublishedArrives ==
    \A p \in Publisher, s \in Subscriber, n \in 1..MaxSent :
       (sent[p] = n) ~> \/ last[s][p] >= n
                        \/ p \notin open \/ s \notin open
                        \/ peer[s] = "hung" \/ Deadlocked(Home(p))
=============================================================================
