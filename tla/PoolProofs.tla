------------------------------ MODULE PoolProofs ------------------------------
(***************************************************************************)
(* For any number of clients, workers and packets, and channels and        *)
(* sockets of any size: a subscriber receives the packets of a publisher   *)
(* in the order they were sent, and all of them while both are connected.  *)
(* The invariant lines up all numbers of a publisher that are in the       *)
(* broker: received, on a subscriber's socket, with the worker, in its     *)
(* channel, with the read loop, on the publisher's socket.                 *)
(***************************************************************************)
EXTENDS Pool, TLAPS

(* The numbers of the packets of p in a sequence of packets, other than 0, *)
(* and whether they rise.                                                  *)
Own(q, i, p) == q[i].from = p /\ q[i].n # 0

Numbers(q, p) == {q[i].n : i \in {j \in 1..Len(q) : Own(q, j, p)}}

Rising(q, p) == \A i, j \in 1..Len(q) :
                   i < j /\ Own(q, i, p) /\ Own(q, j, p) => q[i].n < q[j].n

Below(A, B) == \A a \in A, b \in B : a < b

Senders(q) == {q[i].from : i \in 1..Len(q)}

(* What no worker has taken of the packets of p: in the channel, with the  *)
(* read loop and on the socket.                                            *)
Queued(p) == Numbers(queue[Home(p)], p)
Holding(p) == IF hold[p] # None /\ hold[p].n # 0 THEN {hold[p].n} ELSE {}
Incoming(p) == Numbers(inbox[p], p)
Coming(p) == Queued(p) \cup Holding(p) \cup Incoming(p)

(* Number k is of a packet that left the channel before those.             *)
Before(p, k) == k <= sent[p] /\ Below({k}, Coming(p))

(* Each packet is where its sender's packets belong.                       *)
InPlace ==
    /\ \A c \in Client :
          /\ Senders(inbox[c]) \subseteq {c}
          /\ hold[c] # None => hold[c].from = c
          /\ reader[c] = "read" => hold[c] = None
          /\ reader[c] = "submit" => hold[c] # None
    /\ \A w \in Worker :
          /\ \A c \in Senders(queue[w]) : Home(c) = w
          /\ task[w] # None => Home(task[w].from) = w /\ task[w].n # 0

(* A worker without a task has nobody to write to, and whom it writes to   *)
(* it does not write to again.                                             *)
Busy ==
    \A w \in Worker : /\ task[w] = None => left[w] = {} /\ cur[w] = None
                      /\ left[w] # None => cur[w] \notin left[w]

(* Packets wait in the order they were sent in.                            *)
Upstream ==
    \A p \in Client :
       /\ Rising(inbox[p], p) /\ Rising(queue[Home(p)], p)
       /\ Below(Queued(p), Holding(p) \cup Incoming(p))
       /\ Below(Holding(p), Incoming(p))
       /\ \A k \in Coming(p) : k <= sent[p]

(* What was written to a subscriber precedes all that.                     *)
Downstream ==
    \A s \in Subscriber, p \in Publisher :
       /\ Rising(outbox[s], p)
       /\ Below({last[s][p]}, Numbers(outbox[s], p))
       /\ Before(p, last[s][p])
       /\ \A k \in Numbers(outbox[s], p) : Before(p, k)

(* The worker has yet to write to s.                                       *)
Pending(w, s) == left[w] = None \/ s \in left[w] \/ cur[w] = s

(* A worker's task comes between what was written to those it has yet to   *)
(* write to, and what no worker has taken.                                 *)
InTurn(w) ==
    /\ Before(task[w].from, task[w].n)
    /\ \A s \in Subscriber : task[w].from \in Publisher /\ Pending(w, s) =>
          /\ last[s][task[w].from] < task[w].n
          /\ Below(Numbers(outbox[s], task[w].from), {task[w].n})

Between == \A w \in Worker : task[w] # None => InTurn(w)

IInv == /\ TypeOK /\ InPlace /\ Busy /\ Upstream /\ Downstream /\ Between
-----------------------------------------------------------------------------
(* Packets have numbers and senders.                                       *)
LEMMA NumbersNat ==
    ASSUME NEW q \in Seq(Packet), NEW p
    PROVE  Numbers(q, p) \subseteq Nat \ {0} /\ Senders(q) \subseteq Client
<1>1. \A i \in 1..Len(q) : q[i] \in Packet
  OBVIOUS
<1>2. \A i \in 1..Len(q) : q[i].n \in Nat /\ q[i].from \in Client
  BY <1>1 DEF Packet
<1> QED
  BY <1>2 DEF Numbers, Own, Senders

(* Close leaves a socket empty.                                            *)
LEMMA NoNumbers ==
    ASSUME NEW p
    PROVE  /\ <<>> \in Seq(Packet) /\ Senders(<<>>) = {}
           /\ Numbers(<<>>, p) = {} /\ Rising(<<>>, p)
BY DEF Numbers, Rising, Senders

(* A packet goes to the end of a socket or channel.                        *)
LEMMA NumbersAppend ==
    ASSUME NEW q \in Seq(Packet), NEW e \in Packet, NEW p
    PROVE  /\ Append(q, e) \in Seq(Packet)
           /\ Senders(Append(q, e)) = Senders(q) \cup {e.from}
           /\ Numbers(Append(q, e), p) =
                Numbers(q, p) \cup (IF e.from = p /\ e.n # 0 THEN {e.n} ELSE {})
           /\ /\ Rising(q, p)
              /\ e.from = p /\ e.n # 0 => Below(Numbers(q, p), {e.n})
              => Rising(Append(q, e), p)
<1> DEFINE r == Append(q, e)
<1>1. /\ Len(q) \in Nat /\ Len(r) = Len(q) + 1 /\ r \in Seq(Packet)
      /\ \A i \in 1..Len(q) : r[i] = q[i]
      /\ r[Len(q) + 1] = e
  OBVIOUS
<1> HIDE DEF r
<1>2. \A i \in 1..Len(r) : i \in 1..Len(q) \/ i = Len(q) + 1
  BY <1>1
<1>3. Senders(r) = Senders(q) \cup {e.from}
  BY <1>1, <1>2 DEF Senders
<1>4. Numbers(r, p) = Numbers(q, p) \cup (IF e.from = p /\ e.n # 0 THEN {e.n} ELSE {})
  BY <1>1, <1>2 DEF Numbers, Own
<1>5. ASSUME Rising(q, p), e.from = p /\ e.n # 0 => Below(Numbers(q, p), {e.n})
      PROVE  Rising(r, p)
  <2> SUFFICES ASSUME NEW i \in 1..Len(r), NEW j \in 1..Len(r), i < j,
                      Own(r, i, p), Own(r, j, p)
               PROVE  r[i].n < r[j].n
    BY DEF Rising
  <2>1. i \in 1..Len(q) /\ r[i] = q[i] /\ Own(q, i, p)
    BY <1>1, <1>2 DEF Own
  <2>2. CASE j \in 1..Len(q)
    BY <1>1, <1>5, <2>1, <2>2 DEF Rising, Own
  <2>3. CASE j = Len(q) + 1
    <3>1. r[j] = e /\ e.from = p /\ e.n # 0
      BY <1>1, <2>3 DEF Own
    <3>2. q[i].n \in Numbers(q, p)
      BY <2>1 DEF Numbers
    <3> QED
      BY <1>5, <2>1, <3>1, <3>2 DEF Below
  <2> QED
    BY <1>2, <2>2, <2>3
<1> QED
  BY <1>1, <1>3, <1>4, <1>5 DEF r

(* The first packet is taken.                                              *)
LEMMA NumbersTail ==
    ASSUME NEW q \in Seq(Packet), q # <<>>, NEW p
    PROVE  /\ Head(q) \in Packet /\ Tail(q) \in Seq(Packet)
           /\ Head(q).from \in Senders(q)
           /\ Senders(Tail(q)) \subseteq Senders(q)
           /\ Numbers(Tail(q), p) \subseteq Numbers(q, p)
           /\ Head(q).from = p /\ Head(q).n # 0 => Head(q).n \in Numbers(q, p)
           /\ Rising(q, p) =>
                 /\ Rising(Tail(q), p)
                 /\ Head(q).from = p /\ Head(q).n # 0 =>
                       Below({Head(q).n}, Numbers(Tail(q), p))
<1> DEFINE r == Tail(q)
           e == Head(q)
<1>1. /\ Len(q) \in Nat \ {0} /\ Len(r) = Len(q) - 1
      /\ r \in Seq(Packet) /\ e \in Packet
      /\ \A i \in 1..Len(r) : r[i] = q[i + 1]
      /\ e = q[1]
  OBVIOUS
<1> HIDE DEF r, e
<1>2. /\ \A i \in 1..Len(r) : i + 1 \in 1..Len(q) /\ 1 < i + 1
      /\ 1 \in 1..Len(q)
  BY <1>1
<1>3. e.from \in Senders(q) /\ Senders(r) \subseteq Senders(q)
  BY <1>1, <1>2 DEF Senders
<1>4. /\ Numbers(r, p) \subseteq Numbers(q, p)
      /\ e.from = p /\ e.n # 0 => e.n \in Numbers(q, p)
  BY <1>1, <1>2 DEF Numbers, Own
<1>5. ASSUME Rising(q, p)
      PROVE  /\ Rising(r, p)
             /\ e.from = p /\ e.n # 0 => Below({e.n}, Numbers(r, p))
  <2>1. Rising(r, p)
    <3> SUFFICES ASSUME NEW i \in 1..Len(r), NEW j \in 1..Len(r), i < j,
                        Own(r, i, p), Own(r, j, p)
                 PROVE  r[i].n < r[j].n
      BY DEF Rising
    <3>1. i + 1 < j + 1 /\ Own(q, i + 1, p) /\ Own(q, j + 1, p)
      BY <1>1 DEF Own
    <3> QED
      BY <1>1, <1>2, <1>5, <3>1 DEF Rising
  <2>2. ASSUME e.from = p, e.n # 0, NEW i \in 1..Len(r), Own(r, i, p)
        PROVE  e.n < r[i].n
    <3>1. Own(q, 1, p) /\ Own(q, i + 1, p)
      BY <1>1, <2>2 DEF Own
    <3> QED
      BY <1>1, <1>2, <1>5, <3>1 DEF Rising
  <2> QED
    BY <2>1, <2>2 DEF Below, Numbers
<1> QED
  BY <1>1, <1>3, <1>4, <1>5 DEF r, e
-----------------------------------------------------------------------------
(* The numbers that have not been taken yet are such.                      *)
LEMMA ComingNat ==
    ASSUME TypeOK, NEW p \in Client
    PROVE  /\ Home(p) \in Worker
           /\ queue[Home(p)] \in Seq(Packet) /\ inbox[p] \in Seq(Packet)
           /\ Queued(p) \subseteq Nat /\ Holding(p) \subseteq Nat
           /\ Incoming(p) \subseteq Nat /\ Coming(p) \subseteq Nat
           /\ sent[p] \in Nat
<1>1. /\ Home(p) \in Worker
      /\ queue[Home(p)] \in Seq(Packet) /\ inbox[p] \in Seq(Packet)
  BY HomeAssumption DEF TypeOK
<1>2. Queued(p) \subseteq Nat /\ Incoming(p) \subseteq Nat
  BY <1>1, NumbersNat DEF Queued, Incoming
<1>3. Holding(p) \subseteq Nat
  BY DEF Holding, TypeOK, Packet
<1> QED
  BY <1>1, <1>2, <1>3 DEF Coming, TypeOK

(* A step that puts nothing in front of the packets that are on their way. *)
Advances ==
    \A p \in Client : /\ sent'[p] \in Nat /\ sent'[p] >= sent[p]
                      /\ \A k \in Coming(p)' : k \in Nat /\ (k \in Coming(p) \/ k > sent[p])

(* Then what came before them still does.                                   *)
LEMMA BeforeKept ==
    ASSUME TypeOK, Advances, NEW p \in Client, NEW k \in Nat, Before(p, k)
    PROVE  Before(p, k)'
<1>1. sent[p] \in Nat /\ Coming(p) \subseteq Nat
  BY ComingNat
<1>2. k <= sent'[p]
  BY <1>1 DEF Advances, Before
<1>3. ASSUME NEW x \in Coming(p)' PROVE k < x
  <2>1. CASE x \in Coming(p)
    BY <2>1 DEF Before, Below
  <2>2. CASE x \notin Coming(p)
    <3>1. x > sent[p] /\ k <= sent[p] /\ x \in Nat
      BY <1>3, <2>2 DEF Advances, Before
    <3> QED
      BY <1>1, <3>1
  <2> QED
    BY <2>1, <2>2
<1> QED
  BY <1>2, <1>3 DEF Before, Below

(* Such a step keeps what was written in its place, if it writes nothing   *)
(* and nothing is received.                                                *)
LEMMA DownstreamKept ==
    ASSUME TypeOK, Downstream, Advances, last' = last,
           \A s \in Subscriber : outbox'[s] = outbox[s] \/ outbox'[s] = <<>>
    PROVE  Downstream'
<1> SUFFICES ASSUME NEW s \in Subscriber, NEW p \in Publisher
             PROVE  /\ Rising(outbox'[s], p)
                    /\ Below({last[s][p]}, Numbers(outbox'[s], p))
                    /\ Before(p, last[s][p])'
                    /\ \A k \in Numbers(outbox'[s], p) : Before(p, k)'
  BY DEF Downstream
<1>1. /\ p \in Client /\ s \in Client /\ last[s][p] \in Nat
      /\ outbox[s] \in Seq(Packet)
  BY HomeAssumption DEF TypeOK
<1>2. Rising(outbox'[s], p) /\ Numbers(outbox'[s], p) \subseteq Numbers(outbox[s], p)
  BY NoNumbers DEF Downstream
<1>3. Before(p, last[s][p])'
  BY <1>1, BeforeKept DEF Downstream
<1>4. \A k \in Numbers(outbox'[s], p) : k \in Nat /\ Before(p, k)
  BY <1>1, <1>2, NumbersNat DEF Downstream
<1>5. \A k \in Numbers(outbox'[s], p) : Before(p, k)'
  BY <1>1, <1>4, BeforeKept
<1> QED
  BY <1>2, <1>3, <1>5 DEF Below, Downstream

(* And the task of a worker that writes no more than it had to, and        *)
(* to whose subscribers nobody else writes packets of that publisher.      *)
LEMMA TaskKept ==
    ASSUME TypeOK, Between, Advances, last' = last,
           NEW w \in Worker, task[w] # None, task'[w] = task[w],
           \A s \in Subscriber : Pending(w, s)' =>
              /\ Pending(w, s)
              /\ Numbers(outbox'[s], task[w].from) \subseteq Numbers(outbox[s], task[w].from)
    PROVE  InTurn(w)'
<1>1. /\ task[w] \in Packet /\ task[w].from \in Client /\ task[w].n \in Nat
  BY DEF TypeOK, Packet
<1>2. Before(task[w].from, task[w].n)'
  <2> DEFINE c == task[w].from
             n == task[w].n
  <2>1. c \in Client /\ n \in Nat /\ Before(c, n)
    BY <1>1 DEF Between, InTurn
  <2>2. c' = c /\ n' = n
    OBVIOUS
  <2> HIDE DEF c, n
  <2>3. \A k \in Nat, p \in Client : Before(p, k) => Before(p, k)'
    BY BeforeKept
  <2> QED
    BY <2>1, <2>2, <2>3 DEF c, n
<1>3. ASSUME NEW s \in Subscriber, task[w].from \in Publisher, Pending(w, s)'
      PROVE  /\ last[s][task[w].from] < task[w].n
             /\ Below(Numbers(outbox'[s], task[w].from), {task[w].n})
  BY <1>3 DEF Between, InTurn, Below
<1> QED
  BY <1>2, <1>3 DEF InTurn

(* All tasks, if no worker takes one on and nothing is written.            *)
LEMMA BetweenKept ==
    ASSUME TypeOK, Between, Advances, last' = last,
           \A s \in Subscriber : outbox'[s] = outbox[s] \/ outbox'[s] = <<>>,
           \A w \in Worker : task'[w] # None =>
              /\ task'[w] = task[w]
              /\ \A s \in Subscriber : Pending(w, s)' => Pending(w, s)
    PROVE  Between'
<1>1. \A s \in Subscriber : \A p : Numbers(outbox'[s], p) \subseteq Numbers(outbox[s], p)
  BY NoNumbers
<1>2. ASSUME NEW w \in Worker, task'[w] # None PROVE InTurn(w)'
  BY <1>1, <1>2, TaskKept
<1> QED
  BY <1>2 DEF Between

(* What a step does to the packets on their way if it only takes away.     *)
LEMMA Shrinks ==
    ASSUME TypeOK, Upstream, sent' = sent,
           \A p \in Client :
              /\ Queued(p)' \subseteq Queued(p) /\ Holding(p)' \subseteq Holding(p)
              /\ Incoming(p)' \subseteq Incoming(p)
              /\ Rising(inbox'[p], p) /\ Rising(queue'[Home(p)], p)
    PROVE  Advances /\ Upstream'
<1>1. \A p \in Client : /\ Coming(p)' \subseteq Coming(p) /\ Coming(p) \subseteq Nat
                        /\ sent[p] \in Nat
  BY ComingNat DEF Coming
<1>2. Advances
  BY <1>1 DEF Advances
<1>3. Upstream'
  <2> SUFFICES ASSUME NEW p \in Client
               PROVE  /\ Below(Queued(p)', Holding(p)' \cup Incoming(p)')
                      /\ Below(Holding(p)', Incoming(p)')
                      /\ \A k \in Coming(p)' : k <= sent'[p]
    BY DEF Upstream
  <2> QED
    BY <1>1 DEF Upstream, Below
<1> QED
  BY <1>2, <1>3
-----------------------------------------------------------------------------
(* Nothing is on its way when the broker starts.                           *)
LEMMA InitHolds == Init => IInv
<1> SUFFICES ASSUME Init PROVE IInv
  OBVIOUS
<1> USE HomeAssumption DEF Init
<1>1. TypeOK
  BY DEF TypeOK
<1>2. \A p \in Client : /\ Queued(p) = {} /\ Holding(p) = {} /\ Incoming(p) = {}
                        /\ Coming(p) = {}
  BY NoNumbers DEF Queued, Holding, Incoming, Coming
<1>3. InPlace /\ Busy
  BY NoNumbers DEF InPlace, Busy
<1>4. Upstream
  BY <1>2, NoNumbers DEF Upstream, Below
<1>5. Downstream
  BY <1>2, NoNumbers DEF Downstream, Before, Below
<1> QED
  BY <1>1, <1>3, <1>4, <1>5 DEF IInv, Between

(* The steps that write nothing and take no task on.                       *)
LEMMA Quiet ==
    ASSUME IInv, TypeOK', InPlace', Busy', sent' = sent, last' = last,
           \A s \in Client : outbox'[s] = outbox[s] \/ outbox'[s] = <<>>,
           \A p \in Client :
              /\ Queued(p)' \subseteq Queued(p) /\ Holding(p)' \subseteq Holding(p)
              /\ Incoming(p)' \subseteq Incoming(p)
              /\ Rising(inbox'[p], p) /\ Rising(queue'[Home(p)], p),
           \A w \in Worker : task'[w] # None =>
              /\ task'[w] = task[w]
              /\ \A s \in Subscriber : Pending(w, s)' => Pending(w, s)
    PROVE  IInv'
<1>1. Advances /\ Upstream'
  BY Shrinks DEF IInv
<1>2. \A s \in Subscriber : outbox'[s] = outbox[s] \/ outbox'[s] = <<>>
  BY HomeAssumption
<1>3. Downstream' /\ Between'
  BY <1>1, <1>2, DownstreamKept, BetweenKept DEF IInv
<1> QED
  BY <1>1, <1>3 DEF IInv

(* Close empties the sockets of a client.                                  *)
LEMMA CloseStep ==
    ASSUME IInv, NEW c \in Client, Close(c)
    PROVE  /\ open' \subseteq Client
           /\ inbox' \in [Client -> Seq(Packet)] /\ outbox' \in [Client -> Seq(Packet)]
           /\ \A s \in Client : /\ inbox'[s] = inbox[s] \/ inbox'[s] = <<>>
                                /\ outbox'[s] = outbox[s] \/ outbox'[s] = <<>>
           /\ \A p \in Client : /\ Senders(inbox'[p]) \subseteq {p}
                                /\ Incoming(p)' \subseteq Incoming(p)
                                /\ Rising(inbox'[p], p)
<1>1. /\ open' \subseteq Client
      /\ inbox' \in [Client -> Seq(Packet)] /\ outbox' \in [Client -> Seq(Packet)]
      /\ \A s \in Client : /\ inbox'[s] = inbox[s] \/ inbox'[s] = <<>>
                           /\ outbox'[s] = outbox[s] \/ outbox'[s] = <<>>
  BY NoNumbers DEF Close, IInv, TypeOK
<1>2. \A p \in Client : /\ Senders(inbox'[p]) \subseteq {p}
                        /\ Incoming(p)' \subseteq Incoming(p)
                        /\ Rising(inbox'[p], p)
  <2> SUFFICES ASSUME NEW p \in Client
               PROVE  /\ Senders(inbox'[p]) \subseteq {p}
                      /\ Numbers(inbox'[p], p) \subseteq Numbers(inbox[p], p)
                      /\ Rising(inbox'[p], p)
    BY DEF Incoming
  <2>1. Senders(inbox[p]) \subseteq {p} /\ Rising(inbox[p], p)
    BY DEF IInv, InPlace, Upstream
  <2>2. CASE inbox'[p] = inbox[p]
    BY <2>1, <2>2
  <2>3. CASE inbox'[p] = <<>>
    BY <2>3, NoNumbers
  <2> QED
    BY <1>1, <2>2, <2>3
<1> QED
  BY <1>1, <1>2

(* A worker takes the first task from its channel.                         *)
LEMMA TakeStep ==
    ASSUME IInv, NEW w \in Worker, queue[w] # <<>>,
           queue' = [queue EXCEPT ![w] = Tail(@)]
    PROVE  /\ queue' \in [Worker -> Seq(Packet)]
           /\ Head(queue[w]) \in Packet /\ Home(Head(queue[w]).from) = w
           /\ \A v \in Worker : \A c \in Senders(queue'[v]) : Home(c) = v
           /\ \A p \in Client : Queued(p)' \subseteq Queued(p)
                                /\ Rising(queue'[Home(p)], p)
<1>1. queue \in [Worker -> Seq(Packet)] /\ queue[w] \in Seq(Packet)
  BY DEF IInv, TypeOK
<1>2. /\ queue'[w] = Tail(queue[w])
      /\ \A v \in Worker : v # w => queue'[v] = queue[v]
  BY <1>1
<1>3. queue' \in [Worker -> Seq(Packet)] /\ Head(queue[w]) \in Packet
  BY <1>1, NumbersTail
<1>4. /\ Home(Head(queue[w]).from) = w
      /\ \A v \in Worker : \A c \in Senders(queue'[v]) : Home(c) = v
  <2>1. Head(queue[w]).from \in Senders(queue[w]) /\ Senders(queue'[w]) \subseteq Senders(queue[w])
    BY <1>1, <1>2, NumbersTail
  <2>2. \A v \in Worker : \A c \in Senders(queue[v]) : Home(c) = v
    BY DEF IInv, InPlace
  <2>3. ASSUME NEW v \in Worker, NEW c \in Senders(queue'[v]) PROVE Home(c) = v
    BY <1>2, <2>1, <2>2
  <2> QED
    BY <2>1, <2>2, <2>3
<1>5. \A p \in Client : Home(p) \in Worker
  BY HomeAssumption
<1>6. ASSUME NEW p \in Client
      PROVE  Queued(p)' \subseteq Queued(p) /\ Rising(queue'[Home(p)], p)
  <2>1. CASE Home(p) = w
    BY <1>1, <1>2, <2>1, NumbersTail DEF Queued, IInv, Upstream
  <2>2. CASE Home(p) # w
    BY <1>2, <1>5, <2>2 DEF Queued, IInv, Upstream
  <2> QED
    BY <2>1, <2>2
<1> QED
  BY <1>3, <1>4, <1>6

(* Steps of a client and of its read loop.                                 *)
LEMMA SendStep ==
    ASSUME IInv, NEW c \in Client, Send(c)
    PROVE  IInv'
<1> DEFINE e == [from |-> c, n |-> sent[c] + 1]
<1>1. /\ inbox' = [inbox EXCEPT ![c] = Append(@, e)]
      /\ sent' = [sent EXCEPT ![c] = @ + 1]
      /\ peer' = peer /\ open' = open /\ reader' = reader /\ hold' = hold
      /\ queue' = queue /\ task' = task /\ left' = left /\ cur' = cur
      /\ outbox' = outbox /\ last' = last
      /\ sent[c] \in Nat /\ e \in Packet /\ inbox[c] \in Seq(Packet)
  BY DEF Send, readVars, workVars, IInv, TypeOK, Packet
<1>2. /\ inbox'[c] = Append(inbox[c], e) /\ sent'[c] = sent[c] + 1
      /\ \A p \in Client \ {c} : inbox'[p] = inbox[p] /\ sent'[p] = sent[p]
      /\ e.from = c /\ e.n = sent[c] + 1 /\ e.n # 0 /\ e.n \in Nat
  BY <1>1 DEF IInv, TypeOK
<1> HIDE DEF e
<1>3. TypeOK'
  BY <1>1, <1>2, NumbersAppend DEF IInv, TypeOK
<1>4. \A p \in Client : /\ sent[p] \in Nat /\ Coming(p) \subseteq Nat
                        /\ \A k \in Coming(p) : k <= sent[p]
  BY ComingNat DEF IInv, Upstream
<1>5. /\ Rising(inbox'[c], c)
      /\ Incoming(c)' = Incoming(c) \cup {e.n}
      /\ Senders(inbox'[c]) \subseteq {c}
  <2>1. Below(Incoming(c), {e.n})
    BY <1>2, <1>4 DEF Below, Coming
  <2>2. Rising(inbox[c], c) /\ Senders(inbox[c]) \subseteq {c}
    BY DEF IInv, Upstream, InPlace
  <2> DEFINE q == inbox[c]
             r == Append(q, e)
  <2>3. q \in Seq(Packet) /\ e \in Packet
    BY <1>1
  <2> HIDE DEF q
  <2>4. /\ Senders(r) = Senders(q) \cup {e.from}
        /\ Numbers(r, c) = Numbers(q, c) \cup (IF e.from = c /\ e.n # 0 THEN {e.n} ELSE {})
        /\ /\ Rising(q, c)
           /\ e.from = c /\ e.n # 0 => Below(Numbers(q, c), {e.n})
           => Rising(r, c)
    BY <2>3, NumbersAppend
  <2>5. inbox'[c] = r /\ Numbers(q, c) = Incoming(c) /\ Rising(q, c) /\ Senders(q) \subseteq {c}
    BY <1>2, <2>2 DEF q, Incoming
  <2> HIDE DEF r
  <2>6. Rising(r, c) /\ Numbers(r, c) = Incoming(c) \cup {e.n} /\ Senders(r) \subseteq {c}
    BY <1>2, <2>1, <2>4, <2>5
  <2> QED
    BY <2>5, <2>6 DEF Incoming
<1>6. \A p \in Client : Queued(p)' = Queued(p) /\ Holding(p)' = Holding(p)
  BY <1>1 DEF Queued, Holding
<1>7. \A p \in Client \ {c} : Incoming(p)' = Incoming(p)
  BY <1>2 DEF Incoming
<1>8. InPlace' /\ Busy'
  BY <1>1, <1>2, <1>5 DEF IInv, InPlace, Busy
<1>9. Advances
  <2>1. \A p \in Client \ {c} : Coming(p)' = Coming(p)
    BY <1>6, <1>7 DEF Coming
  <2>2. Coming(c)' = Coming(c) \cup {e.n} /\ e.n > sent[c]
    BY <1>2, <1>4, <1>5, <1>6 DEF Coming
  <2> QED
    BY <1>2, <1>4, <2>1, <2>2 DEF Advances
<1>10. Upstream'
  <2> SUFFICES ASSUME NEW p \in Client
               PROVE  /\ Rising(inbox'[p], p) /\ Rising(queue[Home(p)], p)
                      /\ Below(Queued(p)', Holding(p)' \cup Incoming(p)')
                      /\ Below(Holding(p)', Incoming(p)')
                      /\ \A k \in Coming(p)' : k <= sent'[p]
    BY <1>1 DEF Upstream
  <2>1. CASE p # c
    BY <1>2, <1>6, <1>7, <2>1 DEF IInv, Upstream, Coming
  <2>2. CASE p = c
    <3>1. \A k \in Queued(c) \cup Holding(c) \cup Incoming(c) : k < e.n
      BY <1>2, <1>4 DEF Coming
    <3>2. \A k \in Coming(c)' : k <= sent'[c]
      BY <1>2, <1>4, <1>5, <1>6 DEF Coming
    <3> QED
      BY <1>5, <1>6, <2>2, <3>1, <3>2 DEF IInv, Upstream, Below
  <2> QED
    BY <2>1, <2>2
<1>11. Downstream' /\ Between'
  <2>1. \A w \in Worker, s \in Subscriber : Pending(w, s)' => Pending(w, s)
    BY <1>1 DEF Pending
  <2> QED
    BY <1>1, <1>9, <2>1, DownstreamKept, BetweenKept DEF IInv
<1> QED
  BY <1>3, <1>8, <1>10, <1>11 DEF IInv

(* What is received was the lowest number on the socket.                   *)
LEMMA ReceiveStep ==
    ASSUME IInv, NEW c \in Client, Receive(c)
    PROVE  IInv'
<1> DEFINE e == Head(outbox[c])
<1>1. /\ outbox[c] # <<>> /\ outbox' = [outbox EXCEPT ![c] = Tail(@)]
      /\ last' = IF c \in Subscriber /\ e.n # 0
                 THEN [last EXCEPT ![c][e.from] = e.n] ELSE last
      /\ peer' = peer /\ open' = open /\ reader' = reader /\ hold' = hold
      /\ queue' = queue /\ task' = task /\ left' = left /\ cur' = cur
      /\ inbox' = inbox /\ sent' = sent
      /\ outbox[c] \in Seq(Packet)
  BY DEF Receive, readVars, workVars, clientVars, IInv, TypeOK
<1>2. /\ outbox'[c] = Tail(outbox[c]) /\ e \in Packet /\ e.n \in Nat
      /\ \A s \in Client \ {c} : outbox'[s] = outbox[s]
      /\ outbox' \in [Client -> Seq(Packet)]
  BY <1>1, NumbersTail DEF IInv, TypeOK, Packet
<1> HIDE DEF e
<1>3. last' \in [Subscriber -> [Publisher -> Nat]]
  BY <1>1, <1>2 DEF IInv, TypeOK
<1>4. ASSUME NEW s \in Subscriber, NEW p \in Publisher
      PROVE  IF s = c /\ e.from = p /\ e.n # 0 THEN last'[s][p] = e.n
                                               ELSE last'[s][p] = last[s][p]
  BY <1>1, <1>2, <1>4 DEF IInv, TypeOK
<1>5. TypeOK' /\ InPlace' /\ Busy'
  BY <1>1, <1>2, <1>3 DEF IInv, TypeOK, InPlace, Busy
<1>6. \A p \in Client : /\ Queued(p)' = Queued(p) /\ Holding(p)' = Holding(p)
                        /\ Incoming(p)' = Incoming(p) /\ Coming(p)' = Coming(p)
                        /\ \A k : Before(p, k)' <=> Before(p, k)
  BY <1>1 DEF Queued, Holding, Incoming, Coming, Before
<1>7. Upstream'
  BY <1>1, <1>6 DEF IInv, Upstream
<1>8. ASSUME NEW s \in Subscriber, NEW p \in Publisher
      PROVE  /\ Rising(outbox'[s], p)
             /\ Below({last'[s][p]}, Numbers(outbox'[s], p))
             /\ last'[s][p] \in {last[s][p]} \cup Numbers(outbox[s], p)
             /\ Numbers(outbox'[s], p) \subseteq Numbers(outbox[s], p)
  <2>1. s \in Client
    BY HomeAssumption
  <2>2. Rising(outbox[s], p) /\ Below({last[s][p]}, Numbers(outbox[s], p))
    BY DEF IInv, Downstream
  <2>3. CASE s # c
    BY <1>2, <1>4, <2>1, <2>2, <2>3
  <2>4. CASE s = c
    <3>1. /\ Numbers(outbox'[s], p) \subseteq Numbers(outbox[s], p)
          /\ e.from = p /\ e.n # 0 => e.n \in Numbers(outbox[s], p)
          /\ Rising(outbox'[s], p)
          /\ e.from = p /\ e.n # 0 => Below({e.n}, Numbers(outbox'[s], p))
      BY <1>1, <1>2, <2>2, <2>4, NumbersTail DEF e
    <3> QED
      BY <1>4, <2>2, <2>4, <3>1 DEF Below
  <2> QED
    BY <2>3, <2>4
<1>9. Downstream'
  <2> SUFFICES ASSUME NEW s \in Subscriber, NEW p \in Publisher
               PROVE  /\ Rising(outbox'[s], p)
                      /\ Below({last'[s][p]}, Numbers(outbox'[s], p))
                      /\ Before(p, last[s][p])'
                      /\ \A k \in Numbers(outbox'[s], p) : Before(p, k)'
    BY DEF Downstream
  <2>1. /\ p \in Client /\ Before(p, last[s][p])
        /\ \A k \in Numbers(outbox[s], p) : Before(p, k)
    BY HomeAssumption DEF IInv, Downstream
  <2>2. Before(p, last'[s][p])
    BY <1>8, <2>1
  <2>3. Before(p, last[s][p])'
    BY <1>1, <1>6, <2>1, <2>2 DEF Before, Coming, Queued, Holding, Incoming
  <2>4. \A k \in Numbers(outbox'[s], p) : Before(p, k)'
    BY <1>6, <1>8, <2>1
  <2> QED
    BY <1>8, <2>3, <2>4
<1>10. Between'
  <2> SUFFICES ASSUME NEW w \in Worker, task[w] # None
               PROVE  /\ Before(task[w].from, task[w].n)'
                      /\ \A s \in Subscriber :
                            task[w].from \in Publisher /\ Pending(w, s) =>
                               /\ last'[s][task[w].from] < task[w].n
                               /\ Below(Numbers(outbox'[s], task[w].from), {task[w].n})
    BY <1>1 DEF Between, InTurn, Pending
  <2>1. Before(task[w].from, task[w].n)'
    BY <1>1 DEF IInv, Between, InTurn, Before, Coming, Queued, Holding, Incoming
  <2>2. ASSUME NEW s \in Subscriber, task[w].from \in Publisher, Pending(w, s)
        PROVE  /\ last'[s][task[w].from] < task[w].n
               /\ Below(Numbers(outbox'[s], task[w].from), {task[w].n})
    <3>1. /\ last[s][task[w].from] < task[w].n
          /\ Below(Numbers(outbox[s], task[w].from), {task[w].n})
      BY <2>2 DEF IInv, Between, InTurn
    <3> QED
      BY <1>8, <2>2, <3>1 DEF Below
  <2> QED
    BY <2>1, <2>2
<1> QED
  BY <1>5, <1>7, <1>9, <1>10 DEF IInv

(* Reading moves a packet from the socket to the read loop.                *)
LEMMA ReadStep ==
    ASSUME IInv, NEW c \in Client, Read(c)
    PROVE  IInv'
<1> DEFINE e == Head(inbox[c])
<1>1. /\ reader[c] = "read" /\ inbox[c] # <<>>
      /\ reader' = [reader EXCEPT ![c] = "submit"]
      /\ hold' = [hold EXCEPT ![c] = e]
      /\ inbox' = [inbox EXCEPT ![c] = Tail(@)]
      /\ peer' = peer /\ open' = open /\ sent' = sent
      /\ queue' = queue /\ task' = task /\ left' = left /\ cur' = cur
      /\ outbox' = outbox /\ last' = last
      /\ inbox[c] \in Seq(Packet)
  BY DEF Read, workVars, IInv, TypeOK
<1>2. /\ e \in Packet /\ inbox' \in [Client -> Seq(Packet)]
      /\ inbox'[c] = Tail(inbox[c]) /\ hold'[c] = e /\ e # None
      /\ \A p \in Client \ {c} : inbox'[p] = inbox[p] /\ hold'[p] = hold[p]
      /\ hold[c] = None /\ e.from = c
  <2>1. hold[c] = None /\ Senders(inbox[c]) \subseteq {c}
    BY <1>1 DEF IInv, InPlace
  <2>2. e \in Packet /\ Tail(inbox[c]) \in Seq(Packet) /\ e.from \in Senders(inbox[c])
    BY <1>1, NumbersTail
  <2>3. inbox \in [Client -> Seq(Packet)] /\ hold \in [Client -> Packet \cup {None}]
    BY DEF IInv, TypeOK
  <2> HIDE DEF e
  <2>4. e # None
    BY <2>2, NoneAssumption
  <2>5. /\ inbox' \in [Client -> Seq(Packet)]
        /\ inbox'[c] = Tail(inbox[c]) /\ hold'[c] = e
        /\ \A p \in Client \ {c} : inbox'[p] = inbox[p] /\ hold'[p] = hold[p]
    BY <1>1, <2>2, <2>3
  <2> QED
    BY <2>1, <2>2, <2>4, <2>5
<1> HIDE DEF e
<1>3. TypeOK'
  BY <1>1, <1>2 DEF IInv, TypeOK
<1>4. /\ Senders(inbox'[c]) \subseteq {c} /\ Rising(inbox'[c], c)
      /\ Incoming(c)' \subseteq Incoming(c)
      /\ Holding(c)' \subseteq Incoming(c) /\ Holding(c) = {}
      /\ Below(Holding(c)', Incoming(c)')
  <2>1. Rising(inbox[c], c) /\ Senders(inbox[c]) \subseteq {c}
    BY DEF IInv, Upstream, InPlace
  <2>2. /\ Senders(Tail(inbox[c])) \subseteq {c} /\ Rising(Tail(inbox[c]), c)
        /\ Numbers(Tail(inbox[c]), c) \subseteq Numbers(inbox[c], c)
        /\ e.n # 0 => /\ e.n \in Numbers(inbox[c], c)
                      /\ Below({e.n}, Numbers(Tail(inbox[c]), c))
    BY <1>1, <1>2, <2>1, NumbersTail DEF e
  <2>3. Holding(c)' = (IF e.n # 0 THEN {e.n} ELSE {}) /\ Holding(c) = {}
    BY <1>2 DEF Holding
  <2> QED
    BY <1>2, <2>2, <2>3 DEF Incoming, Below
<1>5. InPlace' /\ Busy'
  BY <1>1, <1>2, <1>4 DEF IInv, InPlace, Busy, TypeOK
<1>6. \A p \in Client : Queued(p)' = Queued(p)
  BY <1>1 DEF Queued
<1>7. \A p \in Client \ {c} : Incoming(p)' = Incoming(p) /\ Holding(p)' = Holding(p)
  BY <1>2 DEF Incoming, Holding
<1>8. \A p \in Client : /\ Coming(p)' \subseteq Coming(p) /\ Coming(p) \subseteq Nat
                        /\ sent[p] \in Nat
  BY <1>4, <1>6, <1>7, ComingNat DEF Coming, IInv
<1>9. Advances
  BY <1>1, <1>8 DEF Advances
<1>10. Upstream'
  <2> SUFFICES ASSUME NEW p \in Client
               PROVE  /\ Rising(inbox'[p], p) /\ Rising(queue[Home(p)], p)
                      /\ Below(Queued(p)', Holding(p)' \cup Incoming(p)')
                      /\ Below(Holding(p)', Incoming(p)')
                      /\ \A k \in Coming(p)' : k <= sent[p]
    BY <1>1 DEF Upstream
  <2>1. /\ Rising(inbox[p], p) /\ Rising(queue[Home(p)], p)
        /\ Below(Queued(p), Holding(p) \cup Incoming(p))
        /\ Below(Holding(p), Incoming(p))
        /\ \A k \in Coming(p) : k <= sent[p]
    BY DEF IInv, Upstream
  <2>2. CASE p # c
    BY <1>2, <1>6, <1>7, <1>8, <2>1, <2>2
  <2>3. CASE p = c
    BY <1>4, <1>6, <1>8, <2>1, <2>3 DEF Below
  <2> QED
    BY <2>2, <2>3
<1>11. Downstream' /\ Between'
  <2>1. \A w \in Worker, s \in Subscriber : Pending(w, s)' => Pending(w, s)
    BY <1>1 DEF Pending
  <2> QED
    BY <1>1, <1>9, <2>1, DownstreamKept, BetweenKept DEF IInv
<1> QED
  BY <1>3, <1>5, <1>10, <1>11 DEF IInv

(* Submitting moves it on to the end of the worker's channel.              *)
LEMMA SubmitStep ==
    ASSUME IInv, NEW c \in Client, Submit(c)
    PROVE  IInv'
<1> DEFINE e == hold[c]
           w == Home(c)
<1>1. /\ reader[c] = "submit"
      /\ reader' = [reader EXCEPT ![c] = IF e.n = 0 THEN "end" ELSE "read"]
      /\ hold' = [hold EXCEPT ![c] = None]
      /\ queue' = [queue EXCEPT ![w] = Append(@, e)]
      /\ peer' = peer /\ open' = open /\ sent' = sent /\ inbox' = inbox
      /\ task' = task /\ left' = left /\ cur' = cur
      /\ outbox' = outbox /\ last' = last
      /\ w \in Worker /\ queue[w] \in Seq(Packet)
  BY HomeAssumption DEF Submit, Submitted, clientVars, workVars, IInv, TypeOK
<1>2. e \in Packet /\ e # None /\ e.from = c /\ e.n \in Nat
  BY <1>1 DEF IInv, InPlace, TypeOK, Packet
<1> HIDE DEF e
<1>3. /\ queue' \in [Worker -> Seq(Packet)]
      /\ queue'[w] = Append(queue[w], e)
      /\ \A v \in Worker : v # w => queue'[v] = queue[v]
      /\ hold'[c] = None /\ hold' \in [Client -> Packet \cup {None}]
      /\ \A p \in Client \ {c} : hold'[p] = hold[p]
  BY <1>1, <1>2, NumbersAppend DEF IInv, TypeOK
<1>4. TypeOK'
  BY <1>1, <1>3 DEF IInv, TypeOK
<1>5. ASSUME NEW p \in Client
      PROVE  /\ Senders(queue'[w]) = Senders(queue[w]) \cup {c}
             /\ Numbers(queue'[w], p) =
                  Numbers(queue[w], p) \cup (IF c = p /\ e.n # 0 THEN {e.n} ELSE {})
             /\ /\ Rising(queue[w], p)
                /\ c = p /\ e.n # 0 => Below(Numbers(queue[w], p), {e.n})
                => Rising(queue'[w], p)
  <2> DEFINE q == queue[w]
             r == Append(q, e)
  <2>1. q \in Seq(Packet)
    BY <1>1
  <2> HIDE DEF q
  <2>2. /\ Senders(r) = Senders(q) \cup {e.from}
        /\ Numbers(r, p) = Numbers(q, p) \cup (IF e.from = p /\ e.n # 0 THEN {e.n} ELSE {})
        /\ /\ Rising(q, p)
           /\ e.from = p /\ e.n # 0 => Below(Numbers(q, p), {e.n})
           => Rising(r, p)
    BY <1>2, <2>1, NumbersAppend
  <2>3. queue'[w] = r
    BY <1>3 DEF q
  <2> HIDE DEF r
  <2> QED
    BY <1>2, <2>2, <2>3 DEF q
<1>6. InPlace' /\ Busy'
  <2>1. \A v \in Worker : \A p \in Senders(queue'[v]) : Home(p) = v
    <3>1. Senders(queue'[w]) = Senders(queue[w]) \cup {c} /\ Home(c) = w
      BY <1>5
    <3>2. \A v \in Worker : \A p \in Senders(queue[v]) : Home(p) = v
      BY DEF IInv, InPlace
    <3> HIDE DEF w
    <3> QED
      BY <1>1, <1>3, <3>1, <3>2
  <2> QED
    BY <1>1, <1>3, <2>1 DEF IInv, InPlace, Busy, TypeOK
<1>7. \A p \in Client : /\ Incoming(p)' = Incoming(p)
                        /\ p # c => Holding(p)' = Holding(p)
                        /\ p # c => Queued(p)' = Queued(p)
  <2>1. ASSUME NEW p \in Client, p # c PROVE Queued(p)' = Queued(p)
    <3>1. CASE Home(p) = w
      BY <1>5, <2>1, <3>1 DEF Queued
    <3>2. CASE Home(p) # w
      BY <1>3, <3>2, HomeAssumption DEF Queued
    <3> QED
      BY <3>1, <3>2
  <2> QED
    BY <1>1, <1>3, <2>1 DEF Incoming, Holding
<1>8. /\ Holding(c) = (IF e.n # 0 THEN {e.n} ELSE {}) /\ Holding(c)' = {}
      /\ Queued(c)' = Queued(c) \cup Holding(c)
  BY <1>2, <1>3, <1>5 DEF Holding, Queued, e, w
<1>9. \A p \in Client : /\ Coming(p)' = Coming(p) /\ Coming(p) \subseteq Nat
                        /\ sent[p] \in Nat
  BY <1>7, <1>8, ComingNat DEF Coming, IInv
<1>10. Advances
  BY <1>1, <1>9 DEF Advances
<1>11. Upstream'
  <2> SUFFICES ASSUME NEW p \in Client
               PROVE  /\ Rising(inbox[p], p) /\ Rising(queue'[Home(p)], p)
                      /\ Below(Queued(p)', Holding(p)' \cup Incoming(p)')
                      /\ Below(Holding(p)', Incoming(p)')
                      /\ \A k \in Coming(p)' : k <= sent[p]
    BY <1>1 DEF Upstream
  <2>1. /\ Rising(inbox[p], p) /\ Rising(queue[Home(p)], p)
        /\ Below(Queued(p), Holding(p) \cup Incoming(p))
        /\ Below(Holding(p), Incoming(p))
        /\ \A k \in Coming(p) : k <= sent[p]
    BY DEF IInv, Upstream
  <2>2. CASE p # c
    <3>1. Rising(queue'[Home(p)], p)
      BY <1>3, <1>5, <2>1, <2>2, HomeAssumption
    <3> QED
      BY <1>7, <1>9, <2>1, <2>2, <3>1
  <2>3. CASE p = c
    <3>1. Rising(queue'[Home(p)], p)
      <4>1. e.n # 0 => Below(Numbers(queue[w], c), {e.n})
        BY <1>8, <2>1, <2>3 DEF Below, Queued, w
      <4> QED
        BY <1>5, <2>1, <2>3, <4>1 DEF w
    <3>2. /\ Below(Queued(c)', Holding(c)' \cup Incoming(c)')
          /\ Below(Holding(c)', Incoming(c)')
      BY <1>7, <1>8, <2>1, <2>3 DEF Below
    <3> QED
      BY <1>9, <2>1, <2>3, <3>1, <3>2
  <2> QED
    BY <2>2, <2>3
<1>12. Downstream' /\ Between'
  <2>1. \A v \in Worker, s \in Subscriber : Pending(v, s)' => Pending(v, s)
    BY <1>1 DEF Pending
  <2> QED
    BY <1>1, <1>10, <2>1, DownstreamKept, BetweenKept DEF IInv
<1> QED
  BY <1>4, <1>6, <1>11, <1>12 DEF IInv

(* Hanging, being closed over HTTP, and a read loop that comes to its end. *)
LEMMA ClientSteps ==
    ASSUME IInv, NEW c \in Client,
           Hang(c) \/ HttpDelete(c) \/ ReadFails(c) \/ Cancelled(c)
    PROVE  IInv'
<1>1. /\ queue' = queue /\ task' = task /\ left' = left /\ cur' = cur
      /\ sent' = sent /\ last' = last
  BY DEF Hang, HttpDelete, ReadFails, Cancelled, readVars, workVars, clientVars
<1>2. /\ \A p \in Client : Queued(p)' = Queued(p) /\ Rising(queue'[Home(p)], p)
      /\ \A w \in Worker, s \in Subscriber : Pending(w, s)' => Pending(w, s)
  BY <1>1 DEF Queued, Pending, IInv, Upstream
<1>3. CASE Hang(c) \/ HttpDelete(c)
  <2>1. reader' = reader /\ hold' = hold /\ peer' \in [Client -> {"live", "hung"}]
    BY <1>3 DEF Hang, HttpDelete, readVars, IInv, TypeOK
  <2>2. /\ open' \subseteq Client
        /\ inbox' \in [Client -> Seq(Packet)] /\ outbox' \in [Client -> Seq(Packet)]
        /\ \A s \in Client : outbox'[s] = outbox[s] \/ outbox'[s] = <<>>
        /\ \A p \in Client : /\ Senders(inbox'[p]) \subseteq {p}
                             /\ Incoming(p)' \subseteq Incoming(p)
                             /\ Rising(inbox'[p], p)
    <3>1. CASE Hang(c)
      BY <3>1 DEF Hang, IInv, TypeOK, InPlace, Upstream, Incoming
    <3>2. CASE HttpDelete(c)
      BY <3>2, CloseStep DEF HttpDelete
    <3> QED
      BY <1>3, <3>1, <3>2
  <2>3. TypeOK' /\ InPlace' /\ Busy'
    BY <1>1, <2>1, <2>2 DEF IInv, TypeOK, InPlace, Busy
  <2>4. \A p \in Client : Holding(p)' = Holding(p)
    BY <2>1 DEF Holding
  <2> QED
    BY <1>1, <1>2, <2>2, <2>3, <2>4, Quiet
<1>4. CASE ReadFails(c) \/ Cancelled(c)
  <2>1. /\ peer' = peer /\ open' = open /\ inbox' = inbox /\ outbox' = outbox
        /\ reader[c] = "read"
        /\ \/ /\ reader' = [reader EXCEPT ![c] = "submit"]
              /\ hold' = [hold EXCEPT ![c] = [from |-> c, n |-> 0]]
           \/ reader' = [reader EXCEPT ![c] = "end"] /\ hold' = hold
    BY <1>4 DEF ReadFails, Cancelled, clientVars
  <2>2. [from |-> c, n |-> 0] \in Packet
    BY DEF Packet
  <2>3. [from |-> c, n |-> 0] # None
    BY <2>2, NoneAssumption
  <2>4. TypeOK'
    <3>1. /\ reader \in [Client -> {"read", "submit", "end"}]
          /\ hold \in [Client -> Packet \cup {None}]
      BY DEF IInv, TypeOK
    <3>2. /\ reader' \in [Client -> {"read", "submit", "end"}]
          /\ hold' \in [Client -> Packet \cup {None}]
      BY <2>1, <2>2, <3>1
    <3> QED
      BY <1>1, <2>1, <3>2 DEF IInv, TypeOK
  <2>5. InPlace' /\ Busy'
    BY <1>1, <2>1, <2>3 DEF IInv, InPlace, Busy, TypeOK
  <2>6. \A p \in Client : /\ Holding(p)' \subseteq Holding(p) /\ Incoming(p)' = Incoming(p)
                          /\ Rising(inbox'[p], p)
    <3>1. \A p \in Client : Incoming(p)' = Incoming(p) /\ Rising(inbox'[p], p)
      BY <2>1 DEF Incoming, IInv, Upstream
    <3>2. ASSUME NEW p \in Client PROVE Holding(p)' \subseteq Holding(p)
      <4>1. CASE hold'[p] = hold[p]
        BY <4>1 DEF Holding
      <4>2. CASE hold'[p] # hold[p]
        <5>1. hold'[p] = [from |-> c, n |-> 0]
          BY <2>1, <4>2 DEF IInv, TypeOK
        <5>2. hold'[p].n = 0
          BY <5>1
        <5> QED
          BY <5>2 DEF Holding
      <4> QED
        BY <4>1, <4>2
    <3> QED
      BY <3>1, <3>2
  <2> QED
    BY <1>1, <1>2, <2>1, <2>4, <2>5, <2>6, Quiet
<1> QED
  BY <1>3, <1>4
-----------------------------------------------------------------------------
(* A worker takes up a PUBLISH: it comes after all that was written, and   *)
(* before all that is left in the channel and behind it.                   *)
LEMMA TakePublish ==
    ASSUME IInv, NEW w \in Worker, Take(w)
    PROVE  IInv'
<1>a. PICK e : e = Head(queue[w])
  OBVIOUS
<1>b. PICK c : c = e.from
  OBVIOUS
<1>1. /\ task[w] = None /\ queue[w] # <<>> /\ e.n # 0
      /\ queue' = [queue EXCEPT ![w] = Tail(@)]
      /\ task' = [task EXCEPT ![w] = e]
      /\ cur' = [cur EXCEPT ![w] = IF c \in Acked THEN c ELSE None]
      /\ left' = [left EXCEPT ![w] = None]
      /\ peer' = peer /\ open' = open /\ sent' = sent /\ inbox' = inbox
      /\ reader' = reader /\ hold' = hold /\ outbox' = outbox /\ last' = last
      /\ queue[w] \in Seq(Packet)
  BY <1>a, <1>b DEF Take, clientVars, readVars, IInv, TypeOK
<1>2. /\ queue' \in [Worker -> Seq(Packet)]
      /\ e \in Packet /\ Home(c) = w
      /\ \A v \in Worker : \A p \in Senders(queue'[v]) : Home(p) = v
      /\ \A p \in Client : Queued(p)' \subseteq Queued(p) /\ Rising(queue'[Home(p)], p)
  BY <1>a, <1>b, <1>1, TakeStep
<1>3. c \in Client /\ e.n \in Nat /\ e # None
  BY <1>b, <1>2, NoneAssumption DEF Packet
<1>4. e.n \in Queued(c) /\ Below({e.n}, Queued(c)')
  <2>1. Rising(queue[w], c)
    BY <1>2, <1>3 DEF IInv, Upstream
  <2>2. e.n \in Numbers(queue[w], c) /\ Below({e.n}, Numbers(Tail(queue[w]), c))
    BY <1>a, <1>b, <1>1, <2>1, NumbersTail
  <2>3. queue'[w] = Tail(queue[w])
    BY <1>1 DEF IInv, TypeOK
  <2> QED
    BY <1>2, <2>2, <2>3 DEF Queued
<1>5. TypeOK'
  BY <1>1, <1>2, <1>3 DEF IInv, TypeOK
<1>6. InPlace' /\ Busy'
  BY <1>b, <1>1, <1>2, <1>3 DEF IInv, InPlace, Busy, TypeOK
<1>7. \A p \in Client : /\ Holding(p)' = Holding(p) /\ Incoming(p)' = Incoming(p)
                        /\ Rising(inbox'[p], p)
  BY <1>1 DEF Holding, Incoming, IInv, Upstream
<1>8. Advances /\ Upstream'
  BY <1>1, <1>2, <1>7, Shrinks DEF IInv
<1>9. Downstream'
  BY <1>1, <1>8, DownstreamKept DEF IInv
<1>10. InTurn(w)'
  <2>1. task'[w] = e
    BY <1>1 DEF IInv, TypeOK
  <2>2. Before(c, e.n)'
    <3>1. e.n <= sent[c] /\ Below({e.n}, Holding(c) \cup Incoming(c))
      BY <1>3, <1>4 DEF IInv, Upstream, Coming, Below
    <3>2. Below({e.n}, Coming(c)')
      BY <1>3, <1>4, <1>7, <3>1 DEF Coming, Below
    <3> QED
      BY <1>1, <3>1, <3>2 DEF Before
  <2>3. ASSUME NEW s \in Subscriber, c \in Publisher
        PROVE  last[s][c] < e.n /\ Below(Numbers(outbox[s], c), {e.n})
    <3>1. e.n \in Coming(c)
      BY <1>4 DEF Coming
    <3>2. Before(c, last[s][c]) /\ \A k \in Numbers(outbox[s], c) : Before(c, k)
      BY <2>3 DEF IInv, Downstream
    <3> QED
      BY <3>1, <3>2 DEF Before, Below
  <2> QED
    BY <1>b, <1>1, <2>1, <2>2, <2>3 DEF InTurn
<1>11. ASSUME NEW v \in Worker, v # w, task'[v] # None PROVE InTurn(v)'
  <2>1. task'[v] = task[v]
    BY <1>1, <1>11 DEF IInv, TypeOK
  <2>2. \A s \in Subscriber : Pending(v, s)' => Pending(v, s)
    BY <1>1, <1>11 DEF Pending, IInv, TypeOK
  <2> QED
    BY <1>1, <1>8, <1>11, <2>1, <2>2, TaskKept DEF IInv
<1> QED
  BY <1>5, <1>6, <1>8, <1>9, <1>10, <1>11 DEF IInv, Between

(* A worker takes up a DISCONNECT and closes the client.                   *)
LEMMA TakeOff ==
    ASSUME IInv, NEW w \in Worker, TakeDisconnect(w)
    PROVE  IInv'
<1> DEFINE c == Head(queue[w]).from
<1>1. /\ queue[w] # <<>> /\ queue' = [queue EXCEPT ![w] = Tail(@)] /\ Close(c)
      /\ peer' = peer /\ sent' = sent /\ reader' = reader /\ hold' = hold
      /\ task' = task /\ left' = left /\ cur' = cur /\ last' = last
  BY DEF TakeDisconnect, readVars, workVars
<1>2. /\ queue' \in [Worker -> Seq(Packet)]
      /\ \A v \in Worker : \A p \in Senders(queue'[v]) : Home(p) = v
      /\ \A p \in Client : Queued(p)' \subseteq Queued(p) /\ Rising(queue'[Home(p)], p)
      /\ c \in Client
  BY <1>1, TakeStep DEF Packet
<1> HIDE DEF c
<1>3. /\ open' \subseteq Client
      /\ inbox' \in [Client -> Seq(Packet)] /\ outbox' \in [Client -> Seq(Packet)]
      /\ \A s \in Client : outbox'[s] = outbox[s] \/ outbox'[s] = <<>>
      /\ \A p \in Client : /\ Senders(inbox'[p]) \subseteq {p}
                           /\ Incoming(p)' \subseteq Incoming(p)
                           /\ Rising(inbox'[p], p)
  BY <1>1, <1>2, CloseStep
<1>4. TypeOK' /\ InPlace' /\ Busy'
  BY <1>1, <1>2, <1>3 DEF IInv, TypeOK, InPlace, Busy
<1>5. /\ \A p \in Client : Holding(p)' = Holding(p)
      /\ \A v \in Worker, s \in Subscriber : Pending(v, s)' => Pending(v, s)
  BY <1>1 DEF Holding, Pending
<1> QED
  BY <1>1, <1>2, <1>3, <1>4, <1>5, Quiet

(* A worker looks up whom to write to, picks one, passes one over, is done.*)
LEMMA WorkerSteps ==
    ASSUME IInv, NEW w \in Worker,
           Lookup(w) \/ Pick(w) \/ WriteClosed(w) \/ AckFails(w) \/ Finish(w)
    PROVE  IInv'
<1>1. /\ peer' = peer /\ open' = open /\ sent' = sent /\ inbox' = inbox
      /\ reader' = reader /\ hold' = hold /\ queue' = queue
      /\ outbox' = outbox /\ last' = last
  BY DEF Lookup, Pick, WriteClosed, AckFails, Finish, readVars, clientVars
<1>2. /\ Subscriber \subseteq Client /\ None \notin Client
      /\ \A S \in SUBSET Subscriber : S # None
      /\ \A v \in Worker : left[v] # None => left[v] \subseteq Subscriber
  BY HomeAssumption, NoneAssumption DEF IInv, TypeOK
<1>3. /\ task' \in [Worker -> Packet \cup {None}]
      /\ left' \in [Worker -> {None} \cup SUBSET Subscriber]
      /\ cur' \in [Worker -> Client \cup {None}]
      /\ \A v \in Worker : v # w => /\ task'[v] = task[v] /\ left'[v] = left[v]
                                    /\ cur'[v] = cur[v]
      /\ task'[w] = None \/ task'[w] = task[w]
      /\ task'[w] = None => left'[w] = {} /\ cur'[w] = None
      /\ left'[w] # None => cur'[w] \notin left'[w]
      /\ task'[w] # None => \A s \in Subscriber : Pending(w, s)' => Pending(w, s)
  <2>1. /\ task \in [Worker -> Packet \cup {None}]
        /\ left \in [Worker -> {None} \cup SUBSET Subscriber]
        /\ cur \in [Worker -> Client \cup {None}]
        /\ task[w] = None => left[w] = {} /\ cur[w] = None
        /\ left[w] # None => cur[w] \notin left[w]
    BY DEF IInv, TypeOK, Busy
  <2>2. CASE Lookup(w)
    BY <1>2, <2>1, <2>2 DEF Lookup, Pending
  <2>3. CASE Pick(w)
    BY <1>2, <2>1, <2>3 DEF Pick, Pending
  <2>4. CASE WriteClosed(w)
    BY <1>2, <2>1, <2>4 DEF WriteClosed, Pending
  <2>5. CASE AckFails(w)
    BY <1>2, <2>1, <2>5 DEF AckFails, Pending
  <2>6. CASE Finish(w)
    BY <1>2, <2>1, <2>6 DEF Finish, Pending
  <2> QED
    BY <2>2, <2>3, <2>4, <2>5, <2>6
<1>4. TypeOK'
  BY <1>1, <1>3 DEF IInv, TypeOK
<1>5. InPlace'
  <2>1. \A v \in Worker : task'[v] = task[v] \/ task'[v] = None
    BY <1>3
  <2> QED
    BY <1>1, <2>1 DEF IInv, InPlace
<1>6. Busy'
  BY <1>3 DEF IInv, Busy
<1>7. \A p \in Client : /\ Queued(p)' = Queued(p) /\ Holding(p)' = Holding(p)
                        /\ Incoming(p)' = Incoming(p)
                        /\ Rising(inbox'[p], p) /\ Rising(queue'[Home(p)], p)
  BY <1>1 DEF Queued, Holding, Incoming, IInv, Upstream
<1>8. ASSUME NEW v \in Worker, task'[v] # None
      PROVE  /\ task'[v] = task[v]
             /\ \A s \in Subscriber : Pending(v, s)' => Pending(v, s)
  BY <1>3, <1>8 DEF Pending
<1> QED
  BY <1>1, <1>4, <1>5, <1>6, <1>7, <1>8, Quiet

(* A worker writes: a PUBACK, which has no number, or its task.            *)
LEMMA WriteStep ==
    ASSUME IInv, NEW w \in Worker, Write(w)
    PROVE  IInv'
<1> DEFINE c == cur[w]
           e == Written(w)
           f == task[w].from
           n == task[w].n
<1>1. /\ c \in Client /\ c # None
      /\ outbox' = [outbox EXCEPT ![c] = Append(@, e)]
      /\ cur' = [cur EXCEPT ![w] = None]
      /\ peer' = peer /\ open' = open /\ sent' = sent /\ inbox' = inbox
      /\ reader' = reader /\ hold' = hold /\ queue' = queue
      /\ task' = task /\ left' = left /\ last' = last
      /\ outbox[c] \in Seq(Packet)
  BY NoneAssumption DEF Write, readVars, clientVars, IInv, TypeOK
<1>2. /\ task[w] # None /\ task[w] \in Packet /\ f \in Client /\ n \in Nat /\ n # 0
      /\ Home(f) = w /\ InTurn(w)
      /\ left[w] # None => c \notin left[w] /\ None \notin left[w]
  <2>1. task[w] # None /\ Home(f) = w /\ n # 0 /\ InTurn(w)
    BY <1>1 DEF IInv, Busy, InPlace, Between
  <2>2. task[w] \in Packet
    BY <2>1 DEF IInv, TypeOK
  <2>3. left[w] # None => c \notin left[w] /\ None \notin left[w]
    BY HomeAssumption, NoneAssumption DEF IInv, TypeOK, Busy
  <2> QED
    BY <2>1, <2>2, <2>3 DEF Packet
<1>3. /\ e \in Packet /\ e.from = f
      /\ e.n = IF left[w] = None THEN 0 ELSE n
  BY <1>2 DEF Written, Packet
<1>4. /\ outbox' \in [Client -> Seq(Packet)]
      /\ outbox'[c] = Append(outbox[c], e)
      /\ \A s \in Client : s # c => outbox'[s] = outbox[s]
  BY <1>1, <1>3, NumbersAppend DEF IInv, TypeOK
<1> HIDE DEF c, e, f, n
<1>5. TypeOK'
  BY <1>1, <1>4 DEF IInv, TypeOK
<1>6. InPlace' /\ Busy'
  BY <1>1, <1>2 DEF IInv, InPlace, Busy, TypeOK
<1>7. \A p \in Client : /\ Queued(p)' = Queued(p) /\ Holding(p)' = Holding(p)
                        /\ Incoming(p)' = Incoming(p)
                        /\ Rising(inbox'[p], p) /\ Rising(queue'[Home(p)], p)
  BY <1>1 DEF Queued, Holding, Incoming, IInv, Upstream
<1>8. Advances /\ Upstream'
  BY <1>1, <1>7, Shrinks DEF IInv
<1>9. ASSUME NEW s \in Client, NEW p
      PROVE  /\ Numbers(outbox'[s], p) =
                  Numbers(outbox[s], p)
                    \cup (IF s = c /\ p = f /\ left[w] # None THEN {n} ELSE {})
             /\ /\ Rising(outbox[s], p)
                /\ s = c /\ p = f /\ left[w] # None => Below(Numbers(outbox[s], p), {n})
                => Rising(outbox'[s], p)
  <2>1. CASE s # c
    BY <1>4, <2>1
  <2>2. CASE s = c
    <3> DEFINE q == outbox[c]
               r == Append(q, e)
    <3>1. q \in Seq(Packet) /\ outbox'[c] = r
      BY <1>1, <1>4
    <3> HIDE DEF q
    <3>2. /\ Numbers(r, p) = Numbers(q, p) \cup (IF e.from = p /\ e.n # 0 THEN {e.n} ELSE {})
          /\ /\ Rising(q, p)
             /\ e.from = p /\ e.n # 0 => Below(Numbers(q, p), {e.n})
             => Rising(r, p)
      BY <1>3, <3>1, NumbersAppend
    <3> HIDE DEF r
    <3>3. e.from = p /\ e.n # 0 <=> p = f /\ left[w] # None
      BY <1>2, <1>3
    <3> QED
      BY <1>3, <2>2, <3>1, <3>2, <3>3 DEF q
  <2> QED
    BY <2>1, <2>2
<1>10. Downstream'
  <2> SUFFICES ASSUME NEW s \in Subscriber, NEW p \in Publisher
               PROVE  /\ Rising(outbox'[s], p)
                      /\ Below({last[s][p]}, Numbers(outbox'[s], p))
                      /\ Before(p, last[s][p])'
                      /\ \A k \in Numbers(outbox'[s], p) : Before(p, k)'
    BY <1>1 DEF Downstream
  <2>1. s \in Client /\ p \in Client
    BY HomeAssumption
  <2>2. /\ Rising(outbox[s], p) /\ Below({last[s][p]}, Numbers(outbox[s], p))
        /\ Before(p, last[s][p]) /\ \A k \in Numbers(outbox[s], p) : Before(p, k)
    BY DEF IInv, Downstream
  <2>3. ASSUME s = c, p = f, left[w] # None
        PROVE  /\ Below(Numbers(outbox[s], p), {n}) /\ last[s][p] < n /\ Before(p, n)
    BY <1>2, <2>3 DEF InTurn, Pending, c, f, n
  <2>4. /\ Numbers(outbox'[s], p) =
             Numbers(outbox[s], p)
               \cup (IF s = c /\ p = f /\ left[w] # None THEN {n} ELSE {})
        /\ Rising(outbox'[s], p)
    BY <1>9, <2>1, <2>2, <2>3
  <2>5. /\ last[s][p] \in Nat /\ \A k \in Numbers(outbox[s], p) : k \in Nat
        /\ outbox[s] \in Seq(Packet)
    BY <2>1, NumbersNat DEF IInv, TypeOK
  <2>6. \A k \in Nat : Before(p, k) => Before(p, k)'
    BY <1>8, <2>1, BeforeKept DEF IInv
  <2>7. Before(p, last[s][p])'
    BY <1>1, <1>7, <2>1, <2>2 DEF Before, Coming
  <2>8. \A k \in Numbers(outbox'[s], p) : Before(p, k)'
    BY <1>2, <2>2, <2>3, <2>4, <2>5, <2>6
  <2> QED
    BY <2>2, <2>3, <2>4, <2>7, <2>8 DEF Below
<1>11. \A s \in Client : \A p :
          s # c \/ p # f \/ left[w] = None => Numbers(outbox'[s], p) = Numbers(outbox[s], p)
  BY <1>9
<1>12. ASSUME NEW v \in Worker, task'[v] # None PROVE InTurn(v)'
  <2>1. /\ left' = left /\ cur'[w] = None
        /\ \A u \in Worker : u # w => cur'[u] = cur[u]
    <3>1. cur \in [Worker -> Client \cup {None}]
      BY DEF IInv, TypeOK
    <3>2. left' = left /\ cur' = [cur EXCEPT ![w] = None]
      BY <1>1
    <3> QED
      BY <3>1, <3>2
  <2>2. task[v] # None /\ task'[v] = task[v]
    BY <1>1, <1>12
  <2>3. ASSUME NEW s \in Subscriber, Pending(v, s)'
        PROVE  /\ Pending(v, s)
               /\ Numbers(outbox'[s], task[v].from) = Numbers(outbox[s], task[v].from)
    <3>1. s \in Client /\ s # None
      BY HomeAssumption, NoneAssumption
    <3>2. CASE v = w
      <4>1. left[w] = None \/ s \in left[w]
        BY <2>1, <2>3, <3>1, <3>2 DEF Pending
      <4>2. s # c \/ left[w] = None
        BY <1>2, <4>1
      <4>3. Numbers(outbox'[s], task[v].from) = Numbers(outbox[s], task[v].from)
        BY <1>11, <3>1, <4>2
      <4> QED
        BY <3>2, <4>1, <4>3 DEF Pending
    <3>3. CASE v # w
      <4>1. task[v].from # f
        BY <1>2, <2>2, <3>3 DEF IInv, InPlace
      <4>2. Pending(v, s)
        BY <2>1, <2>3, <3>3 DEF Pending
      <4>3. Numbers(outbox'[s], task[v].from) = Numbers(outbox[s], task[v].from)
        BY <1>11, <3>1, <4>1
      <4> QED
        BY <4>2, <4>3
    <3> QED
      BY <3>2, <3>3
  <2> QED
    BY <1>1, <1>8, <2>2, <2>3, TaskKept DEF IInv
<1> QED
  BY <1>5, <1>6, <1>8, <1>10, <1>12 DEF IInv, Between
-----------------------------------------------------------------------------
(* Every step of the broker and its clients keeps the invariant.           *)
LEMMA Invariance == Spec => []IInv
<1>1. ASSUME IInv, Next PROVE IInv'
  <2>1. ASSUME NEW c \in Client, ClientStep(c) \/ Receive(c) \/ ReaderStep(c) \/ Submit(c)
        PROVE  IInv'
    <3>1. CASE Send(c) \/ Receive(c)
      BY <1>1, <3>1, SendStep, ReceiveStep
    <3>2. CASE Read(c) \/ Submit(c)
      BY <1>1, <3>2, ReadStep, SubmitStep
    <3>3. CASE Hang(c) \/ HttpDelete(c) \/ ReadFails(c) \/ Cancelled(c)
      BY <1>1, <3>3, ClientSteps
    <3> QED
      BY <2>1, <3>1, <3>2, <3>3 DEF ClientStep, ReaderStep
  <2>2. ASSUME NEW w \in Worker, WorkerStep(w) \/ Write(w)
        PROVE  IInv'
    BY <1>1, <2>2, TakePublish, TakeOff, WorkerSteps, WriteStep DEF WorkerStep
  <2> QED
    BY <1>1, <2>1, <2>2 DEF Next
<1>2. ASSUME IInv, UNCHANGED vars PROVE IInv'
  <2>1. /\ peer' = peer /\ open' = open /\ sent' = sent /\ inbox' = inbox
        /\ reader' = reader /\ hold' = hold /\ queue' = queue /\ task' = task
        /\ left' = left /\ cur' = cur /\ outbox' = outbox /\ last' = last
    BY <1>2 DEF vars, clientVars, readVars, workVars
  <2>2. \A p, k : Before(p, k)' = Before(p, k)
    BY <2>1 DEF Before, Coming, Queued, Holding, Incoming
  <2>3. TypeOK' /\ InPlace' /\ Busy'
    BY <1>2, <2>1 DEF IInv, TypeOK, InPlace, Busy
  <2>4. Upstream'
    BY <1>2, <2>1 DEF IInv, Upstream, Coming, Queued, Holding, Incoming
  <2>5. Downstream'
    BY <1>2, <2>1, <2>2 DEF IInv, Downstream
  <2>6. Between'
    BY <1>2, <2>1, <2>2 DEF IInv, Between, InTurn, Pending
  <2> QED
    BY <2>3, <2>4, <2>5, <2>6 DEF IInv
<1> QED
  BY <1>1, <1>2, InitHolds, PTL DEF Spec
-----------------------------------------------------------------------------
(* A PUBACK is written to the client that published.                       *)
AckFirst ==
    \A w \in Worker : left[w] = None /\ cur[w] # None => cur[w] = task[w].from

(* The packet of p that its worker has yet to write to s.                  *)
Handled(s, p) ==
    IF task[Home(p)] # None /\ task[Home(p)].from = p /\ Pending(Home(p), s)
    THEN {task[Home(p)].n} ELSE {}

(* Whatever p has published was received by s, or is on its way to it, as  *)
(* long as neither has been closed.                                        *)
Accounted(s, p) ==
    (1..last[s][p]) \cup Numbers(outbox[s], p) \cup Handled(s, p) \cup Coming(p)

NoneLost == \A s \in Subscriber \cap open, p \in Publisher \cap open :
               1..sent[p] \subseteq Accounted(s, p)

Complete == AckFirst /\ NoneLost

(* What is taken from a socket or channel is all that it no longer holds.  *)
LEMMA NumbersHead ==
    ASSUME NEW q \in Seq(Packet), q # <<>>, NEW p
    PROVE  Numbers(q, p) \subseteq
             Numbers(Tail(q), p)
               \cup (IF Head(q).from = p /\ Head(q).n # 0 THEN {Head(q).n} ELSE {})
<1> DEFINE r == Tail(q)
           e == Head(q)
<1>1. /\ Len(q) \in Nat \ {0} /\ Len(r) = Len(q) - 1
      /\ \A i \in 1..Len(r) : r[i] = q[i + 1]
      /\ e = q[1]
  OBVIOUS
<1> HIDE DEF r, e
<1>2. ASSUME NEW i \in 1..Len(q), Own(q, i, p)
      PROVE  q[i].n \in Numbers(r, p) \/ (e.from = p /\ e.n # 0 /\ q[i].n = e.n)
  <2>1. CASE i = 1
    BY <1>1, <1>2, <2>1 DEF Own
  <2>2. CASE i # 1
    <3>1. i - 1 \in 1..Len(r) /\ r[i - 1] = q[i]
      BY <1>1, <2>2
    <3> QED
      BY <1>2, <3>1 DEF Own, Numbers
  <2> QED
    BY <2>1, <2>2
<1> QED
  BY <1>2 DEF Numbers, r, e

(* A step that publishes nothing loses nothing if each of its parts keeps  *)
(* what it accounts for.                                                   *)
LEMMA LostKept ==
    ASSUME NoneLost, open' \subseteq open, sent' = sent,
           \A s \in Subscriber \cap open', p \in Publisher \cap open' :
              Accounted(s, p) \subseteq Accounted(s, p)'
    PROVE  NoneLost'
<1> SUFFICES ASSUME NEW s \in Subscriber \cap open', NEW p \in Publisher \cap open'
             PROVE  1..sent[p] \subseteq Accounted(s, p)'
  BY DEF NoneLost
<1>1. 1..sent[p] \subseteq Accounted(s, p)
  BY DEF NoneLost
<1> QED
  BY <1>1

(* Close empties the sockets of the client it closes only.                 *)
LEMMA CloseKeeps ==
    ASSUME IInv, NEW c \in Client, Close(c)
    PROVE  /\ open' \subseteq open
           /\ \A d \in Client \cap open' :
                 d # c /\ inbox'[d] = inbox[d] /\ outbox'[d] = outbox[d]
BY DEF Close, IInv, TypeOK

(* A packet that is sent is on the socket of its client.                   *)
LEMMA SendComplete ==
    ASSUME IInv, Complete, NEW c \in Client, Send(c)
    PROVE  Complete'
<1> DEFINE e == [from |-> c, n |-> sent[c] + 1]
<1>1. /\ sent' = [sent EXCEPT ![c] = @ + 1]
      /\ inbox' = [inbox EXCEPT ![c] = Append(@, e)]
      /\ open' = open /\ hold' = hold /\ queue' = queue /\ task' = task
      /\ left' = left /\ cur' = cur /\ outbox' = outbox /\ last' = last
  BY DEF Send, readVars, workVars
<1>2. /\ sent \in [Client -> Nat] /\ inbox \in [Client -> Seq(Packet)]
      /\ inbox[c] \in Seq(Packet)
  BY DEF IInv, TypeOK
<1>3. e \in Packet /\ e.from = c /\ e.n = sent[c] + 1 /\ e.n # 0
  BY <1>2 DEF Packet
<1> HIDE DEF e
<1>4. \A p \in Client : Incoming(p)' =
         Incoming(p) \cup (IF p = c THEN {sent[c] + 1} ELSE {})
  <2> SUFFICES ASSUME NEW p \in Client
               PROVE  Numbers(inbox'[p], p) =
                        Numbers(inbox[p], p) \cup (IF p = c THEN {sent[c] + 1} ELSE {})
    BY DEF Incoming
  <2>1. CASE p = c
    <3>1. inbox'[c] = Append(inbox[c], e)
      BY <1>1, <1>2
    <3>2. Numbers(Append(inbox[c], e), c) = Numbers(inbox[c], c) \cup {e.n}
      BY <1>2, <1>3, NumbersAppend
    <3> QED
      BY <1>3, <2>1, <3>1, <3>2
  <2>2. CASE p # c
    BY <1>1, <1>2, <2>2
  <2> QED
    BY <2>1, <2>2
<1>5. AckFirst'
  BY <1>1 DEF Complete, AckFirst
<1>6. NoneLost'
  <2> SUFFICES ASSUME NEW s \in Subscriber \cap open, NEW p \in Publisher \cap open,
                      NEW k \in 1..sent'[p]
               PROVE  k \in Accounted(s, p)'
    BY <1>1 DEF NoneLost
  <2>1. p \in Client /\ 1..sent[p] \subseteq Accounted(s, p)
    BY HomeAssumption DEF Complete, NoneLost
  <2>2. Accounted(s, p) \subseteq Accounted(s, p)'
    BY <1>1, <1>4, <2>1 DEF Accounted, Handled, Pending, Coming, Queued, Holding
  <2>3. k \in 1..sent[p] \/ (p = c /\ k = sent[c] + 1)
    BY <1>1, <1>2, <2>1
  <2>4. p = c => sent[c] + 1 \in Accounted(s, p)'
    BY <1>4, <2>1 DEF Accounted, Coming
  <2> QED
    BY <2>1, <2>2, <2>3, <2>4
<1> QED
  BY <1>5, <1>6 DEF Complete

(* A packet that is read from a socket counts as received.                 *)
LEMMA ReceiveComplete ==
    ASSUME IInv, Complete, NEW c \in Client, Receive(c)
    PROVE  Complete'
<1> DEFINE e == Head(outbox[c])
<1>1. /\ outbox[c] # <<>> /\ outbox' = [outbox EXCEPT ![c] = Tail(@)]
      /\ last' = IF c \in Subscriber /\ e.n # 0
                 THEN [last EXCEPT ![c][e.from] = e.n] ELSE last
      /\ open' = open /\ hold' = hold /\ queue' = queue /\ task' = task
      /\ left' = left /\ cur' = cur /\ inbox' = inbox /\ sent' = sent
  BY DEF Receive, readVars, workVars, clientVars
<1>2. /\ last \in [Subscriber -> [Publisher -> Nat]]
      /\ outbox \in [Client -> Seq(Packet)] /\ outbox[c] \in Seq(Packet)
  BY DEF IInv, TypeOK
<1>3. e \in Packet /\ e.n \in Nat /\ outbox'[c] = Tail(outbox[c])
  BY <1>1, <1>2, NumbersTail DEF Packet
<1>4. ASSUME NEW p
      PROVE  /\ Numbers(outbox[c], p) \subseteq
                  Numbers(outbox'[c], p)
                    \cup (IF e.from = p /\ e.n # 0 THEN {e.n} ELSE {})
             /\ e.from = p /\ e.n # 0 => e.n \in Numbers(outbox[c], p)
  BY <1>1, <1>2, <1>3, NumbersHead, NumbersTail
<1> HIDE DEF e
<1>5. AckFirst'
  BY <1>1 DEF Complete, AckFirst
<1>6. ASSUME NEW s \in Subscriber \cap open, NEW p \in Publisher \cap open
      PROVE  Accounted(s, p) \subseteq Accounted(s, p)'
  <2>1. Handled(s, p)' = Handled(s, p) /\ Coming(p)' = Coming(p) /\ s \in Client
    BY <1>1, HomeAssumption DEF Handled, Pending, Coming, Queued, Holding, Incoming
  <2>2. CASE s = c /\ e.from = p /\ e.n # 0
    <3>1. last'[s][p] = e.n /\ last[s][p] \in Nat
      BY <1>1, <1>2, <1>3, <2>2
    <3>2. /\ Numbers(outbox[s], p) \subseteq Numbers(outbox'[s], p) \cup {e.n}
          /\ e.n \in Numbers(outbox[s], p)
      BY <1>4, <2>2
    <3>3. last[s][p] < e.n
      BY <3>2 DEF IInv, Downstream, Below
    <3>4. 1..last[s][p] \subseteq 1..last'[s][p] /\ e.n \in 1..last'[s][p]
      BY <1>3, <2>2, <3>1, <3>3
    <3> QED
      BY <2>1, <3>2, <3>4 DEF Accounted
  <2>3. CASE ~(s = c /\ e.from = p /\ e.n # 0)
    <3>1. last'[s][p] = last[s][p]
      BY <1>1, <1>2, <2>3
    <3>2. Numbers(outbox[s], p) \subseteq Numbers(outbox'[s], p)
      <4>1. CASE s = c
        BY <1>4, <2>3, <4>1
      <4>2. CASE s # c
        BY <1>1, <1>2, <2>1, <4>2
      <4> QED
        BY <4>1, <4>2
    <3> QED
      BY <2>1, <3>1, <3>2 DEF Accounted
  <2> QED
    BY <2>2, <2>3
<1> QED
  BY <1>1, <1>5, <1>6, LostKept DEF Complete

(* Other steps of clients and read loops take nothing away.                *)
LEMMA ClientsComplete ==
    ASSUME IInv, Complete, NEW c \in Client,
           Hang(c) \/ HttpDelete(c) \/ ReadFails(c) \/ Cancelled(c)
    PROVE  Complete'
<1>1. /\ sent' = sent /\ queue' = queue /\ last' = last
      /\ task' = task /\ left' = left /\ cur' = cur
  BY DEF Hang, HttpDelete, ReadFails, Cancelled, clientVars, readVars, workVars
<1>2. AckFirst'
  BY <1>1 DEF Complete, AckFirst
<1>3. /\ open' \subseteq open
      /\ \A d \in Client \cap open' : inbox'[d] = inbox[d] /\ outbox'[d] = outbox[d]
  <2>1. CASE HttpDelete(c)
    BY <2>1, CloseKeeps DEF HttpDelete
  <2>2. CASE Hang(c) \/ ReadFails(c) \/ Cancelled(c)
    BY <2>2 DEF Hang, ReadFails, Cancelled, clientVars
  <2> QED
    BY <2>1, <2>2
<1>4. \A p \in Client : Holding(p) \subseteq Holding(p)'
  <2>1. CASE ReadFails(c)
    <3>1. hold[c] = None /\ hold \in [Client -> Packet \cup {None}]
      BY <2>1 DEF ReadFails, IInv, InPlace, TypeOK
    <3>2. Holding(c) = {} /\ \A p \in Client : p # c => hold'[p] = hold[p]
      BY <2>1, <3>1 DEF ReadFails, Holding
    <3> QED
      BY <3>2 DEF Holding
  <2>2. CASE Hang(c) \/ HttpDelete(c) \/ Cancelled(c)
    BY <2>2 DEF Hang, HttpDelete, Cancelled, readVars, Holding
  <2> QED
    BY <2>1, <2>2
<1>5. ASSUME NEW s \in Subscriber \cap open', NEW p \in Publisher \cap open'
      PROVE  Accounted(s, p) \subseteq Accounted(s, p)'
  <2>1. s \in Client \cap open' /\ p \in Client \cap open'
    BY HomeAssumption
  <2>2. Handled(s, p)' = Handled(s, p) /\ Queued(p)' = Queued(p)
    BY <1>1 DEF Handled, Pending, Queued
  <2>3. Incoming(p)' = Incoming(p) /\ Numbers(outbox'[s], p) = Numbers(outbox[s], p)
    BY <1>3, <2>1 DEF Incoming
  <2> QED
    BY <1>1, <1>4, <2>1, <2>2, <2>3 DEF Accounted, Coming
<1> QED
  BY <1>1, <1>2, <1>3, <1>5, LostKept DEF Complete

(* The read loop takes one packet from the socket.                         *)
LEMMA ReadComplete ==
    ASSUME IInv, Complete, NEW c \in Client, Read(c)
    PROVE  Complete'
<1> DEFINE e == Head(inbox[c])
<1>1. /\ inbox[c] # <<>> /\ inbox' = [inbox EXCEPT ![c] = Tail(@)]
      /\ hold' = [hold EXCEPT ![c] = e] /\ hold[c] = None
      /\ open' = open /\ sent' = sent /\ queue' = queue /\ task' = task
      /\ left' = left /\ cur' = cur /\ outbox' = outbox /\ last' = last
  BY DEF Read, workVars, IInv, InPlace
<1>2. /\ inbox \in [Client -> Seq(Packet)] /\ inbox[c] \in Seq(Packet)
      /\ hold \in [Client -> Packet \cup {None}]
  BY DEF IInv, TypeOK
<1>3. e \in Packet /\ e # None /\ inbox'[c] = Tail(inbox[c])
  BY <1>1, <1>2, NumbersTail, NoneAssumption
<1>4. Numbers(inbox[c], c) \subseteq
         Numbers(inbox'[c], c) \cup (IF e.from = c /\ e.n # 0 THEN {e.n} ELSE {})
  BY <1>1, <1>2, <1>3, NumbersHead
<1> HIDE DEF e
<1>5. ASSUME NEW p \in Client PROVE Coming(p) \subseteq Coming(p)'
  <2>1. CASE p = c
    <3>1. Holding(c) = {} /\ Holding(c)' = IF e.n # 0 THEN {e.n} ELSE {}
      BY <1>1, <1>2, <1>3 DEF Holding
    <3> QED
      BY <1>1, <1>4, <2>1, <3>1 DEF Coming, Queued, Incoming
  <2>2. CASE p # c
    BY <1>1, <1>2, <2>2 DEF Coming, Queued, Holding, Incoming
  <2> QED
    BY <2>1, <2>2
<1>6. ASSUME NEW s \in Subscriber \cap open', NEW p \in Publisher \cap open'
      PROVE  Accounted(s, p) \subseteq Accounted(s, p)'
  BY <1>1, <1>5, HomeAssumption DEF Accounted, Handled, Pending
<1>7. AckFirst'
  BY <1>1 DEF Complete, AckFirst
<1> QED
  BY <1>1, <1>6, <1>7, LostKept DEF Complete

(* What it submits is in the channel of the client's worker.               *)
LEMMA SubmitComplete ==
    ASSUME IInv, Complete, NEW c \in Client, Submit(c)
    PROVE  Complete'
<1> DEFINE w == Home(c)
           e == hold[c]
<1>1. /\ queue' = [queue EXCEPT ![w] = Append(@, e)]
      /\ hold' = [hold EXCEPT ![c] = None] /\ e # None /\ e.from = c
      /\ open' = open /\ sent' = sent /\ inbox' = inbox /\ task' = task
      /\ left' = left /\ cur' = cur /\ outbox' = outbox /\ last' = last
  BY DEF Submit, Submitted, clientVars, workVars, IInv, InPlace
<1>2. /\ queue \in [Worker -> Seq(Packet)] /\ w \in Worker /\ queue[w] \in Seq(Packet)
      /\ hold \in [Client -> Packet \cup {None}]
  BY HomeAssumption DEF IInv, TypeOK
<1>3. e \in Packet /\ queue'[w] = Append(queue[w], e)
  BY <1>1, <1>2
<1> HIDE DEF w, e
<1>4. ASSUME NEW p
      PROVE  Numbers(queue'[w], p) =
               Numbers(queue[w], p) \cup (IF e.from = p /\ e.n # 0 THEN {e.n} ELSE {})
  <2>1. Numbers(Append(queue[w], e), p) =
          Numbers(queue[w], p) \cup (IF e.from = p /\ e.n # 0 THEN {e.n} ELSE {})
    BY <1>2, <1>3, NumbersAppend
  <2> QED
    BY <1>3, <2>1
<1>5. ASSUME NEW p \in Client PROVE Coming(p) \subseteq Coming(p)'
  <2>1. Incoming(p)' = Incoming(p)
    BY <1>1 DEF Incoming
  <2>2. Queued(p) \subseteq Queued(p)'
    <3>1. Home(p) = w \/ queue'[Home(p)] = queue[Home(p)]
      BY <1>1, <1>2, HomeAssumption
    <3> QED
      BY <1>4, <3>1 DEF Queued
  <2>3. Holding(p) \subseteq Queued(p)' \cup Holding(p)'
    <3>1. CASE p = c
      BY <1>1, <1>4, <3>1 DEF Queued, Holding, w, e
    <3>2. CASE p # c
      BY <1>1, <1>2, <3>2 DEF Holding
    <3> QED
      BY <3>1, <3>2
  <2> QED
    BY <2>1, <2>2, <2>3 DEF Coming
<1>6. ASSUME NEW s \in Subscriber \cap open', NEW p \in Publisher \cap open'
      PROVE  Accounted(s, p) \subseteq Accounted(s, p)'
  BY <1>1, <1>5, HomeAssumption DEF Accounted, Handled, Pending
<1>7. AckFirst'
  BY <1>1 DEF Complete, AckFirst
<1> QED
  BY <1>1, <1>6, <1>7, LostKept DEF Complete

(* A worker that takes a packet has yet to write it to everybody.          *)
LEMMA TakeComplete ==
    ASSUME IInv, Complete, NEW w \in Worker, Take(w)
    PROVE  Complete'
<1> DEFINE e == Head(queue[w])
<1>1. /\ task[w] = None /\ queue[w] # <<>>
      /\ queue' = [queue EXCEPT ![w] = Tail(@)]
      /\ task' = [task EXCEPT ![w] = e]
      /\ cur' = [cur EXCEPT ![w] = IF e.from \in Acked THEN e.from ELSE None]
      /\ left' = [left EXCEPT ![w] = None]
      /\ open' = open /\ sent' = sent /\ inbox' = inbox /\ hold' = hold
      /\ outbox' = outbox /\ last' = last
  BY DEF Take, clientVars, readVars
<1>2. /\ queue \in [Worker -> Seq(Packet)] /\ queue[w] \in Seq(Packet)
      /\ task \in [Worker -> Packet \cup {None}]
      /\ left \in [Worker -> {None} \cup SUBSET Subscriber]
      /\ cur \in [Worker -> Client \cup {None}]
  BY DEF IInv, TypeOK
<1>3. e \in Packet /\ e # None /\ queue'[w] = Tail(queue[w])
  BY <1>1, <1>2, NumbersTail, NoneAssumption
<1>4. ASSUME NEW p
      PROVE  Numbers(queue[w], p) \subseteq
               Numbers(queue'[w], p)
                 \cup (IF e.from = p /\ e.n # 0 THEN {e.n} ELSE {})
  BY <1>1, <1>2, <1>3, NumbersHead
<1> HIDE DEF e
<1>5. /\ task'[w] = e /\ left'[w] = None
      /\ cur'[w] = IF e.from \in Acked THEN e.from ELSE None
      /\ \A v \in Worker : v # w => /\ queue'[v] = queue[v] /\ task'[v] = task[v]
                                    /\ left'[v] = left[v] /\ cur'[v] = cur[v]
  BY <1>1, <1>2
<1>6. AckFirst'
  BY <1>5 DEF Complete, AckFirst
<1>7. ASSUME NEW s \in Subscriber \cap open', NEW p \in Publisher \cap open'
      PROVE  Accounted(s, p) \subseteq Accounted(s, p)'
  <2>1. Home(p) \in Worker
    BY HomeAssumption
  <2>2. Holding(p)' = Holding(p) /\ Incoming(p)' = Incoming(p)
    BY <1>1 DEF Holding, Incoming
  <2>3. Handled(s, p) \cup Queued(p) \subseteq Handled(s, p)' \cup Queued(p)'
    <3>1. CASE Home(p) = w
      <4>1. Handled(s, p) = {}
        BY <1>1, <3>1 DEF Handled
      <4>2. e.from = p => Handled(s, p)' = {e.n}
        BY <1>3, <1>5, <3>1 DEF Handled, Pending
      <4> QED
        BY <1>4, <3>1, <4>1, <4>2 DEF Queued
    <3>2. CASE Home(p) # w
      BY <1>5, <2>1, <3>2 DEF Handled, Pending, Queued
    <3> QED
      BY <3>1, <3>2
  <2> QED
    BY <1>1, <2>2, <2>3 DEF Accounted, Coming
<1> QED
  BY <1>1, <1>6, <1>7, LostKept DEF Complete

(* A DISCONNECT has no number, and closes its client only.                 *)
LEMMA TakeOffComplete ==
    ASSUME IInv, Complete, NEW w \in Worker, TakeDisconnect(w)
    PROVE  Complete'
<1> DEFINE e == Head(queue[w])
<1>1. /\ queue[w] # <<>> /\ queue' = [queue EXCEPT ![w] = Tail(@)]
      /\ e.n = 0 /\ Close(e.from)
      /\ sent' = sent /\ hold' = hold /\ last' = last
      /\ task' = task /\ left' = left /\ cur' = cur
  BY DEF TakeDisconnect, readVars, workVars
<1>2. queue \in [Worker -> Seq(Packet)] /\ queue[w] \in Seq(Packet)
  BY DEF IInv, TypeOK
<1>3. e.from \in Client /\ queue'[w] = Tail(queue[w])
  BY <1>1, <1>2, NumbersTail DEF Packet
<1>4. ASSUME NEW p PROVE Numbers(queue[w], p) \subseteq Numbers(queue'[w], p)
  BY <1>1, <1>2, <1>3, NumbersHead
<1> HIDE DEF e
<1>5. /\ open' \subseteq open
      /\ \A d \in Client \cap open' : inbox'[d] = inbox[d] /\ outbox'[d] = outbox[d]
  BY <1>1, <1>3, CloseKeeps
<1>6. AckFirst'
  BY <1>1 DEF Complete, AckFirst
<1>7. ASSUME NEW s \in Subscriber \cap open', NEW p \in Publisher \cap open'
      PROVE  Accounted(s, p) \subseteq Accounted(s, p)'
  <2>1. s \in Client \cap open' /\ p \in Client \cap open' /\ Home(p) \in Worker
    BY HomeAssumption
  <2>2. Handled(s, p)' = Handled(s, p) /\ Holding(p)' = Holding(p)
    BY <1>1 DEF Handled, Pending, Holding
  <2>3. Queued(p) \subseteq Queued(p)'
    <3>1. Home(p) = w \/ queue'[Home(p)] = queue[Home(p)]
      BY <1>1, <1>2, <2>1
    <3> QED
      BY <1>4, <3>1 DEF Queued
  <2>4. Incoming(p)' = Incoming(p) /\ Numbers(outbox'[s], p) = Numbers(outbox[s], p)
    BY <1>5, <2>1 DEF Incoming
  <2> QED
    BY <1>1, <2>2, <2>3, <2>4 DEF Accounted, Coming
<1> QED
  BY <1>1, <1>5, <1>6, <1>7, LostKept DEF Complete

(* A worker passes over closed subscribers, and closed publishers.         *)
LEMMA WorkersComplete ==
    ASSUME IInv, Complete, NEW w \in Worker,
           Lookup(w) \/ Pick(w) \/ WriteClosed(w) \/ AckFails(w) \/ Finish(w)
    PROVE  Complete'
<1>1. /\ open' = open /\ sent' = sent /\ inbox' = inbox /\ hold' = hold
      /\ queue' = queue /\ outbox' = outbox /\ last' = last
  BY DEF Lookup, Pick, WriteClosed, AckFails, Finish, readVars, clientVars
<1>2. /\ task \in [Worker -> Packet \cup {None}]
      /\ left \in [Worker -> {None} \cup SUBSET Subscriber]
      /\ cur \in [Worker -> Client \cup {None}]
      /\ left[w] = None /\ cur[w] # None => cur[w] = task[w].from
      /\ \A S \in SUBSET Subscriber : S # None
      /\ None \notin Subscriber
  BY HomeAssumption, NoneAssumption DEF IInv, TypeOK, Complete, AckFirst
(* The task is as before for who is to be written to, unless the publisher *)
(* or that subscriber has been closed.                                     *)
<1>3. /\ \A v \in Worker : v # w => /\ task'[v] = task[v] /\ left'[v] = left[v]
                                    /\ cur'[v] = cur[v]
      /\ left'[w] = None /\ cur'[w] # None => cur'[w] = task'[w].from
      /\ task[w] # None /\ task[w].from \in open =>
            \A s \in Subscriber \cap open :
               Pending(w, s) => task'[w] = task[w] /\ Pending(w, s)'
  <2>1. CASE Lookup(w)
    BY <1>2, <2>1 DEF Lookup, Pending
  <2>2. CASE Pick(w)
    <3>1. PICK x \in left[w] : /\ cur' = [cur EXCEPT ![w] = x]
                               /\ left' = [left EXCEPT ![w] = @ \ {x}]
      BY <2>2 DEF Pick
    <3>2. cur[w] = None /\ left[w] \in SUBSET Subscriber /\ task' = task
      BY <1>2, <2>2 DEF Pick
    <3>3. cur'[w] = x /\ left'[w] = left[w] \ {x} /\ left'[w] # None
      BY <1>2, <3>1, <3>2
    <3> QED
      BY <1>2, <3>1, <3>2, <3>3 DEF Pending
  <2>3. CASE WriteClosed(w)
    BY <1>2, <2>3 DEF WriteClosed, Pending
  <2>4. CASE AckFails(w)
    BY <1>2, <2>4 DEF AckFails, Pending
  <2>5. CASE Finish(w)
    BY <1>2, <2>5 DEF Finish, Pending
  <2> QED
    BY <2>1, <2>2, <2>3, <2>4, <2>5
<1>4. AckFirst'
  BY <1>3 DEF Complete, AckFirst
<1>5. ASSUME NEW s \in Subscriber \cap open', NEW p \in Publisher \cap open'
      PROVE  Accounted(s, p) \subseteq Accounted(s, p)'
  <2>1. Home(p) \in Worker /\ Coming(p)' = Coming(p)
    BY <1>1, HomeAssumption DEF Coming, Queued, Holding, Incoming
  <2>2. Handled(s, p) \subseteq Handled(s, p)'
    <3>1. CASE Home(p) # w
      BY <1>3, <2>1, <3>1 DEF Handled, Pending
    <3>2. CASE Home(p) = w
      BY <1>1, <1>3, <3>2 DEF Handled
    <3> QED
      BY <3>1, <3>2
  <2> QED
    BY <1>1, <2>1, <2>2 DEF Accounted
<1> QED
  BY <1>1, <1>4, <1>5, LostKept DEF Complete

(* What it writes is on the socket of the subscriber.                      *)
LEMMA WriteComplete ==
    ASSUME IInv, Complete, NEW w \in Worker, Write(w)
    PROVE  Complete'
<1> DEFINE c == cur[w]
           e == Written(w)
<1>1. /\ c \in open /\ outbox' = [outbox EXCEPT ![c] = Append(@, e)]
      /\ cur' = [cur EXCEPT ![w] = None]
      /\ open' = open /\ sent' = sent /\ inbox' = inbox /\ hold' = hold
      /\ queue' = queue /\ task' = task /\ left' = left /\ last' = last
  BY DEF Write, readVars, clientVars
<1>2. /\ c \in Client /\ c # None /\ outbox \in [Client -> Seq(Packet)]
      /\ outbox[c] \in Seq(Packet) /\ cur \in [Worker -> Client \cup {None}]
  BY <1>1, NoneAssumption DEF IInv, TypeOK
<1>3. task[w] # None /\ task[w] \in Packet /\ task[w].n # 0
  BY <1>2 DEF IInv, TypeOK, Busy, InPlace
<1>4. /\ e \in Packet /\ e.from = task[w].from
      /\ left[w] # None => e.n = task[w].n
  BY <1>3 DEF Written, Packet
<1>5. outbox'[c] = Append(outbox[c], e)
  BY <1>1, <1>2
<1> HIDE DEF c, e
<1>6. ASSUME NEW p
      PROVE  Numbers(outbox'[c], p) =
               Numbers(outbox[c], p) \cup (IF e.from = p /\ e.n # 0 THEN {e.n} ELSE {})
  <2>1. Numbers(Append(outbox[c], e), p) =
          Numbers(outbox[c], p) \cup (IF e.from = p /\ e.n # 0 THEN {e.n} ELSE {})
    BY <1>2, <1>4, NumbersAppend
  <2> QED
    BY <1>5, <2>1
<1>7. /\ cur'[w] = None /\ c = cur[w]
      /\ \A v \in Worker : v # w => cur'[v] = cur[v]
  BY <1>1, <1>2 DEF c
<1>8. AckFirst'
  BY <1>1, <1>7 DEF Complete, AckFirst
<1>9. ASSUME NEW s \in Subscriber \cap open', NEW p \in Publisher \cap open'
      PROVE  Accounted(s, p) \subseteq Accounted(s, p)'
  <2>1. Home(p) \in Worker /\ s \in Client /\ Coming(p)' = Coming(p)
    BY <1>1, HomeAssumption DEF Coming, Queued, Holding, Incoming
  <2>2. Numbers(outbox[s], p) \subseteq Numbers(outbox'[s], p)
    <3>1. s = c \/ outbox'[s] = outbox[s]
      BY <1>1, <1>2, <2>1
    <3> QED
      BY <1>6, <3>1
  <2>3. Handled(s, p) \subseteq Handled(s, p)' \cup Numbers(outbox'[s], p)
    <3>1. CASE Home(p) # w \/ s # c \/ left[w] = None \/ s \in left[w]
      BY <1>1, <1>7, <2>1, <3>1 DEF Handled, Pending
    <3>2. CASE Home(p) = w /\ s = c /\ left[w] # None
      <4>1. task[w].from = p => task[w].n \in Numbers(outbox'[s], p)
        BY <1>3, <1>4, <1>6, <3>2
      <4> QED
        BY <3>2, <4>1 DEF Handled
    <3> QED
      BY <3>1, <3>2
  <2> QED
    BY <1>1, <2>1, <2>2, <2>3 DEF Accounted
<1> QED
  BY <1>1, <1>8, <1>9, LostKept DEF Complete

(* As long as a publisher and a subscriber are connected, every packet of  *)
(* the publisher is accounted for.                                         *)
LEMMA Completeness == Spec => []Complete
<1>1. Init => Complete
  <2> SUFFICES ASSUME Init PROVE Complete
    OBVIOUS
  <2>1. AckFirst
    BY DEF Init, AckFirst
  <2>2. ASSUME NEW p \in Publisher PROVE 1..sent[p] = {}
    BY HomeAssumption DEF Init
  <2> QED
    BY <2>1, <2>2 DEF Complete, NoneLost
<1>2. ASSUME IInv, Complete, Next PROVE Complete'
  <2>1. ASSUME NEW c \in Client, ClientStep(c) \/ Receive(c) \/ ReaderStep(c) \/ Submit(c)
        PROVE  Complete'
    <3>1. CASE Send(c) \/ Receive(c)
      BY <1>2, <3>1, SendComplete, ReceiveComplete
    <3>2. CASE Read(c) \/ Submit(c)
      BY <1>2, <3>2, ReadComplete, SubmitComplete
    <3>3. CASE Hang(c) \/ HttpDelete(c) \/ ReadFails(c) \/ Cancelled(c)
      BY <1>2, <3>3, ClientsComplete
    <3> QED
      BY <2>1, <3>1, <3>2, <3>3 DEF ClientStep, ReaderStep
  <2>2. ASSUME NEW w \in Worker, WorkerStep(w) \/ Write(w)
        PROVE  Complete'
    <3>1. CASE Take(w) \/ TakeDisconnect(w) \/ Write(w)
      BY <1>2, <3>1, TakeComplete, TakeOffComplete, WriteComplete
    <3>2. CASE Lookup(w) \/ Pick(w) \/ WriteClosed(w) \/ AckFails(w) \/ Finish(w)
      BY <1>2, <3>2, WorkersComplete
    <3> QED
      BY <2>2, <3>1, <3>2 DEF WorkerStep
  <2> QED
    BY <1>2, <2>1, <2>2 DEF Next
<1>3. ASSUME Complete, UNCHANGED vars PROVE Complete'
  <2>1. /\ open' = open /\ sent' = sent /\ inbox' = inbox /\ hold' = hold
        /\ queue' = queue /\ task' = task /\ left' = left /\ cur' = cur
        /\ outbox' = outbox /\ last' = last
    BY <1>3 DEF vars, clientVars, readVars, workVars
  <2> QED
    BY <1>3, <2>1 DEF Complete, AckFirst, NoneLost, Accounted, Handled, Pending,
       Coming, Queued, Holding, Incoming
<1> QED
  BY <1>1, <1>2, <1>3, Invariance, PTL DEF Spec

-----------------------------------------------------------------------------
(* Sockets, channels and read loops hold packets of clients, and a worker  *)
(* one task and the subscribers it has yet to write to.                    *)
THEOREM TypeCorrect == Spec => []TypeOK
BY Invariance, PTL DEF IInv

(* The subscriber receives the packets of each publisher in the order in   *)
(* which they were sent, and as long as both are connected none is left    *)
(* out, whatever the other workers write in between.                       *)
THEOREM ReceivedInOrder == Spec => []InOrder
<1>1. ASSUME IInv, Complete PROVE InOrder
  <2> SUFFICES ASSUME NEW s \in Subscriber, NEW p \in Publisher
               PROVE  /\ \A i \in 1..Len(outbox[s]) :
                            Own(outbox[s], i, p) => outbox[s][i].n > last[s][p]
                      /\ Rising(outbox[s], p)
                      /\ {s, p} \subseteq open =>
                            \A i \in 1..Len(outbox[s]) : Own(outbox[s], i, p) =>
                               \A n \in (last[s][p] + 1)..(outbox[s][i].n - 1) :
                                  \E j \in 1..(i - 1) :
                                     Own(outbox[s], j, p) /\ outbox[s][j].n = n
    BY DEF InOrder, Own, Rising
  <2>1. /\ Rising(outbox[s], p) /\ Below({last[s][p]}, Numbers(outbox[s], p))
        /\ \A k \in Numbers(outbox[s], p) : Before(p, k)
    BY <1>1 DEF IInv, Downstream
  <2>2. /\ s \in Client /\ p \in Client /\ outbox[s] \in Seq(Packet)
        /\ last[s][p] \in Nat /\ sent[p] \in Nat
    BY <1>1, HomeAssumption DEF IInv, TypeOK
  <2>3. \A i \in 1..Len(outbox[s]) : Own(outbox[s], i, p) =>
           /\ outbox[s][i].n \in Numbers(outbox[s], p) /\ outbox[s][i].n \in Nat
    <3>1. Numbers(outbox[s], p) \subseteq Nat
      BY <2>2, NumbersNat
    <3> QED
      BY <3>1 DEF Numbers
  <2>4. ASSUME NEW k \in Numbers(outbox[s], p), {s, p} \subseteq open,
               NEW n \in (last[s][p] + 1)..(k - 1)
        PROVE  n \in Numbers(outbox[s], p)
    <3>1. k \in Nat /\ k <= sent[p] /\ Below({k}, Coming(p))
      BY <2>1, <2>2, NumbersNat DEF Before
    <3>2. n \in Nat /\ n \in 1..sent[p] /\ n \notin 1..last[s][p] /\ n < k
      BY <2>2, <3>1
    <3>3. n \in Accounted(s, p)
      BY <1>1, <2>4, <3>2 DEF Complete, NoneLost
    <3>4. n \notin Coming(p)
      BY <3>1, <3>2 DEF Below
    <3>5. n \notin Handled(s, p)
      <4>1. ASSUME task[Home(p)] # None, task[Home(p)].from = p, Pending(Home(p), s)
            PROVE  Below(Numbers(outbox[s], p), {task[Home(p)].n})
        BY <1>1, <4>1, HomeAssumption DEF IInv, Between, InTurn
      <4> QED
        BY <3>1, <3>2, <4>1 DEF Handled, Below
    <3> QED
      BY <3>2, <3>3, <3>4, <3>5 DEF Accounted
  <2>5. ASSUME {s, p} \subseteq open, NEW i \in 1..Len(outbox[s]),
               Own(outbox[s], i, p), NEW n \in (last[s][p] + 1)..(outbox[s][i].n - 1)
        PROVE  \E j \in 1..(i - 1) : Own(outbox[s], j, p) /\ outbox[s][j].n = n
    <3>1. n \in Numbers(outbox[s], p) /\ n < outbox[s][i].n
      BY <2>2, <2>3, <2>4, <2>5
    <3>2. PICK j \in 1..Len(outbox[s]) : Own(outbox[s], j, p) /\ outbox[s][j].n = n
      BY <3>1 DEF Numbers
    <3>3. ~(i < j) /\ i # j
      BY <2>1, <2>2, <2>3, <2>5, <3>1, <3>2 DEF Rising
    <3>4. j \in 1..(i - 1)
      BY <2>2, <3>3
    <3> QED
      BY <3>2, <3>4
  <2>6. \A i \in 1..Len(outbox[s]) :
           Own(outbox[s], i, p) => outbox[s][i].n > last[s][p]
    BY <2>1, <2>2, <2>3 DEF Below
  <2> QED
    BY <2>1, <2>5, <2>6
<1> QED
  BY <1>1, Invariance, Completeness, PTL
==============================================================================
