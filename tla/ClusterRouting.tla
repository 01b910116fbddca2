--------------------------- MODULE ClusterRouting ----------------------------
(***************************************************************************)
(* Subscriptions and messages between the brokers of a cluster             *)
(* (BroadcastSubOrUnsubMessage in broker/broker.go, processRouterSubscribe *)
(* and processRouterPublish in broker/client.go).                          *)
(*                                                                         *)
(* Broker a dials broker b.  At a's end the link is a client of type       *)
(* REMOTE, at b's end one of type ROUTER.  A SUBSCRIBE at b travels from   *)
(* b's ROUTER end to a's REMOTE end, which then holds a subscription in    *)
(* a's tree; a message at a that matches it travels back to b.             *)
(*                                                                         *)
(* Everything is about one topic and filters outside $share groups.  A     *)
(* packet's handler is one step: Delivery has the interleavings inside it, *)
(* and Inflight the retries.                                               *)
(***************************************************************************)
EXTENDS Integers, Sequences

CONSTANTS
    Broker, Client, Message,
    Home(_),        \* per client, its broker
    Origin(_),      \* per message, the broker it is published at
    Qos(_),         \* per message
    MaxSubscribes,  \* bound: SUBSCRIBEs per client
    MaxCopies       \* bound: copies of a message on a link

ASSUME HomeAssumption ==
    /\ \A c \in Client : Home(c) \in Broker
    /\ \A m \in Message : Origin(m) \in Broker /\ Qos(m) \in 0..2
    /\ MaxSubscribes \in Nat /\ MaxCopies \in Nat \ {0}

VARIABLES
    up,         \* the links <<a, b>> that are connected
    held,       \* per link, its REMOTE end's subscriptions in the tree
    ctl,        \* per link, packets on their way from b to a
    wire,       \* per link, the copies of each message from a to b
    sub,        \* the clients with a subscription in their broker's tree
    count,      \* per client, the SUBSCRIBEs it has sent
    broadcast,  \* per client, the broadcasts of its SUBSCRIBEs to be run
    published,  \* the messages published
    got,        \* per client, what it was sent since it last subscribed
    again,      \* per client, what it was sent more than once
    told,       \* per client, the brokers whose link has had its SUBSCRIBE
    due         \* per message, the clients that have to be sent it

linkVars == <<up, held, ctl>>
clientVars == <<sub, count, broadcast>>
pubVars == <<wire, published, got, again>>
vars == <<linkVars, clientVars, pubVars, told, due>>

Link == {l \in Broker \X Broker : l[1] # l[2]}
Packet == [kind : {"subscribe", "unsubscribe"}, client : Client]

TypeOK ==
    /\ up \in SUBSET Link
    /\ held \in [Link -> Nat]
    /\ \A l \in Link : ctl[l] \in Seq(Packet)
    /\ wire \in [Link -> [Message -> 0..MaxCopies]]
    /\ sub \in SUBSET Client
    /\ count \in [Client -> 0..MaxSubscribes]
    /\ broadcast \in [Client -> 0..MaxSubscribes]
    /\ published \in SUBSET Message
    /\ got \in [Client -> SUBSET Message]
    /\ again \in [Client -> SUBSET Message]
    /\ told \in [Client -> SUBSET Broker]
    /\ due \in [Message -> SUBSET Client]

Init ==
    /\ up = {}
    /\ held = [l \in Link |-> 0]
    /\ ctl = [l \in Link |-> <<>>]
    /\ wire = [l \in Link |-> [m \in Message |-> 0]]
    /\ sub = {}
    /\ count = [c \in Client |-> 0]
    /\ broadcast = [c \in Client |-> 0]
    /\ published = {}
    /\ got = [c \in Client |-> {}]
    /\ again = [c \in Client |-> {}]
    /\ told = [c \in Client |-> {}]
    /\ due = [m \in Message |-> {}]
-----------------------------------------------------------------------------
(* connectRouter, and handleConnection at the other end: the new link's    *)
(* REMOTE end has no subscriptions, and nobody sends it any.               *)
LinkUp(l) ==
    /\ l \notin up
    /\ up' = up \cup {l}
    /\ UNCHANGED <<held, ctl, clientVars, pubVars, told, due>>

(* Both ends close.  What was on the way is lost, and the REMOTE end's     *)
(* subscriptions go.                                                       *)
LinkDown(l) ==
    /\ l \in up
    /\ up' = up \ {l}
    /\ held' = [held EXCEPT ![l] = 0]
    /\ ctl' = [ctl EXCEPT ![l] = <<>>]
    /\ wire' = [wire EXCEPT ![l] = [m \in Message |-> 0]]
    /\ told' = [c \in Client |-> IF Home(c) = l[2] THEN told[c] \ {l[1]}
                                                   ELSE told[c]]
    /\ due' = [m \in Message |->
                 IF Origin(m) = l[1] THEN {c \in due[m] : Home(c) # l[2]}
                                     ELSE due[m]]
    /\ UNCHANGED <<clientVars, published, got, again>>
-----------------------------------------------------------------------------
(* BroadcastSubOrUnsubMessage writes to the ROUTER ends at broker b.       *)
Broadcast(b, packet) ==
    ctl' = [l \in Link |-> IF l \in up /\ l[2] = b THEN Append(ctl[l], packet)
                                                   ELSE ctl[l]]

Forget(c) == /\ got' = [got EXCEPT ![c] = {}]
             /\ again' = [again EXCEPT ![c] = {}]

Subscribe(c) ==
    /\ count[c] < MaxSubscribes
    /\ sub' = sub \cup {c}
    /\ count' = [count EXCEPT ![c] = @ + 1]
    /\ broadcast' = [broadcast EXCEPT ![c] = @ + 1]
    /\ UNCHANGED <<linkVars, pubVars, told, due>>

(* Faulty: broadcasts more often than there were SUBSCRIBEs.               *)
BroadcastAgain(c) ==
    /\ broadcast[c] > 0
    /\ Broadcast(Home(c), [kind |-> "subscribe", client |-> c])
    /\ Len(ctl[CHOOSE l \in Link : l[2] = Home(c)]) < 2
    /\ UNCHANGED <<up, held, clientVars, pubVars, told, due>>

(* The broadcast is a goroutine of its own.                                *)
BroadcastSubscribe(c) ==
    /\ broadcast[c] > 0
    /\ broadcast' = [broadcast EXCEPT ![c] = @ - 1]
    /\ Broadcast(Home(c), [kind |-> "subscribe", client |-> c])
    /\ UNCHANGED <<up, held, sub, count, pubVars, told, due>>

(* An UNSUBSCRIBE, or the end of the connection, is broadcast at once.     *)
Unsubscribe(c) ==
    /\ c \in sub
    /\ sub' = sub \ {c}
    /\ Broadcast(Home(c), [kind |-> "unsubscribe", client |-> c])
    /\ Forget(c)
    /\ told' = [told EXCEPT ![c] = {}]
    /\ due' = [m \in Message |-> due[m] \ {c}]
    /\ UNCHANGED <<up, held, count, broadcast, wire, published>>

(* Faulty: ProcessUnSubscribe drops the link's subscription whoever else   *)
(* of the sender's clients needs it.                                       *)
HandleControlDrops(l) ==
    /\ ctl[l] # <<>>
    /\ LET p == Head(ctl[l]) IN
       /\ held' = [held EXCEPT ![l] = IF p.kind = "subscribe" THEN @ + 1 ELSE 0]
       /\ told' = IF p.kind = "subscribe"
                  THEN [told EXCEPT ![p.client] = @ \cup {l[1]}] ELSE told
    /\ ctl' = [ctl EXCEPT ![l] = Tail(@)]
    /\ UNCHANGED <<up, clientVars, pubVars, due>>

(* At the REMOTE end each SUBSCRIBE adds a subscription and takes none     *)
(* away; ProcessUnSubscribe has no case for clients of type REMOTE.        *)
HandleControl(l) ==
    /\ ctl[l] # <<>>
    /\ LET p == Head(ctl[l]) IN
       IF p.kind = "subscribe"
       THEN /\ held' = [held EXCEPT ![l] = @ + 1]
            /\ told' = [told EXCEPT ![p.client] = @ \cup {l[1]}]
       ELSE UNCHANGED <<held, told>>
    /\ ctl' = [ctl EXCEPT ![l] = Tail(@)]
    /\ UNCHANGED <<up, clientVars, pubVars, due>>
-----------------------------------------------------------------------------
(* ProcessPublishMessage at broker b: its clients that have subscribed,    *)
(* and a copy per subscription onto its links.  Clients of type ROUTER     *)
(* would be left out, but no subscription is theirs.                       *)
Route(b, m, before) ==
    LET here == {c \in sub : Home(c) = b} IN
    /\ got' = [c \in Client |-> got[c] \cup (IF c \in here THEN {m} ELSE {})]
    /\ again' = [c \in Client |->
                   again[c] \cup (IF c \in here THEN {m} \cap got[c] ELSE {})]
    /\ wire' = [l \in Link |->
                  [before[l] EXCEPT ![m] = IF l[1] = b THEN @ + held[l] ELSE @]]
    /\ \A l \in Link : wire'[l][m] <= MaxCopies

Publish(m) ==
    /\ m \notin published
    /\ published' = published \cup {m}
    /\ due' = [due EXCEPT ![m] = {c \in sub : Origin(m) \in told[c] \cup {Home(c)}}]
    /\ Route(Origin(m), m, wire)
    /\ UNCHANGED <<linkVars, clientVars, told>>

(* processRouterPublish: a message of QoS 2 goes no further.               *)
HandlePublish(l, m) ==
    /\ wire[l][m] > 0
    /\ LET rest == [wire EXCEPT ![l][m] = @ - 1] IN
       IF Qos(m) = 2 THEN wire' = rest /\ UNCHANGED <<got, again>>
                     ELSE Route(l[2], m, rest)
    /\ UNCHANGED <<linkVars, clientVars, published, told, due>>

Next == \/ \E l \in Link : \/ LinkUp(l) \/ LinkDown(l) \/ HandleControl(l)
                           \/ \E m \in Message : HandlePublish(l, m)
        \/ \E c \in Client : \/ Subscribe(c) \/ BroadcastSubscribe(c)
                             \/ Unsubscribe(c)
        \/ \E m \in Message : Publish(m)

Spec == Init /\ [][Next]_vars
-----------------------------------------------------------------------------
(* A client whose SUBSCRIBE has reached the broker a message is published  *)
(* at is sent the message, whatever the other clients of its broker and    *)
(* the other brokers do: an UNSUBSCRIBE of one client takes nothing from   *)
(* another.  It counts while the client stays subscribed and the link up.  *)
RemoteDelivered ==
    \A m \in published : \A c \in due[m] :
       \/ Home(c) # Origin(m) /\ (Qos(m) = 2 \/ wire[<<Origin(m), Home(c)>>][m] > 0)
       \/ m \in got[c]

(* Copies of a message come from several SUBSCRIBEs (and from retries)     *)
(* only: while there has been a single one in the cluster, no message is   *)
(* sent to a client twice, also when links break and come back.            *)
OnceIfSingle ==
    \A c \in Client : again[c] # {} =>
       count[c] > 1 \/ \E d \in Client \ {c} : count[d] > 0
=============================================================================
