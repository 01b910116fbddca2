------------------------------ MODULE Delivery -------------------------------
(***************************************************************************)
(* From PUBLISH to the subscribers of its topic (ProcessPublishMessage in  *)
(* broker/client.go, Broker.PublishMessage for wills), concurrently with   *)
(* SUBSCRIBE and UNSUBSCRIBE of the subscribers.                           *)
(*                                                                         *)
(* Everything is about one topic: Topics is about which filters match it.  *)
(* Each message is published by a worker of its own, each client's packets *)
(* are handled by the client's worker.  The tree and the retained message  *)
(* have a lock each; nothing is held from one access to the next.          *)
(***************************************************************************)
CONSTANTS
    Message,
    Kinds(_),   \* per message, what it may be: "plain", "retain", "clear"
                \*   (retain with an empty payload) or "will"
    Client,     \* subscribers, each with one filter
    Group(_),   \* per client, the $share group of its filter, or None
    None

Kind == {"plain", "retain", "clear", "will"}

ASSUME KindAssumption == None \notin Message \cup Kind
                         /\ \A m \in Message : Kinds(m) \subseteq Kind

VARIABLES
    kind,       \* per message, what it is, once published
    pub,        \* per message, where its publisher is
    subs,       \* per message, the subscribers found and not handled yet
    retained,   \* the topic's retained message
    tree,       \* the clients with a subscription in the tree
    sub,        \* per client, where its SUBSCRIBE is, or "in" or "out"
    rmsgs,      \* per client, the retained messages collected to be sent
    got,        \* per client, what it was sent since its last SUBSCRIBE
    due         \* per message, the clients subscribed from before it was
                \*   published until now

pubVars == <<kind, pub, subs, due>>
subVars == <<sub, rmsgs>>
vars == <<kind, pub, subs, retained, tree, sub, rmsgs, got, due>>

Retainable == {m \in Message : kind[m] = "retain"}
Shared(c) == Group(c) # None

TypeOK ==
    /\ kind \in [Message -> Kind \cup {None}]
    /\ pub \in [Message -> {"idle", "retain", "lookup", "send", "done"}]
    /\ subs \in [Message -> SUBSET Client]
    /\ retained \in Retainable \cup {None}
    /\ tree \in SUBSET Client
    /\ sub \in [Client -> {"out", "insert", "retained", "send", "in"}]
    /\ rmsgs \in [Client -> SUBSET Retainable]
    /\ got \in [Client -> SUBSET Message]
    /\ due \in [Message -> SUBSET Client]

Init ==
    /\ kind = [m \in Message |-> None]
    /\ pub = [m \in Message |-> "idle"]
    /\ subs = [m \in Message |-> {}]
    /\ retained = None
    /\ tree = {}
    /\ sub = [c \in Client |-> "out"]
    /\ rmsgs = [c \in Client |-> {}]
    /\ got = [c \in Client |-> {}]
    /\ due = [m \in Message |-> {}]
-----------------------------------------------------------------------------
(* A will is looked up at once, whatever its retain flag.                  *)
Publish(m, k) ==
    /\ pub[m] = "idle"
    /\ kind' = [kind EXCEPT ![m] = k]
    /\ pub' = [pub EXCEPT ![m] = IF k \in {"retain", "clear"} THEN "retain"
                                                              ELSE "lookup"]
    /\ due' = [due EXCEPT ![m] = {c \in Client : sub[c] = "in"}]
    /\ UNCHANGED <<subs, retained, tree, subVars, got>>

(* Faulty: an empty payload is a message like any other.                   *)
RetainAny(m) ==
    /\ pub[m] = "retain"
    /\ pub' = [pub EXCEPT ![m] = "lookup"]
    /\ retained' = m
    /\ UNCHANGED <<kind, subs, due, tree, subVars, got>>

Retain(m) ==
    /\ pub[m] = "retain"
    /\ pub' = [pub EXCEPT ![m] = "lookup"]
    /\ retained' = IF kind[m] = "clear" THEN None ELSE m
    /\ UNCHANGED <<kind, subs, due, tree, subVars, got>>

Subscribers(m) ==
    /\ pub[m] = "lookup"
    /\ pub' = [pub EXCEPT ![m] = "send"]
    /\ subs' = [subs EXCEPT ![m] = tree]
    /\ UNCHANGED <<kind, due, retained, tree, subVars, got>>

Send(m, c) == got' = [got EXCEPT ![c] = @ \cup {m}]

(* PublishMessage makes no difference between subscribers.                 *)
Alone(m, c) == kind[m] = "will" \/ ~Shared(c)

(* Faulty: the loop ends after the first subscriber.                       *)
DeliverFirst(m, c) ==
    /\ pub[m] = "send" /\ c \in subs[m] /\ Alone(m, c)
    /\ Send(m, c)
    /\ subs' = [subs EXCEPT ![m] = {d \in @ : ~Alone(m, d)}]
    /\ UNCHANGED <<kind, pub, due, retained, tree, subVars>>

Deliver(m, c) ==
    /\ pub[m] = "send" /\ c \in subs[m] /\ Alone(m, c)
    /\ Send(m, c)
    /\ subs' = [subs EXCEPT ![m] = @ \ {c}]
    /\ UNCHANGED <<kind, pub, due, retained, tree, subVars>>

(* Faulty: shared subscribers are set aside and forgotten.                 *)
FinishUnshared(m) ==
    /\ pub[m] = "send" /\ \A c \in subs[m] : ~Alone(m, c)
    /\ pub' = [pub EXCEPT ![m] = "done"]
    /\ subs' = [subs EXCEPT ![m] = {}]
    /\ UNCHANGED <<kind, due, retained, tree, subVars, got>>

(* When the others have it, one of the shared subscribers, whatever its    *)
(* group, is picked at random.                                             *)
Finish(m) ==
    /\ pub[m] = "send" /\ \A c \in subs[m] : ~Alone(m, c)
    /\ pub' = [pub EXCEPT ![m] = "done"]
    /\ IF subs[m] = {} THEN UNCHANGED got ELSE \E c \in subs[m] : Send(m, c)
    /\ subs' = [subs EXCEPT ![m] = {}]
    /\ UNCHANGED <<kind, due, retained, tree, subVars>>
-----------------------------------------------------------------------------
Leave(c) == /\ tree' = tree \ {c}
            /\ got' = [got EXCEPT ![c] = {}]
            /\ due' = [m \in Message |-> due[m] \ {c}]

(* SUBSCRIBE takes the client's former subscription out first.             *)
Subscribe(c) ==
    /\ sub[c] \in {"out", "in"}
    /\ sub' = [sub EXCEPT ![c] = "insert"]
    /\ Leave(c)
    /\ UNCHANGED <<kind, pub, subs, retained, rmsgs>>

(* Faulty: the retained messages are not looked up.                        *)
SubscribeInsertOnly(c) ==
    /\ sub[c] = "insert"
    /\ sub' = [sub EXCEPT ![c] = "send"]
    /\ tree' = tree \cup {c}
    /\ UNCHANGED <<pubVars, retained, rmsgs, got>>

SubscribeInsert(c) ==
    /\ sub[c] = "insert"
    /\ sub' = [sub EXCEPT ![c] = "retained"]
    /\ tree' = tree \cup {c}
    /\ UNCHANGED <<pubVars, retained, rmsgs, got>>

(* What is found is appended to the client's rmsgs, which nothing empties. *)
Retained(c) ==
    /\ sub[c] = "retained"
    /\ sub' = [sub EXCEPT ![c] = "send"]
    /\ rmsgs' = [rmsgs EXCEPT ![c] = @ \cup ({retained} \ {None})]
    /\ UNCHANGED <<pubVars, retained, tree, got>>

SendRetained(c) ==
    /\ sub[c] = "send"
    /\ sub' = [sub EXCEPT ![c] = "in"]
    /\ got' = [got EXCEPT ![c] = @ \cup rmsgs[c]]
    /\ UNCHANGED <<pubVars, retained, tree, rmsgs>>

Unsubscribe(c) ==
    /\ sub[c] = "in"
    /\ sub' = [sub EXCEPT ![c] = "out"]
    /\ Leave(c)
    /\ UNCHANGED <<kind, pub, subs, retained, rmsgs>>

Next == \/ \E m \in Message : \/ \E k \in Kinds(m) : Publish(m, k)
                              \/ Retain(m) \/ Subscribers(m)
                              \/ \E c \in Client : Deliver(m, c)
                              \/ Finish(m)
        \/ \E c \in Client : \/ Subscribe(c) \/ SubscribeInsert(c)
                             \/ Retained(c) \/ SendRetained(c)
                             \/ Unsubscribe(c)

Spec == Init /\ [][Next]_vars
-----------------------------------------------------------------------------
(* Whoever is subscribed from before a message is published until it has   *)
(* been handed out, and is not in a group, was sent it, although others    *)
(* subscribe and leave at the same time.                                   *)
LiveDelivered ==
    \A m \in Message : pub[m] = "done" =>
       \A c \in due[m] : ~Shared(c) => m \in got[c]

(* A subscriber has the topic's retained message, however its SUBSCRIBE    *)
(* and the PUBLISH interleave: the publisher retains and then looks for    *)
(* subscribers, the subscriber subscribes and then looks for the retained  *)
(* message, so one of them finds the other.                                *)
NoMissedRetained ==
    \A c \in Client :
       /\ sub[c] = "in" /\ ~Shared(c)
       /\ retained # None /\ pub[retained] = "done"
       => retained \in got[c]

Members(g) == {c \in Client : Group(c) = g}

(* Of each $share group whose members are all subscribed throughout, some  *)
(* member is sent the message.                                             *)
EachGroupServed ==
    \A m \in Message : pub[m] = "done" =>
       \A g \in {Group(c) : c \in Client} \ {None} :
          Members(g) \subseteq due[m] => \E c \in Members(g) : m \in got[c]
=============================================================================
