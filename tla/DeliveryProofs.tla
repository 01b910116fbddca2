--------------------------- MODULE DeliveryProofs ----------------------------
(***************************************************************************)
(* Theorems about Delivery, for any messages, clients and groups.          *)
(***************************************************************************)
EXTENDS Delivery, TLAPS

(* The client has the message, or its publisher is still to hand it over.  *)
Coming(m, c) == \/ m \in got[c]
                \/ pub[m] = "lookup"
                \/ pub[m] = "send" /\ c \in subs[m]

(* A message is retained, and collected for a client, only after its       *)
(* publisher has stored it; only "retain" and "clear" are stored.          *)
Stored == /\ \A m \in Message :
                pub[m] = "retain" => kind[m] \in {"retain", "clear"}
          /\ retained # None => pub[retained] \notin {"idle", "retain"}
          /\ \A c \in Client : \A m \in rmsgs[c] :
                pub[m] \notin {"idle", "retain"}

(* The lookup of a publisher finds whoever is past SubscribeInsert.        *)
InTree == \A c \in Client : sub[c] \in {"retained", "send", "in"} => c \in tree

(* Whoever is subscribed since before the message was published has it or  *)
(* will be handed it, except for a group, of which only one is served.     *)
DueComing ==
    \A m \in Message : \A c \in due[m] :
       /\ sub[c] = "in"
       /\ \/ pub[m] = "retain"
          \/ Coming(m, c)
          \/ pub[m] = "done" /\ Shared(c)

(* Wherever the SUBSCRIBE of a client is after its look at the retained    *)
(* messages, the one retained now was found then or is still coming.       *)
RetainedComing ==
    \A m \in Message, c \in Client : retained = m /\ ~Shared(c) =>
       /\ sub[c] = "in" => Coming(m, c)
       /\ sub[c] = "send" => Coming(m, c) \/ m \in rmsgs[c]

(* Proves that the types and what is stored are kept by every step.        *)
LEMMA TypeStep == TypeOK /\ Stored /\ [Next]_vars => TypeOK' /\ Stored'
<1> SUFFICES ASSUME TypeOK, Stored, [Next]_vars PROVE TypeOK' /\ Stored'
  OBVIOUS
<1> USE KindAssumption
<1> USE DEF TypeOK, Stored, Retainable, Kind
<1>1. ASSUME NEW m \in Message, NEW k \in Kinds(m), Publish(m, k)
      PROVE TypeOK' /\ Stored'
  <2>1. kind' \in [Message -> Kind \cup {None}]
    BY <1>1 DEF Publish
  <2>2. Retainable \subseteq Retainable' \cup {m}
    BY <1>1 DEF Publish
  <2>3. retained # m /\ \A c \in Client : m \notin rmsgs[c]
    BY <1>1 DEF Publish
  <2>4. /\ retained' \in Retainable' \cup {None}
        /\ rmsgs' \in [Client -> SUBSET Retainable']
    BY <1>1, <2>2, <2>3 DEF Publish, subVars
  <2>5. TypeOK'
    BY <1>1, <2>1, <2>4 DEF Publish, subVars
  <2>6. Stored'
    BY <1>1, <2>3 DEF Publish, subVars
  <2> QED BY <2>5, <2>6
<1>2. ASSUME NEW m \in Message, Retain(m) PROVE TypeOK' /\ Stored'
  BY <1>2 DEF Retain, subVars
<1>3. ASSUME NEW m \in Message, Subscribers(m) PROVE TypeOK' /\ Stored'
  BY <1>3 DEF Subscribers, subVars
<1>4. ASSUME NEW m \in Message, NEW c \in Client, Deliver(m, c)
      PROVE TypeOK' /\ Stored'
  BY <1>4 DEF Deliver, Send, subVars
<1>5. ASSUME NEW m \in Message, Finish(m) PROVE TypeOK' /\ Stored'
  <2>1. got' \in [Client -> SUBSET Message]
    BY <1>5 DEF Finish, Send
  <2> QED BY <1>5, <2>1 DEF Finish, subVars
<1>6. ASSUME NEW c \in Client, Subscribe(c) PROVE TypeOK' /\ Stored'
  BY <1>6 DEF Subscribe, Leave
<1>7. ASSUME NEW c \in Client, SubscribeInsert(c) PROVE TypeOK' /\ Stored'
  BY <1>7 DEF SubscribeInsert, pubVars
<1>8. ASSUME NEW c \in Client, Retained(c) PROVE TypeOK' /\ Stored'
  BY <1>8 DEF Retained, pubVars
<1>9. ASSUME NEW c \in Client, SendRetained(c) PROVE TypeOK' /\ Stored'
  BY <1>9 DEF SendRetained, pubVars
<1>10. ASSUME NEW c \in Client, Unsubscribe(c) PROVE TypeOK' /\ Stored'
  BY <1>10 DEF Unsubscribe, Leave
<1>11. CASE UNCHANGED vars
  BY <1>11 DEF vars
<1> QED
  BY <1>1, <1>2, <1>3, <1>4, <1>5, <1>6, <1>7, <1>8, <1>9, <1>10, <1>11
  DEF Next

(* Proves that nobody past SubscribeInsert leaves the tree by another's    *)
(* step, and that its own steps out of it end its subscription.            *)
LEMMA InTreeStep == TypeOK /\ InTree /\ [Next]_vars => InTree'
<1> SUFFICES ASSUME TypeOK, InTree, [Next]_vars PROVE InTree'
  OBVIOUS
<1> USE DEF TypeOK, InTree
<1>1. ASSUME NEW m \in Message, NEW k \in Kinds(m), Publish(m, k)
      PROVE InTree'
  BY <1>1 DEF Publish, subVars
<1>2. ASSUME NEW m \in Message, Retain(m) PROVE InTree'
  BY <1>2 DEF Retain, subVars
<1>3. ASSUME NEW m \in Message, Subscribers(m) PROVE InTree'
  BY <1>3 DEF Subscribers, subVars
<1>4. ASSUME NEW m \in Message, NEW c \in Client, Deliver(m, c) PROVE InTree'
  BY <1>4 DEF Deliver, subVars
<1>5. ASSUME NEW m \in Message, Finish(m) PROVE InTree'
  BY <1>5 DEF Finish, subVars
<1>6. ASSUME NEW c \in Client, Subscribe(c) PROVE InTree'
  BY <1>6 DEF Subscribe, Leave
<1>7. ASSUME NEW c \in Client, SubscribeInsert(c) PROVE InTree'
  BY <1>7 DEF SubscribeInsert
<1>8. ASSUME NEW c \in Client, Retained(c) PROVE InTree'
  BY <1>8 DEF Retained
<1>9. ASSUME NEW c \in Client, SendRetained(c) PROVE InTree'
  BY <1>9 DEF SendRetained
<1>10. ASSUME NEW c \in Client, Unsubscribe(c) PROVE InTree'
  BY <1>10 DEF Unsubscribe, Leave
<1>11. CASE UNCHANGED vars
  BY <1>11 DEF vars
<1> QED
  BY <1>1, <1>2, <1>3, <1>4, <1>5, <1>6, <1>7, <1>8, <1>9, <1>10, <1>11
  DEF Next

(* Proves what a publisher's or subscriber's step does to a message that   *)
(* is coming: it still is, unless the client itself starts afresh or the   *)
(* publisher ends with the client in a group.                              *)
LEMMA ComingStep ==
  ASSUME TypeOK, InTree, [Next]_vars,
         NEW n \in Message, NEW d \in Client,
         sub[d] \in {"send", "in"}, sub'[d] \in {"send", "in"},
         Coming(n, d)
  PROVE  Coming(n, d)' \/ (pub'[n] = "done" /\ Shared(d))
<1> USE DEF TypeOK, Coming
<1>1. ASSUME NEW m \in Message, NEW k \in Kinds(m), Publish(m, k)
      PROVE Coming(n, d)'
  BY <1>1 DEF Publish
<1>2. ASSUME NEW m \in Message, Retain(m) PROVE Coming(n, d)'
  BY <1>2 DEF Retain
<1>3. ASSUME NEW m \in Message, Subscribers(m) PROVE Coming(n, d)'
  BY <1>3 DEF Subscribers, InTree
<1>4. ASSUME NEW m \in Message, NEW c \in Client, Deliver(m, c)
      PROVE Coming(n, d)'
  BY <1>4 DEF Deliver, Send
<1>5. ASSUME NEW m \in Message, Finish(m)
      PROVE Coming(n, d)' \/ (pub'[n] = "done" /\ Shared(d))
  <2>1. n \in got[d] => n \in got'[d]
    BY <1>5 DEF Finish, Send
  <2> QED BY <1>5, <2>1 DEF Finish, Alone
<1>6. ASSUME NEW c \in Client, Subscribe(c) PROVE Coming(n, d)'
  BY <1>6 DEF Subscribe, Leave
<1>7. ASSUME NEW c \in Client, SubscribeInsert(c) PROVE Coming(n, d)'
  BY <1>7 DEF SubscribeInsert, pubVars
<1>8. ASSUME NEW c \in Client, Retained(c) PROVE Coming(n, d)'
  BY <1>8 DEF Retained, pubVars
<1>9. ASSUME NEW c \in Client, SendRetained(c) PROVE Coming(n, d)'
  BY <1>9 DEF SendRetained, pubVars
<1>10. ASSUME NEW c \in Client, Unsubscribe(c) PROVE Coming(n, d)'
  BY <1>10 DEF Unsubscribe, Leave
<1>11. ASSUME UNCHANGED vars PROVE Coming(n, d)'
  BY <1>11 DEF vars
<1> HIDE DEF TypeOK, Coming
<1> QED
  BY <1>1, <1>2, <1>3, <1>4, <1>5, <1>6, <1>7, <1>8, <1>9, <1>10, <1>11
  DEF Next

(* Proves that whoever is due a message after a step either was before, or *)
(* is subscribed when the message is published.                            *)
LEMMA DueBefore ==
  ASSUME TypeOK, DueComing, [Next]_vars, NEW n \in Message, NEW d \in due'[n]
  PROVE  /\ d \in Client
         /\ sub'[d] = "in"
         /\ pub'[n] \in {"retain", "lookup"} \/ d \in due[n]
<1> DEFINE Q == /\ d \in Client
                /\ sub'[d] = "in"
                /\ pub'[n] \in {"retain", "lookup"} \/ d \in due[n]
<1> USE DEF TypeOK, DueComing
<1>1. ASSUME NEW m \in Message, NEW k \in Kinds(m), Publish(m, k) PROVE Q
  BY <1>1 DEF Publish, subVars
<1>2. ASSUME NEW m \in Message, Retain(m) PROVE Q
  BY <1>2 DEF Retain, subVars
<1>3. ASSUME NEW m \in Message, Subscribers(m) PROVE Q
  BY <1>3 DEF Subscribers, subVars
<1>4. ASSUME NEW m \in Message, NEW c \in Client, Deliver(m, c) PROVE Q
  BY <1>4 DEF Deliver, subVars
<1>5. ASSUME NEW m \in Message, Finish(m) PROVE Q
  BY <1>5 DEF Finish, subVars
<1>6. ASSUME NEW c \in Client, Subscribe(c) PROVE Q
  BY <1>6 DEF Subscribe, Leave
<1>7. ASSUME NEW c \in Client, SubscribeInsert(c) PROVE Q
  BY <1>7 DEF SubscribeInsert, pubVars
<1>8. ASSUME NEW c \in Client, Retained(c) PROVE Q
  BY <1>8 DEF Retained, pubVars
<1>9. ASSUME NEW c \in Client, SendRetained(c) PROVE Q
  BY <1>9 DEF SendRetained, pubVars
<1>10. ASSUME NEW c \in Client, Unsubscribe(c) PROVE Q
  BY <1>10 DEF Unsubscribe, Leave
<1>11. ASSUME UNCHANGED vars PROVE Q
  BY <1>11 DEF vars
<1> HIDE DEF TypeOK, DueComing, Q
<1> Q
  BY <1>1, <1>2, <1>3, <1>4, <1>5, <1>6, <1>7, <1>8, <1>9, <1>10, <1>11
  DEF Next
<1> QED BY DEF Q

(* Proves where a publisher can be one step later: it never goes back.     *)
LEMMA PubStep ==
  ASSUME TypeOK, [Next]_vars, NEW n \in Message
  PROVE  /\ pub[n] = "retain" => pub'[n] \in {"retain", "lookup"}
         /\ pub[n] = "done" => pub'[n] = "done"
<1> DEFINE Q == /\ pub[n] = "retain" => pub'[n] \in {"retain", "lookup"}
                /\ pub[n] = "done" => pub'[n] = "done"
<1> USE DEF TypeOK
<1>1. ASSUME NEW m \in Message, NEW k \in Kinds(m), Publish(m, k) PROVE Q
  BY <1>1 DEF Publish
<1>2. ASSUME NEW m \in Message, Retain(m) PROVE Q
  BY <1>2 DEF Retain
<1>3. ASSUME NEW m \in Message, Subscribers(m) PROVE Q
  BY <1>3 DEF Subscribers
<1>4. ASSUME NEW m \in Message, Finish(m) PROVE Q
  BY <1>4 DEF Finish
<1>5. ASSUME UNCHANGED pub PROVE Q
  BY <1>5
<1> HIDE DEF TypeOK, Q
<1> Q
  BY <1>1, <1>2, <1>3, <1>4, <1>5
  DEF Next, vars, pubVars, Deliver, Subscribe, SubscribeInsert, Retained,
      SendRetained, Unsubscribe
<1> QED BY DEF Q

(* Proves that a message on its way to whoever is due it stays so.         *)
LEMMA DueStep == TypeOK /\ InTree /\ DueComing /\ [Next]_vars => DueComing'
<1> SUFFICES ASSUME TypeOK, InTree, DueComing, [Next]_vars,
                    NEW n \in Message, NEW d \in due'[n]
             PROVE  /\ sub'[d] = "in"
                    /\ \/ pub'[n] = "retain"
                       \/ Coming(n, d)'
                       \/ pub'[n] = "done" /\ Shared(d)
  BY DEF DueComing
<1>1. /\ d \in Client
      /\ sub'[d] = "in"
      /\ pub'[n] \in {"retain", "lookup"} \/ d \in due[n]
  BY DueBefore
<1>2. CASE pub'[n] \in {"retain", "lookup"}
  BY <1>1, <1>2 DEF Coming
<1>3. CASE d \in due[n]
  <2>1. /\ sub[d] = "in"
        /\ \/ pub[n] = "retain"
           \/ Coming(n, d)
           \/ pub[n] = "done" /\ Shared(d)
    BY <1>3 DEF DueComing
  <2>2. CASE pub[n] = "retain"
    BY <1>1, <2>2, PubStep DEF Coming
  <2>3. CASE Coming(n, d)
    BY <1>1, <2>1, <2>3, ComingStep
  <2>4. CASE pub[n] = "done" /\ Shared(d)
    BY <1>1, <2>4, PubStep
  <2> QED BY <2>1, <2>2, <2>3, <2>4
<1> QED BY <1>1, <1>2, <1>3

(* Proves how a client gets to "send" and to "in": past the retained       *)
(* message, and with what it collected sent.                               *)
LEMMA SubStep ==
  ASSUME TypeOK, [Next]_vars, NEW n \in Message, NEW d \in Client,
         retained' = n
  PROVE  /\ retained = n \/ pub'[n] = "lookup"
         /\ sub'[d] = "send" =>
               \/ retained = n => n \in rmsgs'[d]
               \/ sub[d] = "send" /\ rmsgs'[d] = rmsgs[d]
         /\ sub'[d] = "in" =>
               \/ sub[d] = "in"
               \/ sub[d] = "send" /\ rmsgs[d] \subseteq got'[d]
<1> DEFINE Q == /\ retained = n \/ pub'[n] = "lookup"
                /\ sub'[d] = "send" =>
                      \/ retained = n => n \in rmsgs'[d]
                      \/ sub[d] = "send" /\ rmsgs'[d] = rmsgs[d]
                /\ sub'[d] = "in" =>
                      \/ sub[d] = "in"
                      \/ sub[d] = "send" /\ rmsgs[d] \subseteq got'[d]
<1> USE KindAssumption DEF TypeOK
<1>1. ASSUME NEW m \in Message, Retain(m) PROVE Q
  BY <1>1 DEF Retain, subVars
<1>2. ASSUME UNCHANGED <<retained, sub, rmsgs>> PROVE Q
  BY <1>2
<1>3. ASSUME NEW c \in Client, Subscribe(c) PROVE Q
  BY <1>3 DEF Subscribe
<1>4. ASSUME NEW c \in Client, SubscribeInsert(c) PROVE Q
  BY <1>4 DEF SubscribeInsert
<1>5. ASSUME NEW c \in Client, Retained(c) PROVE Q
  BY <1>5 DEF Retained
<1>6. ASSUME NEW c \in Client, SendRetained(c) PROVE Q
  BY <1>6 DEF SendRetained
<1>7. ASSUME NEW c \in Client, Unsubscribe(c) PROVE Q
  BY <1>7 DEF Unsubscribe
<1> HIDE DEF TypeOK, Q
<1> Q
  BY <1>1, <1>2, <1>3, <1>4, <1>5, <1>6, <1>7
  DEF Next, vars, subVars, Publish, Subscribers, Deliver, Finish
<1> QED BY DEF Q

(* Proves that the retained message, for whoever looked for it after it    *)
(* subscribed, was found or is coming.                                     *)
LEMMA RetainedStep ==
  TypeOK /\ InTree /\ RetainedComing /\ [Next]_vars => RetainedComing'
<1> SUFFICES ASSUME TypeOK, InTree, RetainedComing, [Next]_vars,
                    NEW n \in Message, NEW d \in Client,
                    retained' = n, ~Shared(d)
             PROVE  /\ sub'[d] = "in" => Coming(n, d)'
                    /\ sub'[d] = "send" => Coming(n, d)' \/ n \in rmsgs'[d]
  BY DEF RetainedComing
<1>1. CASE pub'[n] = "lookup"
  BY <1>1 DEF Coming
<1>2. CASE retained = n
  <2>1. ASSUME sub[d] \in {"send", "in"}, sub'[d] \in {"send", "in"},
               Coming(n, d)
        PROVE  Coming(n, d)'
    BY <2>1, ComingStep
  <2>2. ASSUME sub'[d] = "in" PROVE Coming(n, d)'
    <3>1. CASE sub[d] = "in"
      BY <1>2, <2>1, <2>2, <3>1 DEF RetainedComing
    <3>2. CASE sub[d] = "send" /\ rmsgs[d] \subseteq got'[d]
      <4>1. CASE Coming(n, d)
        BY <2>1, <2>2, <3>2, <4>1
      <4>2. CASE n \in rmsgs[d]
        BY <3>2, <4>2 DEF Coming
      <4> QED BY <1>2, <3>2, <4>1, <4>2 DEF RetainedComing
    <3> QED BY <2>2, <3>1, <3>2, SubStep
  <2>3. ASSUME sub'[d] = "send" PROVE Coming(n, d)' \/ n \in rmsgs'[d]
    <3>1. CASE sub[d] = "send" /\ rmsgs'[d] = rmsgs[d]
      BY <1>2, <2>1, <2>3, <3>1 DEF RetainedComing
    <3> QED BY <1>2, <2>3, <3>1, SubStep
  <2> QED BY <2>2, <2>3
<1> QED BY <1>1, <1>2, SubStep
-----------------------------------------------------------------------------
(* Every variable has its type: what is retained, and what is collected to *)
(* be sent to a subscriber, was published with the retain flag.            *)
THEOREM Typed == Spec => []TypeOK
<1>1. Init => TypeOK /\ Stored
  BY DEF Init, TypeOK, Stored
<1>2. TypeOK /\ Stored /\ [Next]_vars => TypeOK' /\ Stored'
  BY TypeStep
<1> QED BY <1>1, <1>2, PTL DEF Spec

(* The inductive invariant of the theorems below.                          *)
IInv == TypeOK /\ Stored /\ InTree /\ DueComing /\ RetainedComing

(* Proves that the invariant holds from the start and after every step.    *)
LEMMA Inductive == Spec => []IInv
<1>1. Init => IInv
  BY KindAssumption
  DEF Init, IInv, TypeOK, Stored, InTree, DueComing, RetainedComing
<1>2. IInv /\ [Next]_vars => IInv'
  BY TypeStep, InTreeStep, DueStep, RetainedStep DEF IInv
<1> QED BY <1>1, <1>2, PTL DEF Spec

(* Whoever is subscribed throughout, and is not in a group, was sent the   *)
(* message when ProcessPublishMessage is done with it.                     *)
THEOREM Delivered == Spec => []LiveDelivered
<1>1. IInv => LiveDelivered
  BY DEF IInv, DueComing, Coming, LiveDelivered
<1> QED BY <1>1, Inductive, PTL

(* Of a SUBSCRIBE and a retained PUBLISH at the same time, one finds the   *)
(* other.                                                                  *)
THEOREM RetainedFound == Spec => []NoMissedRetained
<1>1. IInv => NoMissedRetained
  BY DEF IInv, TypeOK, Retainable, RetainedComing, Coming, NoMissedRetained
<1> QED BY <1>1, Inductive, PTL

(* Proves that ending with the subscribers of one group left over serves   *)
(* the group.                                                              *)
LEMMA GroupStep ==
  ASSUME \A c, d \in Client : Shared(c) /\ Shared(d) => Group(c) = Group(d),
         IInv, EachGroupServed, [Next]_vars
  PROVE  EachGroupServed'
<1> SUFFICES ASSUME NEW n \in Message, pub'[n] = "done",
                    NEW e \in Client, Shared(e),
                    Members(Group(e)) \subseteq due'[n]
             PROVE  \E c \in Members(Group(e)) : n \in got'[c]
  BY DEF EachGroupServed, Shared
<1>1. TypeOK /\ InTree /\ DueComing
  BY DEF IInv
<1>2. Members(Group(e)) \subseteq due[n] /\ e \in Members(Group(e))
  BY <1>1, DueBefore DEF Members
<1>3. ASSUME NEW c \in Members(Group(e)), n \in got[c]
      PROVE  n \in got'[c]
  <2>1. c \in Client /\ sub[c] = "in" /\ sub'[c] = "in"
    BY <1>1, <1>2, DueBefore DEF Members, DueComing
  <2> QED
    BY <1>1, <1>3, <2>1
    DEF TypeOK, Next, vars, Publish, Retain, Subscribers, Deliver, Finish,
        Send, Subscribe, SubscribeInsert, Retained, SendRetained,
        Unsubscribe, Leave
<1>4. CASE pub[n] = "done"
  <2>1. \E c \in Members(Group(e)) : n \in got[c]
    BY <1>2, <1>4 DEF EachGroupServed, Shared
  <2> QED BY <1>3, <2>1
<1>5. CASE pub[n] # "done"
  <2>1. Finish(n)
    BY <1>1, <1>5
    DEF TypeOK, Next, vars, pubVars, Publish, Retain, Subscribers, Deliver,
        Finish, Subscribe, SubscribeInsert, Retained, SendRetained,
        Unsubscribe
  <2>2. CASE n \in got[e]
    BY <1>2, <1>3, <2>2
  <2>3. CASE e \in subs[n]
    <3>1. PICK c \in subs[n] : Send(n, c)
      BY <2>1, <2>3 DEF Finish
    <3>2. c \in Members(Group(e))
      BY <1>1, <2>1, <3>1 DEF TypeOK, Finish, Alone, Members
    <3> QED BY <1>1, <3>1, <3>2 DEF TypeOK, Send, Members
  <2> QED BY <1>1, <1>2, <2>1, <2>2, <2>3 DEF DueComing, Coming, Finish
<1> QED BY <1>4, <1>5

(* With one $share group on the topic, some member of it is sent the       *)
(* message, although its members are served among all shared subscribers.  *)
THEOREM GroupServed ==
  ASSUME \A c, d \in Client : Shared(c) /\ Shared(d) => Group(c) = Group(d)
  PROVE  Spec => []EachGroupServed
<1>1. Init => EachGroupServed
  BY DEF Init, EachGroupServed
<1>2. IInv /\ EachGroupServed /\ [Next]_vars => EachGroupServed'
  BY GroupStep
<1> QED BY <1>1, <1>2, Inductive, PTL DEF Spec
=============================================================================
