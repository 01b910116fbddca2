------------------------ MODULE ClusterRoutingProofs -------------------------
(***************************************************************************)
(* For any number of brokers, links, clients and messages: a client whose  *)
(* SUBSCRIBE has reached the broker a message is published at is sent the  *)
(* message.  What carries the proof is that the REMOTE end of a link that  *)
(* has had a client's SUBSCRIBE still holds a subscription, as no packet   *)
(* over a link takes one away.                                             *)
(*                                                                         *)
(* And a client that alone has sent a SUBSCRIBE, and only one, is sent no  *)
(* message twice: over each link its SUBSCRIBE is to be broadcast, on its  *)
(* way or held, one of the three and once, so that a message has a single  *)
(* copy, on the link from its own broker to the client's.                  *)
(***************************************************************************)
EXTENDS ClusterRouting, TLAPS

(* What the ROUTER end of a link sends is about its own broker's clients.  *)
FromHome ==
    \A l \in Link : \A i \in 1..Len(ctl[l]) : Home(ctl[l][i].client) = l[2]

(* A broker that was told of a client's SUBSCRIBE holds a subscription for *)
(* the link to the client's broker.                                        *)
StillHeld ==
    \A c \in Client : \A b \in told[c] :
       <<b, Home(c)>> \in Link /\ held[<<b, Home(c)>>] > 0

(* Only subscribers are owed a message, and only one that is published.    *)
DueSubscribed ==
    \A m \in Message : \A c \in due[m] : c \in sub /\ m \in published

(* Every broadcast yet to be run is that of a SUBSCRIBE.                   *)
Counted == \A c \in Client : broadcast[c] <= count[c]

IInv == /\ TypeOK /\ FromHome /\ StillHeld /\ DueSubscribed /\ Counted
        /\ RemoteDelivered

LEMMA InitHolds == Init => IInv
BY HomeAssumption DEF Init, IInv, TypeOK, FromHome, StillHeld, DueSubscribed, Counted,
   RemoteDelivered

LEMMA LinkPair ==
    /\ \A l \in Link : /\ l[1] \in Broker /\ l[2] \in Broker /\ l[1] # l[2]
                       /\ l = <<l[1], l[2]>>
    /\ \A a, b \in Broker : a # b => <<a, b>> \in Link
BY DEF Link

(* A broadcast appends the packet of one of the broker's own clients.      *)
LEMMA BroadcastStep ==
    ASSUME TypeOK, FromHome, NEW p \in Packet, Broadcast(Home(p.client), p)
    PROVE  /\ \A l \in Link : ctl'[l] \in Seq(Packet)
           /\ FromHome'
<1>1. ASSUME NEW l \in Link
      PROVE  /\ ctl'[l] \in Seq(Packet)
             /\ \A i \in 1..Len(ctl'[l]) : Home(ctl'[l][i].client) = l[2]
  <2>1. CASE l \in up /\ l[2] = Home(p.client)
    <3>1. ctl'[l] = Append(ctl[l], p)
      BY <2>1 DEF Broadcast
    <3>2. ctl[l] \in Seq(Packet)
      BY DEF TypeOK
    <3>3. \A i \in 1..Len(ctl[l]) : Home(ctl[l][i].client) = l[2]
      BY DEF FromHome
    <3> QED
      BY <2>1, <3>1, <3>2, <3>3
  <2>2. CASE ~(l \in up /\ l[2] = Home(p.client))
    <3>1. ctl'[l] = ctl[l]
      BY <2>2 DEF Broadcast
    <3> QED
      BY <3>1 DEF TypeOK, FromHome
  <2> QED
    BY <2>1, <2>2
<1> QED
  BY <1>1 DEF FromHome

(* Route gives the message to the broker's own subscribers, takes none     *)
(* away, and puts a copy on each of its links that holds a subscription.   *)
LEMMA RouteStep ==
    ASSUME TypeOK, NEW b \in Broker, NEW m \in Message,
           NEW before \in [Link -> [Message -> 0..MaxCopies]],
           Route(b, m, before)
    PROVE  /\ wire' \in [Link -> [Message -> 0..MaxCopies]]
           /\ got' \in [Client -> SUBSET Message]
           /\ again' \in [Client -> SUBSET Message]
           /\ \A c \in Client : got[c] \subseteq got'[c]
           /\ \A c \in sub : Home(c) = b => m \in got'[c]
           /\ \A l \in Link : \A n \in Message : wire'[l][n] >= before[l][n]
           /\ \A l \in Link : l[1] = b /\ held[l] > 0 => wire'[l][m] > 0
<1>1. /\ got' \in [Client -> SUBSET Message]
      /\ again' \in [Client -> SUBSET Message]
      /\ \A c \in Client : got[c] \subseteq got'[c]
      /\ \A c \in sub : Home(c) = b => m \in got'[c]
  BY DEF Route, TypeOK
<1>2. ASSUME NEW l \in Link
      PROVE  /\ wire'[l] \in [Message -> 0..MaxCopies]
             /\ \A n \in Message : wire'[l][n] >= before[l][n]
             /\ l[1] = b /\ held[l] > 0 => wire'[l][m] > 0
  <2>1. before[l] \in [Message -> 0..MaxCopies] /\ held[l] \in Nat
    BY DEF TypeOK
  <2>2. wire'[l] = [before[l] EXCEPT ![m] = IF l[1] = b THEN before[l][m] + held[l]
                                                        ELSE before[l][m]]
    BY DEF Route
  <2>3. wire'[l][m] <= MaxCopies
    BY DEF Route
  <2>4. wire'[l][m] = IF l[1] = b THEN before[l][m] + held[l] ELSE before[l][m]
    BY <2>1, <2>2
  <2>5. \A n \in Message \ {m} : wire'[l][n] = before[l][n]
    BY <2>1, <2>2
  <2>6. before[l][m] \in 0..MaxCopies
    BY <2>1
  <2>7. wire'[l][m] \in 0..MaxCopies /\ wire'[l][m] >= before[l][m]
    BY <2>1, <2>3, <2>4, <2>6, HomeAssumption
  <2>8. \A n \in Message \ {m} : wire'[l][n] \in 0..MaxCopies
                                   /\ wire'[l][n] >= before[l][n]
    <3>1. \A n \in Message : before[l][n] \in 0..MaxCopies
      BY <2>1
    <3> QED
      BY <2>5, <3>1, HomeAssumption
  <2>9. wire'[l] \in [Message -> 0..MaxCopies]
    BY <2>1, <2>2, <2>7, <2>4
  <2>10. l[1] = b /\ held[l] > 0 => wire'[l][m] > 0
    BY <2>1, <2>4, <2>6, HomeAssumption
  <2> QED
    BY <2>7, <2>8, <2>9, <2>10
<1>3. wire' \in [Link -> [Message -> 0..MaxCopies]]
  <2>1. wire' = [l \in Link |-> wire'[l]]
    BY DEF Route
  <2> QED
    BY <1>2, <2>1
<1> QED
  BY <1>1, <1>2, <1>3
-----------------------------------------------------------------------------
(* Type correctness and the parts of the invariant, action by action.      *)
LEMMA StepHolds == IInv /\ [Next]_vars => IInv'
<1> SUFFICES ASSUME IInv, [Next]_vars PROVE IInv'
  OBVIOUS
<1> DEFINE Q == IInv'
<1>1. ASSUME NEW l \in Link, LinkUp(l) PROVE Q
  BY <1>1 DEF LinkUp, IInv, TypeOK, FromHome, StillHeld, DueSubscribed, Counted,
     RemoteDelivered, clientVars, pubVars
<1>2. ASSUME NEW l \in Link, LinkDown(l) PROVE Q
  <2> USE <1>2 DEF LinkDown, IInv, clientVars
  <2>1. TypeOK'
    BY HomeAssumption DEF TypeOK
  <2>2. FromHome' /\ Counted'
    BY DEF TypeOK, FromHome, Counted
  <2>3. StillHeld'
    <3> SUFFICES ASSUME NEW c \in Client, NEW b \in told'[c]
                 PROVE  <<b, Home(c)>> \in Link /\ held'[<<b, Home(c)>>] > 0
      BY DEF StillHeld
    <3>1. b \in told[c] /\ ~(Home(c) = l[2] /\ b = l[1])
      BY DEF TypeOK
    <3>2. <<b, Home(c)>> \in Link /\ held[<<b, Home(c)>>] > 0
      BY <3>1 DEF StillHeld
    <3>3. <<b, Home(c)>> # l
      BY <3>1
    <3> QED
      BY <3>2, <3>3 DEF TypeOK
  <2>4. DueSubscribed'
    BY DEF DueSubscribed, TypeOK
  <2>5. RemoteDelivered'
    <3> SUFFICES ASSUME NEW m \in published, NEW c \in due'[m]
                 PROVE  \/ /\ Home(c) # Origin(m)
                           /\ Qos(m) = 2 \/ wire'[<<Origin(m), Home(c)>>][m] > 0
                        \/ m \in got[c]
      BY DEF RemoteDelivered
    <3>1. m \in Message /\ c \in due[m] /\ c \in Client
      BY DEF TypeOK
    <3>2. ~(Origin(m) = l[1] /\ Home(c) = l[2])
      BY <3>1
    <3>3. CASE m \in got[c]
      BY <3>3
    <3>4. CASE Home(c) # Origin(m) /\ (Qos(m) = 2 \/ wire[<<Origin(m), Home(c)>>][m] > 0)
      <4>1. <<Origin(m), Home(c)>> \in Link /\ <<Origin(m), Home(c)>> # l
        BY <3>1, <3>2, <3>4, HomeAssumption, LinkPair
      <4> QED
        BY <3>4, <4>1 DEF TypeOK
    <3> QED
      BY <3>1, <3>3, <3>4 DEF RemoteDelivered
  <2> QED
    BY <2>1, <2>2, <2>3, <2>4, <2>5
<1>3. ASSUME NEW l \in Link, HandleControl(l) PROVE Q
  <2> USE <1>3 DEF HandleControl, IInv, clientVars, pubVars
  <2> DEFINE p == Head(ctl[l])
  <2>1. /\ ctl[l] \in Seq(Packet) /\ ctl[l] # <<>> /\ p \in Packet
        /\ p.client \in Client /\ Home(p.client) = l[2]
    <3>1. ctl[l] \in Seq(Packet) /\ ctl[l] # <<>>
      BY DEF TypeOK
    <3>2. p = ctl[l][1] /\ 1 \in 1..Len(ctl[l]) /\ p \in Packet
      BY <3>1
    <3> QED
      BY <3>1, <3>2 DEF FromHome, Packet
  <2>2. /\ ctl' = [ctl EXCEPT ![l] = Tail(@)]
        /\ up' = up /\ sub' = sub /\ count' = count /\ broadcast' = broadcast
        /\ wire' = wire /\ published' = published /\ got' = got
        /\ again' = again /\ due' = due
    OBVIOUS
  <2>3. /\ held' \in [Link -> Nat] /\ told' \in [Client -> SUBSET Broker]
        /\ \A k \in Link : held'[k] >= held[k]
        /\ StillHeld'
    <3>1. CASE p.kind = "subscribe"
      <4>1. /\ held' = [held EXCEPT ![l] = @ + 1]
            /\ told' = [told EXCEPT ![p.client] = @ \cup {l[1]}]
        BY <3>1
      <4>2. held' \in [Link -> Nat] /\ told' \in [Client -> SUBSET Broker]
        BY <2>1, <4>1, LinkPair DEF TypeOK
      <4>3. held'[l] > 0 /\ \A k \in Link : held'[k] >= held[k]
        BY <4>1 DEF TypeOK
      <4> HIDE <1>3
      <4> HIDE DEF p
      <4>4. StillHeld'
        <5> SUFFICES ASSUME NEW c \in Client, NEW b \in told'[c]
                     PROVE  <<b, Home(c)>> \in Link /\ held'[<<b, Home(c)>>] > 0
          BY DEF StillHeld
        <5>1. CASE b \in told[c]
          <6>1. <<b, Home(c)>> \in Link /\ held[<<b, Home(c)>>] > 0
            BY <5>1 DEF StillHeld
          <6>2. held[<<b, Home(c)>>] \in Nat /\ held'[<<b, Home(c)>>] \in Nat
            BY <4>2, <6>1 DEF TypeOK
          <6> QED
            BY <4>3, <6>1, <6>2
        <5>2. CASE b \notin told[c]
          <6>1. c = p.client /\ b = l[1]
            BY <2>1, <4>1, <5>2 DEF TypeOK
          <6>2. <<b, Home(c)>> = l
            BY <2>1, <6>1, LinkPair
          <6> QED
            BY <4>3, <6>2
        <5> QED
          BY <5>1, <5>2
      <4> QED
        BY <4>2, <4>3, <4>4
    <3>2. CASE p.kind # "subscribe"
      <4>1. held' = held /\ told' = told
        BY <3>2
      <4> QED
        BY <4>1 DEF TypeOK, StillHeld
    <3> QED
      BY <3>1, <3>2
  <2> HIDE <1>3
  <2> HIDE DEF p
  <2>4. \A k \in Link : ctl'[k] \in Seq(Packet)
    BY <2>1, <2>2 DEF TypeOK
  <2>5. FromHome'
    <3> SUFFICES ASSUME NEW k \in Link, NEW i \in 1..Len(ctl'[k])
                 PROVE  Home(ctl'[k][i].client) = k[2]
      BY DEF FromHome
    <3>1. CASE k = l
      <4>1. ctl'[k] = Tail(ctl[l]) \/ (l \notin DOMAIN ctl /\ ctl'[k] = ctl[k])
        BY <2>2, <3>1
      <4>2. CASE ctl'[k] = Tail(ctl[l])
        <5>1. i + 1 \in 1..Len(ctl[l]) /\ ctl'[k][i] = ctl[l][i + 1]
          BY <2>1, <4>2
        <5> QED
          BY <3>1, <5>1 DEF FromHome
      <4>3. CASE ctl'[k] = ctl[k]
        BY <4>3 DEF FromHome
      <4> QED
        BY <4>1, <4>2, <4>3
    <3>2. CASE k # l
      <4>1. ctl'[k] = ctl[k]
        BY <2>2, <3>2
      <4> QED
        BY <4>1 DEF FromHome
    <3> QED
      BY <3>1, <3>2
  <2>6. TypeOK'
    BY <2>2, <2>3, <2>4 DEF TypeOK
  <2> QED
    BY <2>2, <2>3, <2>5, <2>6 DEF DueSubscribed, Counted, RemoteDelivered
<1>4. ASSUME NEW c \in Client, Subscribe(c) PROVE Q
  <2> USE <1>4 DEF Subscribe, IInv, linkVars, pubVars
  <2>1. /\ count[c] \in Nat /\ broadcast[c] \in Nat /\ count[c] < MaxSubscribes
        /\ broadcast[c] <= count[c]
    BY DEF TypeOK, Counted
  <2>2. TypeOK' /\ Counted'
    BY <2>1, HomeAssumption DEF TypeOK, Counted
  <2>3. FromHome' /\ StillHeld' /\ DueSubscribed' /\ RemoteDelivered'
    BY DEF FromHome, StillHeld, DueSubscribed, RemoteDelivered
  <2> QED
    BY <2>2, <2>3
<1>5. ASSUME NEW c \in Client, BroadcastSubscribe(c) PROVE Q
  <2> USE <1>5 DEF BroadcastSubscribe, IInv
  <2> DEFINE p == [kind |-> "subscribe", client |-> c]
  <2>1. p \in Packet /\ Broadcast(Home(p.client), p)
    BY DEF Packet
  <2> HIDE DEF p
  <2>2. (\A l \in Link : ctl'[l] \in Seq(Packet)) /\ FromHome'
    BY <2>1, BroadcastStep
  <2>3. broadcast' \in [Client -> 0..MaxSubscribes] /\ Counted'
    BY HomeAssumption DEF TypeOK, Counted
  <2>4. TypeOK'
    BY <2>2, <2>3 DEF TypeOK, pubVars
  <2>5. StillHeld' /\ DueSubscribed' /\ RemoteDelivered'
    BY DEF StillHeld, DueSubscribed, RemoteDelivered, pubVars
  <2> QED
    BY <2>2, <2>3, <2>4, <2>5
<1>6. ASSUME NEW c \in Client, Unsubscribe(c) PROVE Q
  <2> USE <1>6 DEF Unsubscribe, Forget, IInv
  <2> DEFINE p == [kind |-> "unsubscribe", client |-> c]
  <2>1. p \in Packet /\ Broadcast(Home(p.client), p)
    BY DEF Packet
  <2> HIDE DEF p
  <2>2. (\A l \in Link : ctl'[l] \in Seq(Packet)) /\ FromHome'
    BY <2>1, BroadcastStep
  <2>3. TypeOK'
    BY <2>2 DEF TypeOK
  <2>4. StillHeld' /\ DueSubscribed' /\ Counted' /\ RemoteDelivered'
    BY DEF TypeOK, StillHeld, DueSubscribed, Counted, RemoteDelivered
  <2> QED
    BY <2>2, <2>3, <2>4
<1>7. ASSUME NEW m \in Message, Publish(m) PROVE Q
  <2> DEFINE owed == {c \in sub : Origin(m) \in told[c] \cup {Home(c)}}
  <2>1. /\ m \notin published /\ published' = published \cup {m}
        /\ due' = [due EXCEPT ![m] = owed]
        /\ up' = up /\ held' = held /\ ctl' = ctl /\ sub' = sub
        /\ count' = count /\ broadcast' = broadcast /\ told' = told
        /\ Route(Origin(m), m, wire)
    BY <1>7 DEF Publish, linkVars, clientVars
  <2>2. Origin(m) \in Broker
    BY HomeAssumption
  <2>3. /\ wire' \in [Link -> [Message -> 0..MaxCopies]]
        /\ got' \in [Client -> SUBSET Message]
        /\ again' \in [Client -> SUBSET Message]
        /\ \A c \in Client : got[c] \subseteq got'[c]
        /\ \A c \in sub : Home(c) = Origin(m) => m \in got'[c]
        /\ \A l \in Link : \A n \in Message : wire'[l][n] >= wire[l][n]
        /\ \A l \in Link : l[1] = Origin(m) /\ held[l] > 0 => wire'[l][m] > 0
    BY <2>1, <2>2, RouteStep DEF IInv, TypeOK
  <2>4. TypeOK'
    BY <2>1, <2>3 DEF IInv, TypeOK
  <2>5. FromHome' /\ StillHeld' /\ Counted'
    BY <2>1 DEF IInv, FromHome, StillHeld, Counted
  <2>6. DueSubscribed'
    BY <2>1 DEF IInv, TypeOK, DueSubscribed
  <2>7. RemoteDelivered'
    <3> SUFFICES ASSUME NEW n \in published', NEW c \in due'[n]
                 PROVE  \/ /\ Home(c) # Origin(n)
                           /\ Qos(n) = 2 \/ wire'[<<Origin(n), Home(c)>>][n] > 0
                        \/ n \in got'[c]
      BY DEF RemoteDelivered
    <3>1. n \in Message /\ c \in Client
      BY <2>4 DEF TypeOK
    <3>2. CASE n = m
      <4>1. c \in sub /\ Origin(m) \in told[c] \cup {Home(c)}
        BY <2>1, <3>2 DEF IInv, TypeOK
      <4>2. CASE Origin(m) = Home(c)
        BY <2>3, <3>2, <4>1, <4>2
      <4>3. CASE Origin(m) # Home(c)
        <5>1. <<Origin(m), Home(c)>> \in Link /\ held[<<Origin(m), Home(c)>>] > 0
          BY <3>1, <4>1, <4>3 DEF IInv, StillHeld
        <5> QED
          BY <2>3, <3>2, <4>3, <5>1
      <4> QED
        BY <4>2, <4>3
    <3>3. CASE n # m
      <4>1. n \in published /\ c \in due[n]
        BY <2>1, <3>1, <3>3 DEF IInv, TypeOK
      <4>2. \/ /\ Home(c) # Origin(n)
               /\ Qos(n) = 2 \/ wire[<<Origin(n), Home(c)>>][n] > 0
            \/ n \in got[c]
        BY <4>1 DEF IInv, RemoteDelivered
      <4>3. CASE n \in got[c]
        BY <2>3, <3>1, <4>3
      <4>4. CASE /\ Home(c) # Origin(n)
                 /\ Qos(n) = 2 \/ wire[<<Origin(n), Home(c)>>][n] > 0
        <5>1. <<Origin(n), Home(c)>> \in Link
          BY <3>1, <4>4, HomeAssumption, LinkPair
        <5>2. /\ wire[<<Origin(n), Home(c)>>][n] \in Nat
              /\ wire'[<<Origin(n), Home(c)>>][n] \in Nat
              /\ wire'[<<Origin(n), Home(c)>>][n] >= wire[<<Origin(n), Home(c)>>][n]
          BY <2>3, <3>1, <5>1 DEF IInv, TypeOK
        <5> QED
          BY <4>4, <5>2
      <4> QED
        BY <4>2, <4>3, <4>4
    <3> QED
      BY <3>2, <3>3
  <2> QED
    BY <2>4, <2>5, <2>6, <2>7 DEF IInv
<1>8. ASSUME NEW l \in Link, NEW m \in Message, HandlePublish(l, m) PROVE Q
  <2> DEFINE rest == [wire EXCEPT ![l][m] = @ - 1]
  <2>1. /\ wire[l][m] > 0
        /\ published' = published /\ due' = due
        /\ up' = up /\ held' = held /\ ctl' = ctl /\ sub' = sub
        /\ count' = count /\ broadcast' = broadcast /\ told' = told
        /\ \/ Qos(m) = 2 /\ wire' = rest /\ got' = got /\ again' = again
           \/ Qos(m) # 2 /\ Route(l[2], m, rest)
    BY <1>8 DEF HandlePublish, linkVars, clientVars
  <2>2. /\ rest \in [Link -> [Message -> 0..MaxCopies]]
        /\ \A k \in Link : \A n \in Message :
              <<k, n>> # <<l, m>> => rest[k][n] = wire[k][n]
    <3>1. wire \in [Link -> [Message -> 0..MaxCopies]]
      BY DEF IInv, TypeOK
    <3>2. wire[l] \in [Message -> 0..MaxCopies] /\ wire[l][m] - 1 \in 0..MaxCopies
      BY <2>1, <3>1, HomeAssumption
    <3> QED
      BY <3>1, <3>2
  <2> HIDE DEF rest
  <2>3. /\ wire' \in [Link -> [Message -> 0..MaxCopies]]
        /\ got' \in [Client -> SUBSET Message]
        /\ again' \in [Client -> SUBSET Message]
        /\ \A c \in Client : got[c] \subseteq got'[c]
        /\ Qos(m) # 2 => \A c \in sub : Home(c) = l[2] => m \in got'[c]
        /\ \A k \in Link : \A n \in Message : wire'[k][n] >= rest[k][n]
    <3>1. CASE Qos(m) = 2
      <4>1. \A k \in Link : \A n \in Message : rest[k][n] \in Int
        BY <2>2, HomeAssumption
      <4> QED
        BY <2>1, <2>2, <3>1, <4>1 DEF IInv, TypeOK
    <3>2. CASE Qos(m) # 2
      <4>1. Route(l[2], m, rest) /\ l[2] \in Broker
        BY <2>1, <3>2, LinkPair
      <4> QED
        BY <2>2, <4>1, RouteStep DEF IInv
    <3> QED
      BY <3>1, <3>2
  <2>4. TypeOK'
    BY <2>1, <2>3 DEF IInv, TypeOK
  <2>5. FromHome' /\ StillHeld' /\ Counted' /\ DueSubscribed'
    BY <2>1 DEF IInv, FromHome, StillHeld, Counted, DueSubscribed
  <2>6. RemoteDelivered'
    <3> SUFFICES ASSUME NEW n \in published, NEW c \in due[n]
                 PROVE  \/ /\ Home(c) # Origin(n)
                           /\ Qos(n) = 2 \/ wire'[<<Origin(n), Home(c)>>][n] > 0
                        \/ n \in got'[c]
      BY <2>1 DEF RemoteDelivered
    <3>1. n \in Message /\ c \in Client /\ c \in sub
      BY DEF IInv, TypeOK, DueSubscribed
    <3>2. \/ /\ Home(c) # Origin(n)
             /\ Qos(n) = 2 \/ wire[<<Origin(n), Home(c)>>][n] > 0
          \/ n \in got[c]
      BY DEF IInv, RemoteDelivered
    <3>3. CASE n \in got[c] \/ (Home(c) # Origin(n) /\ Qos(n) = 2)
      BY <2>3, <3>1, <3>3
    <3>4. CASE /\ Home(c) # Origin(n) /\ Qos(n) # 2
               /\ wire[<<Origin(n), Home(c)>>][n] > 0
      <4> DEFINE k == <<Origin(n), Home(c)>>
      <4>1. k \in Link /\ k[2] = Home(c)
        BY <3>1, <3>4, HomeAssumption, LinkPair
      <4>2. CASE k = l /\ n = m
        BY <2>3, <3>1, <3>4, <4>1, <4>2
      <4>3. CASE ~(k = l /\ n = m)
        <5>1. rest[k][n] = wire[k][n] /\ rest[k][n] \in Nat
          BY <2>2, <3>1, <4>1, <4>3
        <5>2. wire'[k][n] \in Nat /\ wire'[k][n] >= rest[k][n]
          BY <2>3, <3>1, <4>1
        <5> QED
          BY <3>4, <5>1, <5>2
      <4> QED
        BY <4>2, <4>3
    <3> QED
      BY <3>2, <3>3, <3>4
  <2> QED
    BY <2>4, <2>5, <2>6 DEF IInv
<1>9. ASSUME UNCHANGED vars PROVE Q
  BY <1>9 DEF vars, linkVars, clientVars, pubVars, IInv, TypeOK, FromHome, StillHeld,
     DueSubscribed, Counted, RemoteDelivered
<1> HIDE DEF Q
<1>10. Q
  BY <1>1, <1>2, <1>3, <1>4, <1>5, <1>6, <1>7, <1>8, <1>9 DEF Next
<1> QED
  BY <1>10 DEF Q

LEMMA Invariance == Spec => []IInv
BY InitHolds, StepHolds, PTL DEF Spec

-----------------------------------------------------------------------------
(* Only one SUBSCRIBE was sent in the whole cluster, if any, and by c.     *)
Sole(c) == count[c] <= 1 /\ \A d \in Client \ {c} : count[d] = 0

Asks(l, i) == ctl[l][i].kind = "subscribe"

(* Whatever subscriptions and packets there are come from clients that     *)
(* sent a SUBSCRIBE, and all copies of a message from its publication.     *)
Traced ==
    /\ ctl = [l \in Link |-> ctl[l]]
    /\ \A c \in sub : count[c] > 0
    /\ \A l \in Link :
          /\ \A i \in 1..Len(ctl[l]) : Asks(l, i) => count[ctl[l][i].client] > 0
          /\ held[l] > 0 => \E d \in Client : Home(d) = l[2] /\ count[d] > 0
    /\ \A m \in Message \ published : /\ \A l \in Link : wire[l][m] = 0
                                      /\ \A c \in Client : m \notin got[c]

(* Over each link the one SUBSCRIBE is to be broadcast, or on its way, or  *)
(* has become the subscription the link holds.                             *)
OneAsked ==
    \A c \in Client : Sole(c) =>
       \A l \in Link :
          /\ held[l] <= 1
          /\ broadcast[c] > 0 => held[l] = 0
          /\ \A i \in 1..Len(ctl[l]) : Asks(l, i) =>
                /\ held[l] = 0 /\ broadcast[c] = 0
                /\ \A j \in 1..Len(ctl[l]) : Asks(l, j) => i = j

(* A message goes to the client's broker from where it is published only,  *)
(* once, and it is the copy the client is going to get.                    *)
OneCopy ==
    \A c \in Client : Sole(c) =>
       \A l \in Link : \A m \in Message : wire[l][m] > 0 =>
          /\ wire[l][m] = 1
          /\ l = <<Origin(m), Home(c)>>
          /\ m \notin got[c]

NoneAgain == \A c \in Client : Sole(c) => again[c] = {}

Once == Traced /\ OneAsked /\ OneCopy /\ NoneAgain

(* Before anything is sent it holds.                                       *)
LEMMA OnceInit == Init => Once
BY DEF Init, Once, Traced, OneAsked, OneCopy, NoneAgain

(* While c alone has subscribed, only links to its broker hold a           *)
(* subscription, and only c is in its broker's tree.                       *)
LEMMA SoleStep ==
    ASSUME TypeOK, Traced, NEW c \in Client, Sole(c)
    PROVE  /\ \A l \in Link : l[2] # Home(c) => held[l] = 0
           /\ \A d \in sub : d = c
           /\ \A d \in Client : count[d] > 0 => d = c
<1>1. \A d \in Client : count[d] > 0 => d = c
  BY DEF Sole
<1>2. ASSUME NEW l \in Link, l[2] # Home(c) PROVE held[l] = 0
  <2>1. held[l] \in Nat /\ ~(held[l] > 0)
    BY <1>1, <1>2 DEF TypeOK, Traced
  <2> QED
    BY <2>1
<1>3. \A d \in sub : d = c
  BY <1>1 DEF Traced, TypeOK
<1> QED
  BY <1>1, <1>2, <1>3

(* What Route adds when c alone has subscribed.                            *)
LEMMA SoleRoute ==
    ASSUME TypeOK, Traced, OneAsked, NEW c \in Client, Sole(c),
           NEW b \in Broker, NEW m \in Message,
           NEW before \in [Link -> [Message -> 0..MaxCopies]],
           Route(b, m, before)
    PROVE  /\ \A l \in Link : \A n \in Message :
                 \/ wire'[l][n] = before[l][n]
                 \/ /\ n = m /\ l = <<b, Home(c)>>
                    /\ wire'[l][n] \in {before[l][n], before[l][n] + 1}
           /\ got'[c] = got[c] \cup (IF c \in sub /\ Home(c) = b THEN {m} ELSE {})
           /\ again'[c] = again[c] \cup (IF c \in sub /\ Home(c) = b
                                         THEN {m} \cap got[c] ELSE {})
<1>1. ASSUME NEW l \in Link, NEW n \in Message
      PROVE  \/ wire'[l][n] = before[l][n]
             \/ /\ n = m /\ l = <<b, Home(c)>>
                /\ wire'[l][n] \in {before[l][n], before[l][n] + 1}
  <2>1. before[l] \in [Message -> 0..MaxCopies] /\ before[l][n] \in 0..MaxCopies
    OBVIOUS
  <2>2. wire'[l] = [before[l] EXCEPT ![m] = IF l[1] = b THEN before[l][m] + held[l]
                                                        ELSE before[l][m]]
    BY DEF Route
  <2>3. wire'[l][n] = IF n = m /\ l[1] = b THEN before[l][n] + held[l] ELSE before[l][n]
    BY <2>1, <2>2
  <2>4. held[l] \in {0, 1} /\ (l[2] # Home(c) => held[l] = 0)
    BY SoleStep DEF OneAsked, TypeOK
  <2>5. l[1] = b /\ l[2] = Home(c) => l = <<b, Home(c)>>
    BY LinkPair
  <2>6. before[l][n] + 0 = before[l][n]
    BY <2>1, HomeAssumption
  <2> QED
    BY <2>3, <2>4, <2>5, <2>6
<1>2. /\ got'[c] = got[c] \cup (IF c \in sub /\ Home(c) = b THEN {m} ELSE {})
      /\ again'[c] = again[c] \cup (IF c \in sub /\ Home(c) = b
                                    THEN {m} \cap got[c] ELSE {})
  BY DEF Route
<1> QED
  BY <1>1, <1>2

(* The two ways in which the packets on a link change.                     *)
LEMMA Sent ==
    ASSUME TypeOK, NEW b, NEW p \in Packet, Broadcast(b, p), NEW l \in Link
    PROVE  \/ ctl'[l] = ctl[l]
           \/ /\ l[2] = b /\ Len(ctl[l]) \in Nat
              /\ Len(ctl'[l]) = Len(ctl[l]) + 1
              /\ \A i \in 1..Len(ctl[l]) : ctl'[l][i] = ctl[l][i]
              /\ ctl'[l][Len(ctl[l]) + 1] = p
<1>1. ctl[l] \in Seq(Packet)
  BY DEF TypeOK
<1>2. ctl'[l] = IF l \in up /\ l[2] = b THEN Append(ctl[l], p) ELSE ctl[l]
  BY DEF Broadcast
<1> QED
  BY <1>1, <1>2

(* What HandleControl takes is the first of the packets.                   *)
LEMMA Received ==
    ASSUME TypeOK, Traced, NEW l \in Link, ctl[l] # <<>>, ctl' = [ctl EXCEPT ![l] = Tail(@)]
    PROVE  /\ \A k \in Link : k # l => ctl'[k] = ctl[k]
           /\ Len(ctl[l]) \in Nat \ {0} /\ Len(ctl'[l]) = Len(ctl[l]) - 1
           /\ \A i \in 1..Len(ctl'[l]) : ctl'[l][i] = ctl[l][i + 1]
           /\ Head(ctl[l]) = ctl[l][1] /\ ctl[l][1].client \in Client
<1>1. ctl[l] \in Seq(Packet)
  BY DEF TypeOK
<1>2. ctl[l][1] \in Packet /\ Len(ctl[l]) \in Nat \ {0}
  BY <1>1
<1>3. ctl'[l] = Tail(ctl[l]) /\ \A k \in Link : k # l => ctl'[k] = ctl[k]
  BY DEF Traced
<1>4. /\ Len(ctl'[l]) = Len(ctl[l]) - 1
      /\ \A i \in 1..Len(ctl'[l]) : ctl'[l][i] = ctl[l][i + 1]
      /\ Head(ctl[l]) = ctl[l][1]
  <2> DEFINE q == ctl[l]
  <2>1. q \in Seq(Packet) /\ q # <<>> /\ ctl'[l] = Tail(q)
    BY <1>1, <1>3
  <2> HIDE DEF q
  <2>2. /\ Len(Tail(q)) = Len(q) - 1
        /\ \A i \in 1..Len(Tail(q)) : Tail(q)[i] = q[i + 1]
        /\ Head(q) = q[1]
    BY <2>1
  <2> QED
    BY <2>1, <2>2 DEF q
<1> QED
  BY <1>2, <1>3, <1>4 DEF Packet

(* Each step keeps this too.  A step that sends a SUBSCRIBE is the first   *)
(* to, and so finds nothing of an earlier one.                             *)
LEMMA OnceStep == IInv /\ Once /\ [Next]_vars => Once'
<1> SUFFICES ASSUME IInv, Once, [Next]_vars PROVE Once'
  OBVIOUS
<1> USE DEF IInv, Once
<1>1. ASSUME NEW l \in Link, LinkUp(l) PROVE Once'
  BY <1>1 DEF LinkUp, Traced, OneAsked, OneCopy, NoneAgain, Sole, Asks, clientVars, pubVars
<1>2. ASSUME NEW l \in Link, LinkDown(l) PROVE Once'
  <2>1. /\ sub' = sub /\ count' = count /\ broadcast' = broadcast
        /\ published' = published /\ got' = got /\ again' = again
        /\ ctl' = [k \in Link |-> IF k = l THEN <<>> ELSE ctl[k]]
        /\ \A k \in Link : held'[k] = IF k = l THEN 0 ELSE held[k]
        /\ \A k \in Link, m \in Message : wire'[k][m] = IF k = l THEN 0 ELSE wire[k][m]
    <3>1. ctl' = [k \in Link |-> IF k = l THEN <<>> ELSE ctl[k]]
      BY <1>2 DEF LinkDown, Traced
    <3> QED
      BY <1>2, <3>1 DEF LinkDown, clientVars, TypeOK
  <2>2. Traced'
    BY <2>1 DEF Traced, Asks
  <2>3. OneAsked'
    BY <2>1 DEF OneAsked, Sole, Asks
  <2> QED
    BY <2>1, <2>2, <2>3 DEF OneCopy, NoneAgain, Sole
<1>3. ASSUME NEW l \in Link, HandleControl(l) PROVE Once'
  <2> DEFINE p == Head(ctl[l])
  <2>1. /\ ctl[l] # <<>> /\ ctl' = [ctl EXCEPT ![l] = Tail(@)]
        /\ sub' = sub /\ count' = count /\ broadcast' = broadcast /\ wire' = wire
        /\ published' = published /\ got' = got /\ again' = again
        /\ IF p.kind = "subscribe" THEN held' = [held EXCEPT ![l] = @ + 1]
                                   ELSE held' = held
    BY <1>3 DEF HandleControl, clientVars, pubVars
  <2>2. /\ \A k \in Link : k # l => ctl'[k] = ctl[k]
        /\ Len(ctl[l]) \in Nat \ {0} /\ Len(ctl'[l]) = Len(ctl[l]) - 1
        /\ \A i \in 1..Len(ctl'[l]) : ctl'[l][i] = ctl[l][i + 1]
        /\ p = ctl[l][1] /\ ctl[l][1].client \in Client
    BY <2>1, Received
  <2>3. /\ \A k \in Link : k # l => held'[k] = held[k]
        /\ held'[l] = IF Asks(l, 1) THEN held[l] + 1 ELSE held[l]
        /\ \A k \in Link : held[k] \in Nat
    BY <2>1, <2>2 DEF TypeOK, Asks
  <2> HIDE DEF p
  <2>4. Traced'
    <3>1. ASSUME NEW k \in Link, NEW i \in 1..Len(ctl'[k]), ctl'[k][i].kind = "subscribe"
          PROVE  count[ctl'[k][i].client] > 0
      <4>1. CASE k = l
        <5>1. i + 1 \in 1..Len(ctl[l]) /\ ctl'[k][i] = ctl[l][i + 1]
          BY <2>2, <4>1
        <5> QED
          BY <3>1, <5>1 DEF Traced, Asks
      <4>2. CASE k # l
        BY <2>2, <3>1, <4>2 DEF Traced, Asks
      <4> QED
        BY <4>1, <4>2
    <3>2. ASSUME NEW k \in Link, held'[k] > 0
          PROVE  \E d \in Client : Home(d) = k[2] /\ count[d] > 0
      <4>1. CASE k = l /\ Asks(l, 1)
        <5>1. 1 \in 1..Len(ctl[l])
          BY <2>2
        <5> QED
          BY <2>2, <4>1, <5>1 DEF Traced, FromHome
      <4>2. CASE ~(k = l /\ Asks(l, 1))
        BY <2>3, <3>2, <4>2 DEF Traced
      <4> QED
        BY <4>1, <4>2
    <3>3. ctl' = [k \in Link |-> ctl'[k]]
      BY <2>1 DEF Traced
    <3> QED
      BY <2>1, <3>1, <3>2, <3>3 DEF Traced, Asks
  <2>5. OneAsked'
    <3> SUFFICES ASSUME NEW c \in Client, Sole(c), NEW k \in Link
                 PROVE  /\ held'[k] <= 1
                        /\ broadcast[c] > 0 => held'[k] = 0
                        /\ \A i \in 1..Len(ctl'[k]) : ctl'[k][i].kind = "subscribe" =>
                              /\ held'[k] = 0 /\ broadcast[c] = 0
                              /\ \A j \in 1..Len(ctl'[k]) :
                                    ctl'[k][j].kind = "subscribe" => i = j
      BY <2>1 DEF OneAsked, Sole, Asks
    <3>1. CASE k # l
      BY <2>2, <2>3, <3>1 DEF OneAsked, Asks
    <3>2. CASE k = l
      <4>1. \A i \in 1..Len(ctl'[l]) : i + 1 \in 1..Len(ctl[l])
        BY <2>2
      <4>2. 1 \in 1..Len(ctl[l])
        BY <2>2
      <4>3. CASE Asks(l, 1)
        <5>1. held[l] = 0 /\ broadcast[c] = 0 /\ held'[l] = 1
          BY <2>3, <4>2, <4>3 DEF OneAsked
        <5>2. \A i \in 1..Len(ctl'[l]) : ctl'[l][i].kind # "subscribe"
          <6> SUFFICES ASSUME NEW i \in 1..Len(ctl'[l]), ctl'[l][i].kind = "subscribe"
                       PROVE  FALSE
            OBVIOUS
          <6>1. Asks(l, i + 1)
            BY <2>2 DEF Asks
          <6>2. 1 = i + 1
            BY <4>1, <4>2, <4>3, <6>1 DEF OneAsked
          <6> QED
            BY <6>2
        <5> QED
          BY <3>2, <5>1, <5>2
      <4>4. CASE ~Asks(l, 1)
        <5>1. \A i \in 1..Len(ctl'[l]) : ctl'[l][i].kind = "subscribe" <=> Asks(l, i + 1)
          BY <2>2 DEF Asks
        <5>2. ASSUME NEW i \in 1..Len(ctl'[l]), NEW j \in 1..Len(ctl'[l]),
                     Asks(l, i + 1), Asks(l, j + 1)
              PROVE  i = j
          <6>1. i + 1 = j + 1
            BY <4>1, <5>2 DEF OneAsked
          <6> QED
            BY <2>2, <6>1
        <5> QED
          BY <2>3, <3>2, <4>1, <4>4, <5>1, <5>2 DEF OneAsked
      <4> QED
        BY <4>3, <4>4
    <3> QED
      BY <3>1, <3>2
  <2>6. OneCopy' /\ NoneAgain'
    BY <2>1 DEF OneCopy, NoneAgain, Sole
  <2> QED
    BY <2>4, <2>5, <2>6
<1>4. ASSUME NEW c \in Client, Subscribe(c) PROVE Once'
  <2>1. /\ sub' = sub \cup {c}
        /\ count' = [count EXCEPT ![c] = @ + 1]
        /\ broadcast' = [broadcast EXCEPT ![c] = @ + 1]
        /\ held' = held /\ ctl' = ctl /\ wire' = wire
        /\ published' = published /\ got' = got /\ again' = again
    BY <1>4 DEF Subscribe, linkVars, pubVars
  <2>2. \A d \in Client : /\ count[d] \in Nat /\ count'[d] \in Nat
                          /\ count'[d] >= count[d]
                          /\ broadcast[d] <= count[d] /\ broadcast[d] \in Nat
                          /\ d # c => broadcast'[d] = broadcast[d]
    BY <2>1 DEF TypeOK, Counted
  <2>3. count'[c] = count[c] + 1 /\ count'[c] > 0
    BY <2>1, <2>2 DEF TypeOK
  <2>4. ASSUME NEW l \in Link, NEW i \in 1..Len(ctl[l])
        PROVE  ctl[l][i].client \in Client
    <3>1. ctl[l] \in Seq(Packet)
      BY DEF TypeOK
    <3>2. ctl[l][i] \in Packet
      BY <3>1
    <3> QED
      BY <3>2 DEF Packet
  <2>5. Traced'
    <3>1. \A d \in sub' : count'[d] > 0
      BY <2>1, <2>2, <2>3 DEF Traced, TypeOK
    <3>2. ASSUME NEW l \in Link, NEW i \in 1..Len(ctl[l]), Asks(l, i)
          PROVE  count'[ctl[l][i].client] > 0
      <4>1. count[ctl[l][i].client] > 0 /\ ctl[l][i].client \in Client
        BY <2>4, <3>2 DEF Traced
      <4> QED
        BY <2>2, <4>1
    <3>3. ASSUME NEW l \in Link, held[l] > 0
          PROVE  \E d \in Client : Home(d) = l[2] /\ count'[d] > 0
      <4>1. PICK d \in Client : Home(d) = l[2] /\ count[d] > 0
        BY <3>3 DEF Traced
      <4> QED
        BY <2>2, <4>1
    <3> QED
      BY <2>1, <3>1, <3>2, <3>3 DEF Traced, Asks
  <2>6. ASSUME NEW d \in Client, Sole(d)' PROVE d = c /\ Sole(c) /\ count[c] = 0
    <3>1. d = c
      BY <2>3, <2>6 DEF Sole
    <3>2. count[c] = 0
      BY <2>2, <2>3, <2>6, <3>1 DEF Sole
    <3> QED
      BY <2>1, <2>2, <2>6, <3>1, <3>2 DEF Sole
  <2>7. ASSUME count[c] = 0, Sole(c) PROVE \A l \in Link : /\ held[l] = 0
                                     /\ \A i \in 1..Len(ctl[l]) : ~Asks(l, i)
    <3>1. \A d \in Client : ~(count[d] > 0)
      BY <2>7, <2>2 DEF Sole
    <3>2. \A l \in Link : held[l] \in Nat /\ ~(held[l] > 0)
      BY <3>1 DEF Traced, TypeOK
    <3>3. \A l \in Link : held[l] = 0
      BY <3>2
    <3>4. \A l \in Link : \A i \in 1..Len(ctl[l]) : ~Asks(l, i)
      BY <2>4, <3>1 DEF Traced
    <3> QED
      BY <3>3, <3>4
  <2>8. OneAsked'
    BY <2>1, <2>6, <2>7 DEF OneAsked, Asks
  <2>9. OneCopy' /\ NoneAgain'
    BY <2>1, <2>6 DEF OneCopy, NoneAgain
  <2> QED
    BY <2>5, <2>8, <2>9
<1>5. ASSUME NEW c \in Client, BroadcastSubscribe(c) PROVE Once'
  <2> DEFINE p == [kind |-> "subscribe", client |-> c]
  <2>1. /\ broadcast[c] > 0 /\ broadcast' = [broadcast EXCEPT ![c] = @ - 1]
        /\ p \in Packet /\ Broadcast(Home(c), p)
        /\ p.kind = "subscribe" /\ p.client = c
        /\ held' = held /\ sub' = sub /\ count' = count /\ wire' = wire
        /\ published' = published /\ got' = got /\ again' = again
    BY <1>5 DEF BroadcastSubscribe, pubVars, Packet
  <2>2. count[c] > 0
    BY <2>1 DEF TypeOK, Counted
  <2> HIDE DEF p
  <2>3. Traced'
    <3>1. ASSUME NEW l \in Link, NEW i \in 1..Len(ctl'[l]), ctl'[l][i].kind = "subscribe"
          PROVE  count[ctl'[l][i].client] > 0
      <4>1. CASE ctl'[l] = ctl[l]
        BY <3>1, <4>1 DEF Traced, Asks
      <4>2. CASE ctl'[l] # ctl[l]
        <5>1. \/ i \in 1..Len(ctl[l]) /\ ctl'[l][i] = ctl[l][i]
              \/ ctl'[l][i] = p
          BY <2>1, <4>2, Sent
        <5> QED
          BY <2>1, <2>2, <3>1, <5>1 DEF Traced, Asks
      <4> QED
        BY <4>1, <4>2
    <3>2. ctl' = [l \in Link |-> ctl'[l]]
      BY <2>1 DEF Broadcast
    <3> QED
      BY <2>1, <3>1, <3>2 DEF Traced, Asks
  <2>4. OneAsked'
    <3> SUFFICES ASSUME NEW d \in Client, Sole(d), NEW l \in Link
                 PROVE  /\ held[l] <= 1
                        /\ broadcast'[d] > 0 => held[l] = 0
                        /\ \A i \in 1..Len(ctl'[l]) : ctl'[l][i].kind = "subscribe" =>
                              /\ held[l] = 0 /\ broadcast'[d] = 0
                              /\ \A j \in 1..Len(ctl'[l]) :
                                    ctl'[l][j].kind = "subscribe" => i = j
      BY <2>1 DEF OneAsked, Sole, Asks
    <3>1. d = c
      BY <2>2 DEF Sole
    <3>2. broadcast[c] = 1 /\ broadcast'[c] = 0
      BY <2>1, <3>1 DEF Sole, TypeOK, Counted
    <3>3. /\ held[l] = 0
          /\ \A i \in 1..Len(ctl[l]) : ~Asks(l, i)
      BY <3>1, <3>2 DEF OneAsked
    <3>4. ASSUME NEW i \in 1..Len(ctl'[l]), ctl'[l][i].kind = "subscribe"
          PROVE  ctl'[l] # ctl[l] /\ i = Len(ctl[l]) + 1
      <4>1. ctl'[l] # ctl[l]
        BY <3>3, <3>4 DEF Asks
      <4>2. i \in 1..(Len(ctl[l]) + 1) /\ Len(ctl[l]) \in Nat
        BY <2>1, <4>1, Sent
      <4>3. i \notin 1..Len(ctl[l])
        BY <2>1, <3>3, <3>4, <4>1, Sent DEF Asks
      <4> QED
        BY <4>1, <4>2, <4>3
    <3> QED
      BY <3>1, <3>2, <3>3, <3>4
  <2>5. OneCopy' /\ NoneAgain'
    BY <2>1 DEF OneCopy, NoneAgain, Sole
  <2> QED
    BY <2>3, <2>4, <2>5
<1>6. ASSUME NEW c \in Client, Unsubscribe(c) PROVE Once'
  <2> DEFINE p == [kind |-> "unsubscribe", client |-> c]
  <2>1. /\ sub' = sub \ {c}
        /\ p \in Packet /\ Broadcast(Home(c), p) /\ p.kind # "subscribe"
        /\ got' = [got EXCEPT ![c] = {}] /\ again' = [again EXCEPT ![c] = {}]
        /\ held' = held /\ count' = count /\ broadcast' = broadcast
        /\ wire' = wire /\ published' = published
    BY <1>6 DEF Unsubscribe, Forget, Packet
  <2> HIDE DEF p
  <2>2. ASSUME NEW l \in Link, NEW i \in 1..Len(ctl'[l]), ctl'[l][i].kind = "subscribe"
        PROVE  i \in 1..Len(ctl[l]) /\ ctl'[l][i] = ctl[l][i] /\ Asks(l, i)
    BY <2>1, <2>2, Sent DEF Asks
  <2>3. ctl' = [l \in Link |-> ctl'[l]]
    BY <2>1 DEF Broadcast
  <2>4. \A d \in Client : got'[d] \subseteq got[d] /\ (again[d] = {} => again'[d] = {})
    BY <2>1 DEF TypeOK
  <2>5. Traced'
    BY <2>1, <2>2, <2>3, <2>4 DEF Traced, Asks
  <2>6. OneAsked'
    <3> SUFFICES ASSUME NEW d \in Client, Sole(d), NEW l \in Link
                 PROVE  /\ held[l] <= 1
                        /\ broadcast[d] > 0 => held[l] = 0
                        /\ \A i \in 1..Len(ctl'[l]) : ctl'[l][i].kind = "subscribe" =>
                              /\ held[l] = 0 /\ broadcast[d] = 0
                              /\ \A j \in 1..Len(ctl'[l]) :
                                    ctl'[l][j].kind = "subscribe" => i = j
      BY <2>1 DEF OneAsked, Sole, Asks
    <3> QED
      BY <2>2 DEF OneAsked
  <2>7. OneCopy' /\ NoneAgain'
    BY <2>1, <2>4 DEF OneCopy, NoneAgain, Sole
  <2> QED
    BY <2>5, <2>6, <2>7
<1>7. ASSUME NEW m \in Message, Publish(m) PROVE Once'
  <2>1. /\ m \notin published /\ published' = published \cup {m}
        /\ held' = held /\ ctl' = ctl /\ sub' = sub
        /\ count' = count /\ broadcast' = broadcast
        /\ Route(Origin(m), m, wire) /\ Origin(m) \in Broker
        /\ wire \in [Link -> [Message -> 0..MaxCopies]]
    BY <1>7, HomeAssumption DEF Publish, linkVars, clientVars, TypeOK
  <2>2. (\A l \in Link : wire[l][m] = 0) /\ \A c \in Client : m \notin got[c]
    BY <2>1 DEF Traced
  <2>3. Traced'
    <3>1. \A l \in Link : \A n \in Message : n # m => wire'[l][n] = wire[l][n]
      BY <2>1 DEF Route
    <3>2. \A c \in Client : got'[c] \subseteq got[c] \cup {m}
      BY <2>1 DEF Route
    <3> QED
      BY <2>1, <3>1, <3>2 DEF Traced, Asks
  <2>4. OneAsked'
    BY <2>1 DEF OneAsked, Sole, Asks
  <2>5. ASSUME NEW c \in Client, Sole(c)
        PROVE  /\ \A l \in Link : \A n \in Message : wire'[l][n] > 0 =>
                     /\ wire'[l][n] = 1
                     /\ l = <<Origin(n), Home(c)>>
                     /\ n \notin got'[c]
               /\ again'[c] = {}
    <3>1. /\ \A l \in Link : \A n \in Message :
                 \/ wire'[l][n] = wire[l][n]
                 \/ /\ n = m /\ l = <<Origin(m), Home(c)>>
                    /\ wire'[l][n] \in {wire[l][n], wire[l][n] + 1}
          /\ got'[c] = got[c] \cup (IF c \in sub /\ Home(c) = Origin(m) THEN {m} ELSE {})
          /\ again'[c] = again[c] \cup (IF c \in sub /\ Home(c) = Origin(m)
                                        THEN {m} \cap got[c] ELSE {})
      BY <2>1, <2>5, SoleRoute
    <3>2. again'[c] = {}
      BY <2>2, <2>5, <3>1 DEF NoneAgain
    <3>3. ASSUME NEW l \in Link, NEW n \in Message, wire'[l][n] > 0
          PROVE  wire'[l][n] = 1 /\ l = <<Origin(n), Home(c)>> /\ n \notin got'[c]
      <4>1. CASE n = m
        <5>1. wire[l][n] = 0 /\ ~(0 > 0) /\ 0 + 1 = 1
          BY <2>2, <4>1
        <5>2. wire'[l][n] = 1 /\ l = <<Origin(m), Home(c)>>
          BY <3>1, <3>3, <5>1
        <5>3. Home(c) # Origin(m)
          BY <5>2, LinkPair
        <5> QED
          BY <2>2, <3>1, <4>1, <5>2, <5>3
      <4>2. CASE n # m
        <5>1. wire'[l][n] = wire[l][n]
          BY <3>1, <4>2
        <5> QED
          BY <2>5, <3>1, <3>3, <4>2, <5>1 DEF OneCopy
      <4> QED
        BY <4>1, <4>2
    <3> QED
      BY <3>2, <3>3
  <2>6. OneCopy' /\ NoneAgain'
    BY <2>1, <2>5 DEF OneCopy, NoneAgain, Sole
  <2> QED
    BY <2>3, <2>4, <2>6
<1>8. ASSUME NEW l \in Link, NEW m \in Message, HandlePublish(l, m) PROVE Once'
  <2> DEFINE rest == [wire EXCEPT ![l][m] = @ - 1]
  <2>1. /\ wire[l][m] > 0
        /\ published' = published
        /\ held' = held /\ ctl' = ctl /\ sub' = sub
        /\ count' = count /\ broadcast' = broadcast
        /\ \/ Qos(m) = 2 /\ wire' = rest /\ got' = got /\ again' = again
           \/ Qos(m) # 2 /\ Route(l[2], m, rest)
    BY <1>8 DEF HandlePublish, linkVars, clientVars
  <2>2. /\ rest \in [Link -> [Message -> 0..MaxCopies]]
        /\ \A k \in Link : \A n \in Message :
              <<k, n>> # <<l, m>> => rest[k][n] = wire[k][n]
        /\ rest[l][m] = wire[l][m] - 1 /\ wire[l][m] \in Nat
    <3>1. wire \in [Link -> [Message -> 0..MaxCopies]]
      BY DEF TypeOK
    <3>2. /\ wire[l] \in [Message -> 0..MaxCopies] /\ wire[l][m] - 1 \in 0..MaxCopies
          /\ wire[l][m] \in Nat
      BY <2>1, <3>1, HomeAssumption
    <3> QED
      BY <3>1, <3>2
  <2> HIDE DEF rest
  <2>3. m \in published /\ l[2] \in Broker
    <3>1. wire[l][m] # 0
      BY <2>1, <2>2
    <3> QED
      BY <3>1, LinkPair DEF Traced
  <2>4. Traced'
    <3>1. \A k \in Link : \A n \in Message : n # m => wire'[k][n] = wire[k][n]
      <4>1. CASE wire' = rest
        BY <2>2, <4>1
      <4>2. CASE Route(l[2], m, rest)
        <5>1. \A k \in Link : \A n \in Message : n # m => wire'[k][n] = rest[k][n]
          BY <2>2, <4>2 DEF Route
        <5> QED
          BY <2>2, <5>1
      <4> QED
        BY <2>1, <4>1, <4>2
    <3>2. \A c \in Client : got'[c] \subseteq got[c] \cup {m}
      BY <2>1 DEF Route
    <3> QED
      BY <2>1, <2>3, <3>1, <3>2 DEF Traced, Asks
  <2>5. OneAsked'
    BY <2>1 DEF OneAsked, Sole, Asks
  <2>6. ASSUME NEW c \in Client, Sole(c)
        PROVE  /\ \A k \in Link : \A n \in Message : wire'[k][n] > 0 =>
                     /\ wire'[k][n] = 1
                     /\ k = <<Origin(n), Home(c)>>
                     /\ n \notin got'[c]
               /\ again'[c] = {}
    <3>1. /\ wire[l][m] = 1 /\ l = <<Origin(m), Home(c)>> /\ m \notin got[c]
      BY <2>1, <2>6 DEF OneCopy
    <3>2. l[2] = Home(c) /\ rest[l][m] = 0 /\ Home(c) # Origin(m)
      BY <2>2, <3>1, LinkPair
    <3>3. /\ \A k \in Link : \A n \in Message : wire'[k][n] = rest[k][n]
          /\ got'[c] \subseteq got[c] \cup {m}
          /\ again'[c] = {}
      <4>1. CASE wire' = rest /\ got' = got /\ again' = again
        BY <2>6, <4>1 DEF NoneAgain
      <4>2. CASE Route(l[2], m, rest)
        <5>1. /\ \A k \in Link : \A n \in Message :
                    wire'[k][n] = rest[k][n] \/ k = <<l[2], Home(c)>>
              /\ got'[c] \subseteq got[c] \cup {m}
              /\ again'[c] \subseteq again[c] \cup ({m} \cap got[c])
          BY <2>2, <2>3, <2>6, <4>2, SoleRoute
        <5>2. <<l[2], Home(c)>> \notin Link
          BY <3>2, LinkPair
        <5> QED
          BY <2>6, <3>1, <5>1, <5>2 DEF NoneAgain
      <4> QED
        BY <2>1, <4>1, <4>2
    <3>4. ASSUME NEW k \in Link, NEW n \in Message, wire'[k][n] > 0
          PROVE  wire'[k][n] = 1 /\ k = <<Origin(n), Home(c)>> /\ n \notin got'[c]
      <4>1. <<k, n>> # <<l, m>>
        BY <3>2, <3>3, <3>4
      <4>2. wire'[k][n] = wire[k][n]
        BY <2>2, <3>3, <4>1
      <4>3. wire[k][n] = 1 /\ k = <<Origin(n), Home(c)>> /\ n \notin got[c]
        BY <2>6, <3>4, <4>2 DEF OneCopy
      <4>4. n # m
        BY <3>1, <4>1, <4>3
      <4> QED
        BY <3>3, <4>2, <4>3, <4>4
    <3> QED
      BY <3>3, <3>4
  <2>7. OneCopy' /\ NoneAgain'
    BY <2>1, <2>6 DEF OneCopy, NoneAgain, Sole
  <2> QED
    BY <2>4, <2>5, <2>7
<1>9. ASSUME UNCHANGED vars PROVE Once'
  BY <1>9 DEF vars, linkVars, clientVars, pubVars, Traced, OneAsked, OneCopy, NoneAgain,
     Sole, Asks
<1> QED
  BY <1>1, <1>2, <1>3, <1>4, <1>5, <1>6, <1>7, <1>8, <1>9 DEF Next

(* So this holds of every behaviour too.                                   *)
LEMMA OnceInvariance == Spec => []Once
<1>1. IInv /\ Once /\ [Next]_vars => Once'
  BY OnceStep
<1> QED
  BY Invariance, OnceInit, <1>1, PTL DEF Spec
-----------------------------------------------------------------------------
(* ClusterRouting is type correct: links carry packets, and no more        *)
(* broadcasts are to be run than SUBSCRIBEs were sent.                     *)
THEOREM TypeCorrect == Spec => []TypeOK
BY Invariance, PTL DEF IInv

(* processRouterSubscribe and ProcessPublishMessage: a client whose        *)
(* SUBSCRIBE reached the broker a message is published at is sent it,      *)
(* whatever other clients and brokers do.                                  *)
THEOREM DeliveredRemotely == Spec => []RemoteDelivered
BY Invariance, PTL DEF IInv

(* ProcessPublishMessage over links that break and come back: as long as a *)
(* single SUBSCRIBE was sent in the cluster, its client gets no message    *)
(* twice; copies stem from further SUBSCRIBEs alone.                       *)
THEOREM OnceWithoutResubscribing == Spec => []OnceIfSingle
<1>1. TypeOK /\ Once => OnceIfSingle
  <2> SUFFICES ASSUME TypeOK, Once
               PROVE  \A c \in Client : again[c] # {} =>
                         count[c] > 1 \/ \E d \in Client \ {c} : count[d] > 0
    BY DEF OnceIfSingle
  <2>1. \A c \in Client : again[c] # {} => ~Sole(c)
    BY DEF Once, NoneAgain
  <2>2. \A c \in Client : count[c] \in Nat
    BY DEF TypeOK
  <2> QED
    BY <2>1, <2>2 DEF Sole
<1> QED
  BY Invariance, OnceInvariance, <1>1, PTL DEF IInv
=============================================================================
