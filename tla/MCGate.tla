-------------------------------- MODULE MCGate --------------------------------
(***************************************************************************)
(* Two connections of one user, so that they share an entry of the cache;  *)
(* one goes on to publish, subscribe and leave.  Its events go to one      *)
(* Kafka topic, what a filter matches to a second one as well, and nothing *)
(* to the third.                                                           *)
(***************************************************************************)
EXTENDS Gate

CONSTANTS c1, c2, u, password, events, delivered, other

MCName(c) == u
MCPassword(c) == password
MCMaxPackets(c) == IF c = c1 THEN 3 ELSE 1
MCKey == {<<"a">>, password}

At(kind, t) == [kind |-> kind, topic |-> t]

MCPacket ==
    {At("connect", <<>>), At("disconnect", <<>>), At("publish", <<"a">>),
     At("subscribe", <<"$share", "g", "a">>), At("subscribe", <<"$share", "g">>)}

MCOnEvent(kind) == IF kind \in {"publish", "disconnect"} THEN events ELSE None

MCDeliverMap == {<< <<"+", "#">>, delivered>>, << <<"a", "+">>, other>>}
=============================================================================
