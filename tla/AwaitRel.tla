------------------------------ MODULE AwaitRel -------------------------------
(***************************************************************************)
(* QoS 2 messages a client publishes: the QosExactlyOnce case of           *)
(* processClientPublish, the PUBREL case of ProcessMessage, and the packet *)
(* identifiers that await PUBREL with their expiry (broker/client.go).     *)
(*                                                                         *)
(* The packets of one client are handled one after the other by its worker.*)
(* Each registration starts a timer of its own, and each timer's goroutine *)
(* sweeps the whole map, whenever the scheduler lets it.  Timers count     *)
(* fractions of a second; the map keeps Unix time, in whole seconds.       *)
(***************************************************************************)
EXTENDS Integers, FiniteSets

CONSTANTS
    PacketId,        \* packet identifiers the client uses
    awaitRelTimeout, \* in seconds
    maxAwaitingRel,  \* 0 for no limit
    Second,          \* how many parts a second has
    MaxTime          \* bound of the model's clock, in such parts

ASSUME TimeAssumption ==
    /\ awaitRelTimeout \in Nat \ {0} /\ Second \in Nat \ {0}
    /\ maxAwaitingRel \in Nat /\ MaxTime \in Nat

VARIABLES
    now,         \* the time
    awaitingRel, \* packet identifier -> Unix time it was registered at
    timers,      \* when the timers that have not fired are due
    unreleased   \* packet identifier -> when its message was last delivered,
                 \*   unless the client has sent PUBREL since

relVars == <<now, awaitingRel, timers, unreleased>>

Unix(t) == t \div Second
Duration == awaitRelTimeout * Second

RelTypeOK ==
    /\ now \in 0..MaxTime
    /\ DOMAIN awaitingRel \subseteq PacketId
    /\ \A i \in DOMAIN awaitingRel : awaitingRel[i] \in 0..Unix(MaxTime)
    /\ timers \subseteq 0..(MaxTime + Duration)
    /\ DOMAIN unreleased \subseteq PacketId
    /\ \A i \in DOMAIN unreleased : unreleased[i] \in 0..MaxTime

RelInit ==
    /\ now = 0
    /\ awaitingRel = [i \in {} |-> 0]
    /\ timers = {}
    /\ unreleased = [i \in {} |-> 0]

Without(f, ids) == [i \in DOMAIN f \ ids |-> f[i]]
With(f, j, v) == [i \in DOMAIN f \cup {j} |-> IF i = j THEN v ELSE f[i]]
-----------------------------------------------------------------------------
isAwaitingFull == /\ maxAwaitingRel # 0
                  /\ Cardinality(DOMAIN awaitingRel) >= maxAwaitingRel

(* registerPublishPacketId.  An identifier that is in use is an error, on  *)
(* which the PUBLISH is dropped without an answer.                         *)
Register(id) ==
    /\ ~isAwaitingFull
    /\ id \notin DOMAIN awaitingRel
    /\ awaitingRel' = With(awaitingRel, id, Unix(now))
    /\ timers' = timers \cup {now + Duration}

(* PUBREC is written, then the message goes to the subscribers.            *)
Publish(id) ==
    /\ Register(id)
    /\ unreleased' = With(unreleased, id, now)
    /\ UNCHANGED now

(* PUBREC cannot be written: the identifier stays, the message is dropped. *)
PublishUnanswered(id) ==
    /\ Register(id)
    /\ UNCHANGED <<now, unreleased>>

(* PUBREL: pubRel, then PUBCOMP whether or not the identifier was found.   *)
pubRel(id) ==
    /\ awaitingRel' = Without(awaitingRel, {id})
    /\ unreleased' = Without(unreleased, {id})
    /\ UNCHANGED <<now, timers>>

(* Faulty: leaves an identifier that is exactly as old as the timeout;     *)
(* sweeps the map whatever the identifiers' age.                           *)
ExpiredLate(id) == Unix(now) - awaitingRel[id] > awaitRelTimeout
ExpiredAny(id) == TRUE

Expired(id) == Unix(now) - awaitingRel[id] >= awaitRelTimeout

expireAwaitingRel(t) ==
    /\ t \in timers /\ t <= now
    /\ timers' = timers \ {t}
    /\ awaitingRel' = Without(awaitingRel,
                              {id \in DOMAIN awaitingRel : Expired(id)})
    /\ UNCHANGED <<now, unreleased>>

RelTick ==
    /\ now < MaxTime
    /\ now' = now + 1
    /\ UNCHANGED <<awaitingRel, timers, unreleased>>

RelNext ==
    \/ \E id \in PacketId : Publish(id) \/ PublishUnanswered(id) \/ pubRel(id)
    \/ \E t \in timers : expireAwaitingRel(t)
    \/ RelTick

RelSpec == RelInit /\ [][RelNext]_relVars
-----------------------------------------------------------------------------
(* Every identifier that awaits PUBREL has a timer to come that will find  *)
(* it old enough, although the timer's clock and the map's differ: none    *)
(* stays, and blocks its identifier, for good.                             *)
EntryHasTimer ==
    \A id \in DOMAIN awaitingRel :
       \E t \in timers : Unix(t) - awaitingRel[id] >= awaitRelTimeout

(* A message whose PUBREL has not come is not delivered again, however     *)
(* often the client repeats its PUBLISH, until the timeout less a second   *)
(* has passed: timers of other messages, and of earlier uses of the        *)
(* identifier, do not expire it, but Unix time can make up to a second of  *)
(* difference.                                                             *)
NoEarlyRedelivery ==
    [][\A id \in DOMAIN unreleased :
          id \in DOMAIN unreleased' /\ unreleased'[id] # unreleased[id]
          => now - unreleased[id] + Second > Duration]_relVars
=============================================================================
