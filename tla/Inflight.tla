------------------------------ MODULE Inflight -------------------------------
(***************************************************************************)
(* Delivery of QoS 1 and 2 messages to one subscriber, and their retries   *)
(* (publish, ensureRetryTimer, resetRetryTimer and retryDelivery in        *)
(* broker/comm.go; the PUBACK, PUBREC and PUBCOMP cases of ProcessMessage  *)
(* in broker/client.go).                                                   *)
(*                                                                         *)
(* Publishers run in the worker goroutines of other clients, one call of   *)
(* publish per message; a time.AfterFunc timer runs retryDelivery in a     *)
(* goroutine of its own; the subscriber's acknowledgements run in its      *)
(* worker.  inflightMu makes an access of the map atomic; the timer field, *)
(* and the elements once copied out of the map, are used without a lock.   *)
(*                                                                         *)
(* Time is relative: age[m] is the time since the element's timestamp, and *)
(* pending[d] the number of timers with d seconds to go.                   *)
(***************************************************************************)
EXTENDS Integers

CONSTANTS
    Message,    \* the messages published to the subscriber
    MsgId(_),   \* the packet identifier each carries, from its publisher
    Retry,      \* the goroutines that can be in retryDelivery at once: a
                \*   timer that is due waits while all of them are
    MaxSame,    \* of timers due in the same second, at most so many count
    RetryInterval,
    MaxLag,     \* the longest a retry uses the time it read, in seconds
    None

ASSUME IntervalAssumption ==
    /\ RetryInterval \in Nat \ {0}
    /\ MaxLag \in 0..RetryInterval
    /\ MaxSame \in Nat \ {0}

ASSUME NoneAssumption == None \notin Message

VARIABLES
    inflight,   \* packet identifier -> element, or None
    status,     \* per element, Publish or Pubrel
    age,        \* per element, up to AgeCap
    pub,        \* per message, where its call of publish is
    retryTimer, \* TRUE if the client's timer field is not nil
    pending,    \* how many timers will fire, by the time they have left
    run,        \* per goroutine, where its call of retryDelivery is
    wait,       \* per goroutine, the interval of the timer it will set
    todo,       \* per goroutine, the elements it copied and has not handled
    item,       \* per goroutine, the element it is about to send again
    lag,        \* per goroutine, the time since it read the clock
    rel,        \* the element the subscriber's PUBREC found, or None
    link,       \* how far the client's Close has come
    acked       \* the messages the subscriber has acknowledged

connVars == <<link, acked, rel>>
elemVars == <<inflight, status, age>>
runVars == <<run, todo, item, lag, wait>>
timerVars == <<retryTimer, pending>>
vars == <<inflight, status, age, pub, retryTimer, pending, run, todo, item,
          lag, wait, rel, link, acked>>

AgeCap == 2 * RetryInterval
Ids == {MsgId(m) : m \in Message}
Queued(m) == inflight[MsgId(m)] = m

TypeOK ==
    /\ inflight \in [Ids -> Message \cup {None}]
    /\ status \in [Message -> {"Publish", "Pubrel"}]
    /\ age \in [Message -> 0..AgeCap]
    /\ pub \in [Message -> {"idle", "write", "check", "set", "done"}]
    /\ retryTimer \in BOOLEAN
    /\ pending \in [0..RetryInterval -> 0..MaxSame]
    /\ run \in [Retry -> {"free", "fired", "copy", "scan", "resend", "set",
                          "lastset"}]
    /\ wait \in [Retry -> 0..RetryInterval]
    /\ todo \in [Retry -> SUBSET Message]
    /\ item \in [Retry -> Message \cup {None}]
    /\ lag \in [Retry -> 0..MaxLag]
    /\ rel \in Message \cup {None}
    /\ link \in {"up", "closing", "down"}
    /\ acked \in SUBSET Message

Init ==
    /\ inflight = [i \in Ids |-> None]
    /\ status = [m \in Message |-> "Publish"]
    /\ age = [m \in Message |-> 0]
    /\ pub = [m \in Message |-> "idle"]
    /\ retryTimer = FALSE
    /\ pending = [d \in 0..RetryInterval |-> 0]
    /\ run = [t \in Retry |-> "free"]
    /\ wait = [t \in Retry |-> 0]
    /\ todo = [t \in Retry |-> {}]
    /\ item = [t \in Retry |-> None]
    /\ lag = [t \in Retry |-> 0]
    /\ rel = None
    /\ link = "up"
    /\ acked = {}
-----------------------------------------------------------------------------
(* time.AfterFunc: one more timer, kept in the field.                      *)
Cap(n) == IF n > MaxSame THEN MaxSame ELSE n

SetTimer(d) == /\ pending' = [pending EXCEPT ![d] = Cap(@ + 1)]
               /\ retryTimer' = TRUE

(***************************************************************************)
(* publish: store the element, write the packet, ensure there is a timer.  *)
(* A second message with the same identifier takes the place of the first. *)
(***************************************************************************)
PublishStore(m) ==
    /\ pub[m] = "idle"
    /\ pub' = [pub EXCEPT ![m] = "write"]
    /\ inflight' = [inflight EXCEPT ![MsgId(m)] = m]
    /\ UNCHANGED <<status, age, timerVars, runVars, connVars>>

(* WriterPacket writes nothing once the client is Disconnected.            *)
PublishWrite(m) ==
    /\ pub[m] = "write"
    /\ pub' = [pub EXCEPT ![m] = "check"]
    /\ UNCHANGED <<elemVars, timerVars, runVars, connVars>>

(* ensureRetryTimer looks at the field without the lock, then sets it.     *)
PublishCheck(m) ==
    /\ pub[m] = "check"
    /\ pub' = [pub EXCEPT ![m] = IF retryTimer THEN "done" ELSE "set"]
    /\ UNCHANGED <<elemVars, timerVars, runVars, connVars>>

PublishSet(m) ==
    /\ pub[m] = "set"
    /\ pub' = [pub EXCEPT ![m] = "done"]
    /\ SetTimer(RetryInterval)
    /\ UNCHANGED <<elemVars, runVars, connVars>>
-----------------------------------------------------------------------------
(***************************************************************************)
(* retryDelivery, in goroutine t.                                          *)
(***************************************************************************)
Fire(t) ==
    /\ run[t] = "free" /\ pending[0] > 0
    /\ run' = [run EXCEPT ![t] = "fired"]
    /\ pending' = [pending EXCEPT ![0] = @ - 1]
    /\ UNCHANGED <<elemVars, pub, retryTimer, todo, item, lag, wait, connVars>>

(* Faulty: the field keeps the timer that has fired.                       *)
ResetForgotten(t) ==
    /\ run[t] = "fired"
    /\ run' = [run EXCEPT ![t] = "copy"]
    /\ UNCHANGED <<elemVars, pub, timerVars, todo, item, lag, wait, connVars>>

(* resetRetryTimer: whether it finds the field nil or sets it to nil, the  *)
(* field is nil at that moment.                                            *)
ResetTimer(t) ==
    /\ run[t] = "fired"
    /\ run' = [run EXCEPT ![t] = "copy"]
    /\ retryTimer' = FALSE
    /\ UNCHANGED <<elemVars, pub, pending, todo, item, lag, wait, connVars>>

Elements == {inflight[i] : i \in Ids} \ {None}

(* Faulty: goes on whether or not there is anything to send.               *)
CopyOutAnyway(t) ==
    /\ run[t] = "copy"
    /\ run' = [run EXCEPT ![t] = "scan"]
    /\ todo' = [todo EXCEPT ![t] = Elements]
    /\ UNCHANGED <<elemVars, pub, timerVars, item, lag, wait, connVars>>

(* Return if the connection is gone or nothing is in flight; otherwise     *)
(* copy the elements under the lock and read the clock.                    *)
CopyOut(t) ==
    /\ run[t] = "copy"
    /\ IF link = "down" \/ Elements = {}
       THEN /\ run' = [run EXCEPT ![t] = "free"]
            /\ UNCHANGED todo
       ELSE /\ run' = [run EXCEPT ![t] = "scan"]
            /\ todo' = [todo EXCEPT ![t] = Elements]
    /\ UNCHANGED <<elemVars, pub, timerVars, item, lag, wait, connVars>>

(* Faulty: a negative age stays negative.                                  *)
AgeSeenSigned(t, m) == age[m] - lag[t]

(* The age by the time the goroutine read, which may be before the         *)
(* element's timestamp: the code takes a negative age for 0.               *)
AgeSeen(t, m) == IF age[m] >= lag[t] THEN age[m] - lag[t] ELSE 0

Due(t, m) == AgeSeen(t, m) >= RetryInterval

(* An element that is due is sent again: PUBLISH or PUBREL by its status.  *)
ScanDue(t) ==
    /\ run[t] = "scan"
    /\ \E m \in todo[t] : /\ Due(t, m)
                          /\ item' = [item EXCEPT ![t] = m]
                          /\ todo' = [todo EXCEPT ![t] = @ \ {m}]
    /\ run' = [run EXCEPT ![t] = "resend"]
    /\ UNCHANGED <<elemVars, pub, timerVars, lag, wait, connVars>>

(* Faulty: what was sent twice is dropped.                                 *)
ResendAndForget(t) ==
    /\ run[t] = "resend"
    /\ age' = [age EXCEPT ![item[t]] = lag[t]]
    /\ inflight' = [inflight EXCEPT ![MsgId(item[t])] = None]
    /\ item' = [item EXCEPT ![t] = None]
    /\ run' = [run EXCEPT ![t] = "scan"]
    /\ UNCHANGED <<status, pub, timerVars, todo, lag, wait, connVars>>

(* The write, and timestamp = now with the time read earlier.              *)
Resend(t) ==
    /\ run[t] = "resend"
    /\ age' = [age EXCEPT ![item[t]] = lag[t]]
    /\ item' = [item EXCEPT ![t] = None]
    /\ run' = [run EXCEPT ![t] = "scan"]
    /\ UNCHANGED <<inflight, status, pub, timerVars, todo, lag, wait, connVars>>

(* An element that is not due ensures a timer for when it will be.         *)
ScanEarly(t) ==
    /\ run[t] = "scan"
    /\ \E m \in todo[t] :
          /\ ~Due(t, m)
          /\ todo' = [todo EXCEPT ![t] = @ \ {m}]
          /\ IF retryTimer
             THEN UNCHANGED <<run, wait>>
             ELSE /\ run' = [run EXCEPT ![t] = "set"]
                  /\ wait' = [wait EXCEPT ![t] = RetryInterval - AgeSeen(t, m)]
    /\ UNCHANGED <<elemVars, pub, timerVars, item, lag, connVars>>

ScanSet(t) ==
    /\ run[t] = "set"
    /\ run' = [run EXCEPT ![t] = "scan"]
    /\ SetTimer(wait[t])
    /\ wait' = [wait EXCEPT ![t] = 0]
    /\ UNCHANGED <<elemVars, pub, todo, item, lag, connVars>>

(* Faulty: ends without having looked at the timer field.                  *)
LastCheckOmitted(t) ==
    /\ run[t] = "scan" /\ todo[t] = {}
    /\ run' = [run EXCEPT ![t] = "free"]
    /\ lag' = [lag EXCEPT ![t] = 0]
    /\ UNCHANGED <<elemVars, pub, timerVars, todo, item, wait, connVars>>

(* After the loop: one more ensureRetryTimer, then the goroutine is over.  *)
LastCheck(t) ==
    /\ run[t] = "scan" /\ todo[t] = {}
    /\ run' = [run EXCEPT ![t] = IF retryTimer THEN "free" ELSE "lastset"]
    /\ lag' = [lag EXCEPT ![t] = 0]
    /\ UNCHANGED <<elemVars, pub, timerVars, todo, item, wait, connVars>>

LastSet(t) ==
    /\ run[t] = "lastset"
    /\ run' = [run EXCEPT ![t] = "free"]
    /\ SetTimer(RetryInterval)
    /\ UNCHANGED <<elemVars, pub, todo, item, lag, wait, connVars>>
-----------------------------------------------------------------------------
(***************************************************************************)
(* The subscriber's side: acknowledgements of messages it was sent, which  *)
(* the broker finds by packet identifier alone, and the client's Close.    *)
(***************************************************************************)
WasSent(m) == pub[m] \in {"check", "set", "done"}

(* PUBACK and PUBCOMP.                                                     *)
Ack(m) ==
    /\ WasSent(m) /\ m \notin acked /\ rel = None
    /\ inflight' = [inflight EXCEPT ![MsgId(m)] = None]
    /\ acked' = acked \cup {m}
    /\ UNCHANGED <<status, age, pub, timerVars, runVars, rel, link>>

(* PUBREC looks the element up under the lock and changes it without.      *)
PubrecFind(m) ==
    /\ WasSent(m) /\ rel = None
    /\ inflight[MsgId(m)] # None
    /\ rel' = inflight[MsgId(m)]
    /\ UNCHANGED <<elemVars, pub, timerVars, runVars, link, acked>>

PubrecMark ==
    /\ rel # None
    /\ IF status[rel] = "Publish"
       THEN /\ status' = [status EXCEPT ![rel] = "Pubrel"]
            /\ age' = [age EXCEPT ![rel] = 0]
       ELSE UNCHANGED <<status, age>>
    /\ rel' = None
    /\ UNCHANGED <<inflight, pub, timerVars, runVars, link, acked>>

(* Close sets the status to Disconnected, later the connection to nil.     *)
Close ==
    /\ link # "down"
    /\ link' = IF link = "up" THEN "closing" ELSE "down"
    /\ UNCHANGED <<elemVars, pub, timerVars, runVars, acked, rel>>
-----------------------------------------------------------------------------
(***************************************************************************)
(* One second passes.                                                      *)
(***************************************************************************)
HoldsClock(t) == run[t] \in {"scan", "resend", "set"}

(* The element is in the map, or in a goroutine's copy of it.              *)
Referenced(m) == Queued(m) \/ \E t \in Retry : m \in todo[t] \/ item[t] = m

Tick ==
    /\ \A t \in Retry : HoldsClock(t) => lag[t] < MaxLag
    /\ age' = [m \in Message |-> IF age[m] < AgeCap /\ Referenced(m)
                                THEN age[m] + 1 ELSE age[m]]
    /\ pending' = [d \in 0..RetryInterval |->
                     IF d = 0 THEN Cap(pending[0] + pending[1])
                     ELSE IF d < RetryInterval THEN pending[d + 1] ELSE 0]
    /\ lag' = [t \in Retry |-> IF HoldsClock(t) THEN lag[t] + 1 ELSE lag[t]]
    /\ UNCHANGED <<inflight, status, pub, retryTimer, run, todo, item, wait, connVars>>

PublishStep(m) == PublishWrite(m) \/ PublishCheck(m) \/ PublishSet(m)

RetryStep(t) == \/ Fire(t) \/ ResetTimer(t) \/ CopyOut(t) \/ ScanDue(t)
                \/ Resend(t) \/ ScanEarly(t) \/ ScanSet(t)
                \/ LastCheck(t) \/ LastSet(t)

Next == \/ \E m \in Message : \/ PublishStore(m) \/ PublishStep(m)
                              \/ Ack(m) \/ PubrecFind(m)
        \/ \E t \in Retry : RetryStep(t)
        \/ PubrecMark \/ Close \/ Tick

Spec == Init /\ [][Next]_vars

(* The Go scheduler runs every goroutine that is ready, and time passes.   *)
(* Nothing makes the subscriber acknowledge or disconnect.                 *)
Fairness == /\ \A m \in Message : WF_vars(PublishStep(m))
            /\ \A t \in Retry : WF_vars(RetryStep(t))
            /\ WF_vars(PubrecMark) /\ SF_vars(Tick)

FairSpec == Spec /\ Fairness
-----------------------------------------------------------------------------
Pending == \E d \in 0..RetryInterval : pending[d] > 0

(* Once publish has returned, an element left in flight on a live          *)
(* connection has a retry to come: a timer is pending or a goroutine has   *)
(* not returned.  The field is read and set outside the lock, and a firing *)
(* timer resets it, so a publish can find the field of a timer that has    *)
(* just fired and set none of its own.                                     *)
NoLostRetry ==
    (link # "down" /\ \E m \in Message : Queued(m) /\ pub[m] = "done")
       => Pending \/ \E t \in Retry : run[t] # "free"

(* The timer field is not nil only while a timer that will reset it exists *)
(* and its goroutine has yet to copy the elements.                         *)
FieldMeansArmed ==
    retryTimer => Pending \/ \E t \in Retry : run[t] = "fired"

(* Until the subscriber acknowledges a message, the broker has it in       *)
(* flight: QoS 1 is delivery at least once.                                *)
KeptUntilAcked ==
    \A m \in Message : pub[m] # "idle" /\ m \notin acked => Queued(m)

Overdue(m) == Queued(m) /\ pub[m] = "done" /\ link = "up"
                /\ age[m] >= RetryInterval

(* However slowly goroutines run, an element in flight that has become due *)
(* is sent again, unless it is acknowledged or the client closed.          *)
Redelivered == \A m \in Message : Overdue(m) ~> ~Overdue(m)

(* Once the connection is gone the retry goroutines come to an end.        *)
RetriesEnd ==
    (link = "down") ~> [](~Pending /\ \A t \in Retry : run[t] = "free")
=============================================================================
